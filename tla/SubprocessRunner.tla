--------------------------- MODULE SubprocessRunner ---------------------------
(***************************************************************************)
(* One call of SubprocessAcquisitionExecutor.execute                       *)
(* (executors/subprocess_runner.py): the caller, the supervisor it starts, *)
(* the target the supervisor starts, and whatever the target forks.        *)
(*                                                                         *)
(* The supervisor is a subreaper, puts itself into a cgroup of its own     *)
(* before it starts the target, and reports over a control pipe; whoever   *)
(* it forks is in that cgroup too.  The caller supervises it with          *)
(* deadlines, and believes nothing is left only when the cgroup is empty.  *)
(* A deadline may strike at any moment.  SIGKILL takes effect some time    *)
(* after it is sent; a process that got SIGTERM may exit or go on.         *)
(*                                                                         *)
(* Process identities never repeat.  Listings of /proc are taken at one    *)
(* moment, and /proc and the cgroup's files can be read, except where an   *)
(* action says otherwise.  Standard output stands for standard error as    *)
(* well; standard input, whose writer ends with the readers, is left out.  *)
(***************************************************************************)
EXTENDS Naturals, FiniteSets

CONSTANTS
    Sup,        \* the supervisor (helper) process
    Target,     \* the trusted command
    Kids,       \* processes the target may fork, directly or not
    Caller,     \* the process that runs execute
    Outside,    \* who adopts and reaps orphans of a dead supervisor
    Limit,      \* stdout_bytes, in writes
    Meddling    \* whether something else may signal the supervisor

Procs == {Sup, Target} \union Kids

ASSUME ProcsAssumption ==
    /\ Sup # Target /\ Sup \notin Kids /\ Target \notin Kids
    /\ Caller \notin Procs /\ Outside \notin Procs /\ Caller # Outside
    /\ IsFiniteSet(Kids)
ASSUME LimitAssumption == Limit \in Nat /\ Meddling \in BOOLEAN

VARIABLES
    call,       \* the local variables of execute and of _cancel_supervisor
    tree,       \* those of _kill_exact_helper_tree
    sup,        \* those of the supervisor
    proc,       \* process -> its state; "dead" is a zombie, "gone" is reaped
    parent,     \* process -> its parent
    cgroup,     \* the living processes in the owned cgroup
    removed,    \* the cgroup's directory is gone
    doomed,     \* living processes that were sent SIGKILL
    holds,      \* living processes that hold the output pipe
    out,        \* what has been written to the output pipe
    taken,      \* what its reader has read
    code,       \* how the target ended
    report,     \* what the supervisor wrote to the control pipe
    stray       \* history: the supervisor was cancelled by nobody's order

kernel == <<proc, parent, cgroup, removed, doomed, holds>>
pipes == <<out, taken, code, report>>
vars == <<call, tree, sup, kernel, pipes, stray>>

At(pc) == call.pc = pc

Running(p) == proc[p] = "run"
Alive(p) == proc[p] \in {"run", "stop"}
Existing == {p \in Procs : proc[p] \in {"run", "stop", "dead"}}

\* pc: the step; back: where _cancel_supervisor returns to; ident: the
\* supervisor's identity is bound; known: Popen has returned; proved and
\* refused: enrollment_proved and enrollment_failed; cut: interrupted;
\* tried and ok: cancel_attempted and cancel_ok; wired: control's reader runs;
\* emptied: cgroup_ok; late: history, the interrupt found the target started.
NewCall ==
    [pc |-> "call", back |-> "try", known |-> FALSE, ident |-> FALSE,
     proved |-> FALSE, refused |-> FALSE, setup |-> FALSE, cut |-> FALSE,
     failure |-> "none", tried |-> FALSE, ok |-> TRUE, wired |-> FALSE,
     emptied |-> FALSE, outcome |-> "none", late |-> FALSE]

NoTree == [bound |-> {}, seen |-> {}, prev |-> Procs, stable |-> 0, ok |-> TRUE]

NewSup == [step |-> "boot", cancelled |-> FALSE, tracked |-> {},
           phase |-> "term", cleaned |-> FALSE, rc |-> "none"]

Init ==
    /\ call = NewCall
    /\ tree = NoTree
    /\ sup = NewSup
    /\ proc = [p \in Procs |-> "none"]
    /\ parent = [p \in Procs |-> Caller]
    /\ cgroup = {} /\ removed = FALSE /\ doomed = {} /\ holds = {}
    /\ out = 0 /\ taken = 0 /\ code = "none"
    /\ report = [sent |-> FALSE, startup |-> FALSE, cleanup |-> FALSE,
                 rc |-> "none"]
    /\ stray = FALSE

-------------------------------------------------------------------------------
(* Processes.                                                              *)

\* Orphans go to the nearest living subreaper.
Adopter(p) == IF p # Sup /\ Alive(Sup) THEN Sup ELSE Outside

\* p ends: its parent has a zombie to reap, and p's children a new parent,
\* which reaps the zombies among them at once unless it is the supervisor.
Ends(p) ==
    /\ parent' = [q \in Procs |->
            IF parent[q] = p THEN Adopter(p) ELSE parent[q]]
    /\ proc' = [q \in Procs |->
            IF q = p THEN IF parent[p] = Outside THEN "gone" ELSE "dead"
            ELSE IF proc[q] = "dead" /\ parent[q] = p /\ Adopter(p) = Outside
            THEN "gone" ELSE proc[q]]
    /\ cgroup' = cgroup \ {p}
    /\ doomed' = doomed \ {p}
    /\ holds' = holds \ {p}
    /\ sup' = IF p = Sup THEN NewSup ELSE sup
    /\ UNCHANGED removed

\* A killed process dies.
Die(p) ==
    /\ p \in doomed
    /\ Ends(p)
    /\ code' = IF p = Target THEN "fail" ELSE code
    /\ UNCHANGED <<call, tree, out, taken, report, stray>>

\* The target or a descendant exits, by itself or on SIGTERM.
Exit(p) ==
    /\ p # Sup /\ Running(p)
    /\ Ends(p)
    /\ code' \in IF p = Target THEN {"zero", "fail"} ELSE {code}
    /\ UNCHANGED <<call, tree, out, taken, report, stray>>

\* Something else, such as a lack of memory, kills the supervisor.
Killed ==
    /\ Meddling /\ Alive(Sup)
    /\ doomed' = doomed \union {Sup}
    /\ UNCHANGED <<call, tree, sup, proc, parent, cgroup, removed, holds, pipes,
                   stray>>

Forked(p, k, given) ==
    /\ proc' = [proc EXCEPT ![k] = "run"]
    /\ parent' = [parent EXCEPT ![k] = p]
    /\ cgroup' = IF p \in cgroup THEN cgroup \union {k} ELSE cgroup
    /\ holds' = IF given THEN holds \union {k} ELSE holds
    /\ UNCHANGED <<removed, doomed>>

\* The target or a descendant forks, handing the pipe on or not.
Fork(p, k) ==
    /\ p # Sup /\ Running(p) /\ p \notin doomed
    /\ proc[k] = "none"
    /\ \E given \in BOOLEAN : (given => p \in holds) /\ Forked(p, k, given)
    /\ UNCHANGED <<call, tree, sup, pipes, stray>>

\* A write to the output.  Of what is written, and read, once the supervision
\* loop has ended nothing is looked at any more.
Output(p) ==
    /\ p # Sup /\ Running(p) /\ p \in holds
    /\ call.pc \in {"enroll", "wire", "watch"}
    /\ out <= Limit
    /\ out' = out + 1
    /\ UNCHANGED <<call, tree, sup, kernel, taken, code, report, stray>>

\* _BoundedReader: it stops at the end of the output or past the limit.
Read ==
    /\ At("watch")
    /\ taken < out
    /\ taken' = taken + 1
    /\ UNCHANGED <<call, tree, sup, kernel, out, code, report, stray>>

Exceeded == taken > Limit

\* No worker is alive: control has ended with the supervisor.
WorkersDone ==
    /\ ~Alive(Sup)
    /\ Exceeded \/ (taken = out /\ holds = {})

-------------------------------------------------------------------------------
(* The supervisor.                                                         *)

\* The processes reached from `roots` by the parents in a listing of /proc.
Reach(roots) ==
    {p \in Existing : \A S \in SUBSET Procs :
        (/\ roots \subseteq S
         /\ \A q \in Existing : parent[q] \in S => q \in S) => p \in S}

\* update_tracked: orphans are the supervisor's once the target has gone; it
\* never follows itself.
Tracked(rootAlive) ==
    LET roots == (sup.tracked \intersect Existing)
                 \union IF rootAlive THEN {} ELSE {Sup}
    IN  sup.tracked \union (Reach(roots) \ {Sup})

\* reap().
Reaped == [p \in Procs |->
    IF proc[p] = "dead" /\ parent[p] = Sup THEN "gone" ELSE proc[p]]

Unreaped(S) == {p \in S : Reaped[p] \in {"run", "stop", "dead"}}

Reports(startup, cleanup, rc) ==
    report' = [sent |-> TRUE, startup |-> startup, cleanup |-> cleanup,
               rc |-> rc]

\* SIGTERM or SIGINT, or a listing of /proc that fails, and not the caller.
Stray ==
    /\ Meddling /\ Running(Sup) /\ ~sup.cancelled
    /\ sup.step \in {"start", "watch", "hold"}
    /\ call.pc \in {"enroll", "wire", "watch"}
    /\ sup' = [sup EXCEPT !.cancelled = TRUE]
    /\ stray' = TRUE
    /\ UNCHANGED <<call, tree, kernel, pipes>>

\* The supervisor enters the owned cgroup, if it is still there.
SupJoins ==
    /\ Running(Sup) /\ sup.step = "boot" /\ ~removed
    /\ cgroup' = cgroup \union {Sup}
    /\ sup' = [sup EXCEPT !.step = "start"]
    /\ UNCHANGED <<call, tree, proc, parent, removed, doomed, holds, pipes,
                   stray>>

SupFails ==
    /\ Running(Sup) /\ sup.step = "boot"
    /\ sup' = [sup EXCEPT !.step = "over"]
    /\ Reports(FALSE, FALSE, "none")
    /\ UNCHANGED <<call, tree, kernel, out, taken, code, stray>>

SupStarts ==
    /\ Running(Sup) /\ Sup \notin doomed /\ sup.step = "start"
    /\ Forked(Sup, Target, TRUE)
    /\ sup' = [sup EXCEPT !.step = "watch", !.tracked = {Target}]
    /\ UNCHANGED <<call, tree, pipes, stray>>

\* The command cannot be started.
SupCannotStart ==
    /\ Running(Sup) /\ sup.step = "start"
    /\ sup' = [sup EXCEPT !.step = "over"]
    /\ Reports(FALSE, TRUE, "none")
    /\ UNCHANGED <<call, tree, kernel, out, taken, code, stray>>

\* The target runs, and the supervisor follows its descendants or is cancelled.
SupWatches ==
    /\ Running(Sup) /\ sup.step = "watch" /\ proc[Target] # "dead"
    /\ sup' = IF sup.cancelled THEN [sup EXCEPT !.step = "clean"]
                               ELSE [sup EXCEPT !.tracked = Tracked(TRUE)]
    /\ UNCHANGED <<call, tree, kernel, pipes, stray>>

\* poll() reaps the target.
SupSeesExit ==
    /\ Running(Sup) /\ sup.step = "watch" /\ proc[Target] = "dead"
    /\ proc' = [proc EXCEPT ![Target] = "gone"]
    /\ sup' = [sup EXCEPT !.step = "hold", !.rc = code]
    /\ UNCHANGED <<call, tree, parent, cgroup, removed, doomed, holds, pipes,
                   stray>>

\* Descendants that hold the output are waited for.
SupHolds ==
    /\ Running(Sup) /\ sup.step = "hold"
    /\ sup' = [sup EXCEPT
            !.tracked = Tracked(FALSE),
            !.step = IF ~sup.cancelled
                        /\ Tracked(FALSE) \intersect holds # {}
                     THEN "hold" ELSE "clean"]
    /\ UNCHANGED <<call, tree, kernel, pipes, stray>>

\* One round of cleanup(): follow, signal, reap, and look once more for
\* orphans when nothing that is followed is left.
SupSweeps ==
    LET seen == Tracked(Target \in Existing)
        more == IF Unreaped(seen) = {} THEN Reach({Sup}) \ {Sup} ELSE {}
        none == Unreaped(seen \union more) = {}
    IN  /\ Running(Sup) /\ sup.step = "clean"
        /\ proc' = Reaped
        /\ doomed' = IF sup.phase = "kill"
                     THEN doomed \union {p \in seen : Alive(p)} ELSE doomed
        /\ sup' = [sup EXCEPT !.tracked = seen \union more, !.cleaned = none,
                              !.step = IF none THEN "tell" ELSE "clean"]
        /\ UNCHANGED <<call, tree, parent, cgroup, removed, holds, pipes, stray>>

\* The time for SIGTERM, or for SIGKILL, is over.
SupGraceEnds ==
    /\ Running(Sup) /\ sup.step = "clean"
    /\ IF sup.phase = "term"
       THEN /\ sup' = [sup EXCEPT !.phase = "kill"]
            /\ UNCHANGED proc
       ELSE /\ proc' = Reaped
            /\ sup' = [sup EXCEPT !.step = "tell",
                                  !.cleaned = Unreaped(sup.tracked) = {}]
    /\ UNCHANGED <<call, tree, parent, cgroup, removed, doomed, holds, pipes,
                   stray>>

\* The report.  Popen.poll() takes a target that reap() has reaped for one
\* that exited with 0.
SupTells ==
    /\ Running(Sup) /\ sup.step = "tell"
    /\ Reports(TRUE, sup.cleaned,
                IF sup.rc # "none" THEN sup.rc
                ELSE IF proc[Target] = "gone" THEN "zero"
                ELSE IF proc[Target] = "dead" THEN code ELSE "none")
    /\ sup' = [sup EXCEPT !.step = "over"]
    /\ UNCHANGED <<call, tree, kernel, out, taken, code, stray>>

SupExits ==
    /\ Running(Sup) /\ sup.step = "over"
    /\ Ends(Sup)
    /\ UNCHANGED <<call, tree, pipes, stray>>

SupNext ==
    \/ SupJoins \/ SupFails \/ SupStarts \/ SupCannotStart \/ SupWatches
    \/ SupSeesExit \/ SupHolds \/ SupSweeps \/ SupGraceEnds \/ SupTells
    \/ SupExits

-------------------------------------------------------------------------------
(* The caller.                                                             *)

CancelSteps == {"contains", "terminate", "wait", "kill", "killing", "last",
                "stop", "snapshot", "freeze", "slay", "slain"}

Goto(pc) == call' = [call EXCEPT !.pc = pc]

\* poll() or wait() of the supervisor, which reaps it.
Reap == proc' = [proc EXCEPT ![Sup] =
                    IF proc[Sup] = "dead" THEN "gone" ELSE proc[Sup]]
Over == proc[Sup] \in {"dead", "gone"}

\* No child, no stray: what the caller's own steps leave alone.
Apart == UNCHANGED <<sup, pipes, stray>>
Waits == Reap /\ UNCHANGED <<tree, parent, cgroup, removed, doomed, holds>> /\ Apart
Quietly == UNCHANGED <<tree, kernel>> /\ Apart

\* The request is refused, or no workspace or no cgroup can be had.
Refuse ==
    /\ At("call")
    /\ \E outcome \in {"rejected", "startup_error", "cleanup_error"} :
        call' = [call EXCEPT !.pc = "done", !.outcome = outcome]
    /\ Quietly

\* The supervisor is started, and its identity bound or not; an interrupt may
\* strike before Popen has returned.
Spawn ==
    /\ At("call")
    /\ proc' = [proc EXCEPT ![Sup] = "run"]
    /\ holds' = {Sup}
    /\ call' \in {[call EXCEPT !.pc = "enroll", !.known = TRUE, !.ident = TRUE],
                  [call EXCEPT !.pc = "finally", !.known = TRUE, !.setup = TRUE],
                  [call EXCEPT !.pc = "finally", !.cut = TRUE]}
    /\ UNCHANGED <<tree, parent, cgroup, removed, doomed>> /\ Apart

SpawnFails ==
    /\ At("call")
    /\ call' = [call EXCEPT !.pc = "finally", !.setup = TRUE]
    /\ Quietly

\* wait_contains_exact finds the supervisor in the cgroup, in time or not.
Enrolled ==
    /\ At("enroll")
    /\ Sup \in cgroup
    /\ call' = [call EXCEPT !.pc = "wire", !.proved = TRUE]
    /\ Quietly

NotEnrolled ==
    /\ At("enroll")
    /\ call' = [call EXCEPT !.pc = "contains", !.refused = TRUE,
                            !.tried = TRUE]
    /\ Quietly

\* The pipes' readers start, or a thread cannot be started.
Wire ==
    /\ At("wire")
    /\ \E wired \in BOOLEAN : \E whole \in {wired, FALSE} :
        call' = [call EXCEPT !.pc = IF whole THEN "watch" ELSE "finally",
                             !.setup = ~whole, !.wired = wired]
    /\ Quietly

\* Fault: the supervisor's end is taken for the end of the output.
WatchedSupervisor ==
    /\ At("watch")
    /\ Over
    /\ Goto("finally")
    /\ Waits

\* The supervision loop ends because the supervisor and the workers have, ...
Watched ==
    /\ At("watch")
    /\ Over /\ WorkersDone
    /\ Goto("finally")
    /\ Waits

\* ... because the output is too long, or because time is up.
GivesUp ==
    /\ At("watch")
    /\ \E failure \in {"timeout"} \union IF Exceeded THEN {"limit"} ELSE {} :
        call' = [call EXCEPT !.pc = "contains", !.failure = failure, !.tried = TRUE]
    /\ Waits

\* KeyboardInterrupt, at any point of the try block.
Interrupted ==
    /\ ~call.cut
    /\ \/ call.pc \in {"enroll", "wire", "watch"}
       \/ call.pc \in CancelSteps /\ call.back = "try"
    /\ \E wired \in {call.wired, At("wire")} :
        call' = [call EXCEPT !.pc = "finally", !.cut = TRUE, !.wired = wired,
                             !.late = proc[Target] # "none"]
    /\ Quietly

\* The finally clause cancels a supervisor that has not ended.
Finally ==
    /\ At("finally")
    /\ call' = IF call.known /\ ~Over
               THEN [call EXCEPT !.pc = "contains", !.back = "finally", !.tried = TRUE]
               ELSE [call EXCEPT !.pc = "removal"]
    /\ IF call.known THEN Waits ELSE Quietly

\* _cancel_supervisor returns to where it was called from.
Cancelled(ok) ==
    IF call.back = "try"
    THEN [call EXCEPT !.pc = "finally", !.ok = ok, !.setup = @ \/ call.refused]
    ELSE [call EXCEPT !.pc = "removal", !.ok = ok /\ @]

ToTree == IF call.ident THEN [call EXCEPT !.pc = "stop"] ELSE Cancelled(FALSE)

\* A supervisor in the cgroup is terminated, another one frozen with its tree.
\* What it has written and who else has cancelled it does not matter any more.
Contains ==
    /\ At("contains")
    /\ call' = IF Sup \in cgroup THEN [call EXCEPT !.pc = "terminate"] ELSE ToTree
    /\ out' = 0 /\ taken' = 0 /\ stray' = FALSE
    /\ UNCHANGED <<tree, sup, kernel, code, report>>

Terminate ==
    /\ At("terminate")
    /\ sup' = IF Alive(Sup) THEN [sup EXCEPT !.cancelled = TRUE] ELSE sup
    /\ Goto("wait")
    /\ Reap
    /\ UNCHANGED <<tree, parent, cgroup, removed, doomed, holds, pipes, stray>>

AwaitEnd ==
    /\ At("wait")
    /\ Goto("kill")
    /\ Waits

\* Fault: the cgroup is only watched.
AwaitGroup ==
    /\ call.pc \in {"kill", "removal"}
    /\ ~removed /\ cgroup # {}
    /\ Goto(IF At("kill") THEN "killing" ELSE "removing")
    /\ Quietly

\* kill_and_remove: an empty cgroup is removed; one that is not is killed ...
KillGroup ==
    /\ call.pc \in {"kill", "removal"}
    /\ ~removed /\ cgroup # {}
    /\ doomed' = doomed \union cgroup
    /\ Goto(IF At("kill") THEN "killing" ELSE "removing")
    /\ UNCHANGED <<tree, proc, parent, cgroup, removed, holds>> /\ Apart

GroupDone(empty) ==
    call' = IF call.pc \in {"kill", "killing"}
            THEN IF empty THEN [call EXCEPT !.pc = "last"] ELSE ToTree
            ELSE [call EXCEPT !.pc = "judge", !.emptied = empty]

\* ... and removed when it has emptied, ...
RemoveGroup ==
    /\ call.pc \in {"kill", "removal", "killing", "removing"}
    /\ removed \/ cgroup = {}
    /\ removed' = TRUE
    /\ GroupDone(TRUE)
    /\ UNCHANGED <<tree, proc, parent, cgroup, doomed, holds>> /\ Apart

\* ... unless that takes too long.
GroupStays ==
    /\ call.pc \in {"killing", "removing"}
    /\ GroupDone(FALSE)
    /\ Quietly

\* The supervisor itself has ended, or its exact incarnation is killed.
Last ==
    /\ At("last")
    /\ call' = IF Over THEN Cancelled(TRUE) ELSE ToTree
    /\ Waits

\* _kill_exact_helper_tree: the supervisor is stopped, ...
Stop ==
    /\ At("stop")
    /\ proc' = IF Running(Sup) THEN [proc EXCEPT ![Sup] = "stop"] ELSE proc
    /\ tree' = NoTree
    /\ Goto("snapshot")
    /\ UNCHANGED <<parent, cgroup, removed, doomed, holds>> /\ Apart

\* ... its descendants are listed, unless it has been reaped ...
Snapshot ==
    /\ At("snapshot")
    /\ IF proc[Sup] = "gone"
       THEN tree' = [tree EXCEPT !.ok = FALSE] /\ Goto("slay")
       ELSE tree' = [tree EXCEPT !.seen = Reach({Sup}) \ {Sup}] /\ Goto("freeze")
    /\ UNCHANGED kernel /\ Apart

\* ... and bound and stopped one by one, until two more listings agree; one
\* that is gone before it is bound spoils it.
Freeze ==
    /\ At("freeze")
    /\ LET lost == {p \in tree.seen \ tree.bound : proc[p] = "gone"}
           same == IF tree.seen = tree.prev THEN tree.stable + 1 ELSE 0
       IN  \E got \in SUBSET tree.seen :
            /\ got \intersect lost = {}
            /\ lost = {} => got = tree.seen
            /\ proc' = [p \in Procs |->
                    IF p \in got /\ Running(p) THEN "stop" ELSE proc[p]]
            /\ tree' = [tree EXCEPT !.bound = @ \union got, !.prev = tree.seen,
                                    !.stable = same, !.ok = lost = {}]
            /\ Goto(IF lost # {} \/ same >= 2 THEN "slay" ELSE "snapshot")
    /\ UNCHANGED <<parent, cgroup, removed, doomed, holds>> /\ Apart

FreezeLate ==
    /\ At("snapshot")
    /\ tree' = [tree EXCEPT !.ok = FALSE]
    /\ Goto("slay")
    /\ UNCHANGED kernel /\ Apart

\* All that were bound are killed, and the supervisor, and waited for.
Slay ==
    /\ At("slay")
    /\ doomed' = doomed \union {p \in tree.bound \union {Sup} : Alive(p)}
    /\ Goto("slain")
    /\ UNCHANGED <<tree, proc, parent, cgroup, removed, holds>> /\ Apart

Slain ==
    /\ At("slain")
    /\ \/ /\ Over /\ \A p \in tree.bound : proc[p] = "gone"
          /\ call' = Cancelled(tree.ok)
       \/ call' = Cancelled(FALSE)
    /\ Reap
    /\ tree' = NoTree
    /\ UNCHANGED <<parent, cgroup, removed, doomed, holds>> /\ Apart

\* The supervisor's status as the control pipe's reader has it.
Told == call.wired /\ ~call.refused /\ report.sent

\* Fault: that the cgroup has emptied is not asked for.
CleanupBelieved ==
    /\ call.ok /\ call.proved
    /\ (Told /\ report.cleanup) \/ (call.tried /\ call.known)

CleanupProved ==
    /\ call.ok /\ call.emptied /\ call.proved
    /\ (Told /\ report.cleanup) \/ (call.tried /\ call.known)

Verdict ==
    IF call.refused THEN "cleanup_error"
    ELSE IF ~CleanupProved THEN "cleanup_error"
    ELSE IF call.cut THEN "raised"
    ELSE IF call.setup THEN "startup_error"
    ELSE IF call.failure # "none" THEN call.failure
    ELSE IF ~Told THEN "assertion"
    ELSE IF ~report.startup THEN "startup_error"
    ELSE IF Exceeded THEN "limit"
    ELSE [none |-> "cleanup_error", fail |-> "nonzero_exit",
          zero |-> "result"][report.rc]

\* What execute returns, or raises.
Judge ==
    /\ At("judge")
    /\ call' = [NewCall EXCEPT !.pc = "done", !.ident = call.ident,
                               !.outcome = Verdict]
    /\ Quietly

Returned ==
    /\ At("done")
    /\ UNCHANGED vars

CallerNext ==
    \/ Refuse \/ Spawn \/ SpawnFails \/ Enrolled \/ NotEnrolled \/ Wire
    \/ Watched \/ GivesUp \/ Finally \/ Contains \/ Terminate \/ AwaitEnd
    \/ KillGroup \/ RemoveGroup \/ GroupStays \/ Last
    \/ Stop \/ Snapshot \/ Freeze \/ FreezeLate \/ Slay \/ Slain \/ Judge

Next ==
    \/ CallerNext \/ Interrupted \/ Returned
    \/ SupNext \/ Stray \/ Killed
    \/ \E p \in Procs : Die(p) \/ Exit(p) \/ Output(p)
    \/ \E p \in Procs, k \in Kids : Fork(p, k)
    \/ Read

Spec == Init /\ [][Next]_vars

\* The caller runs, its waits end in time or not, and SIGKILL kills.  Nothing
\* is asked of the supervisor, the target or its descendants.
FairSpec ==
    /\ Spec
    /\ WF_vars(CallerNext)
    /\ \A p \in Procs : WF_vars(Die(p))

-------------------------------------------------------------------------------
(* Properties.                                                             *)

Outcomes == {"none", "rejected", "cleanup_error", "raised", "startup_error",
             "timeout", "limit", "nonzero_exit", "assertion", "result"}

CallSteps == CancelSteps \union
    {"call", "enroll", "wire", "watch", "finally", "removal", "removing",
     "judge", "done"}

CallRecord ==
    [pc : CallSteps, back : {"try", "finally"}, known : BOOLEAN,
     ident : BOOLEAN, proved : BOOLEAN, refused : BOOLEAN, setup : BOOLEAN, cut : BOOLEAN,
     failure : {"none", "timeout", "limit"}, tried : BOOLEAN, ok : BOOLEAN,
     wired : BOOLEAN, emptied : BOOLEAN, outcome : Outcomes, late : BOOLEAN]

TreeOK ==
    tree \in [bound : SUBSET Procs, seen : SUBSET Procs, prev : SUBSET Procs,
              stable : 0..2, ok : BOOLEAN]

SupOK ==
    sup \in [step : {"boot", "start", "watch", "hold", "clean", "tell", "over"},
             cancelled : BOOLEAN, tracked : SUBSET Procs,
             phase : {"term", "kill"}, cleaned : BOOLEAN,
             rc : {"none", "zero", "fail"}]

KernelOK ==
    /\ proc \in [Procs -> {"none", "run", "stop", "dead", "gone"}]
    /\ parent \in [Procs -> Procs \union {Caller, Outside}]
    /\ cgroup \in SUBSET Procs /\ removed \in BOOLEAN
    /\ doomed \in SUBSET Procs /\ holds \in SUBSET Procs

PipesOK ==
    /\ out \in 0..(Limit + 1) /\ taken \in 0..out
    /\ code \in {"none", "zero", "fail"}
    /\ report \in [sent : BOOLEAN, startup : BOOLEAN, cleanup : BOOLEAN,
                   rc : {"none", "zero", "fail"}]
    /\ stray \in BOOLEAN

TypeOK == call \in CallRecord /\ TreeOK /\ SupOK /\ KernelOK /\ PipesOK

NoneLeft == \A p \in Procs : proc[p] \in {"none", "gone"}

\* Whatever execute answers, unless it says that the cleanup is not proved,
\* no process of the call is left, not even a zombie: not after a deadline, an
\* interrupt, a supervisor that was killed or never enrolled, nor with
\* descendants that forked away from the target (subprocess_runner.py:706-741).
ProvenClean ==
    At("done") /\ call.outcome # "cleanup_error" => NoneLeft

\* The answer is true: a result is parsed from all that was written, by a
\* target that exited with 0; a nonzero exit was one; the status is known where
\* it is asserted.  The exception is a supervisor that somebody else cancels:
\* it reaps the target it kills and reports 0 (subprocess_runner.py:328-341).
OutcomeTrue ==
    At("done") =>
        /\ call.outcome = "result" =>
               taken = out /\ out <= Limit /\ (code = "zero" \/ stray)
        /\ call.outcome = "nonzero_exit" => code = "fail"
        /\ call.outcome # "assertion"

\* The call ends whatever the target does, and even where it says that it
\* could not clean up, what it started dies, once it had bound the supervisor.
LeavesNothing ==
    <>[](At("done") /\ (call.ident => \A p \in Procs : ~Alive(p)))

\* tests/test_executor_gateway.py:550, "keyboard_interrupt_reaps_helper_and_
\* target_before_reraising": an interrupt that finds the target started is
\* raised again when all has been reaped.
InterruptReraised ==
    [][Judge /\ call.late /\ ~call.refused /\ NoneLeft =>
           call'.outcome = "raised"]_vars

===============================================================================
