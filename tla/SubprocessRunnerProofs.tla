------------------------ MODULE SubprocessRunnerProofs ------------------------
(***************************************************************************)
(* Proofs about SubprocessRunner for every set of descendants and every    *)
(* limit of the output.                                                    *)
(*                                                                         *)
(* That nothing is left rests on three facts about processes: whoever the  *)
(* supervisor starts is born into the owned cgroup and stays there until   *)
(* it dies, a removed cgroup stays empty, and a process that exists, a     *)
(* zombie too, has a living parent or is an orphan that will be reaped     *)
(* where it dies.  So an empty cgroup and a reaped supervisor leave no one *)
(* alive and therefore no zombie either.  That the answer is true rests on *)
(* the order in which the supervisor learns how the target ended, reports  *)
(* it, and is cancelled, if at all.                                        *)
(***************************************************************************)
EXTENDS SubprocessRunner, TLAPS

Others == Procs \ {Sup}

\* Every process has a living parent, or is alive and will be reaped outside.
Families ==
    /\ parent[Sup] = Caller
    /\ \A p \in Others : p \in Existing =>
           \/ Alive(p) /\ parent[p] = Outside
           \/ parent[p] \in Procs \ {p} /\ Alive(parent[p])

\* Everyone but the supervisor lives in the cgroup, and it does too from when
\* it joins until it is over; only the living are killed.
Living ==
    /\ \A p \in cgroup \union doomed : Alive(p)
    /\ \A p \in Others : Alive(p) => p \in cgroup
    /\ Alive(Sup) /\ sup.step \notin {"boot", "over"} => Sup \in cgroup
    /\ removed => cgroup = {}

\* Before the call nothing has happened.
Fresh ==
    At("call") =>
        /\ \A p \in Procs : proc[p] = "none"
        /\ call = NewCall /\ sup = NewSup
        /\ ~report.sent /\ code = "none"

PastTry == {"removal", "removing", "judge"}
Tail == PastTry \union {"finally"}

\* What the caller has seen to by the time it gets somewhere: the supervisor is
\* reaped where the cancellation is taken to have succeeded.
Progress ==
    /\ call.emptied => removed
    /\ call.proved => call.known
    /\ call.pc \in {"enroll", "wire", "watch"} => call.known
    /\ call.pc \in PastTry /\ call.known /\ call.ok => proc[Sup] = "gone"
    /\ call.pc \in CancelSteps => call.tried
    /\ call.pc \in {"snapshot", "freeze"} => tree.stable < 2

\* How the target ended is known once it has, and reported as it was, unless
\* the supervisor was cancelled.
Ended ==
    /\ code = "none" <=> proc[Target] \in {"none", "run", "stop"}
    /\ sup.rc # "none" => sup.rc = code /\ proc[Target] = "gone"
    /\ report.rc # "none" => proc[Target] \in {"dead", "gone"} /\ report.sent
    /\ report.sent /\ Alive(Sup) => sup.step = "over"
    /\ sup.step \in {"boot", "start"} /\ Alive(Sup) => proc[Target] = "none"
    /\ proc[Sup] = "none" => proc[Target] = "none"
    /\ sup.step = "hold" => sup.rc # "none"
    /\ sup.step \in {"clean", "tell"} /\ sup.rc = "none" => sup.cancelled
    /\ report.rc = "fail" => code = "fail"
    /\ \/ call.tried \/ stray \/ At("done")
       \/ (report.rc = "zero" => code = "zero") /\ ~sup.cancelled

Undisturbed ==
    ~call.cut /\ ~call.setup /\ call.failure = "none" /\ ~call.refused

\* A call that nothing disturbs leaves its loop when everything has been read
\* and the supervisor reaped, and cancels nothing.
Watching ==
    /\ call.pc \in {"enroll", "wire", "watch"} => ~call.tried /\ Undisturbed
    /\ call.pc \in CancelSteps => ~Undisturbed
    /\ call.pc \in Tail /\ Undisturbed =>
            /\ ~call.tried /\ proc[Sup] = "gone"
            /\ Exceeded \/ (taken = out /\ holds = {})

Inv ==
    /\ TypeOK /\ Families /\ Living /\ Fresh /\ Progress /\ Ended /\ Watching
    /\ ProvenClean /\ OutcomeTrue

-------------------------------------------------------------------------------
(* Types.                                                                  *)

LEMMA StepsFact ==
    /\ CancelSteps \subseteq CallSteps
    /\ "enroll" \in CallSteps /\ "wire" \in CallSteps /\ "watch" \in CallSteps
    /\ "finally" \in CallSteps /\ "removal" \in CallSteps
    /\ "removing" \in CallSteps /\ "judge" \in CallSteps
    /\ "done" \in CallSteps /\ "call" \in CallSteps
    /\ "contains" \in CallSteps /\ "terminate" \in CallSteps
    /\ "wait" \in CallSteps /\ "kill" \in CallSteps
    /\ "killing" \in CallSteps /\ "last" \in CallSteps
    /\ "stop" \in CallSteps /\ "snapshot" \in CallSteps
    /\ "freeze" \in CallSteps /\ "slay" \in CallSteps
    /\ "slain" \in CallSteps
  BY DEF CallSteps, CancelSteps

LEMMA OutcomesFact ==
    {"rejected", "cleanup_error", "raised", "startup_error", "none"}
        \subseteq Outcomes
  BY DEF Outcomes

LEMMA CallType ==
    ASSUME TypeOK, Next
    PROVE  call' \in CallRecord
<1>. call \in CallRecord
  BY DEF TypeOK
<1>. USE StepsFact
<1>5. ASSUME NEW ok \in BOOLEAN
      PROVE  Cancelled(ok) \in CallRecord
  <2>1. ASSUME NEW a \in BOOLEAN, NEW b \in BOOLEAN
        PROVE  /\ [call EXCEPT !.pc = "finally", !.ok = a,
                               !.setup = b] \in CallRecord
               /\ [call EXCEPT !.pc = "removal", !.ok = a] \in CallRecord
    BY DEF CallRecord
  <2>2. (call.setup \/ call.refused) \in BOOLEAN /\ (ok /\ call.ok) \in BOOLEAN
    OBVIOUS
  <2>. QED  BY <2>1, <2>2 DEF Cancelled
<1>6. ToTree \in CallRecord
  <2>1. [call EXCEPT !.pc = "stop"] \in CallRecord
    BY DEF CallRecord
  <2>. QED  BY <1>5, <2>1 DEF ToTree
<1>7. ASSUME NEW empty \in BOOLEAN, GroupDone(empty)
      PROVE  call' \in CallRecord
  <2>1. /\ [call EXCEPT !.pc = "last"] \in CallRecord
        /\ [call EXCEPT !.pc = "judge", !.emptied = empty] \in CallRecord
    BY DEF CallRecord
  <2>. QED  BY <1>6, <1>7, <2>1 DEF GroupDone
<1>8. CASE Contains
  <2>1. [call EXCEPT !.pc = "terminate"] \in CallRecord
    BY DEF CallRecord
  <2>. QED  BY <1>6, <1>8, <2>1 DEF Contains
<1>14. CASE Slain
  <2>1. tree.ok \in BOOLEAN /\ FALSE \in BOOLEAN
    BY DEF TypeOK, TreeOK
  <2>. QED  BY <1>5, <1>14, <2>1 DEF Slain
<1>. USE DEF CallRecord, At, Goto, Quietly, Waits
<1>1. CASE Refuse
  <2>1. PICK outcome \in {"rejected", "startup_error", "cleanup_error"} :
          call' = [call EXCEPT !.pc = "done", !.outcome = outcome]
    BY <1>1 DEF Refuse
  <2>2. outcome \in Outcomes
    BY OutcomesFact
  <2>. QED  BY <2>1, <2>2
<1>2. CASE Spawn
  <2>1. CASE call' = [call EXCEPT !.pc = "enroll", !.known = TRUE,
                                  !.ident = TRUE]
    BY <2>1
  <2>2. CASE call' = [call EXCEPT !.pc = "finally", !.known = TRUE,
                                  !.setup = TRUE]
    BY <2>2
  <2>3. CASE call' = [call EXCEPT !.pc = "finally", !.cut = TRUE]
    BY <2>3
  <2>. QED  BY <1>2, <2>1, <2>2, <2>3 DEF Spawn
<1>3. CASE SpawnFails \/ Enrolled \/ NotEnrolled
  <2>1. CASE SpawnFails
    BY <2>1 DEF SpawnFails
  <2>2. CASE Enrolled
    BY <2>2 DEF Enrolled
  <2>3. CASE NotEnrolled
    BY <2>3 DEF NotEnrolled
  <2>. QED  BY <1>3, <2>1, <2>2, <2>3
<1>4. CASE Wire
  <2>1. PICK wired \in BOOLEAN, whole \in BOOLEAN :
          call' = [call EXCEPT !.pc = IF whole THEN "watch" ELSE "finally",
                               !.setup = ~whole, !.wired = wired]
    BY <1>4 DEF Wire
  <2>2. CASE whole
    BY <2>1, <2>2
  <2>3. CASE ~whole
    BY <2>1, <2>3
  <2>. QED  BY <2>2, <2>3
<1>20. ASSUME NEW pc \in CancelSteps \union {"finally", "removing"}, Goto(pc)
       PROVE  call' \in CallRecord
  BY <1>20
<1>21. CASE Watched \/ Terminate \/ AwaitEnd \/ KillGroup
  BY <1>20, <1>21 DEF Watched, Terminate, AwaitEnd, KillGroup
<1>22. CASE Finally
  BY <1>22 DEF Finally
<1>9. CASE GivesUp
  <2>1. PICK failure \in {"timeout", "limit"} :
          call' = [call EXCEPT !.pc = "contains", !.failure = failure,
                               !.tried = TRUE]
    BY <1>9 DEF GivesUp
  <2>. QED  BY <2>1
<1>11. CASE RemoveGroup \/ GroupStays
  BY <1>7, <1>11 DEF RemoveGroup, GroupStays
<1>12. CASE Last
  BY <1>5, <1>6, <1>12 DEF Last
<1>13. CASE Stop \/ Snapshot \/ Freeze \/ FreezeLate \/ Slay
  <2>1. \E pc \in {"snapshot", "slay", "freeze", "slain"} : Goto(pc)
    BY <1>13 DEF Stop, Snapshot, Freeze, FreezeLate, Slay
  <2>2. {"snapshot", "slay", "freeze", "slain"} \subseteq CancelSteps
    BY DEF CancelSteps
  <2>. HIDE DEF CallRecord, Goto
  <2>. QED  BY <1>20, <2>1, <2>2
<1>15. CASE Judge
  <2>1. Verdict \in Outcomes
    BY DEF Verdict, Outcomes, PipesOK, TypeOK
  <2>2. [NewCall EXCEPT !.pc = "done", !.ident = call.ident,
                        !.outcome = Verdict] \in CallRecord
    <3>. HIDE DEF Verdict
    <3>. DEFINE new == [NewCall EXCEPT !.pc = "done", !.ident = call.ident]
    <3>1. new \in CallRecord
      BY OutcomesFact DEF NewCall
    <3>2. [new EXCEPT !.outcome = Verdict] \in CallRecord
      <4>. HIDE DEF new
      <4>. QED  BY <2>1, <3>1
    <3>. QED  BY <3>2
  <2>. QED  BY <1>15, <2>2 DEF Judge
<1>16. CASE Interrupted
  <2>1. PICK wired \in BOOLEAN :
            call' = [call EXCEPT !.pc = "finally", !.cut = TRUE,
                                 !.wired = wired,
                                 !.late = proc[Target] # "none"]
    BY <1>16 DEF Interrupted
  <2>2. (proc[Target] # "none") \in BOOLEAN
    OBVIOUS
  <2>3. \A late \in BOOLEAN :
            [call EXCEPT !.pc = "finally", !.cut = TRUE, !.wired = wired,
                         !.late = late] \in CallRecord
    OBVIOUS
  <2>. HIDE DEF CallRecord
  <2>. QED  BY <2>1, <2>2, <2>3
<1>17. CASE UNCHANGED call
  BY <1>17
<1>18. CASE SupNext \/ Stray \/ Killed \/ Returned \/ Read
  BY <1>17, <1>18 DEF SupNext, SupJoins, SupFails, SupStarts, SupCannotStart,
     SupWatches,
     SupSeesExit, SupHolds, SupSweeps, SupGraceEnds, SupTells, SupExits,
     Stray, Killed, 
     Returned, vars, Read
<1>19. CASE \E p \in Procs : Die(p) \/ Exit(p) \/ Output(p) \/ \E k \in Kids : Fork(p, k)
  BY <1>17, <1>19 DEF Die, Exit, Output, Fork
<1>. QED  BY <1>1, <1>2, <1>3, <1>4, <1>8, <1>9, <1>21, <1>22, <1>11, <1>12,
   <1>13, <1>14,
              <1>15, <1>16, <1>18, <1>19 DEF Next, CallerNext

LEMMA TreeType ==
    ASSUME TypeOK, Progress, Next
    PROVE  TreeOK'
<1>. USE DEF TypeOK, TreeOK
<1>1. CASE Stop \/ Slain
  <2>1. tree' = NoTree
    BY <1>1 DEF Stop, Slain
  <2>. QED  BY <2>1 DEF NoTree
<1>8. CASE FreezeLate
  BY <1>8 DEF FreezeLate
<1>2. CASE Snapshot
  BY <1>2 DEF Snapshot, Reach, Existing
<1>3. CASE Freeze
  <2>. DEFINE same == IF tree.seen = tree.prev THEN tree.stable + 1 ELSE 0
              lost == {p \in tree.seen \ tree.bound : proc[p] = "gone"}
  <2>1. same \in 0..2
    BY <1>3 DEF Freeze, Progress, At
  <2>2. PICK got \in SUBSET tree.seen :
            tree' = [tree EXCEPT !.bound = @ \union got, !.prev = tree.seen,
                                 !.stable = same, !.ok = lost = {}]
    BY <1>3 DEF Freeze
  <2>3. (lost = {}) \in BOOLEAN
    OBVIOUS
  <2>. HIDE DEF same, lost
  <2>. QED  BY <2>1, <2>2, <2>3
<1>4. CASE UNCHANGED tree
  BY <1>4
<1>5. CASE
        \/ Refuse \/ Spawn \/ SpawnFails \/ Enrolled \/ NotEnrolled \/ Wire
        \/ Watched \/ GivesUp \/ Finally \/ Contains \/ Terminate \/ AwaitEnd
        \/ KillGroup \/ RemoveGroup \/ GroupStays \/ Last \/ Slay \/ Judge
        \/ Interrupted \/ Returned
  BY <1>4, <1>5 DEF Refuse, Spawn, SpawnFails, Enrolled, NotEnrolled, Wire,
     Watched, GivesUp, Finally, Contains, Terminate, AwaitEnd, KillGroup,
     RemoveGroup, GroupStays, Last, Slay, Judge, Interrupted, Returned, vars,
     Waits, Quietly
<1>6. CASE SupNext \/ Stray \/ Killed \/ Read
  BY <1>4, <1>6 DEF SupNext, SupJoins, SupFails, SupStarts, SupCannotStart,
     SupWatches, SupSeesExit, SupHolds, SupSweeps, SupGraceEnds, SupTells,
     SupExits, Stray, Killed, Read
<1>7. CASE \E p \in Procs : Die(p) \/ Exit(p) \/ Output(p) \/ \E k \in Kids : Fork(p, k)
  BY <1>4, <1>7 DEF Die, Exit, Output, Fork
<1>. QED  BY <1>1, <1>2, <1>3, <1>5, <1>6, <1>7, <1>8 DEF Next, CallerNext

LEMMA SupType ==
    ASSUME TypeOK, Next
    PROVE  SupOK'
<1>. USE DEF TypeOK, SupOK
<1>1. CASE SupJoins \/ SupFails \/ SupCannotStart \/ SupTells \/ SupSeesExit
  BY <1>1 DEF SupJoins, SupFails, SupCannotStart, SupTells, SupSeesExit, PipesOK
<1>2. CASE SupStarts
  BY <1>2 DEF SupStarts, Procs
<1>3. ASSUME NEW b \in BOOLEAN PROVE Tracked(b) \in SUBSET Procs
  BY DEF Tracked, Reach, Existing
<1>4. CASE SupWatches
  BY <1>3, <1>4 DEF SupWatches
<1>5. CASE SupHolds
  <2>. DEFINE t == Tracked(FALSE)
  <2>1. t \in SUBSET Procs
    BY <1>3
  <2>2. PICK x \in {"hold", "clean"} : sup' = [sup EXCEPT !.tracked = t,
                                                          !.step = x]
    BY <1>5 DEF SupHolds
  <2>. QED  BY <2>1, <2>2
<1>6. CASE SupSweeps
  <2>1. PICK t \in SUBSET Procs, b \in BOOLEAN, x \in {"tell", "clean"} :
            sup' = [sup EXCEPT !.tracked = t, !.cleaned = b, !.step = x]
    <3>. DEFINE seen == Tracked(Target \in Existing)
                more == IF Unreaped(seen) = {} THEN Reach({Sup}) \ {Sup} ELSE {}
                none == Unreaped(seen \union more) = {}
    <3>1. seen \union more \in SUBSET Procs /\ none \in BOOLEAN
      <4>1. seen \in SUBSET Procs
        <5>1. (Target \in Existing) \in BOOLEAN
          OBVIOUS
        <5>. QED  BY <1>3, <5>1
      <4>2. more \in SUBSET Procs
        BY DEF Reach, Existing
      <4>. QED  BY <4>1, <4>2
    <3>2. sup' = [sup EXCEPT !.tracked = seen \union more, !.cleaned = none,
                             !.step = IF none THEN "tell" ELSE "clean"]
      BY <1>6 DEF SupSweeps
    <3>3. (IF none THEN "tell" ELSE "clean") \in {"tell", "clean"}
      OBVIOUS
    <3>. HIDE DEF seen, more, none
    <3>. QED  BY <3>1, <3>2, <3>3
  <2>. QED  BY <2>1
<1>7. CASE SupGraceEnds
  <2>1. \/ sup' = [sup EXCEPT !.phase = "kill"]
        \/ \E b \in BOOLEAN : sup' = [sup EXCEPT !.step = "tell", !.cleaned = b]
    BY <1>7 DEF SupGraceEnds
  <2>. QED  BY <2>1
<1>8. ASSUME NEW p \in Procs, Ends(p)
      PROVE  SupOK'
  BY <1>8 DEF Ends, NewSup
<1>9. CASE SupExits \/ \E p \in Procs : Die(p) \/ Exit(p)
  BY <1>8, <1>9 DEF SupExits, Die, Exit, Procs
<1>10. CASE Stray \/ Terminate
  BY <1>10 DEF Stray, Terminate
<1>11. CASE UNCHANGED sup
  BY <1>11
<1>12. CASE
        \/ Refuse \/ Spawn \/ SpawnFails \/ Enrolled \/ NotEnrolled \/ Wire
        \/ Watched \/ GivesUp \/ Finally \/ Contains \/ AwaitEnd
        \/ KillGroup \/ RemoveGroup \/ GroupStays \/ Last \/ Stop \/ Snapshot
        \/ Freeze \/ FreezeLate \/ Slay \/ Slain \/ Judge
        \/ Interrupted \/ Returned
  BY <1>11, <1>12 DEF Refuse, Spawn, SpawnFails, Enrolled, NotEnrolled, Wire,
     Watched, GivesUp, Finally, Contains, Terminate, AwaitEnd, KillGroup,
     RemoveGroup, GroupStays, Last, Stop, Snapshot, Freeze, FreezeLate, Slay,
     Slain, Judge, Interrupted, Returned, vars, Waits, Quietly, Apart
<1>13. CASE Killed \/ Read \/ \E p \in Procs : Output(p) \/ \E k \in Kids : Fork(p, k)
  BY <1>11, <1>13 DEF Killed, Read, Output, Fork
<1>. QED  BY <1>1, <1>2, <1>4, <1>5, <1>6, <1>7, <1>9, <1>10, <1>12, <1>13
          DEF Next, CallerNext, SupNext

LEMMA PipesType ==
    ASSUME TypeOK, Next
    PROVE  PipesOK'
<1>. USE LimitAssumption DEF TypeOK, PipesOK
<1>1. CASE SupFails
  BY <1>1 DEF SupFails, Reports
<1>11. CASE SupCannotStart
  BY <1>11 DEF SupCannotStart, Reports
<1>2. CASE SupTells
  BY <1>2 DEF SupTells, Reports, SupOK
<1>3. CASE Read
  BY <1>3 DEF Read
<1>4. CASE \E p \in Procs : Die(p) \/ Exit(p) \/ Output(p)
  BY <1>4 DEF Die, Exit, Output
<1>5. CASE Contains
  <2>1. out' = 0 /\ taken' = 0 /\ stray' = FALSE /\ code' = code /\ report' = report
    BY <1>5 DEF Contains
  <2>2. out' \in 0..(Limit + 1) /\ taken' \in 0..out'
    BY <2>1
  <2>. QED  BY <2>1, <2>2
<1>6. CASE Stray
  BY <1>6 DEF Stray, pipes
<1>7. CASE UNCHANGED <<pipes, stray>>
  BY <1>7 DEF pipes
<1>8. CASE
        \/ Refuse \/ Spawn \/ SpawnFails \/ Enrolled \/ NotEnrolled \/ Wire
        \/ Watched \/ GivesUp \/ Finally \/ Terminate \/ AwaitEnd
        \/ KillGroup \/ RemoveGroup \/ GroupStays \/ Last \/ Stop \/ Snapshot
        \/ Freeze \/ FreezeLate \/ Slay \/ Slain \/ Judge
        \/ Interrupted \/ Returned
  BY <1>7, <1>8 DEF Refuse, Spawn, SpawnFails, Enrolled, NotEnrolled, Wire,
     Watched, GivesUp, Finally, Terminate, AwaitEnd, KillGroup,
     RemoveGroup, GroupStays, Last, Stop, Snapshot, Freeze, FreezeLate, Slay,
     Slain, Judge, Interrupted, Returned, vars, Waits, Quietly, Apart, pipes
<1>9. CASE SupJoins \/ SupStarts \/ SupWatches \/ SupSeesExit \/ SupHolds
           \/ SupSweeps \/ SupGraceEnds \/ SupExits \/ Killed
  BY <1>7, <1>9 DEF SupJoins, SupStarts, SupWatches, SupSeesExit, SupHolds,
     SupSweeps, SupGraceEnds, SupExits, Killed, pipes
<1>10. CASE \E p \in Procs, k \in Kids : Fork(p, k)
  BY <1>7, <1>10 DEF Fork
<1>. QED  BY <1>1, <1>2, <1>3, <1>4, <1>5, <1>6, <1>8, <1>9, <1>10, <1>11
          DEF Next, CallerNext, SupNext

LEMMA KernelType ==
    ASSUME TypeOK, Next
    PROVE  KernelOK'
<1>. USE ProcsAssumption DEF TypeOK, KernelOK, Procs
<1>1. ASSUME NEW p \in Procs, Ends(p)
      PROVE  KernelOK'
  BY <1>1 DEF Ends, Adopter
<1>2. CASE SupExits \/ \E p \in Procs : Die(p) \/ Exit(p)
  BY <1>1, <1>2 DEF SupExits, Die, Exit
<1>3. ASSUME NEW p \in Procs, NEW k \in Procs, NEW given \in BOOLEAN,
             Forked(p, k, given)
      PROVE  KernelOK'
  BY <1>3 DEF Forked
<1>4. CASE SupStarts
  BY <1>3, <1>4 DEF SupStarts
<1>5. CASE \E p \in Procs, k \in Kids : Fork(p, k)
  <2>1. PICK p \in Procs, k \in Kids : Fork(p, k)
    BY <1>5
  <2>2. PICK given \in BOOLEAN : Forked(p, k, given)
    BY <2>1 DEF Fork
  <2>. QED  BY <1>3, <2>2
<1>6. CASE SupJoins \/ SupSeesExit \/ SupGraceEnds
  BY <1>6 DEF SupJoins, SupSeesExit, SupGraceEnds, Reaped
<1>7. CASE SupSweeps
  <2>1. doomed' \in SUBSET Procs
    <3>1. Tracked(Target \in Existing) \in SUBSET Procs
      BY DEF SupOK, Tracked, Reach, Existing
    <3>. QED  BY <1>7, <3>1 DEF SupSweeps
  <2>. QED  BY <1>7, <2>1 DEF SupSweeps, Reaped
<1>8. CASE Waits
  BY <1>8 DEF Waits, Reap
<1>9. CASE Watched \/ GivesUp \/ AwaitEnd \/ Last \/ Terminate
  BY <1>8, <1>9 DEF Watched, GivesUp, AwaitEnd, Last, Terminate, Reap
<1>10. CASE Spawn \/ Stop
  BY <1>10 DEF Spawn, Stop
<1>11. CASE KillGroup \/ RemoveGroup
  BY <1>11 DEF KillGroup, RemoveGroup
<1>12. CASE Freeze
  BY <1>12 DEF Freeze
<1>13. CASE Slay
  BY <1>13 DEF Slay, TreeOK
<1>14. CASE Slain
  BY <1>14 DEF Slain, Reap
<1>15. CASE Killed
  BY <1>15 DEF Killed
<1>16. CASE UNCHANGED kernel
  BY <1>16 DEF kernel
<1>17. CASE Finally
  BY <1>8, <1>16, <1>17 DEF Finally, Quietly
<1>18. CASE
        \/ Refuse \/ SpawnFails \/ Enrolled \/ NotEnrolled \/ Wire \/ Contains
        \/ GroupStays \/ Snapshot \/ FreezeLate \/ Judge \/ Interrupted \/ Returned
  BY <1>16, <1>18 DEF Refuse, SpawnFails, Enrolled, NotEnrolled, Wire, Contains,
     GroupStays, Snapshot, FreezeLate, Judge, Interrupted, Returned, vars,
     Quietly
<1>19. CASE SupFails \/ SupCannotStart \/ SupWatches \/ SupHolds \/ SupTells
            \/ Stray \/ Read
  BY <1>16, <1>19 DEF SupFails, SupCannotStart, SupWatches, SupHolds, SupTells,
     Stray, Read
<1>20. CASE \E p \in Procs : Output(p)
  BY <1>16, <1>20 DEF Output
<1>. QED  BY <1>2, <1>4, <1>5, <1>6, <1>7, <1>9, <1>10, <1>11, <1>12, <1>13,
   <1>14,
              <1>15, <1>17, <1>18, <1>19, <1>20 DEF Next, CallerNext, SupNext

-------------------------------------------------------------------------------
(* What a step does to the processes.                                      *)

\* Nobody starts, ends or changes its parent or cgroup.
Steady ==
    /\ parent' = parent /\ cgroup' = cgroup
    /\ \A p \in Procs :
            /\ Alive(p)' <=> Alive(p)
            /\ proc[p] = "none" <=> proc'[p] = "none"
            /\ proc[p] = "gone" => proc'[p] = "gone"
            /\ p \in doomed' => Alive(p)
    /\ removed => removed'
    /\ removed' => removed \/ cgroup = {}
    /\ sup.step \in {"boot", "over"} => sup'.step \in {"boot", "over"}

\* A living process ends.
Dies(p) == Alive(p) /\ Ends(p)

\* A living process in the cgroup forks.
Born(p, k) ==
    /\ k \notin {Sup, p} /\ Alive(p) /\ p \in cgroup
    /\ proc' = [proc EXCEPT ![k] = "run"]
    /\ parent' = [parent EXCEPT ![k] = p]
    /\ cgroup' = cgroup \union {k}
    /\ UNCHANGED <<removed, doomed>>
    /\ sup.step \in {"boot", "over"} => sup'.step \in {"boot", "over"}

\* The supervisor enters the cgroup.
Joins ==
    /\ Alive(Sup) /\ ~removed
    /\ cgroup' = cgroup \union {Sup}
    /\ UNCHANGED <<proc, parent, removed, doomed>>

\* The supervisor is started.
Begins ==
    /\ At("call") /\ proc[Sup] = "none"
    /\ proc' = [proc EXCEPT ![Sup] = "run"]
    /\ UNCHANGED <<parent, cgroup, removed, doomed, sup>>

Kinds ==
    \/ Steady \/ Joins \/ Begins
    \/ \E p \in Procs : Dies(p) \/ \E k \in Procs : Born(p, k)

\* The steps that start, end, fork or enroll a process.
Moves ==
    \/ Spawn \/ SupJoins \/ SupStarts \/ SupExits
    \/ \E p \in Procs : Die(p) \/ Exit(p) \/ \E k \in Kids : Fork(p, k)

LEMMA SteadyStep ==
    ASSUME TypeOK, Living, Next, ~Moves
    PROVE  Steady
<1>. USE ProcsAssumption DEF Procs, TypeOK, KernelOK, Alive, Running, Steady
<1>1. CASE SupSeesExit \/ SupGraceEnds
  BY <1>1 DEF SupSeesExit, SupGraceEnds, Reaped, Living, SupOK
<1>2. CASE SupSweeps
  BY <1>2 DEF SupSweeps, Reaped, Living, SupOK
<1>3. CASE Waits
  BY <1>3 DEF Waits, Reap, Apart, Living
<1>4. CASE Watched \/ GivesUp \/ AwaitEnd \/ Last
  BY <1>3, <1>4 DEF Watched, GivesUp, AwaitEnd, Last
<1>5. CASE Terminate
  BY <1>5 DEF Terminate, Reap, Living, SupOK
<1>6. CASE Stop
  BY <1>6 DEF Stop, Living, Apart
<1>7. CASE KillGroup
  BY <1>7 DEF KillGroup, Living, Apart
<1>8. CASE RemoveGroup
  BY <1>8 DEF RemoveGroup, Living, Apart
<1>9. CASE Freeze
  BY <1>9 DEF Freeze, Living, Apart
<1>10. CASE Slay
  BY <1>10 DEF Slay, Living, Apart
<1>11. CASE Slain
  BY <1>11 DEF Slain, Reap, Living, Apart
<1>12. CASE Killed
  BY <1>12 DEF Killed, Living
<1>13. CASE UNCHANGED kernel /\ (sup.step \in {"boot",
   "over"} => sup'.step \in {"boot", "over"})
  BY <1>13 DEF kernel, Living
<1>14. CASE UNCHANGED <<kernel, sup>>
  BY <1>13, <1>14
<1>15. CASE Finally
  BY <1>3, <1>14, <1>15 DEF Finally, Quietly, Apart
<1>16. CASE
        \/ Refuse \/ SpawnFails \/ Enrolled \/ NotEnrolled \/ Wire \/ Contains
        \/ GroupStays \/ Snapshot \/ FreezeLate \/ Judge \/ Interrupted \/ Returned
  BY <1>14, <1>16 DEF Refuse, SpawnFails, Enrolled, NotEnrolled, Wire, Contains,
     GroupStays, Snapshot, FreezeLate, Judge, Interrupted, Returned, vars,
     Quietly, Apart
<1>17. CASE SupFails \/ SupCannotStart \/ SupWatches \/ SupHolds \/ SupTells
            \/ Stray
  BY <1>13, <1>17 DEF SupFails, SupCannotStart, SupWatches, SupHolds, SupTells,
     Stray, SupOK
<1>18. CASE Read \/ \E p \in Procs : Output(p)
  BY <1>14, <1>18 DEF Output, Read
<1>. QED  BY <1>1, <1>2, <1>4, <1>5, <1>6, <1>7, <1>8, <1>9, <1>10, <1>11,
   <1>12, <1>15, <1>16, <1>17, <1>18
          DEF Next, CallerNext, SupNext, Moves

LEMMA StepKinds ==
    ASSUME TypeOK, Living, Fresh, Next
    PROVE  Kinds
<1>. USE ProcsAssumption DEF Procs, TypeOK, KernelOK, Alive, Running
<1>1. CASE SupExits \/ \E p \in Procs : Die(p) \/ Exit(p)
  BY <1>1 DEF SupExits, Die, Exit, Kinds, Dies, Living
<1>2. CASE SupStarts
  <2>1. Born(Sup, Target)
    BY <1>2 DEF SupStarts, Forked, Living, Born
  <2>. QED  BY <2>1 DEF Kinds
<1>3. CASE \E p \in Procs, k \in Kids : Fork(p, k)
  <2>1. PICK p \in Procs, k \in Kids : Fork(p, k)
    BY <1>3
  <2>2. Born(p, k)
    BY <2>1 DEF Fork, Forked, Living, Born, Others
  <2>. QED  BY <2>2 DEF Kinds
<1>4. CASE SupJoins
  BY <1>4 DEF SupJoins, Kinds, Joins
<1>5. CASE Spawn
  BY <1>5 DEF Spawn, Kinds, Begins, Fresh, Apart
<1>6. CASE ~Moves
  BY <1>6, SteadyStep DEF Kinds
<1>. QED  BY <1>1, <1>2, <1>3, <1>4, <1>5, <1>6 DEF Moves

LEMMA FamiliesStep ==
    ASSUME TypeOK, Families, Kinds
    PROVE  Families'
<1>. USE ProcsAssumption DEF Procs, Others, TypeOK, KernelOK, Alive, Existing
<1>1. CASE Steady
  BY <1>1 DEF Steady, Families
<1>2. CASE Joins
  BY <1>2 DEF Joins, Families
<1>3. CASE Begins
  BY <1>3 DEF Begins, Families
<1>4. ASSUME NEW p \in Procs, Dies(p)
      PROVE  Families'
  <2>1. parent'[Sup] = Caller
    BY <1>4 DEF Dies, Ends, Families
  <2>2. ASSUME NEW q \in Others, q \in Existing'
        PROVE  \/ Alive(q)' /\ parent'[q] = Outside
               \/ parent'[q] \in Procs \ {q} /\ Alive(parent[q])'
    <3>1. q \in Existing
      BY <1>4, <2>2 DEF Dies, Ends
    <3>. parent \in [Procs -> Procs \union {Caller,
       Outside}] /\ q \in Procs /\ q # Sup
      OBVIOUS
    <3>. proc'[q] \in {"run", "stop", "dead"}
      BY <2>2
    <3>. HIDE DEF Existing
    <3>5. \/ Alive(q) /\ parent[q] = Outside
          \/ parent[q] \in Procs \ {q} /\ Alive(parent[q])
      BY <3>1 DEF Families
    <3>2. CASE q = p
      BY <1>4, <2>2, <3>1, <3>5, <3>2 DEF Dies, Ends
    <3>3. CASE q # p /\ parent[q] # p
      BY <1>4, <2>2, <3>1, <3>5, <3>3 DEF Dies, Ends
    <3>4. CASE q # p /\ parent[q] = p
      <4>1. parent'[q] = Adopter(p) /\ (Adopter(p) = Outside => Alive(q)')
        BY <1>4, <2>2, <3>1, <3>5, <3>4 DEF Dies, Ends
      <4>2. Adopter(p) = Sup => p # Sup /\ Alive(Sup)'
        BY <1>4 DEF Adopter, Dies, Ends
      <4>. QED  BY <4>1, <4>2 DEF Adopter
    <3>. QED  BY <3>2, <3>3, <3>4
  <2>. QED  BY <2>1, <2>2 DEF Families
<1>5. ASSUME NEW p \in Procs, NEW k \in Procs, Born(p, k)
      PROVE  Families'
  BY <1>5 DEF Born, Families
<1>. QED  BY <1>1, <1>2, <1>3, <1>4, <1>5 DEF Kinds

LEMMA LivingStep ==
    ASSUME TypeOK, KernelOK', Living, Fresh, Kinds
    PROVE  Living'
<1>. USE ProcsAssumption DEF Procs, Others, TypeOK, KernelOK, Living, Alive,
   Existing
<1>1. CASE Steady
  BY <1>1 DEF Steady
<1>2. CASE Joins
  BY <1>2 DEF Joins
<1>3. CASE Begins
  BY <1>3 DEF Begins, Fresh, NewSup
<1>4. ASSUME NEW p \in Procs, Dies(p)
      PROVE  Living'
  BY <1>4 DEF Dies, Ends, NewSup
<1>5. ASSUME NEW p \in Procs, NEW k \in Procs, Born(p, k)
      PROVE  Living'
  BY <1>5 DEF Born
<1>. QED  BY <1>1, <1>2, <1>3, <1>4, <1>5 DEF Kinds

LEMMA NeverCalledAgain ==
    ASSUME TypeOK, Living, Fresh, Next
    PROVE  ~At("call")'
<1>. SUFFICES ASSUME At("call")'
              PROVE  FALSE
  OBVIOUS
<1>. USE DEF At, Goto, CancelSteps
<1>1. CASE UNCHANGED call
  <2>1. At("call") /\ \A p \in Procs : proc[p] = "none" /\ p \notin doomed
    BY <1>1 DEF Fresh, Living, Alive
  <2>2. CASE Read \/ Stray \/ Killed \/ SupNext
    BY <2>1, <2>2 DEF Read, Stray, Killed, SupNext, SupJoins, SupFails,
       SupStarts,
       SupCannotStart, SupWatches, SupSeesExit, SupHolds, SupSweeps,
       SupGraceEnds,
       SupTells, SupExits, Running, Alive, Procs
  <2>3. CASE \E p \in Procs : Die(p) \/ Exit(p) \/ Output(p) \/ \E k \in Kids : Fork(p, k)
    BY <2>1, <2>3 DEF Die, Exit, Output, Fork, Running
  <2>4. CASE Interrupted \/ Returned
    BY <2>1, <2>4 DEF Interrupted, Returned
  <2>5. CASE Refuse \/ Spawn \/ SpawnFails
    BY <2>5 DEF Refuse, Spawn, SpawnFails, TypeOK, CallRecord
  <2>6. CASE CallerNext /\ ~(Refuse \/ Spawn \/ SpawnFails)
    BY <2>1, <2>6 DEF CallerNext, Enrolled, NotEnrolled, Wire, Watched, GivesUp,
       Finally, Contains, Terminate, AwaitEnd, KillGroup, RemoveGroup,
       GroupStays, Last, Stop, Snapshot, Freeze, FreezeLate, Slay, Slain, Judge
  <2>. QED  BY <2>2, <2>3, <2>4, <2>5, <2>6 DEF Next
<1>2. \A ok \in BOOLEAN : Cancelled(ok).pc # "call"
  BY DEF Cancelled, TypeOK, CallRecord
<1>3. ToTree.pc # "call"
  BY <1>2 DEF ToTree, TypeOK, CallRecord
<1>. USE DEF TypeOK, CallRecord
<1>4. CASE Refuse \/ Spawn
  BY <1>4 DEF Refuse, Spawn
<1>5. CASE SpawnFails \/ Enrolled \/ NotEnrolled \/ Wire \/ Interrupted
  BY <1>5 DEF SpawnFails, Enrolled, NotEnrolled, Wire, Interrupted
<1>6. CASE Watched \/ GivesUp \/ Finally \/ Terminate \/ AwaitEnd \/ KillGroup
  BY <1>6 DEF Watched, GivesUp, Finally, Terminate, AwaitEnd, KillGroup
<1>7. CASE RemoveGroup \/ GroupStays \/ Contains \/ Last
  BY <1>2, <1>3, <1>7 DEF RemoveGroup, GroupStays, GroupDone, Contains, Last
<1>8. CASE Stop \/ Snapshot \/ Freeze \/ FreezeLate \/ Slay
  BY <1>8 DEF Stop, Snapshot, Freeze, FreezeLate, Slay
<1>9. CASE Slain
  BY <1>2, <1>9 DEF Slain, TreeOK
<1>10. CASE Judge
  BY <1>10 DEF Judge, NewCall
<1>11. CASE Returned \/ SupNext \/ Stray \/ Killed \/ Read
  BY <1>1, <1>11 DEF Returned, SupNext, SupJoins, SupFails, SupStarts,
     SupCannotStart, SupWatches, SupSeesExit, SupHolds, SupSweeps, SupGraceEnds,
     SupTells, SupExits, Stray, Killed, vars, Read
<1>12. CASE \E p \in Procs : Die(p) \/ Exit(p) \/ Output(p) \/ \E k \in Kids : Fork(p, k)
  BY <1>1, <1>12 DEF Die, Exit, Output, Fork
<1>. QED  BY <1>4, <1>5, <1>6, <1>7, <1>8, <1>9, <1>10, <1>11, <1>12
          DEF Next, CallerNext

LEMMA GoneStays ==
    ASSUME TypeOK, Living, Kinds, proc[Sup] = "gone"
    PROVE  proc'[Sup] = "gone"
<1>. QED
BY ProcsAssumption DEF Kinds, Steady, Joins, Begins, Dies, Born, Ends, Procs,
   TypeOK, KernelOK, Living, Alive

LEMMA ProgressStep ==
    ASSUME TypeOK, Living, Fresh, Progress, Next, Kinds
    PROVE  Progress'
<1>. USE DEF At, Goto, CancelSteps, Progress, PastTry, TypeOK
<1>1. proc[Sup] = "gone" => proc'[Sup] = "gone"
  BY GoneStays
<1>2. removed => removed'
  BY DEF Kinds, Steady, Joins, Begins, Dies, Born, Ends
<1>3. CASE UNCHANGED <<call, tree>>
  BY <1>1, <1>2, <1>3
<1>4. CASE Refuse
  BY <1>4 DEF Refuse, CallRecord, Fresh, NewCall
<1>5. CASE Spawn
  <2>1. call = NewCall
    BY <1>5 DEF Spawn, Fresh
  <2>2. call' \in {[NewCall EXCEPT !.pc = "enroll", !.known = TRUE,
                                   !.ident = TRUE],
                   [NewCall EXCEPT !.pc = "finally", !.known = TRUE,
                                   !.setup = TRUE],
                   [NewCall EXCEPT !.pc = "finally", !.cut = TRUE]}
    BY <1>5, <2>1 DEF Spawn
  <2>3. CASE call' = [NewCall EXCEPT !.pc = "enroll", !.known = TRUE,
                                     !.ident = TRUE]
    BY <2>3 DEF NewCall
  <2>4. CASE call' = [NewCall EXCEPT !.pc = "finally", !.known = TRUE,
                                     !.setup = TRUE]
    BY <2>4 DEF NewCall
  <2>5. CASE call' = [NewCall EXCEPT !.pc = "finally", !.cut = TRUE]
    BY <2>5 DEF NewCall
  <2>. QED  BY <2>2, <2>3, <2>4, <2>5
<1>6. CASE SpawnFails
  BY <1>6 DEF SpawnFails, CallRecord, Fresh, NewCall
<1>7. CASE Enrolled
  BY <1>7, <1>2 DEF Enrolled, CallRecord, Quietly, kernel
<1>8. CASE NotEnrolled
  BY <1>8, <1>2 DEF NotEnrolled, CallRecord, Quietly, kernel
<1>9. CASE Wire
  BY <1>9, <1>2 DEF Wire, CallRecord, Quietly, kernel
<1>10. CASE Watched
  BY <1>10, <1>2 DEF Watched, CallRecord, Waits
<1>11. CASE GivesUp
  BY <1>11, <1>2 DEF GivesUp, CallRecord, Waits
<1>12. CASE Finally
  <2>1. CASE call.known /\ ~Over
    BY <1>12, <1>2, <2>1 DEF Finally, CallRecord, Waits
  <2>2. CASE call.known /\ Over
    BY <1>12, <1>2, <2>2 DEF Finally, CallRecord, Waits, Reap, Over, KernelOK,
       Procs
  <2>3. CASE ~call.known
    BY <1>12, <1>2, <2>3 DEF Finally, CallRecord, Quietly
  <2>. QED  BY <2>1, <2>2, <2>3
<1>13. ASSUME NEW ok \in BOOLEAN, call' = Cancelled(ok),
   ok => proc'[Sup] = "gone",
              call.pc \in CancelSteps
       PROVE  Progress'
  BY <1>1, <1>2, <1>13 DEF Cancelled, CallRecord
<1>14. ASSUME call' = ToTree, call.pc \in CancelSteps
       PROVE  Progress'
  <2>1. CASE call.ident
    BY <1>2, <1>14, <2>1 DEF ToTree, CallRecord
  <2>2. CASE ~call.ident
    BY <1>13, <1>14, <2>2 DEF ToTree
  <2>. QED  BY <2>1, <2>2
<1>15. CASE Contains
  BY <1>2, <1>14, <1>15 DEF Contains, CallRecord
<1>16. CASE Terminate
  BY <1>2, <1>16 DEF Terminate, CallRecord
<1>17. CASE AwaitEnd
  BY <1>2, <1>17 DEF AwaitEnd, CallRecord
<1>18. CASE KillGroup
  BY <1>2, <1>18 DEF KillGroup, CallRecord
<1>19. CASE RemoveGroup
  BY <1>1, <1>2, <1>14, <1>19 DEF RemoveGroup, GroupDone, CallRecord
<1>20. CASE GroupStays
  BY <1>1, <1>2, <1>14, <1>20 DEF GroupStays, GroupDone, CallRecord
<1>21. CASE Last
  <2>1. Over => proc'[Sup] = "gone"
    BY <1>21 DEF Last, Over, Waits, Reap, KernelOK, Procs
  <2>. QED  BY <1>13, <1>14, <1>21, <2>1 DEF Last
<1>22. CASE Stop
  BY <1>2, <1>22 DEF Stop, NoTree, CallRecord
<1>23. CASE Snapshot
  BY <1>2, <1>23 DEF Snapshot, TreeOK, CallRecord
<1>24. CASE Freeze
  BY <1>2, <1>24 DEF Freeze, TreeOK, CallRecord
<1>25. CASE FreezeLate \/ Slay
  BY <1>2, <1>25 DEF FreezeLate, Slay, CallRecord
<1>26. CASE Slain
  <2>1. Over => proc'[Sup] = "gone"
    BY <1>26 DEF Slain, Over, Waits, Reap, KernelOK, Procs
  <2>2. tree.ok \in BOOLEAN
    BY DEF TreeOK
  <2>. QED  BY <1>13, <1>26, <2>1, <2>2 DEF Slain
<1>27. CASE Judge
  BY <1>1, <1>2, <1>27 DEF Judge, NewCall, CallRecord
<1>28. CASE Interrupted
  BY <1>1, <1>2, <1>28 DEF Interrupted, CallRecord
<1>29. CASE Returned \/ SupNext \/ Stray \/ Killed \/ Read
  BY <1>3, <1>29 DEF Returned, SupNext, SupJoins, SupFails, SupStarts,
     SupCannotStart, SupWatches,
     SupSeesExit, SupHolds, SupSweeps, SupGraceEnds, SupTells, SupExits,
     Stray, Killed, 
     vars, Read
<1>30. CASE \E p \in Procs : Die(p) \/ Exit(p) \/ Output(p) \/ \E k \in Kids : Fork(p, k)
  BY <1>3, <1>30 DEF Die, Exit, Output, Fork
<1>. QED  BY <1>4, <1>5, <1>6, <1>7, <1>8, <1>9, <1>10, <1>11, <1>12, <1>15,
   <1>16,
              <1>17, <1>18, <1>19, <1>20, <1>21, <1>22, <1>23, <1>24, <1>25,
                 <1>26,
              <1>27, <1>28, <1>29, <1>30 DEF Next, CallerNext

LEMMA Ending ==
    ASSUME TypeOK, Next, At("done")'
    PROVE  (At("done") /\ call' = call) \/ Judge \/ Refuse
<1>. USE DEF At, Goto, CancelSteps, TypeOK
<1>1. CASE UNCHANGED call
  BY <1>1
<1>2. \A ok \in BOOLEAN : Cancelled(ok).pc # "done"
  BY DEF Cancelled, CallRecord
<1>3. ToTree.pc # "done"
  BY <1>2 DEF ToTree, CallRecord
<1>4. CASE Spawn
  BY <1>4 DEF Spawn, CallRecord
<1>5. CASE SpawnFails \/ Enrolled \/ NotEnrolled \/ Wire \/ Interrupted
  BY <1>5 DEF SpawnFails, Enrolled, NotEnrolled, Wire, Interrupted, CallRecord
<1>6. CASE Watched \/ GivesUp \/ Finally \/ Terminate \/ AwaitEnd \/ KillGroup
  BY <1>6 DEF Watched, GivesUp, Finally, Terminate, AwaitEnd, KillGroup,
     CallRecord
<1>7. CASE RemoveGroup \/ GroupStays \/ Contains \/ Last
  BY <1>2, <1>3, <1>7 DEF RemoveGroup, GroupStays, GroupDone, Contains, Last,
     CallRecord
<1>8. CASE Stop \/ Snapshot \/ Freeze \/ FreezeLate \/ Slay
  BY <1>8 DEF Stop, Snapshot, Freeze, FreezeLate, Slay, CallRecord
<1>9. CASE Slain
  BY <1>2, <1>9 DEF Slain, TreeOK
<1>10. CASE Returned \/ SupNext \/ Stray \/ Killed \/ Read
  BY <1>1, <1>10 DEF Returned, SupNext, SupJoins, SupFails, SupStarts,
     SupCannotStart, SupWatches,
     SupSeesExit, SupHolds, SupSweeps, SupGraceEnds, SupTells, SupExits,
     Stray, Killed, 
     vars, Read
<1>11. CASE \E p \in Procs : Die(p) \/ Exit(p) \/ Output(p) \/ \E k \in Kids : Fork(p, k)
  BY <1>1, <1>11 DEF Die, Exit, Output, Fork
<1>. QED  BY <1>4, <1>5, <1>6, <1>7, <1>8, <1>9, <1>10, <1>11 DEF Next,
   CallerNext

LEMMA NoneStays ==
    ASSUME TypeOK, KernelOK', NoneLeft, ~At("call"), Kinds
    PROVE  NoneLeft'
<1>. USE DEF TypeOK, KernelOK, NoneLeft, Alive, Procs
<1>1. Steady
  BY DEF Kinds, Joins, Begins, Dies, Born
<1>. QED  BY <1>1 DEF Steady, Existing

LEMMA ProvenNone ==
    ASSUME TypeOK, Families, Living, Progress, At("judge"), CleanupProved
    PROVE  NoneLeft
<1>. USE DEF TypeOK, KernelOK
<1>1. proc[Sup] = "gone" /\ cgroup = {}
  BY DEF CleanupProved, Progress, Living, PastTry, At
<1>2. \A p \in Procs : ~Alive(p)
  BY <1>1 DEF Living, Others, Alive, Procs
<1>. QED  BY <1>1, <1>2 DEF Families, Others, Existing, Alive, NoneLeft

LEMMA CleanStep ==
    ASSUME TypeOK, KernelOK', Families, Living, Fresh, Progress, ProvenClean,
    Next, Kinds
    PROVE  ProvenClean'
<1>. SUFFICES ASSUME At("done")', call'.outcome # "cleanup_error"
              PROVE  NoneLeft'
  BY DEF ProvenClean
<1>1. CASE At("done") /\ call' = call
  BY <1>1, NoneStays DEF ProvenClean, At
<1>2. CASE Refuse
  BY <1>2 DEF Refuse, Fresh, Quietly, kernel, NoneLeft
<1>3. CASE Judge
  <2>1. Verdict # "cleanup_error"
    BY <1>3 DEF Judge, NewCall
  <2>. QED  BY <1>3, <2>1, ProvenNone DEF Judge, Verdict, Quietly, kernel,
     NoneLeft
<1>. QED  BY <1>1, <1>2, <1>3, Ending

-------------------------------------------------------------------------------
(* What is told of the target is true.                                     *)

LEMMA CallFacts ==
    ASSUME TypeOK, Next
    PROVE  /\ At("done") => call' = call
           /\ call.tried /\ ~At("call") => call'.tried \/ At("done")'
<1>. USE DEF At, Goto, CancelSteps, TypeOK
<1>1. CASE UNCHANGED call
  BY <1>1
<1>2. \A ok \in BOOLEAN : Cancelled(ok).tried = call.tried
  BY DEF Cancelled, CallRecord
<1>3. ToTree.tried = call.tried
  BY <1>2 DEF ToTree, CallRecord
<1>4. CASE Spawn
  BY <1>4 DEF Spawn, CallRecord
<1>5. CASE Refuse \/ SpawnFails \/ Enrolled \/ NotEnrolled \/ Wire \/ Interrupted
  BY <1>5 DEF Refuse, SpawnFails, Enrolled, NotEnrolled, Wire, Interrupted,
     CallRecord
<1>6. CASE Watched \/ GivesUp \/ Finally \/ Terminate \/ AwaitEnd \/ KillGroup
  BY <1>6 DEF Watched, GivesUp, Finally, Terminate, AwaitEnd, KillGroup,
     CallRecord
<1>7. CASE RemoveGroup \/ GroupStays \/ Contains \/ Last
  BY <1>2, <1>3, <1>7 DEF RemoveGroup, GroupStays, GroupDone, Contains, Last,
     CallRecord
<1>8. CASE Stop \/ Snapshot \/ Freeze \/ FreezeLate \/ Slay
  BY <1>8 DEF Stop, Snapshot, Freeze, FreezeLate, Slay, CallRecord
<1>9. CASE Slain
  BY <1>2, <1>9 DEF Slain, TreeOK
<1>12. CASE Judge
  BY <1>12 DEF Judge, NewCall
<1>10. CASE Returned \/ SupNext \/ Stray \/ Killed \/ Read
  BY <1>1, <1>10 DEF Returned, SupNext, SupJoins, SupFails, SupStarts,
     SupCannotStart, SupWatches,
     SupSeesExit, SupHolds, SupSweeps, SupGraceEnds, SupTells, SupExits,
     Stray, Killed, 
     vars, Read
<1>11. CASE \E p \in Procs : Die(p) \/ Exit(p) \/ Output(p) \/ \E k \in Kids : Fork(p, k)
  BY <1>1, <1>11 DEF Die, Exit, Output, Fork
<1>. QED  BY <1>4, <1>5, <1>6, <1>7, <1>8, <1>9, <1>10, <1>11, <1>12 DEF Next,
   CallerNext

\* What the report may be wrong about: the supervisor was cancelled.
Excused == call.tried \/ stray \/ At("done")

LEMMA ExcusedStep ==
    ASSUME TypeOK, Fresh, Progress, Excused, Next
    PROVE  Excused'
<1>. USE DEF At, Excused
<1>1. CASE stray' = stray
  <2>1. ~At("call") \/ stray
    BY DEF Fresh, NewCall
  <2>. QED  BY <1>1, <2>1, CallFacts
<1>2. CASE Contains
  BY <1>2, CallFacts DEF Contains, Progress, CancelSteps
<1>3. CASE Stray
  BY <1>3 DEF Stray
<1>4. CASE
        \/ Refuse \/ Spawn \/ SpawnFails \/ Enrolled \/ NotEnrolled \/ Wire
        \/ Watched \/ GivesUp \/ Finally \/ Terminate \/ AwaitEnd
        \/ KillGroup \/ RemoveGroup \/ GroupStays \/ Last \/ Stop \/ Snapshot
        \/ Freeze \/ FreezeLate \/ Slay \/ Slain \/ Judge
        \/ Interrupted \/ Returned
  BY <1>1, <1>4 DEF Refuse, Spawn, SpawnFails, Enrolled, NotEnrolled, Wire,
     Watched, GivesUp, Finally, Terminate, AwaitEnd, KillGroup,
     RemoveGroup, GroupStays, Last, Stop, Snapshot, Freeze, FreezeLate, Slay,
     Slain, Judge, Interrupted, Returned, vars, Waits, Quietly, Apart
<1>5. CASE SupNext \/ Killed \/ Read
  BY <1>1, <1>5 DEF SupNext, SupJoins, SupFails, SupStarts, SupCannotStart,
     SupWatches, SupSeesExit, SupHolds, SupSweeps, SupGraceEnds, SupTells,
     SupExits, Killed, Read
<1>6. CASE \E p \in Procs : Die(p) \/ Exit(p) \/ Output(p) \/ \E k \in Kids : Fork(p, k)
  BY <1>1, <1>6 DEF Die, Exit, Output, Fork
<1>. QED  BY <1>2, <1>3, <1>4, <1>5, <1>6 DEF Next, CallerNext

LEMMA EndedStep ==
    ASSUME TypeOK, KernelOK', Living, Fresh, Progress, Ended, Next
    PROVE  Ended'
<1>. USE ProcsAssumption DEF Procs, Ended, Alive, Running, TypeOK, SupOK,
   KernelOK, PipesOK
<1>1. CASE \E p \in Procs : Die(p) \/ Exit(p)
  <2>1. PICK p \in Procs : Alive(p) /\ Ends(p) /\ UNCHANGED <<call, report,
     stray>>
                           /\ IF p = Target THEN code' \in {"zero",
                           "fail"} ELSE code' = code
    BY <1>1 DEF Die, Exit, Living
  <2>2. CASE p = Target
    BY <2>1, <2>2 DEF Ends, At, NewSup
  <2>3. CASE p # Target
    BY <2>1, <2>3 DEF Ends, At, NewSup
  <2>. QED  BY <2>2, <2>3
<1>2. CASE SupExits
  BY <1>2 DEF SupExits, Ends, NewSup, At, pipes
<1>3. CASE SupStarts
  BY <1>3 DEF SupStarts, Forked, At, pipes
<1>4. CASE \E p \in Procs, k \in Kids : Fork(p, k)
  BY <1>4 DEF Fork, Forked, At, pipes
<1>5. CASE SupJoins
  BY <1>5 DEF SupJoins, At, pipes
<1>6. CASE Spawn
  BY <1>6 DEF Spawn, At, pipes, Apart, Fresh, NewSup, NewCall
<1>7. CASE ~Moves /\ UNCHANGED <<sup, code, report>>
  <2>1. Steady
    BY <1>7, SteadyStep
  <2>2. Excused => Excused'
    BY ExcusedStep
  <2>. QED  BY <1>7, <2>1, <2>2 DEF Steady, Excused
<1>8. CASE ~Moves /\ SupFails
  BY <1>8, SteadyStep DEF SupFails, Reports, Steady, At
<1>9. CASE ~Moves /\ SupCannotStart
  BY <1>9, SteadyStep DEF SupCannotStart, Reports, Steady, At
<1>10. CASE ~Moves /\ SupWatches
  BY <1>10, SteadyStep DEF SupWatches, Steady, At, pipes
<1>11. CASE ~Moves /\ SupSeesExit
  BY <1>11, SteadyStep DEF SupSeesExit, Steady, At, pipes
<1>12. CASE ~Moves /\ SupHolds
  BY <1>12, SteadyStep DEF SupHolds, Steady, At, pipes
<1>13. CASE ~Moves /\ SupSweeps
  BY <1>13, SteadyStep DEF SupSweeps, Steady, At, pipes
<1>14. CASE ~Moves /\ SupGraceEnds
  <2>1. CASE sup.phase = "term"
    BY <1>14, <2>1, SteadyStep DEF SupGraceEnds, Steady, At, pipes
  <2>2. CASE sup.phase # "term"
    <3>1. /\ sup' = [sup EXCEPT !.step = "tell",
                                !.cleaned = Unreaped(sup.tracked) = {}]
          /\ sup.step = "clean" /\ UNCHANGED <<call, code, report, stray>>
      BY <1>14, <2>2 DEF SupGraceEnds, pipes
    <3>2. sup'.step = "tell" /\ sup'.rc = sup.rc /\ sup'.cancelled = sup.cancelled
      BY <3>1
    <3>. QED  BY <1>14, <3>1, <3>2, SteadyStep DEF Steady, At
  <2>. QED  BY <2>1, <2>2
<1>15. CASE ~Moves /\ SupTells
  BY <1>15, SteadyStep DEF SupTells, Reports, Steady, At
<1>16. CASE ~Moves /\ Stray
  BY <1>16, SteadyStep DEF Stray, Steady, At, pipes
<1>17. CASE ~Moves /\ Terminate
  <2>1. call'.tried
    BY <1>17 DEF Terminate, Progress, CancelSteps, CallRecord, At, Goto
  <2>. QED  BY <1>17, <2>1, SteadyStep DEF Terminate, Steady, pipes
<1>18. CASE ~Moves /\ (\/ Refuse \/ SpawnFails \/ Enrolled \/ NotEnrolled \/ Wire
        \/ Watched \/ GivesUp \/ Finally \/ Contains \/ AwaitEnd
        \/ KillGroup \/ RemoveGroup \/ GroupStays \/ Last \/ Stop \/ Snapshot
        \/ Freeze \/ FreezeLate \/ Slay \/ Slain \/ Judge
        \/ Interrupted \/ Returned \/ Killed \/ Read \/ \E p \in Procs : Output(p))
  <2>1. UNCHANGED <<sup, code, report>>
    BY <1>18 DEF Refuse, SpawnFails, Enrolled, NotEnrolled, Wire,
       Watched, GivesUp, Finally, Contains, AwaitEnd, KillGroup, RemoveGroup,
       GroupStays,
       Last, Stop, Snapshot, Freeze, FreezeLate, Slay, Slain, Judge,
       Interrupted,
       Returned, vars, Waits, Quietly, Apart, pipes, Killed, Read, Output
  <2>. QED  BY <1>7, <1>18, <2>1
<1>. QED  BY <1>1, <1>2, <1>3, <1>4, <1>5, <1>6, <1>8, <1>9, <1>10, <1>11,
   <1>12,
              <1>13, <1>14, <1>15, <1>16, <1>17, <1>18
          DEF Next, CallerNext, SupNext, Moves

LEMMA WatchingStep ==
    ASSUME TypeOK, KernelOK', Living, Fresh, Progress, Watching, Next
    PROVE  Watching'
<1>. USE DEF At, Goto, CancelSteps, Watching, PastTry, Tail, Undisturbed, TypeOK
<1>1. CASE UNCHANGED call
  <2>1. CASE call.pc \notin Tail
    BY <1>1, <2>1
  <2>2. CASE call.pc \in Tail /\ Undisturbed
    <3>1. proc'[Sup] = "gone"
      BY <2>2, StepKinds, GoneStays
    <3>2. taken' = taken /\ out' = out /\ (holds = {} => holds' = {})
      <4>1. CASE Interrupted \/ Returned \/ Stray \/ Killed \/ Read
        BY <2>2, <4>1 DEF Interrupted, Returned, Stray, Killed, Read, vars,
           kernel, pipes, Quietly, Apart
      <4>2. CASE SupNext
        BY <2>2, <4>2 DEF SupNext, SupJoins, SupFails, SupStarts,
           SupCannotStart,
           SupWatches, SupSeesExit, SupHolds, SupSweeps, SupGraceEnds, SupTells,
           SupExits, Running
      <4>3. CASE \E p \in Procs : Die(p) \/ Exit(p) \/ Output(p) \/ \E k \in Kids : Fork(p, k)
        BY <2>2, <4>3 DEF Die, Exit, Output, Fork, Forked, Ends, pipes
      <4>4. CASE CallerNext
        BY <1>1, <2>2, <4>4 DEF CallerNext, Refuse, Spawn, SpawnFails,
           Enrolled, NotEnrolled,
           Wire, Watched, GivesUp, Finally, Contains, Terminate, AwaitEnd,
           KillGroup,
           RemoveGroup, GroupStays, Last, Stop, Snapshot, Freeze, FreezeLate,
           Slay, Slain,
           Judge, Quietly, Waits, Apart, kernel, pipes
      <4>. QED  BY <4>1, <4>2, <4>3, <4>4 DEF Next
    <3>. QED  BY <1>1, <2>2, <3>1, <3>2 DEF Exceeded
  <2>. QED  BY <1>1, <2>1, <2>2
<1>2. CASE Refuse
  BY <1>2 DEF Refuse, CallRecord
<1>3. CASE Spawn
  <2>1. call = NewCall
    BY <1>3 DEF Spawn, Fresh
  <2>2. CASE call' = [NewCall EXCEPT !.pc = "enroll", !.known = TRUE,
                                     !.ident = TRUE]
    BY <2>2 DEF NewCall
  <2>3. CASE call' = [NewCall EXCEPT !.pc = "finally", !.known = TRUE,
                                     !.setup = TRUE]
    BY <2>3 DEF NewCall
  <2>4. CASE call' = [NewCall EXCEPT !.pc = "finally", !.cut = TRUE]
    BY <2>4 DEF NewCall
  <2>. QED  BY <1>3, <2>1, <2>2, <2>3, <2>4 DEF Spawn
<1>4. CASE SpawnFails \/ Enrolled
  <2>1. CASE SpawnFails
    BY <2>1 DEF SpawnFails, CallRecord
  <2>2. CASE Enrolled
    BY <2>2 DEF Enrolled, CallRecord
  <2>. QED  BY <1>4, <2>1, <2>2
<1>5. CASE NotEnrolled
  BY <1>5 DEF NotEnrolled, CallRecord
<1>6. CASE Wire
  BY <1>6 DEF Wire, CallRecord
<1>7. CASE Watched
  <2>1. proc'[Sup] = "gone"
    BY <1>7 DEF Watched, Waits, Reap, Over, KernelOK, Procs
  <2>2. taken' = taken /\ out' = out /\ holds' = holds
    BY <1>7 DEF Watched, Waits, Apart, pipes
  <2>. QED  BY <1>7, <2>1, <2>2 DEF Watched, WorkersDone, Exceeded, CallRecord
<1>8. CASE GivesUp
  BY <1>8 DEF GivesUp, CallRecord
<1>9. CASE Finally
  <2>1. CASE call.known /\ ~Over
    BY <1>9, <2>1 DEF Finally, Over, CallRecord
  <2>2. CASE ~(call.known /\ ~Over)
    <3>1. call' = [call EXCEPT !.pc = "removal"]
      BY <1>9, <2>2 DEF Finally
    <3>2. taken' = taken /\ out' = out /\ holds' = holds
      BY <1>9 DEF Finally, Waits, Quietly, Apart, pipes, kernel
    <3>3. proc[Sup] = "gone" => proc'[Sup] = "gone"
      BY GoneStays, StepKinds
    <3>. QED  BY <1>9, <3>1, <3>2, <3>3 DEF Finally, Exceeded, CallRecord
  <2>. QED  BY <2>1, <2>2
<1>10. ASSUME NEW ok \in BOOLEAN, call' = Cancelled(ok), call.pc \in CancelSteps
       PROVE  Watching'
  BY <1>10 DEF Cancelled, CallRecord
<1>11. ASSUME call' = ToTree, call.pc \in CancelSteps
       PROVE  Watching'
  BY <1>10, <1>11 DEF ToTree, CallRecord
<1>12. CASE Contains
  BY <1>11, <1>12 DEF Contains, CallRecord
<1>13. CASE Terminate \/ AwaitEnd
  BY <1>13 DEF Terminate, AwaitEnd, CallRecord
<1>14. ASSUME NEW empty \in BOOLEAN, GroupDone(empty), call.pc \in {"kill",
   "killing"}
       PROVE  Watching'
  BY <1>11, <1>14 DEF GroupDone, CallRecord
<1>15. CASE KillGroup \/ RemoveGroup \/ GroupStays
  <2>1. CASE call.pc \in {"kill", "killing"}
    BY <1>14, <1>15, <2>1 DEF KillGroup, RemoveGroup, GroupStays, CallRecord
  <2>2. CASE call.pc \in {"removal", "removing"}
    <3>1. proc'[Sup] = proc[Sup] /\ taken' = taken /\ out' = out /\ holds' = holds
      BY <1>15 DEF KillGroup, RemoveGroup, GroupStays, Quietly, kernel, Apart,
         pipes
    <3>2. Goto("removing") \/ \E e \in BOOLEAN :
            call' = [call EXCEPT !.pc = "judge", !.emptied = e]
      BY <1>15, <2>2 DEF KillGroup, RemoveGroup, GroupStays, GroupDone
    <3>3. /\ call'.pc \in PastTry
          /\ call'.tried = call.tried /\ (Undisturbed' => Undisturbed)
      BY <3>2 DEF CallRecord
    <3>. QED  BY <2>2, <3>1, <3>3 DEF Exceeded
  <2>. QED  BY <1>15, <2>1, <2>2 DEF KillGroup, RemoveGroup, GroupStays
<1>16. CASE Last
  BY <1>10, <1>11, <1>16 DEF Last
<1>17. CASE Stop \/ Snapshot \/ Freeze \/ FreezeLate \/ Slay
  <2>1. \E pc \in {"snapshot", "freeze", "slay", "slain"} : Goto(pc)
    BY <1>17 DEF Stop, Snapshot, Freeze, FreezeLate, Slay
  <2>2. call.pc \in {"stop", "snapshot", "freeze", "slay"}
    BY <1>17 DEF Stop, Snapshot, Freeze, FreezeLate, Slay
  <2>. QED  BY <2>1, <2>2 DEF CallRecord
<1>18. CASE Slain
  BY <1>10, <1>18 DEF Slain, TreeOK
<1>19. CASE Judge
  BY <1>19 DEF Judge, NewCall
<1>20. CASE Interrupted
  BY <1>20 DEF Interrupted, CallRecord
<1>21. CASE Returned \/ SupNext \/ Stray \/ Killed \/ Read
  BY <1>1, <1>21 DEF Returned, SupNext, SupJoins, SupFails, SupStarts,
     SupCannotStart, SupWatches,
     SupSeesExit, SupHolds, SupSweeps, SupGraceEnds, SupTells, SupExits,
     Stray, Killed, 
     vars, Read
<1>22. CASE \E p \in Procs : Die(p) \/ Exit(p) \/ Output(p) \/ \E k \in Kids : Fork(p, k)
  BY <1>1, <1>22 DEF Die, Exit, Output, Fork
<1>. QED  BY <1>2, <1>3, <1>4, <1>5, <1>6, <1>7, <1>8, <1>9, <1>12, <1>13,
   <1>15, <1>16,
              <1>17, <1>18, <1>19, <1>20, <1>21, <1>22 DEF Next, CallerNext

LEMMA VerdictTrue ==
    ASSUME TypeOK, Families, Living, Progress, Ended, Watching, At("judge")
    PROVE  /\ Verdict = "result" =>
                  taken = out /\ out <= Limit /\ (code = "zero" \/ stray)
           /\ Verdict = "nonzero_exit" => code = "fail"
           /\ Verdict # "assertion"
<1>. SUFFICES ASSUME Verdict \in {"result", "nonzero_exit", "assertion"}
              PROVE  /\ Verdict = "result" =>
                            taken = out /\ out <= Limit /\ (code = "zero" \/ stray)
                     /\ Verdict = "nonzero_exit" => code = "fail"
                     /\ Verdict # "assertion"
  OBVIOUS
<1>1. CleanupProved /\ Undisturbed
  BY DEF Verdict, Undisturbed, TypeOK, CallRecord
<1>2. ~call.tried /\ (Exceeded \/ taken = out)
  BY <1>1 DEF Watching, Tail, PastTry, At
<1>3. Told
  BY <1>1, <1>2 DEF CleanupProved
<1>9. Verdict = IF ~report.startup THEN "startup_error"
                ELSE IF Exceeded THEN "limit"
                ELSE [none |-> "cleanup_error", fail |-> "nonzero_exit",
                      zero |-> "result"][report.rc]
  BY <1>1, <1>3 DEF Verdict, Undisturbed
<1>4. Verdict \in {"result", "nonzero_exit"} => ~Exceeded
  BY <1>9
<1>5. out <= Limit \/ Exceeded
  BY <1>2, LimitAssumption DEF Exceeded, TypeOK, PipesOK
<1>6. Verdict = "result" => report.rc = "zero"
  BY <1>9 DEF TypeOK, PipesOK
<1>7. Verdict = "nonzero_exit" => report.rc = "fail"
  BY <1>9 DEF TypeOK, PipesOK
<1>8. Verdict # "assertion"
  BY <1>9 DEF TypeOK, PipesOK
<1>. QED  BY <1>2, <1>4, <1>5, <1>6, <1>7, <1>8 DEF Ended, At

LEMMA OutcomeStep ==
    ASSUME TypeOK, KernelOK', Families, Living, Fresh, Progress, Ended,
    Watching,
           ProvenClean, OutcomeTrue, Next
    PROVE  OutcomeTrue'
<1>. SUFFICES ASSUME At("done")'
              PROVE  OutcomeTrue'
  BY DEF OutcomeTrue
<1>1. CASE At("done") /\ call' = call
  <2>1. CASE call.outcome \notin {"result", "nonzero_exit"}
    BY <1>1, <2>1 DEF OutcomeTrue
  <2>2. CASE call.outcome \in {"result", "nonzero_exit"}
    <3>1. NoneLeft
      BY <1>1, <2>2 DEF ProvenClean
    <3>2. taken' = taken /\ out' = out /\ code' = code /\ stray' = stray
      <4>. USE <1>1, <3>1 DEF At, NoneLeft, CancelSteps
      <4>1. CASE Interrupted \/ Returned \/ Stray \/ Killed \/ Read
        BY <4>1 DEF Interrupted, Returned, Stray, Killed, Read, vars, pipes,
           Quietly, Apart
      <4>2. CASE SupNext
        BY <4>2 DEF SupNext, SupJoins, SupFails, SupStarts, SupCannotStart,
           SupWatches, SupSeesExit, SupHolds, SupSweeps, SupGraceEnds, SupTells,
           SupExits, Running, Procs
      <4>3. CASE \E p \in Procs : Die(p) \/ Exit(p) \/ Output(p) \/ \E k \in Kids : Fork(p, k)
        BY <4>3 DEF Die, Exit, Output, Fork, Living, Alive, Running
      <4>4. CASE CallerNext
        BY <4>4 DEF CallerNext, Refuse, Spawn, SpawnFails, Enrolled,
           NotEnrolled,
           Wire, Watched, GivesUp, Finally, Contains, Terminate, AwaitEnd,
           KillGroup,
           RemoveGroup, GroupStays, Last, Stop, Snapshot, Freeze, FreezeLate,
           Slay, Slain,
           Judge
      <4>. QED  BY <4>1, <4>2, <4>3, <4>4 DEF Next
    <3>. QED  BY <1>1, <3>2 DEF OutcomeTrue
  <2>. QED  BY <2>1, <2>2
<1>2. CASE Refuse
  BY <1>2 DEF Refuse, OutcomeTrue, TypeOK, CallRecord
<1>3. CASE Judge
  BY <1>3, VerdictTrue DEF Judge, OutcomeTrue, NewCall, Quietly, Apart, pipes
<1>. QED  BY <1>1, <1>2, <1>3, Ending

-------------------------------------------------------------------------------
(* The theorems.                                                           *)

LEMMA Initially == Init => Inv
<1>. SUFFICES ASSUME Init
              PROVE  Inv
  OBVIOUS
<1>. USE ProcsAssumption DEF Init, Procs
<1>1. call \in CallRecord
  BY StepsFact, OutcomesFact DEF CallRecord, NewCall
<1>2. TreeOK
  BY DEF TreeOK, NoTree
<1>3. SupOK
  BY DEF SupOK, NewSup
<1>4. KernelOK
  BY DEF KernelOK
<1>5. PipesOK
  <2>1. out \in 0..(Limit + 1) /\ taken \in 0..out
    BY LimitAssumption
  <2>2. report \in [sent : BOOLEAN, startup : BOOLEAN, cleanup : BOOLEAN,
                   rc : {"none", "zero", "fail"}]
    OBVIOUS
  <2>. QED  BY <2>1, <2>2 DEF PipesOK
<1>6. Families /\ Living
  BY DEF Families, Living, Others, Existing, Alive, NewSup
<1>7. Fresh
  BY DEF Fresh
<1>8. Progress /\ Watching
  BY DEF Progress, Watching, PastTry, Tail, CancelSteps, At, NewCall,
     Undisturbed
<1>9. Ended
  BY DEF Ended, Alive, At, NewSup
<1>10. ProvenClean /\ OutcomeTrue
  BY DEF ProvenClean, OutcomeTrue, At, NewCall
<1>. QED  BY <1>1, <1>2, <1>3, <1>4, <1>5, <1>6, <1>7, <1>8, <1>9, <1>10
          DEF Inv, TypeOK

LEMMA Inductive == Inv /\ [Next]_vars => Inv'
<1>. SUFFICES ASSUME Inv, [Next]_vars
              PROVE  Inv'
  OBVIOUS
<1>1. CASE Next
  <2>. USE <1>1
  <2>1. TypeOK'
    BY CallType, TreeType, SupType, KernelType, PipesType DEF Inv, TypeOK
  <2>2. Kinds
    BY StepKinds DEF Inv
  <2>3. Fresh'
    BY NeverCalledAgain DEF Inv, Fresh
  <2>4. Families' /\ Living'
    BY <2>1, <2>2, FamiliesStep, LivingStep DEF Inv, TypeOK
  <2>5. Progress' /\ ProvenClean'
    BY <2>1, <2>2, ProgressStep, CleanStep DEF Inv, TypeOK
  <2>6. Ended' /\ Watching' /\ OutcomeTrue'
    BY <2>1, EndedStep, WatchingStep, OutcomeStep DEF Inv, TypeOK
  <2>. QED  BY <2>1, <2>3, <2>4, <2>5, <2>6 DEF Inv
<1>2. CASE UNCHANGED vars
  BY <1>2 DEF vars, kernel, pipes, Inv, TypeOK, TreeOK, SupOK, KernelOK,
     PipesOK, Families,
     Living, Others, Existing, Alive, Fresh, Progress, PastTry, Tail,
     CancelSteps, Ended,
     Watching, Undisturbed, Exceeded, ProvenClean, OutcomeTrue, NoneLeft, At
<1>. QED  BY <1>1, <1>2

\* The invariant the others follow from.
THEOREM SpecInv == Spec => []Inv
BY Initially, Inductive, PTL DEF Spec

\* The types, for every set of descendants and every limit.
THEOREM TypeCorrect == Spec => []TypeOK
<1>1. Inv => TypeOK
  BY DEF Inv
<1>. QED  BY <1>1, SpecInv, PTL

\* Whatever execute answers but cleanup_error, every process of the call is
\* gone and reaped, however many descendants there are and whoever forks whom
\* (subprocess_runner.py:706-741).
THEOREM CleanCorrect == Spec => []ProvenClean
<1>1. Inv => ProvenClean
  BY DEF Inv
<1>. QED  BY <1>1, SpecInv, PTL

\* A result is parsed from the whole output of a target that exited with 0, a
\* nonzero exit was one, and the asserted status is known
\* (subprocess_runner.py:757-823); a supervisor cancelled by others is excepted.
THEOREM OutcomeCorrect == Spec => []OutcomeTrue
<1>1. Inv => OutcomeTrue
  BY DEF Inv
<1>. QED  BY <1>1, SpecInv, PTL

===============================================================================
