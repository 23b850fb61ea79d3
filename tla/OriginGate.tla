------------------------------ MODULE OriginGate ------------------------------
(***************************************************************************)
(* The per-origin pacing and budget gate of                                *)
(* web_listening/blocks/access_gateway.py: the _OriginState of every exact *)
(* origin, and the two critical sections a request passes on its way out,  *)
(* _authorize_request and _start_authorized_request.                       *)
(*                                                                         *)
(* Authorizing reserves one budget unit and a paced slot; starting queues  *)
(* on a ticket, sleeps outside the lock until the slot is due, and         *)
(* re-validates everything that may have changed while it slept.  The two  *)
(* sections do not share one critical section, so authorizations of other  *)
(* threads, window rolls and failures interleave between them.             *)
(*                                                                         *)
(* Time is a natural number; one unit is the microsecond by which          *)
(* _causal_now separates an event from the one that caused it.  The clock  *)
(* never runs backwards and sleeping never returns early.                  *)
(***************************************************************************)
EXTENDS Integers

CONSTANTS
    Threads,      \* threads calling AccessGateway.request_with_context
    Origins,      \* exact origins the gateway is allowed to contact
    Pacing,       \* config.pacing_interval
    Window,       \* config.budget_window
    Limit,        \* config.budget_limit
    TTL,          \* config.policy_ttl
    Ages,         \* bound: how old a policy may be when it is presented
    Skew,         \* bound: how far a causal floor may lie ahead of the clock
    LastArrival,  \* bound: no authorization is requested after this time
    MaxTime       \* bound: the clock stops here

GateBounds ==
    /\ Pacing \in Nat
    /\ Window \in Nat \ {0}
    /\ Limit \in Nat \ {0}
    /\ TTL \in Nat \ {0}
    /\ Ages \subseteq Nat
    /\ Skew \in Nat
    /\ LastArrival \in Nat
    /\ MaxTime \in Nat

ASSUME GateAssumption == GateBounds

VARIABLES
    clock,  \* the gateway's clock
    gate,   \* gate[o]: the _OriginState of origin o
    step,   \* step[t]: where thread t stands
    auth,   \* auth[t]: the _Authorization thread t holds
    sent    \* sent[o]: history of the target requests started at o

vars == <<clock, gate, step, auth, sent>>

None == -1              \* an absent datetime
Time == Nat
NoAuth == [held |-> FALSE]

Policy == [observed : Time, expires : Time]

Gate == [window : Time \cup {None}, used : Nat,
         lastStarted : Time \cup {None}, lastReserved : Time \cup {None},
         nextTicket : Nat, serving : Nat, retired : SUBSET Nat]

Auth == [held : {TRUE}, origin : Origins, policy : Policy, reserved : Time,
         notBefore : Time, window : Time, slot : Nat,
         ticket : Nat \cup {None}, due : Time]

Send == [ticket : Nat, window : Time, slot : Nat, at : Time, real : Time]

(* A thread in "waiting" is blocked in condition.wait(); one in "queued"   *)
(* is about to compare its ticket; one in "sleeping" has passed the queue. *)
Steps == {"idle", "authorized", "queued", "waiting", "sleeping",
          "retiring"}

Ticketed == {"queued", "waiting", "sleeping", "retiring"}

TypeOK ==
    /\ clock \in Time
    /\ gate \in [Origins -> Gate]
    /\ step \in [Threads -> Steps]
    /\ auth \in [Threads -> Auth \cup {NoAuth}]
    /\ sent \in [Origins -> SUBSET Send]
    /\ \A t \in Threads : step[t] # "idle" => auth[t] \in Auth
    /\ \A t \in Threads :
            step[t] \in Ticketed => auth[t].ticket \in Nat

NewGate == [window |-> None, used |-> 0,
            lastStarted |-> None, lastReserved |-> None,
            nextTicket |-> 0, serving |-> 0, retired |-> {}]

Init ==
    /\ clock = 0
    /\ gate = [o \in Origins |-> NewGate]
    /\ step = [t \in Threads |-> "idle"]
    /\ auth = [t \in Threads |-> NoAuth]
    /\ sent = [o \in Origins |-> {}]

-------------------------------------------------------------------------------
(* Time and reservation arithmetic.                                        *)

Later(a, b) == IF a < b THEN b ELSE a

CausalNow(after) == IF clock <= after THEN after + 1 ELSE clock

Covers(pol, time) == pol.observed <= time /\ time <= pol.expires

InWindow(start, time) == start <= time /\ time < start + Window

\* The budget window rolls over at the first reservation past its end.
Rolled(g, now) ==
    IF g.window = None \/ now >= g.window + Window
    THEN [g EXCEPT !.window = now, !.used = 0]
    ELSE g

\* The earliest slot that keeps the pace behind every reserved or actual start.
PacedSlot(g, now) ==
    LET floor == Later(g.lastReserved, g.lastStarted)
    IN  IF floor = None THEN now ELSE Later(now, floor + Pacing)

\* One unit of the window and one slot are taken.
WithReservation(g, slot) ==
    [g EXCEPT !.used = g.used + 1, !.lastReserved = slot]

\* The first ticket from s on whose holder has not given up.
NextServing(s, retired, next) ==
    CHOOSE k \in s..next : k \notin retired /\ \A j \in s..(k-1) : j \in retired

\* Serving moves to s and then over every retired ticket.
ServeFrom(g, s) ==
    LET k == NextServing(s, g.retired, g.nextTicket)
    IN  [g EXCEPT !.serving = k, !.retired = g.retired \ (0..(k-1))]

\* Fault: the lock is left without notify_all().
NotifiedNobody(o) == step

\* condition.notify_all() at origin o.
Notified(o) ==
    [t \in Threads |->
        IF step[t] = "waiting" /\ auth[t].origin = o THEN "queued" ELSE step[t]]

-------------------------------------------------------------------------------
(* _authorize_request: one critical section.                               *)

Admissible(o, pol, now) ==
    LET g == Rolled(gate[o], now)
        slot == PacedSlot(g, now)
    IN  /\ Covers(pol, now)
        /\ g.used < Limit
        /\ slot <= pol.expires
        /\ InWindow(g.window, slot)

Authorize(t, o, pol, floor) ==
    LET now == CausalNow(floor)
        g == Rolled(gate[o], now)
        slot == PacedSlot(g, now)
    IN  /\ step[t] = "idle"
        /\ Admissible(o, pol, now)
        /\ gate' = [gate EXCEPT ![o] = WithReservation(g, slot)]
        /\ auth' = [auth EXCEPT ![t] =
                [held |-> TRUE, origin |-> o, policy |-> pol, reserved |-> now,
                 notBefore |-> slot, window |-> g.window, slot |-> g.used + 1,
                 ticket |-> None, due |-> slot]]
        /\ step' = [step EXCEPT ![t] = "authorized"]
        /\ UNCHANGED <<clock, sent>>

\* A rejection after the freshness test leaves the window rolled over.
Reject(t, o, pol, floor) ==
    LET now == CausalNow(floor)
    IN  /\ step[t] = "idle"
        /\ ~Admissible(o, pol, now)
        /\ gate' = IF Covers(pol, now)
                   THEN [gate EXCEPT ![o] = Rolled(gate[o], now)]
                   ELSE gate
        /\ UNCHANGED <<clock, step, auth, sent>>

\* Fault: the unit is given back when before_target_request raises.
AbandonRefunding(t) ==
    LET o == auth[t].origin
    IN  /\ step[t] = "authorized"
        /\ step' = [step EXCEPT ![t] = "idle"]
        /\ gate' = [gate EXCEPT ![o].used = gate[o].used - 1]
        /\ auth' = [auth EXCEPT ![t] = NoAuth]
        /\ UNCHANGED <<clock, sent>>

\* before_target_request raised: the reserved unit is not given back.
Abandon(t) ==
    /\ step[t] = "authorized"
    /\ step' = [step EXCEPT ![t] = "idle"]
    /\ auth' = [auth EXCEPT ![t] = NoAuth]
    /\ UNCHANGED <<clock, gate, sent>>

-------------------------------------------------------------------------------
(* _start_authorized_request: three critical sections and a sleep.         *)

\* Fault: the ticket is drawn and not kept.
TakeTicketUnkept(t) ==
    LET o == auth[t].origin
    IN  /\ step[t] = "authorized"
        /\ gate' = [gate EXCEPT ![o].nextTicket = gate[o].nextTicket + 1]
        /\ step' = [step EXCEPT ![t] = "queued"]
        /\ UNCHANGED <<clock, auth, sent>>

TakeTicket(t) ==
    LET o == auth[t].origin
    IN  /\ step[t] = "authorized"
        /\ auth' = [auth EXCEPT ![t].ticket = gate[o].nextTicket]
        /\ gate' = [gate EXCEPT ![o].nextTicket = gate[o].nextTicket + 1]
        /\ step' = [step EXCEPT ![t] = "queued"]
        /\ UNCHANGED <<clock, sent>>

AwaitTurn(t) ==
    /\ step[t] = "queued"
    /\ auth[t].ticket # gate[auth[t].origin].serving
    /\ step' = [step EXCEPT ![t] = "waiting"]
    /\ UNCHANGED <<clock, gate, auth, sent>>

\* Fault: a thread that runs goes on without comparing its ticket.
TakeTurnUnordered(t) ==
    /\ step[t] = "queued"
    /\ auth' = [auth EXCEPT ![t].due = auth[t].notBefore]
    /\ step' = [step EXCEPT ![t] = "sleeping"]
    /\ UNCHANGED <<clock, gate, sent>>

\* The slot is recomputed from the last actual start, then the lock is left.
TakeTurn(t) ==
    LET g == gate[auth[t].origin]
    IN  /\ step[t] = "queued"
        /\ auth[t].ticket = g.serving
        /\ auth' = [auth EXCEPT ![t].due =
                IF g.lastStarted = None
                THEN auth[t].notBefore
                ELSE Later(auth[t].notBefore, g.lastStarted + Pacing)]
        /\ step' = [step EXCEPT ![t] = "sleeping"]
        /\ UNCHANGED <<clock, gate, sent>>

StartTime(t) == CausalNow(Later(auth[t].reserved, auth[t].due))

\* Fault: the window is not looked at again after the sleep.
StillAuthorizedInAnyWindow(t) ==
    LET a == auth[t]
        at == StartTime(t)
    IN  /\ a.ticket = gate[a.origin].serving
        /\ at >= a.notBefore
        /\ at <= a.policy.expires

\* Fault: the policy's expiry is not looked at again after the sleep.
StillAuthorizedByAnyPolicy(t) ==
    LET a == auth[t]
        g == gate[a.origin]
        at == StartTime(t)
    IN  /\ a.ticket = g.serving
        /\ g.window = a.window
        /\ g.used >= a.slot
        /\ at >= a.notBefore
        /\ InWindow(a.window, at)

StillAuthorized(t) ==
    LET a == auth[t]
        g == gate[a.origin]
        at == StartTime(t)
    IN  /\ a.ticket = g.serving
        /\ g.window = a.window
        /\ g.used >= a.slot
        /\ at >= a.notBefore
        /\ at <= a.policy.expires
        /\ InWindow(a.window, at)

\* Fault: the actual start is not recorded for those behind.
StartUnrecorded(t) ==
    LET a == auth[t]
        o == a.origin
        at == StartTime(t)
    IN  /\ step[t] = "sleeping"
        /\ clock >= a.due
        /\ StillAuthorized(t)
        /\ gate' = [gate EXCEPT ![o] = ServeFrom(gate[o], gate[o].serving + 1)]
        /\ sent' = [sent EXCEPT ![o] = @ \cup
                {[ticket |-> a.ticket, window |-> a.window, slot |-> a.slot,
                  at |-> at, real |-> clock]}]
        /\ step' = [Notified(o) EXCEPT ![t] = "idle"]
        /\ auth' = [auth EXCEPT ![t] = NoAuth]
        /\ UNCHANGED clock

Start(t) ==
    LET a == auth[t]
        o == a.origin
        at == StartTime(t)
    IN  /\ step[t] = "sleeping"
        /\ clock >= a.due
        /\ StillAuthorized(t)
        /\ gate' = [gate EXCEPT ![o] =
                ServeFrom([gate[o] EXCEPT !.lastStarted = at],
                          gate[o].serving + 1)]
        /\ sent' = [sent EXCEPT ![o] = @ \cup
                {[ticket |-> a.ticket, window |-> a.window, slot |-> a.slot,
                  at |-> at, real |-> clock]}]
        /\ step' = [Notified(o) EXCEPT ![t] = "idle"]
        /\ auth' = [auth EXCEPT ![t] = NoAuth]
        /\ UNCHANGED clock

Refuse(t) ==
    /\ step[t] = "sleeping"
    /\ clock >= auth[t].due
    /\ ~StillAuthorized(t)
    /\ step' = [step EXCEPT ![t] = "retiring"]
    /\ UNCHANGED <<clock, gate, auth, sent>>

\* Cancellation, an interrupted sleep, or a progress() that lost its lease.
Interrupt(t) ==
    /\ step[t] \in {"queued", "waiting", "sleeping"}
    /\ step' = [step EXCEPT ![t] = "retiring"]
    /\ UNCHANGED <<clock, gate, auth, sent>>

\* Fault: the ticket is marked retired and never skipped.
RetireUnskipped(t) ==
    LET o == auth[t].origin
    IN  /\ step[t] = "retiring"
        /\ gate' = [gate EXCEPT ![o].retired = @ \cup {auth[t].ticket}]
        /\ step' = [Notified(o) EXCEPT ![t] = "idle"]
        /\ auth' = [auth EXCEPT ![t] = NoAuth]
        /\ UNCHANGED <<clock, sent>>

\* _retire_authorized_request
Retire(t) ==
    LET o == auth[t].origin
        g == gate[o]
        k == auth[t].ticket
    IN  /\ step[t] = "retiring"
        /\ IF k < g.serving
           THEN /\ gate' = gate
                /\ step' = [step EXCEPT ![t] = "idle"]
           ELSE /\ gate' = [gate EXCEPT ![o] =
                        ServeFrom([g EXCEPT !.retired = @ \cup {k}], g.serving)]
                /\ step' = [Notified(o) EXCEPT ![t] = "idle"]
        /\ auth' = [auth EXCEPT ![t] = NoAuth]
        /\ UNCHANGED <<clock, sent>>

Tick ==
    /\ clock < MaxTime
    /\ clock' = clock + 1
    /\ UNCHANGED <<gate, step, auth, sent>>

Quiet ==
    /\ clock = MaxTime
    /\ \A t \in Threads : step[t] = "idle"
    /\ UNCHANGED vars

-------------------------------------------------------------------------------
\* The policies a caller presents: observed in the past, one TTL long.
HeldPolicies ==
    {[observed |-> clock - age, expires |-> clock - age + TTL] :
        age \in {a \in Ages : a <= clock}}

CausalFloors == {None} \cup clock..(clock + Skew)

Arrive(t) ==
    /\ clock <= LastArrival
    /\ \E o \in Origins, pol \in HeldPolicies, floor \in CausalFloors :
            \/ Authorize(t, o, pol, floor)
            \/ Reject(t, o, pol, floor)

Advance(t) ==
    \/ TakeTicket(t)
    \/ AwaitTurn(t)
    \/ TakeTurn(t)
    \/ Start(t)
    \/ Refuse(t)
    \/ Retire(t)

Next ==
    \/ \E t \in Threads : Arrive(t)
    \/ \E t \in Threads : Abandon(t)
    \/ \E t \in Threads : Interrupt(t)
    \/ \E t \in Threads : Advance(t)
    \/ Tick
    \/ Quiet

Spec == Init /\ [][Next]_vars

\* Every thread that can run does, and time passes.
Fairness == WF_vars(Tick) /\ \A t \in Threads : WF_vars(Advance(t))

FairSpec == Spec /\ Fairness

-------------------------------------------------------------------------------
(* Properties.                                                             *)

\* Target requests of one origin leave in ticket order and at least one pacing
\* interval apart, both by the recorded request_started_at and by the clock,
\* although every thread computes its slot before it sleeps outside the lock.
FifoPaced ==
    \A o \in Origins : \A a, b \in sent[o] :
        /\ a.ticket = b.ticket => a = b
        /\ a.ticket < b.ticket =>
                /\ a.at + Pacing <= b.at
                /\ a.real + Pacing <= b.real

\* The hard budget: a started request lies inside the window it was reserved
\* in, windows of one origin are disjoint, and the requests of one window hold
\* distinct slots out of Limit.  So no window sees more than Limit requests,
\* whatever was reserved, abandoned, refused or delayed in between.
BudgetHonoured ==
    \A o \in Origins : \A a, b \in sent[o] :
        /\ a.slot \in 1..Limit
        /\ InWindow(a.window, a.at)
        /\ a.window < b.window => a.window + Window <= b.window
        /\ (a.window = b.window /\ a.slot = b.slot) => a = b

\* Whoever sleeps towards its slot is the one being served, so at most one
\* thread per origin sleeps and no start can overtake it: the second ticket
\* test in _start_authorized_request never fails.
SleeperIsServed ==
    \A t \in Threads : step[t] = "sleeping" =>
        auth[t].ticket = gate[auth[t].origin].serving

\* Every ticket from the one being served on belongs to a thread that will
\* still start or retire it, or is already retired and will be skipped: the
\* queue never serves a ticket nobody can hand on.
NoOrphanTicket ==
    \A o \in Origins :
        /\ gate[o].serving \notin gate[o].retired
        /\ \A k \in gate[o].serving..(gate[o].nextTicket - 1) :
                \/ k \in gate[o].retired
                \/ \E t \in Threads : /\ step[t] \in Ticketed
                                      /\ auth[t].origin = o
                                      /\ auth[t].ticket = k

\* A reserved unit is never handed back: usage only falls when the window has
\* run out and a new one begins.
UnitsNeverReturned ==
    [][\A o \in Origins :
            gate'[o].used < gate[o].used =>
                gate'[o].window >= gate[o].window + Window]_vars

\* A thread that joined the start queue leaves it: it starts, is refused or
\* retires.  Failures of others, at any point, do not strand it.
QueueDrains ==
    \A t \in Threads :
        step[t] \in {"queued", "waiting"} ~> step[t] \notin {"queued", "waiting"}

===============================================================================
