--------------------------- MODULE OriginGateProofs ---------------------------
(***************************************************************************)
(* Proofs about OriginGate for every number of threads and origins and     *)
(* every pacing interval, window, limit and clock bound.                   *)
(*                                                                         *)
(* Inv strengthens the safety properties until they are inductive.  Its    *)
(* first half follows the budget units: every live authorization and every *)
(* request sent holds a slot of its own in its window.  Its second half    *)
(* follows the tickets: everything from serving up to nextTicket is either *)
(* retired or held by exactly one thread, and the thread that sleeps is    *)
(* the one being served, so its due time is behind every earlier start.    *)
(***************************************************************************)
EXTENDS OriginGate, WellFoundedInduction, NaturalsInduction, TLAPS

\* The slot (w, n) lies inside what gate g has reserved so far.
Reserved(g, w, n) ==
    /\ w <= g.window
    /\ w = g.window => n <= g.used
    /\ w < g.window => w + Window <= g.window

Ledger ==
    \A o \in Origins :
        /\ gate[o].window = None => gate[o].used = 0
        /\ gate[o].used <= Limit
        /\ \A s \in sent[o] : Reserved(gate[o], s.window, s.slot)

\* A live authorization owns its slot.
Owned ==
    \A t \in Threads : step[t] # "idle" =>
        /\ auth[t].slot \in 1..Limit
        /\ Reserved(gate[auth[t].origin], auth[t].window, auth[t].slot)
        /\ \A s \in sent[auth[t].origin] :
                s.window = auth[t].window => s.slot # auth[t].slot
        /\ \A u \in Threads :
                (/\ u # t
                 /\ step[u] # "idle"
                 /\ auth[u].origin = auth[t].origin
                 /\ auth[u].window = auth[t].window) => auth[u].slot # auth[t].slot

Queue ==
    \A o \in Origins :
        /\ gate[o].serving <= gate[o].nextTicket
        /\ gate[o].retired \subseteq gate[o].serving..(gate[o].nextTicket - 1)

\* A queued thread holds a ticket of its own that is still to be served.
Queued ==
    \A t \in Threads : step[t] \in Ticketed =>
        /\ auth[t].ticket >= gate[auth[t].origin].serving
        /\ auth[t].ticket < gate[auth[t].origin].nextTicket
        /\ auth[t].ticket \notin gate[auth[t].origin].retired
        /\ \A u \in Threads :
                (/\ u # t
                 /\ step[u] \in Ticketed
                 /\ auth[u].origin = auth[t].origin) =>
                        auth[u].ticket # auth[t].ticket

\* What a sleeper computed when it left the queue still holds when it wakes up.
SleeperDue ==
    \A t \in Threads : step[t] = "sleeping" =>
        LET g == gate[auth[t].origin]
        IN  g.lastStarted # None => auth[t].due >= g.lastStarted + Pacing

\* Every request sent is behind the queue and not after the last start.
Past ==
    \A o \in Origins : \A s \in sent[o] :
        /\ s.ticket < gate[o].serving
        /\ s.at <= gate[o].lastStarted
        /\ s.real <= s.at

Inv ==
    /\ TypeOK
    /\ Ledger
    /\ Owned
    /\ Queue
    /\ Queued
    /\ SleeperDue
    /\ Past
    /\ SleeperIsServed
    /\ NoOrphanTicket
    /\ FifoPaced
    /\ BudgetHonoured

-------------------------------------------------------------------------------
(* The helpers.                                                            *)

\* A nonempty set of naturals has a smallest element: the queue, which may
\* skip any number of retired tickets, always finds the next one to serve.
LEMMA NatMin ==
    ASSUME NEW T, T \subseteq Nat, T # {}
    PROVE  \E x \in T : \A y \in T : x <= y
<1> DEFINE R == OpToRel(<, Nat)
<1>1. IsWellFoundedOn(R, Nat)  BY NatLessThanWellFounded
<1>2. \E x \in T : \A y \in T : ~(<<y, x>> \in R)
  <2> HIDE DEF R
  <2> QED BY <1>1, WFMin
<1>3. \A x, y \in Nat : x < y => <<x, y>> \in R  BY DEF OpToRel
<1> HIDE DEF R
<1>4. PICK x \in T : \A y \in T : ~(<<y, x>> \in R)  BY <1>2
<1>5. \A y \in T : x <= y
  <2> TAKE y \in T
  <2>1. x \in Nat /\ y \in Nat  OBVIOUS
  <2>2. ~(y < x)  BY <1>3, <1>4, <2>1
  <2> QED BY <2>1, <2>2
<1> QED BY <1>4, <1>5

\* The loop over retired_start_tickets stops at a ticket that is not retired,
\* and everything it passed was.
LEMMA NextServingFact ==
    ASSUME NEW s \in Nat, NEW next \in Nat, NEW R,
           s <= next, next \notin R
    PROVE  LET k == NextServing(s, R, next)
           IN  /\ k \in s..next
               /\ k \notin R
               /\ \A j \in s..(k-1) : j \in R
<1> DEFINE T == {k \in s..next : k \notin R}
<1>1. T \subseteq Nat /\ next \in T  OBVIOUS
<1>2. PICK k \in T : \A j \in T : k <= j
  <2> HIDE DEF T
  <2> QED BY <1>1, NatMin
<1>3. k \in s..next /\ k \notin R  OBVIOUS
<1>4. \A j \in s..(k-1) : j \in R  BY <1>2
<1>5. \E m \in s..next : m \notin R /\ \A j \in s..(m-1) : j \in R  BY <1>3, <1>4
<1> QED BY <1>5 DEF NextServing

LEMMA ServeFromFact ==
    ASSUME NEW g \in Gate, NEW s \in Nat, s <= g.nextTicket,
           g.nextTicket \notin g.retired
    PROVE  LET h == ServeFrom(g, s)
           IN  /\ h \in Gate
               /\ h.serving \in s..g.nextTicket
               /\ h.serving \notin g.retired
               /\ \A j \in s..(h.serving - 1) : j \in g.retired
               /\ h.retired = g.retired \ (0..(h.serving - 1))
               /\ h.nextTicket = g.nextTicket
               /\ h.window = g.window
               /\ h.used = g.used
               /\ h.lastStarted = g.lastStarted
<1> DEFINE k == NextServing(s, g.retired, g.nextTicket)
<1>1. g.nextTicket \in Nat  BY DEF Gate
<1>2. /\ k \in s..g.nextTicket
      /\ k \notin g.retired
      /\ \A j \in s..(k-1) : j \in g.retired
  BY <1>1, NextServingFact
<1>3. k \in Nat  BY <1>1, <1>2
<1>4. ServeFrom(g, s) =
        [g EXCEPT !.serving = k, !.retired = g.retired \ (0..(k-1))]
  BY DEF ServeFrom
<1> HIDE DEF k
<1> QED BY <1>2, <1>3, <1>4 DEF Gate

LEMMA CausalNowFact ==
    ASSUME NEW after \in Nat \cup {None}, clock \in Nat
    PROVE  /\ CausalNow(after) \in Nat
           /\ CausalNow(after) > after
           /\ CausalNow(after) >= clock
BY DEF CausalNow, None

LEMMA RolledFact ==
    ASSUME NEW g \in Gate, NEW now \in Nat, GateBounds
    PROVE  LET h == Rolled(g, now)
           IN  /\ h \in Gate
               /\ h.window \in Nat
               /\ h.nextTicket = g.nextTicket
               /\ h.serving = g.serving
               /\ h.retired = g.retired
               /\ h.lastStarted = g.lastStarted
               /\ h.lastReserved = g.lastReserved
               /\ \/ h.window = g.window /\ h.used = g.used
                  \/ /\ h.used = 0
                     /\ h.window = now
                     /\ g.window = None \/ g.window + Window <= now
BY DEF Rolled, Gate, None, Time, GateBounds

LEMMA PacedSlotFact ==
    ASSUME NEW g \in Gate, NEW now \in Nat, GateBounds
    PROVE  PacedSlot(g, now) \in Nat
BY DEF PacedSlot, Later, Gate, None, Time, GateBounds

LEMMA ReservationFact ==
    ASSUME NEW h \in Gate, NEW slot \in Nat
    PROVE  LET g == WithReservation(h, slot)
           IN  /\ g \in Gate
               /\ g.window = h.window
               /\ g.used = h.used + 1
               /\ g.nextTicket = h.nextTicket
               /\ g.serving = h.serving
               /\ g.retired = h.retired
               /\ g.lastStarted = h.lastStarted
<1> DEFINE n == h.used + 1
<1>1. n \in Nat  BY DEF Gate
<1>2. WithReservation(h, slot) = [h EXCEPT !.used = n, !.lastReserved = slot]
  BY DEF WithReservation
<1>3. h.used + 1 = n  OBVIOUS
<1> HIDE DEF n
<1> QED BY <1>1, <1>2, <1>3 DEF Gate, Time

LEMMA FloorFact ==
    ASSUME clock \in Nat, GateBounds
    PROVE  /\ CausalFloors \subseteq Nat \cup {None}
           /\ HeldPolicies \subseteq Policy
BY DEF CausalFloors, HeldPolicies, Policy, Time, None, GateBounds

-------------------------------------------------------------------------------
(* The steps.                                                              *)

LEMMA InitInv == ASSUME GateBounds PROVE Init => Inv
<1> SUFFICES ASSUME Init PROVE Inv  OBVIOUS
<1> USE DEF Init, NewGate, NoAuth, None
<1>1. TypeOK
  <2>1. NewGate \in Gate  BY DEF Gate, Time
  <2> QED BY <2>1 DEF TypeOK, Steps, Ticketed, Time
<1>2. Ledger /\ Past /\ FifoPaced /\ BudgetHonoured
  BY DEF Ledger, Past, FifoPaced, BudgetHonoured, GateBounds
<1>3. Owned /\ Queued /\ SleeperDue /\ SleeperIsServed
  BY DEF Owned, Queued, SleeperDue, SleeperIsServed, Ticketed
<1>4. Queue /\ NoOrphanTicket
  <2>1. \A o \in Origins : gate[o] = NewGate  OBVIOUS
  <2> QED BY <2>1 DEF Queue, NoOrphanTicket
<1> QED BY <1>1, <1>2, <1>3, <1>4 DEF Inv

\* Steps that only move a ticketed thread between its program points.
LEMMA MoveInv ==
    ASSUME GateBounds, Inv, NEW t \in Threads,
           NEW x \in Ticketed \ {"sleeping"},
           step[t] \in Ticketed,
           step' = [step EXCEPT ![t] = x],
           UNCHANGED <<clock, gate, auth, sent>>
    PROVE  Inv'
<1> USE DEF Ticketed
<1>0. step \in [Threads -> Steps]  BY DEF Inv, TypeOK
<1>1. TypeOK'  BY <1>0 DEF Inv, TypeOK, Steps
<1>2. /\ \A u \in Threads : step'[u] # "idle" <=> step[u] # "idle"
      /\ \A u \in Threads : step'[u] \in Ticketed <=> step[u] \in Ticketed
      /\ \A u \in Threads : step'[u] = "sleeping" => step[u] = "sleeping"
  BY <1>0
<1> HIDE DEF Ticketed
<1>3. Ledger' /\ Past' /\ FifoPaced' /\ BudgetHonoured' /\ Queue'
  BY DEF Inv, Ledger, Past, FifoPaced, BudgetHonoured, Queue, Reserved, InWindow
<1>4. Owned'  BY <1>2 DEF Inv, Owned, Reserved
<1>5. Queued'  BY <1>2 DEF Inv, Queued
<1>6. SleeperDue' /\ SleeperIsServed'
  BY <1>2 DEF Inv, SleeperDue, SleeperIsServed
<1>7. NoOrphanTicket'  BY <1>2 DEF Inv, NoOrphanTicket
<1> QED BY <1>1, <1>3, <1>4, <1>5, <1>6, <1>7 DEF Inv

LEMMA StutterInv == ASSUME Inv, UNCHANGED vars PROVE Inv'
BY DEF vars, Inv, TypeOK, Ledger, Past, FifoPaced, BudgetHonoured, Queue,
       Reserved, InWindow, Owned, Queued, SleeperDue, SleeperIsServed,
       NoOrphanTicket

LEMMA AbandonInv ==
    ASSUME GateBounds, Inv, NEW t \in Threads, Abandon(t)
    PROVE  Inv'
<1> USE DEF Abandon
<1>0. step \in [Threads -> Steps] /\ auth \in [Threads -> Auth \cup {NoAuth}]
  BY DEF Inv, TypeOK
<1>1. TypeOK'  BY <1>0 DEF Inv, TypeOK, Steps, Ticketed
<1>2. /\ \A u \in Threads : step'[u] # "idle" => step[u] # "idle" /\ auth'[u] = auth[u]
      /\ \A u \in Threads : step'[u] \in Ticketed <=> step[u] \in Ticketed
      /\ \A u \in Threads : step[u] \in Ticketed => auth'[u] = auth[u]
      /\ \A u \in Threads : step'[u] = "sleeping" => step[u] = "sleeping" /\ auth'[u] = auth[u]
  BY <1>0 DEF Ticketed
<1>3. Ledger' /\ Past' /\ FifoPaced' /\ BudgetHonoured' /\ Queue'
  BY DEF Inv, Ledger, Past, FifoPaced, BudgetHonoured, Queue, Reserved, InWindow
<1>4. Owned'  BY <1>2 DEF Inv, Owned, Reserved
<1>5. Queued'  BY <1>2 DEF Inv, Queued
<1>6. SleeperDue' /\ SleeperIsServed'
  BY <1>2 DEF Inv, SleeperDue, SleeperIsServed
<1>7. NoOrphanTicket'  BY <1>2 DEF Inv, NoOrphanTicket
<1> QED BY <1>1, <1>3, <1>4, <1>5, <1>6, <1>7 DEF Inv

LEMMA TickInv ==
    ASSUME Inv, Tick PROVE Inv'
BY DEF Tick, Inv, TypeOK, Time, Ledger, Past, FifoPaced, BudgetHonoured, Queue,
       Reserved, InWindow, Owned, Queued, SleeperDue, SleeperIsServed,
       NoOrphanTicket

\* What rolling the window over leaves intact: a gate h that only starts a new
\* window behind the old one, or is the old one with more units used.
Rolls(g, h) ==
    /\ h \in Gate
    /\ h.window \in Nat
    /\ h.nextTicket = g.nextTicket
    /\ h.serving = g.serving
    /\ h.retired = g.retired
    /\ h.lastStarted = g.lastStarted
    /\ h.used <= Limit
    /\ \/ h.window = g.window /\ h.used >= g.used
       \/ g.window = None
       \/ g.window + Window <= h.window

LEMMA RollsReserved ==
    ASSUME GateBounds, NEW g \in Gate, NEW h, Rolls(g, h),
           NEW w \in Nat, NEW n \in Nat, Reserved(g, w, n)
    PROVE  Reserved(h, w, n)
BY DEF Rolls, Reserved, Gate, Time, None, GateBounds

LEMMA RollInv ==
    ASSUME GateBounds, Inv, NEW o \in Origins, NEW h, Rolls(gate[o], h),
           gate' = [gate EXCEPT ![o] = h],
           UNCHANGED <<clock, step, auth, sent>>
    PROVE  Inv'
<1>0. /\ gate \in [Origins -> Gate] /\ h \in Gate
      /\ auth \in [Threads -> Auth \cup {NoAuth}]
      /\ sent \in [Origins -> SUBSET Send]
      /\ \A t \in Threads : step[t] # "idle" => auth[t] \in Auth
      /\ \A t \in Threads : step[t] \in Ticketed => step[t] # "idle"
  BY DEF Inv, TypeOK, Rolls, Ticketed
<1>1. TypeOK'  BY <1>0 DEF Inv, TypeOK
<1>2. /\ gate'[o] = h
      /\ \A p \in Origins : p # o => gate'[p] = gate[p]
  BY <1>0
<1>3. \A p \in Origins : \A w, n \in Nat :
            Reserved(gate[p], w, n) => Reserved(gate'[p], w, n)
  BY <1>0, <1>2, RollsReserved
<1>4. \A p \in Origins : /\ gate'[p].nextTicket = gate[p].nextTicket
                          /\ gate'[p].serving = gate[p].serving
                          /\ gate'[p].retired = gate[p].retired
                          /\ gate'[p].lastStarted = gate[p].lastStarted
  BY <1>2 DEF Rolls
<1>5. Ledger'
  <2> SUFFICES ASSUME NEW p \in Origins
               PROVE  /\ gate'[p].window = None => gate'[p].used = 0
                      /\ gate'[p].used <= Limit
                      /\ \A s \in sent[p] : Reserved(gate'[p], s.window, s.slot)
    BY DEF Ledger, Reserved
  <2>1. gate'[p].window = None => gate'[p].used = 0
    BY <1>2 DEF Inv, Ledger, Rolls, None
  <2>2. gate'[p].used <= Limit  BY <1>2 DEF Inv, Ledger, Rolls
  <2>3. \A s \in sent[p] : s.window \in Nat /\ s.slot \in Nat
    BY <1>0 DEF Send, Time
  <2> QED BY <1>3, <2>1, <2>2, <2>3 DEF Inv, Ledger
<1>6. Owned'
  <2> SUFFICES ASSUME NEW t \in Threads, step[t] # "idle"
               PROVE  Reserved(gate'[auth[t].origin], auth[t].window, auth[t].slot)
    BY DEF Inv, Owned, Reserved
  <2>1. auth[t].origin \in Origins /\ auth[t].window \in Nat /\ auth[t].slot \in Nat
    BY <1>0 DEF Auth, Time
  <2> QED BY <1>3, <2>1 DEF Inv, Owned
<1>7. \A t \in Threads : step[t] # "idle" => auth[t].origin \in Origins
  BY <1>0 DEF Auth
<1>8. Queue' /\ Past' /\ FifoPaced' /\ BudgetHonoured'
  BY <1>4 DEF Inv, Queue, Past, FifoPaced, BudgetHonoured, InWindow
<1>9. Queued'  BY <1>0, <1>4, <1>7 DEF Inv, Queued
<1>10. SleeperDue' /\ SleeperIsServed'
  BY <1>0, <1>4, <1>7 DEF Inv, SleeperDue, SleeperIsServed, Ticketed
<1>11. NoOrphanTicket'  BY <1>4 DEF Inv, NoOrphanTicket
<1> QED BY <1>1, <1>5, <1>6, <1>8, <1>9, <1>10, <1>11 DEF Inv

LEMMA RejectInv ==
    ASSUME GateBounds, Inv, NEW t \in Threads, NEW o \in Origins,
           NEW pol \in Policy, NEW floor \in Nat \cup {None},
           Reject(t, o, pol, floor)
    PROVE  Inv'
<1> DEFINE now == CausalNow(floor)
           h == Rolled(gate[o], now)
<1>1. /\ clock \in Nat /\ gate \in [Origins -> Gate]
      /\ now \in Nat
  BY CausalNowFact DEF Inv, TypeOK, Time
<1>2. /\ h \in Gate
      /\ h.window \in Nat
      /\ h.nextTicket = gate[o].nextTicket
      /\ h.serving = gate[o].serving
      /\ h.retired = gate[o].retired
      /\ h.lastStarted = gate[o].lastStarted
      /\ h.lastReserved = gate[o].lastReserved
      /\ \/ h.window = gate[o].window /\ h.used = gate[o].used
         \/ /\ h.used = 0
            /\ h.window = now
            /\ gate[o].window = None \/ gate[o].window + Window <= now
  BY <1>1, RolledFact
<1> HIDE DEF h, now
<1>3. /\ gate' = [gate EXCEPT ![o] = h] \/ gate' = gate
      /\ UNCHANGED <<clock, step, auth, sent>>
  BY DEF Reject, h, now
<1>4. Rolls(gate[o], h)
  BY <1>1, <1>2 DEF Rolls, Inv, Ledger, Gate, GateBounds
<1>5. CASE gate' = [gate EXCEPT ![o] = h]  BY <1>3, <1>4, <1>5, RollInv
<1>6. CASE gate' = gate
  BY <1>3, <1>6, StutterInv DEF vars
<1> QED BY <1>3, <1>5, <1>6

LEMMA AuthorizeInv ==
    ASSUME GateBounds, Inv, NEW t \in Threads, NEW o \in Origins,
           NEW pol \in Policy, NEW floor \in Nat \cup {None},
           Authorize(t, o, pol, floor)
    PROVE  Inv'
<1> DEFINE now == CausalNow(floor)
           h == Rolled(gate[o], now)
           slot == PacedSlot(h, now)
           g == WithReservation(h, slot)
           a == [held |-> TRUE, origin |-> o, policy |-> pol, reserved |-> now,
                 notBefore |-> slot, window |-> h.window, slot |-> h.used + 1,
                 ticket |-> None, due |-> slot]
<1>1. /\ clock \in Nat /\ gate \in [Origins -> Gate]
      /\ auth \in [Threads -> Auth \cup {NoAuth}]
      /\ step \in [Threads -> Steps]
      /\ sent \in [Origins -> SUBSET Send]
      /\ \A u \in Threads : step[u] # "idle" => auth[u] \in Auth
      /\ \A u \in Threads : step[u] \in Ticketed => step[u] # "idle"
      /\ now \in Nat
  BY CausalNowFact DEF Inv, TypeOK, Time, Ticketed
<1>2. /\ h \in Gate
      /\ h.window \in Nat
      /\ h.nextTicket = gate[o].nextTicket
      /\ h.serving = gate[o].serving
      /\ h.retired = gate[o].retired
      /\ h.lastStarted = gate[o].lastStarted
      /\ h.lastReserved = gate[o].lastReserved
      /\ \/ h.window = gate[o].window /\ h.used = gate[o].used
         \/ /\ h.used = 0
            /\ h.window = now
            /\ gate[o].window = None \/ gate[o].window + Window <= now
  BY <1>1, RolledFact
<1>3. slot \in Nat  BY <1>1, <1>2, PacedSlotFact
<1> HIDE DEF h, now, slot
<1>4. /\ h.used < Limit
      /\ step[t] = "idle"
      /\ gate' = [gate EXCEPT ![o] = g]
      /\ auth' = [auth EXCEPT ![t] = a]
      /\ step' = [step EXCEPT ![t] = "authorized"]
      /\ UNCHANGED <<clock, sent>>
  BY DEF Authorize, Admissible, h, now, slot
<1>5. a \in Auth  BY <1>1, <1>2, <1>3 DEF Auth, Gate, Time
<1>6. Rolls(gate[o], g) /\ g.used = h.used + 1 /\ g.window = h.window
  <2>1. /\ g \in Gate
        /\ g.window = h.window
        /\ g.used = h.used + 1
        /\ g.nextTicket = h.nextTicket
        /\ g.serving = h.serving
        /\ g.retired = h.retired
        /\ g.lastStarted = h.lastStarted
    BY <1>2, <1>3, ReservationFact
  <2>2. gate[o].used \in Nat /\ h.used \in Nat  BY <1>1, <1>2 DEF Gate
  <2> HIDE DEF g
  <2>3. g.used <= Limit  BY <1>4, <2>1, <2>2 DEF GateBounds
  <2> QED BY <1>2, <2>1, <2>2, <2>3 DEF Rolls
<1> HIDE DEF g, a
<1>7. /\ gate'[o] = g
      /\ \A p \in Origins : p # o => gate'[p] = gate[p]
      /\ auth'[t] = a /\ step'[t] = "authorized"
      /\ \A u \in Threads : u # t => auth'[u] = auth[u] /\ step'[u] = step[u]
  BY <1>1, <1>4
<1>8. \A u \in Threads : (step'[u] \in Ticketed <=> step[u] \in Ticketed)
                         /\ (step[u] \in Ticketed => u # t)
  BY <1>4, <1>7 DEF Ticketed
<1>9. TypeOK'
  BY <1>1, <1>4, <1>5, <1>6, <1>7, <1>8 DEF Inv, TypeOK, Rolls, Steps
<1>10. \A p \in Origins : \A w, n \in Nat :
            Reserved(gate[p], w, n) => Reserved(gate'[p], w, n)
  BY <1>1, <1>6, <1>7, RollsReserved
<1>11. \A p \in Origins : /\ gate'[p].nextTicket = gate[p].nextTicket
                           /\ gate'[p].serving = gate[p].serving
                           /\ gate'[p].retired = gate[p].retired
                           /\ gate'[p].lastStarted = gate[p].lastStarted
  BY <1>6, <1>7 DEF Rolls
<1>12. \A p \in Origins : \A s \in sent[p] : s.window \in Nat /\ s.slot \in Nat
  BY <1>1 DEF Send, Time
<1>13. \A u \in Threads : step[u] # "idle" =>
            /\ auth[u].origin \in Origins
            /\ auth[u].window \in Nat
            /\ auth[u].slot \in Nat
  BY <1>1 DEF Auth, Time
<1>14. Ledger'
  <2> SUFFICES ASSUME NEW p \in Origins
               PROVE  /\ gate'[p].window = None => gate'[p].used = 0
                      /\ gate'[p].used <= Limit
                      /\ \A s \in sent[p] : Reserved(gate'[p], s.window, s.slot)
    BY <1>4 DEF Ledger, Reserved
  <2>1. gate'[p].window = None => gate'[p].used = 0
    BY <1>6, <1>7 DEF Inv, Ledger, Rolls, None
  <2>2. gate'[p].used <= Limit  BY <1>6, <1>7 DEF Inv, Ledger, Rolls
  <2> QED BY <1>10, <1>12, <2>1, <2>2 DEF Inv, Ledger
<1>15. Owned'
  \* Nobody holds the fresh slot of o in its window.
  <2>1. \A w, n \in Nat : (Reserved(gate[o], w, n) /\ w = h.window) => n <= h.used
    BY <1>1, <1>2 DEF Reserved, Gate, Time, None, GateBounds
  <2>2. /\ a.slot = h.used + 1 /\ a.window = h.window /\ a.origin = o
        /\ h.used \in Nat /\ a.slot \in 1..Limit
    BY <1>2, <1>4 DEF a, Gate, GateBounds
  <2>3. \A s \in sent[o] : s.window = a.window => s.slot # a.slot
    BY <1>12, <2>1, <2>2 DEF Inv, Ledger
  <2>4. \A u \in Threads : (step[u] # "idle" /\ auth[u].origin = o
                                /\ auth[u].window = a.window) => auth[u].slot # a.slot
    BY <1>13, <2>1, <2>2 DEF Inv, Owned
  <2>5. Reserved(gate'[o], a.window, a.slot)
    BY <1>2, <1>6, <1>7, <2>2 DEF Reserved
  <2> SUFFICES ASSUME NEW u \in Threads, step'[u] # "idle"
               PROVE  /\ auth'[u].slot \in 1..Limit
                      /\ Reserved(gate'[auth'[u].origin], auth'[u].window, auth'[u].slot)
                      /\ \A s \in sent[auth'[u].origin] :
                            s.window = auth'[u].window => s.slot # auth'[u].slot
                      /\ \A v \in Threads :
                            (/\ v # u
                             /\ step'[v] # "idle"
                             /\ auth'[v].origin = auth'[u].origin
                             /\ auth'[v].window = auth'[u].window) =>
                                    auth'[v].slot # auth'[u].slot
    BY <1>4 DEF Owned, Reserved
  <2>6. CASE u = t
    BY <1>7, <2>2, <2>3, <2>4, <2>5, <2>6
  <2>7. CASE u # t
    <3>1. /\ auth[u].slot \in 1..Limit
          /\ Reserved(gate'[auth[u].origin], auth[u].window, auth[u].slot)
          /\ \A s \in sent[auth[u].origin] :
                s.window = auth[u].window => s.slot # auth[u].slot
      BY <1>7, <1>10, <1>13, <2>7 DEF Inv, Owned
    <3>2. \A v \in Threads :
             (/\ v # u
              /\ step'[v] # "idle"
              /\ auth'[v].origin = auth[u].origin
              /\ auth'[v].window = auth[u].window) => auth'[v].slot # auth[u].slot
      BY <1>7, <2>2, <2>4, <2>7 DEF Inv, Owned
    <3> QED BY <1>7, <2>7, <3>1, <3>2
  <2> QED BY <2>6, <2>7
<1>16. Queue' /\ Past' /\ FifoPaced' /\ BudgetHonoured'
  BY <1>4, <1>11 DEF Inv, Queue, Past, FifoPaced, BudgetHonoured, InWindow
<1>17. Queued'
  BY <1>1, <1>7, <1>8, <1>11, <1>13 DEF Inv, Queued
<1>18. SleeperDue' /\ SleeperIsServed'
  BY <1>1, <1>7, <1>11, <1>13 DEF Inv, SleeperDue, SleeperIsServed
<1>19. NoOrphanTicket'
  BY <1>7, <1>8, <1>11 DEF Inv, NoOrphanTicket
<1> QED BY <1>9, <1>14, <1>15, <1>16, <1>17, <1>18, <1>19 DEF Inv

\* What every step proof needs of the types.
LEMMA Types ==
    ASSUME Inv
    PROVE  /\ clock \in Nat /\ gate \in [Origins -> Gate]
           /\ auth \in [Threads -> Auth \cup {NoAuth}]
           /\ step \in [Threads -> Steps]
           /\ sent \in [Origins -> SUBSET Send]
           /\ \A u \in Threads : step[u] \in Ticketed => step[u] # "idle"
           /\ \A u \in Threads : step[u] # "idle" =>
                    /\ auth[u] \in Auth
                    /\ auth[u].origin \in Origins
                    /\ auth[u].window \in Nat
                    /\ auth[u].slot \in Nat
                    /\ auth[u].due \in Nat
                    /\ auth[u].reserved \in Nat
                    /\ auth[u].notBefore \in Nat
           /\ \A u \in Threads : step[u] \in Ticketed => auth[u].ticket \in Nat
           /\ \A p \in Origins : gate[p] \in Gate
                               /\ gate[p].nextTicket \in Nat
                               /\ gate[p].serving \in Nat
                               /\ gate[p].used \in Nat
                               /\ gate[p].lastStarted \in Nat \cup {None}
                               /\ gate[p].retired \subseteq Nat
           /\ \A p \in Origins : \A s \in sent[p] :
                    /\ s.window \in Nat /\ s.slot \in Nat /\ s.ticket \in Nat
                    /\ s.at \in Nat /\ s.real \in Nat
<1>1. TypeOK /\ clock \in Nat /\ \A u \in Threads : step[u] \in Ticketed => step[u] # "idle"
  BY DEF Inv, TypeOK, Time, Ticketed
<1>2. \A x \in Auth : /\ x.origin \in Origins /\ x.window \in Nat /\ x.slot \in Nat
                      /\ x.due \in Nat /\ x.reserved \in Nat /\ x.notBefore \in Nat
  BY DEF Auth, Time
<1>3. \A g \in Gate : /\ g.nextTicket \in Nat /\ g.serving \in Nat /\ g.used \in Nat
                      /\ g.lastStarted \in Nat \cup {None} /\ g.retired \subseteq Nat
  BY DEF Gate, Time
<1>4. \A s \in Send : /\ s.window \in Nat /\ s.slot \in Nat /\ s.ticket \in Nat
                      /\ s.at \in Nat /\ s.real \in Nat
  BY DEF Send, Time
<1> QED BY <1>1, <1>2, <1>3, <1>4 DEF TypeOK

LEMMA TakeTurnInv ==
    ASSUME GateBounds, Inv, NEW t \in Threads, TakeTurn(t)
    PROVE  Inv'
<1> DEFINE o == auth[t].origin
           due == IF gate[o].lastStarted = None
                  THEN auth[t].notBefore
                  ELSE Later(auth[t].notBefore, gate[o].lastStarted + Pacing)
<1>1. /\ step[t] = "queued" /\ auth[t].ticket = gate[o].serving
      /\ auth' = [auth EXCEPT ![t].due = due]
      /\ step' = [step EXCEPT ![t] = "sleeping"]
      /\ UNCHANGED <<clock, gate, sent>>
  BY DEF TakeTurn
<1>2. auth[t] \in Auth /\ o \in Origins  BY <1>1, Types
<1>3. /\ due \in Nat
      /\ gate[o].lastStarted # None => due >= gate[o].lastStarted + Pacing
  BY <1>1, <1>2, Types DEF Later, GateBounds, None
<1> HIDE DEF due
<1>4. /\ auth'[t] = [auth[t] EXCEPT !.due = due]
      /\ \A u \in Threads : u # t => auth'[u] = auth[u] /\ step'[u] = step[u]
      /\ step'[t] = "sleeping"
  BY <1>1, Types
<1>5. /\ auth'[t] \in Auth
      /\ auth'[t].origin = o
      /\ auth'[t].due = due
      /\ auth'[t].window = auth[t].window
      /\ auth'[t].slot = auth[t].slot
      /\ auth'[t].ticket = auth[t].ticket
  <2>1. auth'[t] = [auth[t] EXCEPT !.due = due]  BY <1>4
  <2>2. due \in Nat  BY <1>3
  <2> QED BY <1>2, <2>1, <2>2 DEF Auth, Time
<1>6. \A u \in Threads : /\ auth'[u].origin = auth[u].origin
                         /\ auth'[u].window = auth[u].window
                         /\ auth'[u].slot = auth[u].slot
                         /\ auth'[u].ticket = auth[u].ticket
                         /\ step'[u] # "idle" <=> step[u] # "idle"
                         /\ step'[u] \in Ticketed <=> step[u] \in Ticketed
  BY <1>1, <1>4, <1>5 DEF Ticketed
<1>7. TypeOK'  BY <1>1, <1>4, <1>5, <1>6, Types DEF Inv, TypeOK, Steps
<1>8. Ledger' /\ Past' /\ FifoPaced' /\ BudgetHonoured' /\ Queue'
  BY <1>1 DEF Inv, Ledger, Past, FifoPaced, BudgetHonoured, Queue, Reserved, InWindow
<1>9. Owned'  BY <1>1, <1>6 DEF Inv, Owned, Reserved
<1>10. Queued'  BY <1>1, <1>6 DEF Inv, Queued
<1>11. SleeperDue' /\ SleeperIsServed'
  BY <1>1, <1>3, <1>4, <1>5 DEF Inv, SleeperDue, SleeperIsServed
<1>12. NoOrphanTicket'  BY <1>1, <1>6 DEF Inv, NoOrphanTicket
<1> QED BY <1>7, <1>8, <1>9, <1>10, <1>11, <1>12 DEF Inv

LEMMA TakeTicketInv ==
    ASSUME GateBounds, Inv, NEW t \in Threads, TakeTicket(t)
    PROVE  Inv'
<1> DEFINE o == auth[t].origin
           n == gate[o].nextTicket
<1>1. /\ step[t] = "authorized"
      /\ auth' = [auth EXCEPT ![t].ticket = n]
      /\ gate' = [gate EXCEPT ![o].nextTicket = n + 1]
      /\ step' = [step EXCEPT ![t] = "queued"]
      /\ UNCHANGED <<clock, sent>>
  BY DEF TakeTicket
<1>2. auth[t] \in Auth /\ o \in Origins /\ gate[o] \in Gate /\ n \in Nat
  BY <1>1, Types
<1>3. n = gate[o].nextTicket  OBVIOUS
<1> HIDE DEF n
<1>4. /\ auth'[t] = [auth[t] EXCEPT !.ticket = n]
      /\ gate'[o] = [gate[o] EXCEPT !.nextTicket = n + 1]
      /\ \A p \in Origins : p # o => gate'[p] = gate[p]
      /\ \A u \in Threads : u # t => auth'[u] = auth[u] /\ step'[u] = step[u]
      /\ step'[t] = "queued"
  BY <1>1, <1>2, Types
<1>5. /\ auth'[t] \in Auth
      /\ auth'[t].origin = o
      /\ auth'[t].window = auth[t].window
      /\ auth'[t].slot = auth[t].slot
      /\ auth'[t].ticket = n
  <2>1. auth'[t] = [auth[t] EXCEPT !.ticket = n]  BY <1>4
  <2>2. ASSUME NEW r \in Auth, NEW k \in Nat
        PROVE  LET s == [r EXCEPT !.ticket = k]
               IN  s \in Auth /\ s.origin = r.origin /\ s.window = r.window
                   /\ s.slot = r.slot /\ s.ticket = k
    BY DEF Auth, Time
  <2> QED BY <1>2, <2>1, <2>2
<1>6. /\ gate'[o] \in Gate
      /\ gate'[o].window = gate[o].window
      /\ gate'[o].used = gate[o].used
      /\ gate'[o].serving = gate[o].serving
      /\ gate'[o].retired = gate[o].retired
      /\ gate'[o].lastStarted = gate[o].lastStarted
      /\ gate'[o].nextTicket = n + 1
  BY <1>2, <1>4 DEF Gate, Time
<1>7. \A u \in Threads : /\ auth'[u].origin = auth[u].origin
                         /\ auth'[u].window = auth[u].window
                         /\ auth'[u].slot = auth[u].slot
                         /\ step'[u] # "idle" <=> step[u] # "idle"
                         /\ step'[u] \in Ticketed <=> (step[u] \in Ticketed \/ u = t)
                         /\ step'[u] = "sleeping" => step[u] = "sleeping" /\ u # t
  BY <1>1, <1>4, <1>5 DEF Ticketed
<1>8. \A p \in Origins : /\ gate'[p].window = gate[p].window
                         /\ gate'[p].used = gate[p].used
                         /\ gate'[p].serving = gate[p].serving
                         /\ gate'[p].retired = gate[p].retired
                         /\ gate'[p].lastStarted = gate[p].lastStarted
                         /\ gate'[p].nextTicket >= gate[p].nextTicket
                         /\ gate'[p].nextTicket \in Nat
  <2> TAKE p \in Origins
  <2>1. CASE p = o  BY <1>2, <1>3, <1>6, <2>1
  <2>2. CASE p # o  BY <1>4, <2>2, Types
  <2> QED BY <2>1, <2>2
<1>9. TypeOK'
  BY <1>1, <1>2, <1>4, <1>5, <1>6, <1>7, Types DEF Inv, TypeOK, Steps
<1>10. Ledger' /\ Past' /\ FifoPaced' /\ BudgetHonoured'
  BY <1>1, <1>8 DEF Inv, Ledger, Past, FifoPaced, BudgetHonoured, Reserved, InWindow
<1>11. Owned'  BY <1>1, <1>7, <1>8, Types DEF Inv, Owned, Reserved
<1>12. Queue'  BY <1>8, Types DEF Inv, Queue
<1>13. \A u \in Threads : (step[u] \in Ticketed /\ auth[u].origin = o) =>
            auth[u].ticket < n
  BY <1>3 DEF Inv, Queued
<1>14. n >= gate[o].serving /\ n \notin gate[o].retired
  BY <1>2, <1>3, Types DEF Inv, Queue
<1>15. Queued'
  <2> SUFFICES ASSUME NEW u \in Threads, step'[u] \in Ticketed
               PROVE  /\ auth'[u].ticket >= gate'[auth'[u].origin].serving
                      /\ auth'[u].ticket < gate'[auth'[u].origin].nextTicket
                      /\ auth'[u].ticket \notin gate'[auth'[u].origin].retired
                      /\ \A v \in Threads :
                            (/\ v # u
                             /\ step'[v] \in Ticketed
                             /\ auth'[v].origin = auth'[u].origin) =>
                                    auth'[v].ticket # auth'[u].ticket
    BY DEF Queued, Ticketed
  <2>1. CASE u = t
    <3>1. \A v \in Threads : (v # t /\ step'[v] \in Ticketed /\ auth'[v].origin = o) =>
                auth'[v].ticket # n
      BY <1>2, <1>4, <1>7, <1>13, Types
    <3> QED BY <1>2, <1>5, <1>6, <1>14, <2>1, <3>1
  <2>2. CASE u # t
    <3>1. step[u] \in Ticketed /\ auth'[u] = auth[u] /\ auth[u].origin \in Origins
          /\ auth[u].ticket \in Nat
      BY <1>4, <1>7, <2>2, Types
    <3>2. /\ auth[u].ticket >= gate'[auth[u].origin].serving
          /\ auth[u].ticket < gate'[auth[u].origin].nextTicket
          /\ auth[u].ticket \notin gate'[auth[u].origin].retired
      BY <1>8, <3>1, Types DEF Inv, Queued
    <3>3. \A v \in Threads :
            (/\ v # u
             /\ step'[v] \in Ticketed
             /\ auth'[v].origin = auth[u].origin) => auth'[v].ticket # auth[u].ticket
      <4> TAKE v \in Threads
      <4>1. CASE v = t
        <5>1. auth[u].origin = o => auth[u].ticket < n  BY <1>13, <3>1
        <5> QED BY <1>2, <1>5, <3>1, <4>1, <5>1
      <4>2. CASE v # t
        BY <1>4, <1>7, <3>1, <4>2 DEF Inv, Queued
      <4> QED BY <4>1, <4>2
    <3> QED BY <3>1, <3>2, <3>3
  <2> QED BY <2>1, <2>2
<1>16. SleeperDue' /\ SleeperIsServed'
  BY <1>4, <1>7, <1>8, Types DEF Inv, SleeperDue, SleeperIsServed
<1>17. NoOrphanTicket'
  <2> SUFFICES ASSUME NEW p \in Origins
               PROVE  /\ gate'[p].serving \notin gate'[p].retired
                      /\ \A k \in gate'[p].serving..(gate'[p].nextTicket - 1) :
                            \/ k \in gate'[p].retired
                            \/ \E u \in Threads : /\ step'[u] \in Ticketed
                                                  /\ auth'[u].origin = p
                                                  /\ auth'[u].ticket = k
    BY DEF NoOrphanTicket, Ticketed
  <2>1. gate'[p].serving \notin gate'[p].retired  BY <1>8 DEF Inv, NoOrphanTicket
  <2>2. ASSUME NEW k \in gate'[p].serving..(gate'[p].nextTicket - 1),
               k \notin gate'[p].retired
        PROVE  \E u \in Threads : /\ step'[u] \in Ticketed
                                  /\ auth'[u].origin = p
                                  /\ auth'[u].ticket = k
    <3>1. CASE p = o /\ k = n
      BY <1>5, <1>7, <3>1
    <3>2. CASE ~(p = o /\ k = n)
      <4>1. k \in gate[p].serving..(gate[p].nextTicket - 1) /\ k \notin gate[p].retired
        <5>1. /\ gate[p].serving \in Nat /\ gate[p].nextTicket \in Nat
              /\ gate'[p].serving = gate[p].serving
              /\ gate'[p].retired = gate[p].retired
          BY <1>8, Types
        <5>2. CASE p = o  BY <1>2, <1>3, <1>6, <2>2, <3>2, <5>1, <5>2
        <5>3. CASE p # o  BY <1>4, <2>2, <5>1, <5>3
        <5> QED BY <5>2, <5>3
      <4>2. PICK u \in Threads : step[u] \in Ticketed /\ auth[u].origin = p
                                /\ auth[u].ticket = k
        BY <4>1 DEF Inv, NoOrphanTicket
      <4>3. u # t  BY <1>1, <4>2 DEF Ticketed
      <4> QED BY <1>4, <1>7, <4>2, <4>3
    <3> QED BY <3>1, <3>2
  <2> QED BY <2>1, <2>2
<1> QED BY <1>9, <1>10, <1>11, <1>12, <1>15, <1>16, <1>17 DEF Inv

\* condition.notify_all() moves waiters back into the queue and nobody else.
LEMMA NotifiedFact ==
    ASSUME step \in [Threads -> Steps], NEW o
    PROVE  /\ Notified(o) \in [Threads -> Steps]
           /\ \A u \in Threads : Notified(o)[u] = "idle" <=> step[u] = "idle"
           /\ \A u \in Threads : Notified(o)[u] \in Ticketed <=> step[u] \in Ticketed
           /\ \A u \in Threads : Notified(o)[u] = "sleeping" <=> step[u] = "sleeping"
BY DEF Notified, Steps, Ticketed

LEMMA RetireInv ==
    ASSUME GateBounds, Inv, NEW t \in Threads, Retire(t)
    PROVE  Inv'
<1> DEFINE o == auth[t].origin
           k == auth[t].ticket
           b == [gate[o] EXCEPT !.retired = gate[o].retired \cup {k}]
           h == ServeFrom(b, gate[o].serving)
<1>1. step[t] = "retiring" /\ auth' = [auth EXCEPT ![t] = NoAuth]
      /\ UNCHANGED <<clock, sent>>
  BY DEF Retire
<1>2. step[t] \in Ticketed  BY <1>1 DEF Ticketed
<1>3. /\ o \in Origins /\ k \in Nat /\ gate[o] \in Gate
      /\ k >= gate[o].serving /\ k < gate[o].nextTicket
      /\ gate[o].serving \in Nat /\ gate[o].nextTicket \in Nat
      /\ gate[o].serving <= gate[o].nextTicket
      /\ gate[o].retired \subseteq gate[o].serving..(gate[o].nextTicket - 1)
  BY <1>2, Types DEF Inv, Queued, Queue
<1>4. /\ gate' = [gate EXCEPT ![o] = h]
      /\ step' = [Notified(o) EXCEPT ![t] = "idle"]
  BY <1>3 DEF Retire
<1>5. /\ b \in Gate /\ b.nextTicket = gate[o].nextTicket
      /\ b.retired = gate[o].retired \cup {k}
      /\ b.window = gate[o].window /\ b.used = gate[o].used
      /\ b.lastStarted = gate[o].lastStarted
  <2> HIDE DEF k
  <2>1. gate[o].retired \cup {k} \in SUBSET Nat  BY <1>3 DEF Gate
  <2>2. \A R \in SUBSET Nat : [gate[o] EXCEPT !.retired = R] \in Gate
    BY <1>3 DEF Gate
  <2>3. gate[o] \in Gate  BY <1>3
  <2> QED BY <2>1, <2>2, <2>3 DEF Gate
<1>6. b.nextTicket \notin b.retired
  <2> HIDE DEF b, k
  <2> QED BY <1>3, <1>5
<1> HIDE DEF b
<1>7. /\ h \in Gate
      /\ h.serving \in gate[o].serving..gate[o].nextTicket
      /\ h.serving \notin b.retired
      /\ \A j \in gate[o].serving..(h.serving - 1) : j \in b.retired
      /\ h.retired = b.retired \ (0..(h.serving - 1))
      /\ h.nextTicket = gate[o].nextTicket
      /\ h.window = gate[o].window
      /\ h.used = gate[o].used
      /\ h.lastStarted = gate[o].lastStarted
  BY <1>3, <1>5, <1>6, ServeFromFact
<1> HIDE DEF h
<1>8. step' \in [Threads -> Steps] /\ step'[t] = "idle" /\ auth'[t] = NoAuth
      /\ gate' \in [Origins -> Gate] /\ auth' \in [Threads -> Auth \cup {NoAuth}]
  BY <1>1, <1>4, <1>7, NotifiedFact, Types DEF Steps
<1>9. \A u \in Threads : u # t => /\ auth'[u] = auth[u]
                                  /\ step'[u] # "idle" <=> step[u] # "idle"
                                  /\ step'[u] \in Ticketed <=> step[u] \in Ticketed
                                  /\ step'[u] = "sleeping" <=> step[u] = "sleeping"
  BY <1>1, <1>4, NotifiedFact, Types
<1>10. step'[t] \notin Ticketed /\ step'[t] # "sleeping"  BY <1>8 DEF Ticketed
<1>11. gate'[o] = h /\ \A p \in Origins : p # o => gate'[p] = gate[p]
  BY <1>3, <1>4, Types
<1>12. \A p \in Origins : /\ gate'[p].window = gate[p].window
                          /\ gate'[p].used = gate[p].used
                          /\ gate'[p].lastStarted = gate[p].lastStarted
                          /\ gate'[p].nextTicket = gate[p].nextTicket
                          /\ gate'[p].serving >= gate[p].serving
                          /\ gate'[p].serving \in Nat
  <2> TAKE p \in Origins
  <2>1. CASE p = o  BY <1>3, <1>7, <1>11, <2>1
  <2>2. CASE p # o  BY <1>11, <2>2, Types
  <2> QED BY <2>1, <2>2
<1>13. TypeOK'  BY <1>1, <1>8, <1>9, <1>10 DEF Inv, TypeOK
<1>14. Ledger' /\ FifoPaced' /\ BudgetHonoured'
  BY <1>1, <1>12 DEF Inv, Ledger, FifoPaced, BudgetHonoured, Reserved, InWindow
<1>15. Past'
  <2> SUFFICES ASSUME NEW p \in Origins, NEW s \in sent[p]
               PROVE  /\ s.ticket < gate'[p].serving
                      /\ s.at <= gate'[p].lastStarted
                      /\ s.real <= s.at
    BY <1>1 DEF Past
  <2>1. s.ticket < gate[p].serving /\ s.at <= gate[p].lastStarted /\ s.real <= s.at
    BY DEF Inv, Past
  <2>2. s.ticket \in Nat /\ gate[p].serving \in Nat  BY Types
  <2> QED BY <1>12, <2>1, <2>2
<1>16. Owned'
  BY <1>1, <1>8, <1>9, <1>12, Types DEF Inv, Owned, Reserved
<1>17. Queue'
  <2> SUFFICES ASSUME NEW p \in Origins
               PROVE  /\ gate'[p].serving <= gate'[p].nextTicket
                      /\ gate'[p].retired \subseteq
                            gate'[p].serving..(gate'[p].nextTicket - 1)
    BY DEF Queue
  <2>1. CASE p = o
    <3>1. b.retired \subseteq gate[o].serving..(gate[o].nextTicket - 1)
      BY <1>3, <1>5
    <3>2. h.retired \subseteq h.serving..(h.nextTicket - 1)
      BY <1>3, <1>7, <3>1
    <3> QED BY <1>3, <1>7, <1>11, <2>1, <3>2
  <2>2. CASE p # o  BY <1>11, <2>2 DEF Inv, Queue
  <2> QED BY <2>1, <2>2
\* The holder of any other ticket is not served over: its ticket is not retired.
<1>18. ASSUME NEW u \in Threads, u # t, step[u] \in Ticketed
       PROVE  /\ auth[u].ticket >= gate'[auth[u].origin].serving
              /\ auth[u].ticket \notin gate'[auth[u].origin].retired
  <2>1. /\ auth[u].ticket \in Nat /\ auth[u].origin \in Origins
        /\ auth[u].ticket >= gate[auth[u].origin].serving
        /\ auth[u].ticket < gate[auth[u].origin].nextTicket
        /\ auth[u].ticket \notin gate[auth[u].origin].retired
        /\ auth[u].origin = o => auth[u].ticket # k
    BY <1>2, <1>18, Types DEF Inv, Queued
  <2>2. CASE auth[u].origin = o
    <3> HIDE DEF k, o
    <3>1. auth[u].ticket \notin b.retired  BY <1>5, <2>1, <2>2
    <3>2. auth[u].ticket >= h.serving  BY <1>3, <1>7, <2>1, <2>2, <3>1
    <3> QED BY <1>7, <1>11, <2>2, <3>1, <3>2
  <2>3. CASE auth[u].origin # o  BY <1>11, <2>1, <2>3
  <2> QED BY <2>2, <2>3
<1>19. Queued'
  <2> SUFFICES ASSUME NEW u \in Threads, step'[u] \in Ticketed
               PROVE  /\ auth'[u].ticket >= gate'[auth'[u].origin].serving
                      /\ auth'[u].ticket < gate'[auth'[u].origin].nextTicket
                      /\ auth'[u].ticket \notin gate'[auth'[u].origin].retired
                      /\ \A v \in Threads :
                            (/\ v # u
                             /\ step'[v] \in Ticketed
                             /\ auth'[v].origin = auth'[u].origin) =>
                                    auth'[v].ticket # auth'[u].ticket
    BY DEF Queued, Ticketed
  <2>1. u # t /\ step[u] \in Ticketed /\ auth'[u] = auth[u]  BY <1>9, <1>10
  <2>2. auth[u].origin \in Origins  BY <2>1, Types
  <2>3. auth[u].ticket < gate'[auth[u].origin].nextTicket
    BY <1>12, <2>1, <2>2 DEF Inv, Queued
  <2>4. \A v \in Threads :
            (v # u /\ step'[v] \in Ticketed /\ auth'[v].origin = auth[u].origin) =>
                auth'[v].ticket # auth[u].ticket
    BY <1>9, <1>10, <2>1 DEF Inv, Queued
  <2> QED BY <1>18, <2>1, <2>3, <2>4
<1>20. SleeperDue' /\ SleeperIsServed'
  <2> SUFFICES ASSUME NEW u \in Threads, step'[u] = "sleeping"
               PROVE  /\ gate'[auth'[u].origin].lastStarted # None =>
                            auth'[u].due >= gate'[auth'[u].origin].lastStarted + Pacing
                      /\ auth'[u].ticket = gate'[auth'[u].origin].serving
    BY DEF SleeperDue, SleeperIsServed
  <2>1. u # t /\ step[u] = "sleeping" /\ auth'[u] = auth[u]  BY <1>9, <1>10
  <2>2. step[u] \in Ticketed  BY <2>1 DEF Ticketed
  <2>3. /\ auth[u].origin \in Origins /\ auth[u].ticket = gate[auth[u].origin].serving
        /\ auth[u].ticket \in Nat
    BY <2>1, <2>2, Types DEF Inv, SleeperIsServed
  <2>4. auth[u].ticket >= gate'[auth[u].origin].serving  BY <1>18, <2>1, <2>2
  <2>5. auth[u].ticket = gate'[auth[u].origin].serving  BY <1>12, <2>3, <2>4
  <2> QED BY <1>12, <2>1, <2>3, <2>5 DEF Inv, SleeperDue
<1>21. NoOrphanTicket'
  <2> SUFFICES ASSUME NEW p \in Origins
               PROVE  /\ gate'[p].serving \notin gate'[p].retired
                      /\ \A j \in gate'[p].serving..(gate'[p].nextTicket - 1) :
                            \/ j \in gate'[p].retired
                            \/ \E u \in Threads : /\ step'[u] \in Ticketed
                                                  /\ auth'[u].origin = p
                                                  /\ auth'[u].ticket = j
    BY DEF NoOrphanTicket, Ticketed
  <2>1. gate'[p].serving \notin gate'[p].retired
    BY <1>7, <1>11 DEF Inv, NoOrphanTicket
  <2>2. ASSUME NEW j \in gate'[p].serving..(gate'[p].nextTicket - 1),
               j \notin gate'[p].retired
        PROVE  \E u \in Threads : /\ step'[u] \in Ticketed
                                  /\ auth'[u].origin = p
                                  /\ auth'[u].ticket = j
    <3>1. /\ j \in gate[p].serving..(gate[p].nextTicket - 1)
          /\ j \notin gate[p].retired
          /\ p = o => j # k
      <4>1. CASE p = o
        <5> HIDE DEF k, o
        <5>1. j \in h.serving..(gate[o].nextTicket - 1) /\ j \notin h.retired
          BY <1>7, <1>11, <2>2, <4>1
        <5>2. j \in gate[o].serving..(gate[o].nextTicket - 1) /\ j \notin b.retired
          BY <1>3, <1>7, <5>1
        <5> QED BY <1>5, <4>1, <5>2
      <4>2. CASE p # o  BY <1>11, <2>2, <4>2
      <4> QED BY <4>1, <4>2
    <3>2. PICK u \in Threads : step[u] \in Ticketed /\ auth[u].origin = p
                              /\ auth[u].ticket = j
      BY <3>1 DEF Inv, NoOrphanTicket
    <3>3. u # t  BY <3>1, <3>2
    <3> QED BY <1>9, <3>2, <3>3
  <2> QED BY <2>1, <2>2
<1> QED BY <1>13, <1>14, <1>15, <1>16, <1>17, <1>19, <1>20, <1>21 DEF Inv

LEMMA StartInv ==
    ASSUME GateBounds, Inv, NEW t \in Threads, Start(t)
    PROVE  Inv'
<1> DEFINE o == auth[t].origin
           a == auth[t]
           at == StartTime(t)
           b == [gate[o] EXCEPT !.lastStarted = at]
           h == ServeFrom(b, gate[o].serving + 1)
           s0 == [ticket |-> a.ticket, window |-> a.window, slot |-> a.slot,
                  at |-> at, real |-> clock]
<1>1. /\ step[t] = "sleeping" /\ auth' = [auth EXCEPT ![t] = NoAuth]
      /\ gate' = [gate EXCEPT ![o] = h]
      /\ step' = [Notified(o) EXCEPT ![t] = "idle"]
      /\ sent' = [sent EXCEPT ![o] = sent[o] \cup {s0}]
      /\ clock' = clock
      /\ clock >= a.due
      /\ a.ticket = gate[o].serving
      /\ gate[o].window = a.window
      /\ InWindow(a.window, at)
  BY DEF Start, StillAuthorized
<1>2. step[t] \in Ticketed  BY <1>1 DEF Ticketed
<1>3. /\ o \in Origins /\ a \in Auth /\ gate[o] \in Gate
      /\ a.ticket \in Nat /\ a.window \in Nat /\ a.slot \in Nat
      /\ a.due \in Nat /\ a.reserved \in Nat /\ clock \in Nat
      /\ a.ticket < gate[o].nextTicket
      /\ gate[o].serving \in Nat /\ gate[o].nextTicket \in Nat
      /\ gate[o].lastStarted \in Nat \cup {None}
      /\ gate[o].retired \subseteq gate[o].serving..(gate[o].nextTicket - 1)
      /\ gate[o].serving \notin gate[o].retired
  BY <1>2, Types DEF Inv, Queued, Queue, NoOrphanTicket
<1>4. at \in Nat /\ at >= a.due /\ at >= clock
  <2>1. Later(a.reserved, a.due) \in Nat /\ Later(a.reserved, a.due) >= a.due
    BY <1>3 DEF Later
  <2> QED BY <1>3, <2>1, CausalNowFact DEF StartTime
<1> HIDE DEF at
<1>5. s0 \in Send  BY <1>3, <1>4 DEF Send, Time
<1>6. /\ s0.ticket = a.ticket /\ s0.window = a.window /\ s0.slot = a.slot
      /\ s0.at = at /\ s0.real = clock
  OBVIOUS
<1> HIDE DEF s0
<1>7. /\ b \in Gate /\ b.nextTicket = gate[o].nextTicket
      /\ b.retired = gate[o].retired
      /\ b.window = gate[o].window /\ b.used = gate[o].used
      /\ b.lastStarted = at
  BY <1>3, <1>4 DEF Gate, Time
<1> HIDE DEF b
<1>8. /\ h \in Gate
      /\ h.serving \in (gate[o].serving + 1)..gate[o].nextTicket
      /\ h.serving \notin gate[o].retired
      /\ \A j \in (gate[o].serving + 1)..(h.serving - 1) : j \in gate[o].retired
      /\ h.retired = gate[o].retired \ (0..(h.serving - 1))
      /\ h.nextTicket = gate[o].nextTicket
      /\ h.window = gate[o].window
      /\ h.used = gate[o].used
      /\ h.lastStarted = at
  <2>1. gate[o].serving + 1 \in Nat /\ gate[o].serving + 1 <= b.nextTicket
    BY <1>1, <1>3, <1>7
  <2>2. b.nextTicket \notin b.retired  BY <1>3, <1>7
  <2> QED BY <1>7, <2>1, <2>2, ServeFromFact
<1> HIDE DEF h
<1>9. /\ step' \in [Threads -> Steps] /\ step'[t] = "idle" /\ auth'[t] = NoAuth
      /\ gate' \in [Origins -> Gate] /\ auth' \in [Threads -> Auth \cup {NoAuth}]
      /\ sent' \in [Origins -> SUBSET Send]
  BY <1>1, <1>5, <1>8, NotifiedFact, Types DEF Steps
<1>10. \A u \in Threads : u # t => /\ auth'[u] = auth[u]
                                   /\ step'[u] # "idle" <=> step[u] # "idle"
                                   /\ step'[u] \in Ticketed <=> step[u] \in Ticketed
                                   /\ step'[u] = "sleeping" <=> step[u] = "sleeping"
  BY <1>1, NotifiedFact, Types
<1>11. step'[t] \notin Ticketed /\ step'[t] # "sleeping"  BY <1>9 DEF Ticketed
<1>12. /\ gate'[o] = h /\ sent'[o] = sent[o] \cup {s0}
       /\ \A p \in Origins : p # o => gate'[p] = gate[p] /\ sent'[p] = sent[p]
  BY <1>1, <1>3, Types
<1>13. \A p \in Origins : /\ gate'[p].window = gate[p].window
                          /\ gate'[p].used = gate[p].used
                          /\ gate'[p].nextTicket = gate[p].nextTicket
                          /\ gate'[p].serving >= gate[p].serving
                          /\ gate'[p].serving \in Nat
  <2> TAKE p \in Origins
  <2>1. CASE p = o  BY <1>3, <1>8, <1>12, <2>1
  <2>2. CASE p # o  BY <1>12, <2>2, Types
  <2> QED BY <2>1, <2>2
<1>14. TypeOK'  BY <1>1, <1>3, <1>9, <1>10, <1>11 DEF Inv, TypeOK
\* The budget: the request takes the slot its authorization owned.
<1>15. /\ a.slot \in 1..Limit
       /\ Reserved(gate[o], a.window, a.slot)
       /\ \A s \in sent[o] : s.window = a.window => s.slot # a.slot
  BY <1>2, Types DEF Inv, Owned
<1>16. Ledger'
  <2> SUFFICES ASSUME NEW p \in Origins, NEW s \in sent'[p]
               PROVE  Reserved(gate[p], s.window, s.slot)
    BY <1>13 DEF Inv, Ledger, Reserved
  <2> QED BY <1>6, <1>12, <1>15 DEF Inv, Ledger
<1>17. BudgetHonoured'
  <2> SUFFICES ASSUME NEW p \in Origins, NEW x \in sent'[p], NEW y \in sent'[p]
               PROVE  /\ x.slot \in 1..Limit
                      /\ InWindow(x.window, x.at)
                      /\ x.window < y.window => x.window + Window <= y.window
                      /\ (x.window = y.window /\ x.slot = y.slot) => x = y
    BY DEF BudgetHonoured, InWindow
  <2>1. CASE x \in sent[p] /\ y \in sent[p]
    BY <2>1 DEF Inv, BudgetHonoured
  <2>2. CASE p = o /\ x = s0 /\ y = s0
    BY <1>1, <1>3, <1>6, <1>15, <2>2
  <2>3. CASE p = o /\ x = s0 /\ y \in sent[o]
    <3>1. y.window <= gate[o].window /\ y.window \in Nat  BY <2>3, Types DEF Inv, Ledger, Reserved
    <3>2. ~(x.window < y.window)  BY <1>1, <1>3, <1>6, <2>3, <3>1
    <3> QED BY <1>1, <1>6, <1>15, <2>3, <3>2
  <2>4. CASE p = o /\ x \in sent[o] /\ y = s0
    <3>1. /\ x.slot \in 1..Limit /\ InWindow(x.window, x.at)
      BY <2>4 DEF Inv, BudgetHonoured
    <3>2. x.window < gate[o].window => x.window + Window <= gate[o].window
      BY <2>4 DEF Inv, Ledger, Reserved
    <3> QED BY <1>1, <1>6, <1>15, <2>4, <3>1, <3>2
  <2> QED BY <1>12, <2>1, <2>2, <2>3, <2>4
<1>18. Owned'
  <2> SUFFICES ASSUME NEW u \in Threads, step'[u] # "idle"
               PROVE  /\ auth'[u].slot \in 1..Limit
                      /\ Reserved(gate'[auth'[u].origin], auth'[u].window, auth'[u].slot)
                      /\ \A s \in sent'[auth'[u].origin] :
                            s.window = auth'[u].window => s.slot # auth'[u].slot
                      /\ \A v \in Threads :
                            (/\ v # u
                             /\ step'[v] # "idle"
                             /\ auth'[v].origin = auth'[u].origin
                             /\ auth'[v].window = auth'[u].window) =>
                                    auth'[v].slot # auth'[u].slot
    BY DEF Owned, Reserved
  <2>1. u # t /\ step[u] # "idle" /\ auth'[u] = auth[u] /\ auth[u].origin \in Origins
    BY <1>9, <1>10, Types
  <2>2. auth[u].slot \in 1..Limit
    BY <2>1 DEF Inv, Owned
  <2>3. Reserved(gate'[auth[u].origin], auth[u].window, auth[u].slot)
    BY <1>13, <2>1 DEF Inv, Owned, Reserved
  <2>4. \A s \in sent[auth[u].origin] : s.window = auth[u].window => s.slot # auth[u].slot
    BY <2>1 DEF Inv, Owned
  <2>5. (auth[u].origin = o /\ a.window = auth[u].window) => a.slot # auth[u].slot
    BY <1>2, <2>1, Types DEF Inv, Owned
  <2>6. \A s \in sent'[auth[u].origin] : s.window = auth[u].window => s.slot # auth[u].slot
    BY <1>6, <1>12, <2>1, <2>4, <2>5
  <2>7. \A v \in Threads :
            (/\ v # u
             /\ step'[v] # "idle"
             /\ auth'[v].origin = auth[u].origin
             /\ auth'[v].window = auth[u].window) => auth'[v].slot # auth[u].slot
    BY <1>9, <1>10, <2>1 DEF Inv, Owned
  <2> QED BY <2>1, <2>2, <2>3, <2>6, <2>7
\* The pace: the sleeper's due time was behind the last start, and still is.
<1>19. \A s \in sent[o] : /\ s.ticket < a.ticket
                          /\ s.at + Pacing <= at
                          /\ s.real + Pacing <= clock
  <2> TAKE s \in sent[o]
  <2>1. /\ s.ticket < gate[o].serving /\ s.at <= gate[o].lastStarted /\ s.real <= s.at
        /\ s.at \in Nat /\ s.real \in Nat
    BY <1>3, Types DEF Inv, Past
  <2>2. gate[o].lastStarted \in Nat  BY <1>3, <2>1 DEF None
  <2>3. a.due >= gate[o].lastStarted + Pacing
    BY <1>1, <2>2 DEF Inv, SleeperDue, None
  <2>4. Pacing \in Nat  BY DEF GateBounds
  <2> HIDE DEF o, a
  <2>5. s.at + Pacing <= a.due /\ s.real + Pacing <= a.due
    BY <1>3, <2>1, <2>2, <2>3, <2>4
  <2>6. s.at + Pacing \in Nat /\ s.real + Pacing \in Nat  BY <2>1, <2>4
  <2> QED BY <1>1, <1>3, <1>4, <2>1, <2>5, <2>6
<1>20. FifoPaced'
  <2> SUFFICES ASSUME NEW p \in Origins, NEW x \in sent'[p], NEW y \in sent'[p]
               PROVE  /\ x.ticket = y.ticket => x = y
                      /\ x.ticket < y.ticket => /\ x.at + Pacing <= y.at
                                               /\ x.real + Pacing <= y.real
    BY DEF FifoPaced
  <2>1. CASE x \in sent[p] /\ y \in sent[p]
    BY <2>1 DEF Inv, FifoPaced
  <2>2. CASE p = o /\ x = s0 /\ y = s0
    BY <1>3, <1>6, <2>2
  <2>3. CASE p = o /\ x = s0 /\ y \in sent[o]
    <3>1. y.ticket \in Nat /\ y.ticket < a.ticket  BY <1>3, <1>19, <2>3, Types
    <3> QED BY <1>3, <1>6, <2>3, <3>1
  <2>4. CASE p = o /\ x \in sent[o] /\ y = s0
    <3>1. x.ticket \in Nat /\ x.ticket < a.ticket  BY <1>3, <1>19, <2>4, Types
    <3> QED BY <1>3, <1>6, <1>19, <2>4, <3>1
  <2> QED BY <1>12, <2>1, <2>2, <2>3, <2>4
<1>21. Past'
  <2> SUFFICES ASSUME NEW p \in Origins, NEW s \in sent'[p]
               PROVE  /\ s.ticket < gate'[p].serving
                      /\ s.at <= gate'[p].lastStarted
                      /\ s.real <= s.at
    BY DEF Past
  <2>1. CASE p # o  BY <1>12, <2>1 DEF Inv, Past
  <2>2. CASE p = o /\ s = s0
    BY <1>1, <1>3, <1>4, <1>6, <1>8, <1>12, <2>2
  <2>3. CASE p = o /\ s \in sent[o]
    <3>1. s.ticket \in Nat /\ s.at \in Nat /\ s.real \in Nat
          /\ s.ticket < a.ticket /\ s.at + Pacing <= at
      BY <1>3, <1>19, <2>3, Types
    <3>2. s.at <= at  BY <1>4, <3>1 DEF GateBounds
    <3>3. s.real <= s.at  BY <1>3, <2>3 DEF Inv, Past
    <3>4. s.ticket < h.serving  BY <1>1, <1>3, <1>8, <3>1
    <3> QED BY <1>8, <1>12, <2>3, <3>2, <3>3, <3>4
  <2> QED BY <1>12, <2>1, <2>2, <2>3
\* The queue.
<1>22. Queue'
  <2> SUFFICES ASSUME NEW p \in Origins
               PROVE  /\ gate'[p].serving <= gate'[p].nextTicket
                      /\ gate'[p].retired \subseteq
                            gate'[p].serving..(gate'[p].nextTicket - 1)
    BY DEF Queue
  <2>1. CASE p = o
    <3>1. h.retired \subseteq h.serving..(h.nextTicket - 1)
      BY <1>3, <1>8
    <3> QED BY <1>3, <1>8, <1>12, <2>1, <3>1
  <2>2. CASE p # o  BY <1>12, <2>2 DEF Inv, Queue
  <2> QED BY <2>1, <2>2
<1>23. ASSUME NEW u \in Threads, u # t, step[u] \in Ticketed
       PROVE  /\ auth[u].ticket >= gate'[auth[u].origin].serving
              /\ auth[u].ticket \notin gate'[auth[u].origin].retired
  <2>1. /\ auth[u].ticket \in Nat /\ auth[u].origin \in Origins
        /\ auth[u].ticket >= gate[auth[u].origin].serving
        /\ auth[u].ticket < gate[auth[u].origin].nextTicket
        /\ auth[u].ticket \notin gate[auth[u].origin].retired
        /\ auth[u].origin = o => auth[u].ticket # a.ticket
    BY <1>2, <1>23, Types DEF Inv, Queued
  <2>2. CASE auth[u].origin = o
    <3> HIDE DEF a, o
    <3>1. auth[u].ticket >= gate[o].serving + 1  BY <1>1, <1>3, <2>1, <2>2
    <3>2. auth[u].ticket >= h.serving  BY <1>3, <1>8, <2>1, <2>2, <3>1
    <3> QED BY <1>8, <1>12, <2>1, <2>2, <3>2
  <2>3. CASE auth[u].origin # o  BY <1>12, <2>1, <2>3
  <2> QED BY <2>2, <2>3
<1>24. Queued'
  <2> SUFFICES ASSUME NEW u \in Threads, step'[u] \in Ticketed
               PROVE  /\ auth'[u].ticket >= gate'[auth'[u].origin].serving
                      /\ auth'[u].ticket < gate'[auth'[u].origin].nextTicket
                      /\ auth'[u].ticket \notin gate'[auth'[u].origin].retired
                      /\ \A v \in Threads :
                            (/\ v # u
                             /\ step'[v] \in Ticketed
                             /\ auth'[v].origin = auth'[u].origin) =>
                                    auth'[v].ticket # auth'[u].ticket
    BY DEF Queued, Ticketed
  <2>1. u # t /\ step[u] \in Ticketed /\ auth'[u] = auth[u]  BY <1>10, <1>11
  <2>2. auth[u].origin \in Origins  BY <2>1, Types
  <2>3. auth[u].ticket < gate'[auth[u].origin].nextTicket
    BY <1>13, <2>1, <2>2 DEF Inv, Queued
  <2>4. \A v \in Threads :
            (v # u /\ step'[v] \in Ticketed /\ auth'[v].origin = auth[u].origin) =>
                auth'[v].ticket # auth[u].ticket
    BY <1>10, <1>11, <2>1 DEF Inv, Queued
  <2> QED BY <1>23, <2>1, <2>3, <2>4
\* Nobody else sleeps at o: the sleeper is the one being served.
<1>25. SleeperDue' /\ SleeperIsServed'
  <2> SUFFICES ASSUME NEW u \in Threads, step'[u] = "sleeping"
               PROVE  /\ gate'[auth'[u].origin].lastStarted # None =>
                            auth'[u].due >= gate'[auth'[u].origin].lastStarted + Pacing
                      /\ auth'[u].ticket = gate'[auth'[u].origin].serving
    BY DEF SleeperDue, SleeperIsServed
  <2>1. u # t /\ step[u] = "sleeping" /\ auth'[u] = auth[u]  BY <1>10, <1>11
  <2>2. step[u] \in Ticketed  BY <2>1 DEF Ticketed
  <2>3. /\ auth[u].origin \in Origins /\ auth[u].ticket = gate[auth[u].origin].serving
    BY <2>1, <2>2, Types DEF Inv, SleeperIsServed
  <2>4. auth[u].origin = o => auth[u].ticket # a.ticket
    BY <1>2, <2>1, <2>2 DEF Inv, Queued
  <2>5. auth[u].origin # o  BY <1>1, <2>3, <2>4
  <2> QED BY <1>12, <2>1, <2>3, <2>5 DEF Inv, SleeperDue
<1>26. NoOrphanTicket'
  <2> SUFFICES ASSUME NEW p \in Origins
               PROVE  /\ gate'[p].serving \notin gate'[p].retired
                      /\ \A j \in gate'[p].serving..(gate'[p].nextTicket - 1) :
                            \/ j \in gate'[p].retired
                            \/ \E u \in Threads : /\ step'[u] \in Ticketed
                                                  /\ auth'[u].origin = p
                                                  /\ auth'[u].ticket = j
    BY DEF NoOrphanTicket, Ticketed
  <2>1. gate'[p].serving \notin gate'[p].retired
    BY <1>8, <1>12 DEF Inv, NoOrphanTicket
  <2>2. ASSUME NEW j \in gate'[p].serving..(gate'[p].nextTicket - 1),
               j \notin gate'[p].retired
        PROVE  \E u \in Threads : /\ step'[u] \in Ticketed
                                  /\ auth'[u].origin = p
                                  /\ auth'[u].ticket = j
    <3>1. /\ j \in gate[p].serving..(gate[p].nextTicket - 1)
          /\ j \notin gate[p].retired
          /\ p = o => j # a.ticket
      <4>1. CASE p = o
        <5> HIDE DEF a, o
        <5>1. j \in h.serving..(gate[o].nextTicket - 1) /\ j \notin h.retired
          BY <1>8, <1>12, <2>2, <4>1
        <5> QED BY <1>1, <1>3, <1>8, <4>1, <5>1
      <4>2. CASE p # o  BY <1>12, <2>2, <4>2
      <4> QED BY <4>1, <4>2
    <3>2. PICK u \in Threads : step[u] \in Ticketed /\ auth[u].origin = p
                              /\ auth[u].ticket = j
      BY <3>1 DEF Inv, NoOrphanTicket
    <3>3. u # t  BY <3>1, <3>2
    <3> QED BY <1>10, <3>2, <3>3
  <2> QED BY <2>1, <2>2
<1> QED BY <1>14, <1>16, <1>17, <1>18, <1>20, <1>21, <1>22, <1>24, <1>25, <1>26 DEF Inv

-------------------------------------------------------------------------------
(* The theorems.                                                           *)

\* Inv is inductive: no step of any thread, at any origin, breaks it.
THEOREM NextInv ==
    ASSUME GateBounds, Inv, [Next]_vars
    PROVE  Inv'
<1>1. /\ CausalFloors \subseteq Nat \cup {None}
      /\ HeldPolicies \subseteq Policy
  BY FloorFact, Types
<1>2. ASSUME NEW t \in Threads, Arrive(t) PROVE Inv'
  <2>1. PICK o \in Origins, pol \in HeldPolicies, floor \in CausalFloors :
            Authorize(t, o, pol, floor) \/ Reject(t, o, pol, floor)
    BY <1>2 DEF Arrive
  <2>2. pol \in Policy /\ floor \in Nat \cup {None}  BY <1>1
  <2>3. CASE Authorize(t, o, pol, floor)  BY <2>2, <2>3, AuthorizeInv
  <2>4. CASE Reject(t, o, pol, floor)  BY <2>2, <2>4, RejectInv
  <2> QED BY <2>1, <2>3, <2>4
<1>3. ASSUME NEW t \in Threads, Abandon(t) PROVE Inv'  BY <1>3, AbandonInv
<1>4. ASSUME NEW t \in Threads, Interrupt(t) PROVE Inv'
  BY <1>4, MoveInv DEF Interrupt, Ticketed
<1>5. ASSUME NEW t \in Threads, Advance(t) PROVE Inv'
  <2>1. CASE TakeTicket(t)  BY <2>1, TakeTicketInv
  <2>2. CASE AwaitTurn(t)  BY <2>2, MoveInv DEF AwaitTurn, Ticketed
  <2>3. CASE TakeTurn(t)  BY <2>3, TakeTurnInv
  <2>4. CASE Start(t)  BY <2>4, StartInv
  <2>5. CASE Refuse(t)  BY <2>5, MoveInv DEF Refuse, Ticketed
  <2>6. CASE Retire(t)  BY <2>6, RetireInv
  <2> QED BY <1>5, <2>1, <2>2, <2>3, <2>4, <2>5, <2>6 DEF Advance
<1>6. CASE Tick  BY <1>6, TickInv
<1>7. CASE Quiet  BY <1>7, StutterInv DEF Quiet
<1>8. CASE UNCHANGED vars  BY <1>8, StutterInv
<1> QED BY <1>2, <1>3, <1>4, <1>5, <1>6, <1>7, <1>8 DEF Next

\* The invariant holds of every behaviour of the gate.
THEOREM SpecInv == Spec => []Inv
<1>1. Init => Inv  BY GateAssumption, InitInv
<1>2. Inv /\ [Next]_vars => Inv'  BY GateAssumption, NextInv
<1> QED BY <1>1, <1>2, PTL DEF Spec

\* The gate's state keeps its shape: in particular serving_start_ticket is
\* always a number the loop over the retired tickets can reach.
THEOREM TypeCorrect == Spec => []TypeOK
<1>1. Inv => TypeOK  BY DEF Inv
<1> QED BY SpecInv, <1>1, PTL

\* Starts of one origin are paced and leave in ticket order, for any number of
\* threads, although each computes its slot before sleeping outside the lock.
THEOREM FifoPacedCorrect == Spec => []FifoPaced
<1>1. Inv => FifoPaced  BY DEF Inv
<1> QED BY SpecInv, <1>1, PTL

\* No budget window ever sees two requests in one slot, or a slot past Limit.
THEOREM BudgetCorrect == Spec => []BudgetHonoured
<1>1. Inv => BudgetHonoured  BY DEF Inv
<1> QED BY SpecInv, <1>1, PTL

\* The "ticket is no longer active" error of _start_authorized_request cannot
\* be raised: a sleeper stays the one being served.
THEOREM SleeperCorrect == Spec => []SleeperIsServed
<1>1. Inv => SleeperIsServed  BY DEF Inv
<1> QED BY SpecInv, <1>1, PTL

\* The start queue never serves a ticket that nobody can hand on.
THEOREM NoOrphanCorrect == Spec => []NoOrphanTicket
<1>1. Inv => NoOrphanTicket  BY DEF Inv
<1> QED BY SpecInv, <1>1, PTL

\* An arrival rolls its origin's window, or leaves every gate alone.
LEMMA ArrivalRolls ==
    ASSUME GateBounds, Inv, NEW t \in Threads, Arrive(t)
    PROVE  \/ gate' = gate
           \/ \E o \in Origins : \E h :
                    gate' = [gate EXCEPT ![o] = h] /\ Rolls(gate[o], h)
<1>1. PICK o \in Origins, pol \in HeldPolicies, floor \in CausalFloors :
            Authorize(t, o, pol, floor) \/ Reject(t, o, pol, floor)
  BY DEF Arrive
<1> DEFINE now == CausalNow(floor)
           r == Rolled(gate[o], now)
           slot == PacedSlot(r, now)
           g == WithReservation(r, slot)
<1>2. gate[o] \in Gate /\ clock \in Nat /\ gate[o].used <= Limit
  BY Types DEF Inv, Ledger
<1>3. now \in Nat  BY <1>2, FloorFact, CausalNowFact
<1>4. /\ r \in Gate
      /\ r.window \in Nat
      /\ r.nextTicket = gate[o].nextTicket
      /\ r.serving = gate[o].serving
      /\ r.retired = gate[o].retired
      /\ r.lastStarted = gate[o].lastStarted
      /\ \/ r.window = gate[o].window /\ r.used = gate[o].used
         \/ /\ r.used = 0
            /\ r.window = now
            /\ gate[o].window = None \/ gate[o].window + Window <= now
  BY <1>2, <1>3, RolledFact
<1>5. slot \in Nat  BY <1>3, <1>4, PacedSlotFact
<1> HIDE DEF now, r, slot
<1>6. /\ g \in Gate
      /\ g.window = r.window
      /\ g.used = r.used + 1
      /\ g.nextTicket = r.nextTicket
      /\ g.serving = r.serving
      /\ g.retired = r.retired
      /\ g.lastStarted = r.lastStarted
  BY <1>4, <1>5, ReservationFact
<1> HIDE DEF g
<1>7. gate[o].used \in Nat /\ r.used \in Nat  BY <1>2, <1>4 DEF Gate
<1>8. r.used < Limit => Rolls(gate[o], g)
  BY <1>4, <1>6, <1>7 DEF Rolls, GateBounds
<1>9. Rolls(gate[o], r)
  BY <1>2, <1>4, <1>7 DEF Rolls, GateBounds
<1>10. CASE Authorize(t, o, pol, floor)
  <2>1. gate' = [gate EXCEPT ![o] = g] /\ r.used < Limit
    BY <1>10 DEF Authorize, Admissible, g, r, slot, now
  <2> QED BY <1>8, <2>1
<1>11. CASE Reject(t, o, pol, floor)
  <2>1. gate' = gate \/ gate' = [gate EXCEPT ![o] = r]
    BY <1>11 DEF Reject, r, now
  <2> QED BY <1>9, <2>1
<1> QED BY <1>1, <1>10, <1>11

\* Once reserved, nothing a thread does changes the units used.
LEMMA AdvanceKeepsUsed ==
    ASSUME GateBounds, Inv, NEW t \in Threads, Advance(t)
    PROVE  \A o \in Origins : gate'[o].used = gate[o].used
<1> DEFINE o == auth[t].origin
<1>1. CASE TakeTicket(t)  BY <1>1, Types DEF TakeTicket
<1>2. CASE AwaitTurn(t) \/ TakeTurn(t) \/ Refuse(t)
  BY <1>2 DEF AwaitTurn, TakeTurn, Refuse
<1>3. CASE Start(t)
  <2>1. gate' = [gate EXCEPT ![o] = ServeFrom([gate[o] EXCEPT !.lastStarted = StartTime(t)],
                                              gate[o].serving + 1)]
    BY <1>3 DEF Start
  <2> QED BY <2>1, Types DEF ServeFrom
<1>4. CASE Retire(t)
  <2> DEFINE b == [gate[o] EXCEPT !.retired = gate[o].retired \cup {auth[t].ticket}]
             h == ServeFrom(b, gate[o].serving)
  <2>1. gate' = gate \/ gate' = [gate EXCEPT ![o] = h]
    BY <1>4 DEF Retire
  <2>2. b.used = gate[o].used
    <3>1. step[t] # "idle"  BY <1>4 DEF Retire
    <3>2. gate[o] \in Gate  BY <3>1, Types
    <3> QED BY <3>2 DEF Gate
  <2> HIDE DEF b
  <2>3. h.used = b.used  BY DEF ServeFrom
  <2> HIDE DEF h
  <2> QED BY <2>1, <2>2, <2>3, Types
<1> QED BY <1>1, <1>2, <1>3, <1>4 DEF Advance

\* Reserved units are never handed back before the window has run out.
THEOREM UnitsCorrect == Spec => UnitsNeverReturned
<1> DEFINE Kept == \A o \in Origins :
                gate'[o].used < gate[o].used =>
                    gate'[o].window >= gate[o].window + Window
<1>1. ASSUME Inv, [Next]_vars PROVE [Kept]_vars
  <2> USE GateAssumption
  <2>1. gate \in [Origins -> Gate] /\ clock \in Nat  BY <1>1, Types
  <2>2. ASSUME NEW o \in Origins, NEW h,
               gate' = [gate EXCEPT ![o] = h], Rolls(gate[o], h)
        PROVE  Kept
    <3>1. h.used < gate[o].used => h.window >= gate[o].window + Window
      <4>1. /\ gate[o].used \in Nat /\ h.used \in Nat
            /\ gate[o].window = None => gate[o].used = 0
        BY <1>1, <2>2, Types DEF Inv, Ledger, Rolls, Gate
      <4>2. CASE gate[o].window = None  BY <4>1, <4>2
      <4>3. CASE gate[o].window # None
        <5>1. gate[o].window \in Nat /\ h.window \in Nat
          BY <2>1, <2>2, <4>3 DEF Gate, Time, Rolls
        <5> QED BY <2>2, <4>1, <4>3, <5>1 DEF Rolls, GateBounds
      <4> QED BY <4>2, <4>3
    <3>2. \A p \in Origins : p # o => gate'[p] = gate[p]  BY <2>1, <2>2
    <3>3. gate'[o] = h  BY <2>1, <2>2
    <3>4. \A p \in Origins : gate[p].used \in Nat  BY <1>1, Types
    <3> QED BY <3>1, <3>2, <3>3, <3>4
  <2>3. ASSUME NEW t \in Threads, Arrive(t) PROVE Kept \/ gate' = gate
    BY <1>1, <2>2, <2>3, ArrivalRolls
  <2>4. ASSUME NEW t \in Threads, Advance(t) PROVE Kept
    <3>1. \A p \in Origins : gate'[p].used = gate[p].used /\ gate[p].used \in Nat
      BY <1>1, <2>4, AdvanceKeepsUsed, Types
    <3> QED BY <3>1
  <2>5. gate' = gate => Kept
    <3>1. \A p \in Origins : gate[p].used \in Nat  BY <1>1, Types
    <3> QED BY <3>1
  <2> HIDE DEF Kept
  <2> QED BY <1>1, <2>3, <2>4, <2>5 DEF Next, Abandon, Interrupt, Tick, Quiet, vars
<1> QED BY SpecInv, <1>1, PTL DEF Spec, UnitsNeverReturned

===============================================================================
