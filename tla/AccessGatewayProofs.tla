-------------------------- MODULE AccessGatewayProofs --------------------------
(***************************************************************************)
(* Proofs about AccessGateway for every number of threads, origins and     *)
(* redirects, and every pacing interval, window, limit and policy life.    *)
(*                                                                         *)
(* The gateway is its two components plus a chain per thread, and the      *)
(* proof is theirs plus Coupled: where a chain stands tells where the      *)
(* thread stands in the cache and in the gate, the policies it carries are *)
(* one TTL long and no older than the clock, and its causal floor is at    *)
(* most two instants ahead.  That makes every step of the gateway a step   *)
(* or a stutter of each component, so their inductive invariants carry     *)
(* over, and with their types Coupled is inductive itself.                 *)
(***************************************************************************)
EXTENDS AccessGateway, TLAPS

CacheProofs == INSTANCE PolicyCacheProofs
GateProofs == INSTANCE OriginGateProofs

\* Where a chain stands fixes where its thread stands in the two components.
Phased(t) ==
    /\ chain[t].phase = "idle" => chain[t] = NoChain
    /\ chain[t].phase = "lookup" <=> reader[t].step # "idle"
    /\ chain[t].phase = "gate" <=> step[t] # "idle"
    /\ chain[t].phase = "lookup" => ~chain[t].claim /\ clock <= LastArrival
    /\ step[t] \in Gates!Ticketed => chain[t].claim
    /\ chain[t].phase = "flight" => chain[t].claim /\ chain[t].begun \in Nat

\* One request per hop, and at most MaxHops hops after the first.
Counted(t) ==
    /\ chain[t].hops <= MaxHops
    /\ chain[t].requests =
            IF chain[t].phase = "flight" THEN chain[t].hops + 1 ELSE chain[t].hops

\* The floor, the reservation, the due time and the start follow each other.
Caused(t) ==
    /\ chain[t].floor <= clock + 2
    /\ chain[t].phase = "flight" =>
            chain[t].floor < chain[t].begun /\ chain[t].begun <= clock + 1
    /\ step[t] # "idle" =>
            /\ chain[t].floor < auth[t].reserved
            /\ auth[t].reserved <= auth[t].notBefore
            /\ auth[t].notBefore <= auth[t].due
            /\ auth[t].policy.observed <= auth[t].reserved
            /\ auth[t].policy.expires = auth[t].policy.observed + TTL

\* A policy is observed in the past and lives one TTL.
Dated(p) == p.observed <= clock /\ p.expires = p.observed + TTL

Carried ==
    /\ \A o \in Origins : \A p \in cache[o] : Dated(p)
    /\ \A t \in Threads :
            reader[t].step \in {"fetched", "done"} => Dated(reader[t].policy)

Coupled ==
    /\ chain \in [Threads -> Chain]
    /\ \A t \in Threads : Phased(t) /\ Counted(t) /\ Caused(t)
    /\ Carried

Inv ==
    /\ CacheProofs!Inv
    /\ GateProofs!Inv
    /\ Coupled

-------------------------------------------------------------------------------
(* The components as their own proofs name them.                           *)

LEMMA SameCache ==
    /\ Policies!Init <=> CacheProofs!Init
    /\ [Policies!Next]_(Policies!vars) <=> [CacheProofs!Next]_(CacheProofs!vars)
    /\ Policies!TypeOK <=> CacheProofs!TypeOK
    /\ Policies!CacheBounds <=> CacheProofs!CacheBounds
BY
   DEF Policies!Call, CacheProofs!Call, Policies!ReturnCached,
       CacheProofs!ReturnCached, Policies!Wait, CacheProofs!Wait,
       Policies!AdmitFetch, CacheProofs!AdmitFetch, Policies!Fetch,
       CacheProofs!Fetch, Policies!FetchRaises, CacheProofs!FetchRaises,
       Policies!Publish, CacheProofs!Publish, Policies!GiveUp,
       CacheProofs!GiveUp, Policies!Return, CacheProofs!Return,
       Policies!Invalidate, CacheProofs!Invalidate, Policies!Tick,
       CacheProofs!Tick, Policies!Quiet, CacheProofs!Quiet,
       Policies!Released, CacheProofs!Released, Policies!Notified,
       CacheProofs!Notified, Policies!Hit, CacheProofs!Hit,
       Policies!Fresh, CacheProofs!Fresh, Policies!Outcomes,
       CacheProofs!Outcomes, Policies!NoPolicy, CacheProofs!NoPolicy,
       Policies!vars, CacheProofs!vars, Policies!Advance,
       CacheProofs!Advance, Policies!Init, CacheProofs!Init,
       Policies!Next, CacheProofs!Next, Policies!TypeOK,
       CacheProofs!TypeOK, Policies!Policy, CacheProofs!Policy,
       Policies!Steps, CacheProofs!Steps, Policies!Reader,
       CacheProofs!Reader, Policies!CacheBounds, CacheProofs!CacheBounds

LEMMA SameGate ==
    /\ Gates!Init <=> GateProofs!Init
    /\ [Gates!Next]_(Gates!vars) <=> [GateProofs!Next]_(GateProofs!vars)
    /\ Gates!TypeOK <=> GateProofs!TypeOK
    /\ Gates!GateBounds <=> GateProofs!GateBounds
BY
   DEF Gates!Authorize, GateProofs!Authorize, Gates!Reject,
       GateProofs!Reject, Gates!Abandon, GateProofs!Abandon,
       Gates!TakeTicket, GateProofs!TakeTicket, Gates!AwaitTurn,
       GateProofs!AwaitTurn, Gates!TakeTurn, GateProofs!TakeTurn,
       Gates!Start, GateProofs!Start, Gates!Refuse, GateProofs!Refuse,
       Gates!Interrupt, GateProofs!Interrupt, Gates!Retire,
       GateProofs!Retire, Gates!Tick, GateProofs!Tick, Gates!Quiet,
       GateProofs!Quiet, Gates!Admissible, GateProofs!Admissible,
       Gates!Rolled, GateProofs!Rolled, Gates!PacedSlot,
       GateProofs!PacedSlot, Gates!WithReservation,
       GateProofs!WithReservation, Gates!NextServing,
       GateProofs!NextServing, Gates!ServeFrom, GateProofs!ServeFrom,
       Gates!Notified, GateProofs!Notified, Gates!StartTime,
       GateProofs!StartTime, Gates!StillAuthorized,
       GateProofs!StillAuthorized, Gates!Later, GateProofs!Later,
       Gates!CausalNow, GateProofs!CausalNow, Gates!Covers,
       GateProofs!Covers, Gates!InWindow, GateProofs!InWindow,
       Gates!HeldPolicies, GateProofs!HeldPolicies, Gates!CausalFloors,
       GateProofs!CausalFloors, Gates!Arrive, GateProofs!Arrive,
       Gates!Advance, GateProofs!Advance, Gates!None, GateProofs!None,
       Gates!NoAuth, GateProofs!NoAuth, Gates!NewGate,
       GateProofs!NewGate, Gates!Init, GateProofs!Init, Gates!Next,
       GateProofs!Next, Gates!vars, GateProofs!vars, Gates!TypeOK,
       GateProofs!TypeOK, Gates!Time, GateProofs!Time, Gates!Policy,
       GateProofs!Policy, Gates!Gate, GateProofs!Gate, Gates!Auth,
       GateProofs!Auth, Gates!Send, GateProofs!Send, Gates!Steps,
       GateProofs!Steps, Gates!Ticketed, GateProofs!Ticketed,
       Gates!GateBounds, GateProofs!GateBounds

LEMMA Bounds ==
    /\ TTL \in Nat /\ MaxHops \in Nat /\ LastArrival \in Nat /\ Pacing \in Nat
    /\ Skew \in Nat /\ 2 <= Skew /\ 0..LastArrival \subseteq Ages
BY ChainAssumption DEF Policies!CacheBounds, Gates!GateBounds

\* What the step proofs need of the types.
LEMMA Types ==
    ASSUME Inv
    PROVE  /\ Policies!TypeOK /\ Gates!TypeOK
           /\ clock \in Nat
           /\ chain \in [Threads -> Chain]
           /\ reader \in [Threads -> Policies!Reader]
           /\ cache \in [Origins -> SUBSET Policies!Policy]
           /\ step \in [Threads -> Gates!Steps]
           /\ auth \in [Threads -> Gates!Auth \cup {Gates!NoAuth}]
           /\ \A t \in Threads :
                /\ chain[t].floor \in Nat \cup {-1}
                /\ chain[t].begun \in Nat \cup {-1}
                /\ chain[t].hops \in Nat
                /\ chain[t].requests \in Nat
                /\ chain[t].claim \in BOOLEAN
                /\ chain[t].phase \in Phases
                /\ reader[t].origin \in Origins
                /\ reader[t].step \in Policies!Steps
                /\ reader[t].policy \in Policies!Policy
                /\ step[t] # "idle" =>
                        /\ auth[t].reserved \in Nat
                        /\ auth[t].notBefore \in Nat
                        /\ auth[t].due \in Nat
                        /\ auth[t].origin \in Origins
<1>1. Policies!TypeOK  BY SameCache DEF Inv, CacheProofs!Inv
<1>2. Gates!TypeOK  BY SameGate DEF Inv, GateProofs!Inv
<1>3. chain \in [Threads -> Chain]  BY DEF Inv, Coupled
<1>4. \A t \in Threads :
                /\ chain[t].floor \in Nat \cup {-1}
                /\ chain[t].begun \in Nat \cup {-1}
                /\ chain[t].hops \in Nat
                /\ chain[t].requests \in Nat
                /\ chain[t].claim \in BOOLEAN
                /\ chain[t].phase \in Phases
  BY <1>3 DEF Chain, None, Gates!None
<1>5. /\ reader \in [Threads -> Policies!Reader]
      /\ cache \in [Origins -> SUBSET Policies!Policy]
      /\ clock \in Nat
  BY <1>1 DEF Policies!TypeOK
<1>6. \A t \in Threads :
                /\ reader[t].origin \in Origins
                /\ reader[t].step \in Policies!Steps
                /\ reader[t].policy \in Policies!Policy
  BY <1>5 DEF Policies!Reader
<1>7. /\ step \in [Threads -> Gates!Steps]
      /\ auth \in [Threads -> Gates!Auth \cup {Gates!NoAuth}]
  BY <1>2 DEF Gates!TypeOK
<1>8. \A t \in Threads : step[t] # "idle" => auth[t] \in Gates!Auth
  BY <1>2 DEF Gates!TypeOK
<1>9. \A a \in Gates!Auth : /\ a.reserved \in Nat /\ a.notBefore \in Nat
                            /\ a.due \in Nat /\ a.origin \in Origins
  BY DEF Gates!Auth, Gates!Time
<1> QED BY <1>1, <1>2, <1>3, <1>4, <1>5, <1>6, <1>7, <1>8, <1>9

-------------------------------------------------------------------------------
(* Steps.                                                                  *)

LEMMA InitInv == Init => Inv
<1> SUFFICES ASSUME Init PROVE Inv  OBVIOUS
<1>1. CacheProofs!Inv  BY CacheProofs!InitInv, SameCache, ChainAssumption DEF Init
<1>2. GateProofs!Inv
  BY GateProofs!InitInv, SameGate, ChainAssumption DEF Init
<1>3. Coupled
  <2>1. NoChain \in Chain
    BY DEF NoChain, Chain, Phases, None
  <2>2. clock = 0 /\ cache = [o \in Origins |-> {}]
        /\ step = [t \in Threads |-> "idle"]
    BY DEF Init, Policies!Init, Gates!Init
  <2>3. \A t \in Threads : reader[t].step = "idle"
    <3> TAKE t \in Threads
    <3>1. PICK o \in Origins : reader[t] =
                [step |-> "idle", origin |-> o, admitted |-> 0, floor |-> 0,
                 policy |-> Policies!NoPolicy]
      BY DEF Init, Policies!Init
    <3> QED BY <3>1
  <2>4. chain = [t \in Threads |-> NoChain]  BY DEF Init
  <2>5. Carried  BY <2>2, <2>3 DEF Carried
  <2>6. /\ NoChain.hops = 0 /\ NoChain.requests = 0 /\ NoChain.floor = -1
        /\ NoChain.phase = "idle"
    BY DEF NoChain, None, Gates!None
  <2>7. ASSUME NEW t \in Threads PROVE Phased(t) /\ Counted(t) /\ Caused(t)
    <3>1. chain[t] = NoChain  BY <2>4
    <3>2. Phased(t)  BY <2>2, <2>3, <2>6, <3>1 DEF Phased, Gates!Ticketed
    <3>3. Counted(t)  BY <2>6, <3>1, Bounds DEF Counted
    <3>4. Caused(t)  BY <2>2, <2>6, <3>1 DEF Caused
    <3> QED BY <3>2, <3>3, <3>4
  <2> QED BY <2>1, <2>4, <2>5, <2>7 DEF Coupled
<1> QED BY <1>1, <1>2, <1>3 DEF Inv

-------------------------------------------------------------------------------
(* Every step is a step or a stutter of each component.                    *)

LEMMA CacheStutter ==
    ASSUME UNCHANGED <<clock, cacheVars>>
    PROVE  [Policies!Next]_(Policies!vars)
BY DEF cacheVars, Policies!vars

LEMMA GateStutter ==
    ASSUME UNCHANGED <<clock, gateVars>>
    PROVE  [Gates!Next]_(Gates!vars)
BY DEF gateVars, Gates!vars

\* A floor behind the clock is no floor.
LEMMA Forgotten ==
    ASSUME clock \in Nat, NEW floor \in Nat \cup {-1}, floor < clock
    PROVE  Gates!CausalNow(floor) = Gates!CausalNow(None)
<1>1. Gates!CausalNow(floor) = clock  BY DEF Gates!CausalNow
<1>2. Gates!CausalNow(None) = clock  BY DEF Gates!CausalNow, None, Gates!None
<1> QED BY <1>1, <1>2

\* The policy and the floor a chain presents are those the gate allows for.
LEMMA Arrives ==
    ASSUME Inv, NEW t \in Threads, reader[t].step = "done",
           \/ Gates!Authorize(t, reader[t].origin, Authority(t), chain[t].floor)
           \/ Gates!Reject(t, reader[t].origin, Authority(t), chain[t].floor)
    PROVE  Gates!Next
<1> DEFINE o == reader[t].origin
           pol == Authority(t)
           age == clock - reader[t].policy.observed
           f == IF chain[t].floor < clock THEN None ELSE chain[t].floor
<1>1. o \in Origins /\ clock \in Nat /\ reader[t].policy \in Policies!Policy
      /\ chain[t].floor \in Nat \cup {-1}
  BY Types
<1>2. clock <= LastArrival /\ chain[t].floor <= clock + 2
  BY DEF Inv, Coupled, Phased, Caused
<1>3. pol \in Gates!HeldPolicies
  <2>1. Dated(reader[t].policy)  BY DEF Inv, Coupled, Carried
  <2>2. reader[t].policy.observed \in Nat  BY <1>1 DEF Policies!Policy
  <2>3. age \in 0..LastArrival /\ age <= clock  BY <1>1, <1>2, <2>1, <2>2, Bounds DEF Dated
  <2>4. age \in Ages  BY <2>3, Bounds
  <2>5. /\ reader[t].policy.observed = clock - age
        /\ reader[t].policy.expires = clock - age + TTL
    BY <1>1, <2>1, <2>2, Bounds DEF Dated
  <2> HIDE DEF age
  <2> QED BY <2>3, <2>4, <2>5 DEF Gates!HeldPolicies, Authority
<1>4. f \in Gates!CausalFloors
  BY <1>1, <1>2, Bounds DEF Gates!CausalFloors, None
<1>5. Gates!CausalNow(chain[t].floor) = Gates!CausalNow(f)
  BY <1>1, Forgotten
<1>6. Gates!Authorize(t, o, pol, f) \/ Gates!Reject(t, o, pol, f)
  <2> HIDE DEF o, pol, f
  <2> QED BY <1>5 DEF o, pol, Gates!Authorize, Gates!Reject
<1>7. Gates!Arrive(t)
  <2> HIDE DEF o, pol, f
  <2> QED BY <1>1, <1>2, <1>3, <1>4, <1>6 DEF Gates!Arrive
<1> QED BY <1>7 DEF Gates!Next

LEMMA Simulated ==
    ASSUME Inv, [Next]_vars
    PROVE  [Policies!Next]_(Policies!vars) /\ [Gates!Next]_(Gates!vars)
<1>1. ASSUME NEW t \in Threads, NEW o \in Origins,
             Request(t, o) \/ Redirect(t, o)
      PROVE  [Policies!Next]_(Policies!vars) /\ [Gates!Next]_(Gates!vars)
  <2>1. Policies!Call(t, o) /\ UNCHANGED gateVars  BY <1>1 DEF Request, Redirect
  <2>2. Policies!Next  BY <2>1 DEF Policies!Next
  <2>3. UNCHANGED <<clock, gateVars>>  BY <2>1 DEF Policies!Call
  <2> QED BY <2>2, <2>3, GateStutter
<1>2. ASSUME NEW t \in Threads,
             Lookup(t) \/ LookupFails(t) \/ Decline(t)
      PROVE  [Policies!Next]_(Policies!vars) /\ [Gates!Next]_(Gates!vars)
  <2>1. Policies!Advance(t) /\ UNCHANGED gateVars
    BY <1>2 DEF Lookup, LookupFails, Decline, Policies!Advance
  <2>2. Policies!Next  BY <2>1 DEF Policies!Next
  <2>3. UNCHANGED <<clock, gateVars>>
    BY <2>1 DEF Policies!Advance, Policies!ReturnCached, Policies!Wait,
                Policies!AdmitFetch, Policies!Fetch, Policies!FetchRaises,
                Policies!Publish, Policies!GiveUp, Policies!Return
  <2> QED BY <2>2, <2>3, GateStutter
<1>3. ASSUME NEW t \in Threads, Admit(t) \/ Refused(t)
      PROVE  [Policies!Next]_(Policies!vars) /\ [Gates!Next]_(Gates!vars)
  <2>1. Policies!Return(t)  BY <1>3 DEF Admit, Refused
  <2>2. Policies!Next  BY <2>1 DEF Policies!Next, Policies!Advance
  <2>3. reader[t].step = "done"  BY <2>1 DEF Policies!Return
  <2>4. Gates!Next  BY <1>3, <2>3, Arrives DEF Admit, Refused
  <2> QED BY <2>2, <2>4
<1>4. ASSUME NEW t \in Threads, Claim(t) \/ Finish(t)
      PROVE  [Policies!Next]_(Policies!vars) /\ [Gates!Next]_(Gates!vars)
  BY <1>4, CacheStutter, GateStutter DEF Claim, Finish
<1>5. ASSUME NEW t \in Threads,
             \/ ClaimRaises(t)
             \/ Queue(t)
             \/ Interrupt(t)
             \/ StartFails(t)
             \/ Send(t)
      PROVE  [Policies!Next]_(Policies!vars) /\ [Gates!Next]_(Gates!vars)
  <2>1. /\ Gates!Abandon(t) \/ Gates!Interrupt(t) \/ Gates!Advance(t)
        /\ UNCHANGED cacheVars
    BY <1>5 DEF ClaimRaises, Queue, Interrupt, StartFails, Send, Gates!Advance
  <2>2. Gates!Next  BY <2>1 DEF Gates!Next
  <2>3. UNCHANGED <<clock, cacheVars>>
    BY <2>1 DEF Gates!Abandon, Gates!Interrupt, Gates!Advance, Gates!TakeTicket,
                Gates!AwaitTurn, Gates!TakeTurn, Gates!Start, Gates!Refuse,
                Gates!Retire
  <2> QED BY <2>2, <2>3, CacheStutter
<1>6. ASSUME NEW o \in Origins, Invalidate({o})
      PROVE  [Policies!Next]_(Policies!vars) /\ [Gates!Next]_(Gates!vars)
  <2>1. Policies!Invalidate({o}) /\ UNCHANGED gateVars  BY <1>6 DEF Invalidate
  <2>2. Policies!Next  BY <2>1 DEF Policies!Next
  <2>3. UNCHANGED <<clock, gateVars>>  BY <2>1 DEF Policies!Invalidate
  <2> QED BY <2>2, <2>3, GateStutter
<1>7. ASSUME Tick
      PROVE  [Policies!Next]_(Policies!vars) /\ [Gates!Next]_(Gates!vars)
  BY <1>7 DEF Tick, cacheVars, gateVars, Policies!Tick, Policies!Next, Gates!Tick,
              Gates!Next
<1>8. ASSUME UNCHANGED vars
      PROVE  [Policies!Next]_(Policies!vars) /\ [Gates!Next]_(Gates!vars)
  BY <1>8, CacheStutter, GateStutter DEF vars
<1> QED BY <1>1, <1>2, <1>3, <1>4, <1>5, <1>6, <1>7, <1>8 DEF Next, Advance, Quiet

-------------------------------------------------------------------------------
(* Coupled is inductive.                                                   *)

\* What a step must leave of a thread for its chain to stay as it is.
Kept(u) ==
    /\ chain'[u] = chain[u]
    /\ auth'[u] = auth[u]
    /\ reader'[u].step = "idle" <=> reader[u].step = "idle"
    /\ step'[u] = "idle" <=> step[u] = "idle"
    /\ step'[u] \in Gates!Ticketed <=> step[u] \in Gates!Ticketed

LEMMA KeptFact ==
    ASSUME Inv, NEW u \in Threads, Kept(u), clock' = clock
    PROVE  (Phased(u) /\ Counted(u) /\ Caused(u))'
<1>1. Phased(u) /\ Counted(u) /\ Caused(u)  BY DEF Inv, Coupled
<1>2. Phased(u)'  BY <1>1 DEF Kept, Phased, NoChain
<1>3. Counted(u)'  BY <1>1 DEF Kept, Counted
<1>4. Caused(u)'  BY <1>1 DEF Kept, Caused
<1> QED BY <1>2, <1>3, <1>4

\* A step of one thread need only be checked for that thread.
LEMMA CoupledStep ==
    ASSUME Inv, NEW t \in Threads, NEW c \in Chain,
           clock' = clock,
           chain' = [chain EXCEPT ![t] = c],
           \A u \in Threads \ {t} : chain'[u] = chain[u] => Kept(u),
           Phased(t)', Counted(t)', Caused(t)', Carried'
    PROVE  Coupled'
<1>1. chain \in [Threads -> Chain]  BY DEF Inv, Coupled
<1>2. chain' \in [Threads -> Chain]  BY <1>1
<1>3. \A u \in Threads \ {t} : chain'[u] = chain[u]  BY <1>1
<1>4. \A u \in Threads : (Phased(u) /\ Counted(u) /\ Caused(u))'
  BY <1>3, KeptFact
<1> QED BY <1>2, <1>4 DEF Coupled

LEMMA CarriedStep ==
    ASSUME Inv, clock' = clock,
           \A o \in Origins : \A p \in cache'[o] : Dated(p),
           \A u \in Threads : reader'[u].step \in {"fetched", "done"} =>
                Dated(reader'[u].policy)
    PROVE  Carried'
BY DEF Carried, Dated

LEMMA WokenReaders ==
    ASSUME Inv
    PROVE  /\ Policies!Notified \in [Threads -> Policies!Reader]
           /\ \A u \in Threads :
                /\ Policies!Notified[u].step = "idle" <=> reader[u].step = "idle"
                /\ Policies!Notified[u].step \in {"fetched", "done"} =>
                        /\ reader[u].step \in {"fetched", "done"}
                        /\ Policies!Notified[u].policy = reader[u].policy
<1>1. \A u \in Threads :
        /\ reader[u] \in Policies!Reader
        /\ Policies!Notified[u] = IF reader[u].step = "waiting"
                                  THEN [reader[u] EXCEPT !.step = "checking"]
                                  ELSE reader[u]
  BY Types DEF Policies!Notified
<1>2. \A r \in Policies!Reader :
        LET w == IF r.step = "waiting" THEN [r EXCEPT !.step = "checking"] ELSE r
        IN  /\ w \in Policies!Reader
            /\ w.step = "idle" <=> r.step = "idle"
            /\ w.step \in {"fetched", "done"} => r.step \in {"fetched", "done"}
            /\ w.policy = r.policy
  BY DEF Policies!Reader, Policies!Steps
<1>3. Policies!Notified \in [Threads -> Policies!Reader]
  BY <1>1, <1>2 DEF Policies!Notified
<1> QED BY <1>1, <1>2, <1>3

LEMMA WokenSteps ==
    ASSUME Inv, NEW o
    PROVE  /\ Gates!Notified(o) \in [Threads -> Gates!Steps]
           /\ \A u \in Threads :
                /\ Gates!Notified(o)[u] = "idle" <=> step[u] = "idle"
                /\ Gates!Notified(o)[u] \in Gates!Ticketed <=>
                        step[u] \in Gates!Ticketed
BY Types DEF Gates!Notified, Gates!Steps, Gates!Ticketed

LEMMA NoChainFact ==
    /\ NoChain \in Chain
    /\ NoChain.phase = "idle" /\ NoChain.claim = FALSE
    /\ NoChain.hops = 0 /\ NoChain.requests = 0
    /\ NoChain.floor = -1 /\ NoChain.begun = -1
BY DEF NoChain, Chain, Phases, None, Gates!None

\* A step that replaces the record of one reader touches no other.
LEMMA ReaderStep ==
    ASSUME Inv, NEW t \in Threads, NEW r,
           reader' = [reader EXCEPT ![t] = r]
    PROVE  /\ reader'[t] = r
           /\ \A u \in Threads \ {t} : reader'[u] = reader[u]
BY Types

\* An ended chain leaves its thread idle in both components.
LEMMA EndedStep ==
    ASSUME Inv, NEW t \in Threads, Ended(t), clock' = clock,
           reader'[t].step = "idle", step'[t] = "idle",
           \A u \in Threads \ {t} : chain'[u] = chain[u] => Kept(u),
           Carried'
    PROVE  Coupled'
<1>1. chain' = [chain EXCEPT ![t] = NoChain] /\ chain'[t] = NoChain
  BY Types DEF Ended
<1>2. Phased(t)'
  BY <1>1, NoChainFact DEF Phased, Gates!Ticketed, NoChain
<1>3. Counted(t)'
  <2>1. chain'[t].hops = 0 /\ chain'[t].requests = 0 /\ chain'[t].phase = "idle"
    BY <1>1, NoChainFact
  <2>2. 0 <= MaxHops  BY Bounds
  <2> QED BY <2>1, <2>2 DEF Counted
<1>4. Caused(t)'
  <2>1. chain'[t].floor = -1 /\ chain'[t].phase = "idle"  BY <1>1, NoChainFact
  <2>2. clock \in Nat  BY Types
  <2> QED BY <2>1, <2>2 DEF Caused
<1> QED BY <1>1, <1>2, <1>3, <1>4, NoChainFact, CoupledStep

\* A chain that moves on leaves its thread in the phase it moved to.
LEMMA MovedStep ==
    ASSUME Inv, NEW t \in Threads, NEW c \in Chain,
           clock' = clock,
           chain' = [chain EXCEPT ![t] = c],
           \A u \in Threads \ {t} : chain'[u] = chain[u] => Kept(u),
           c.phase # "idle",
           c.phase = "lookup" <=> reader'[t].step # "idle",
           c.phase = "gate" <=> step'[t] # "idle",
           c.phase = "lookup" => ~c.claim /\ clock <= LastArrival,
           step'[t] \in Gates!Ticketed => c.claim,
           c.phase = "flight" => c.claim /\ c.begun \in Nat,
           c.hops <= MaxHops,
           c.requests = IF c.phase = "flight" THEN c.hops + 1 ELSE c.hops,
           c.floor <= clock + 2,
           c.phase = "flight" => c.floor < c.begun /\ c.begun <= clock + 1,
           step'[t] # "idle" => /\ c.floor < auth'[t].reserved
                                /\ auth'[t].reserved <= auth'[t].notBefore
                                /\ auth'[t].notBefore <= auth'[t].due
                                /\ auth'[t].policy.observed <= auth'[t].reserved
                                /\ auth'[t].policy.expires =
                                        auth'[t].policy.observed + TTL,
           Carried'
    PROVE  Coupled'
<1>1. chain'[t] = c  BY Types
<1>2. Phased(t)'  BY <1>1 DEF Phased
<1>3. Counted(t)'  BY <1>1 DEF Counted
<1>4. Caused(t)'  BY <1>1 DEF Caused
<1> QED BY <1>2, <1>3, <1>4, CoupledStep

LEMMA RequestInv ==
    ASSUME Inv, NEW t \in Threads, NEW o \in Origins, Request(t, o)
    PROVE  Coupled'
<1> DEFINE c == [NoChain EXCEPT !.phase = "lookup"]
           r == [step |-> "checking", origin |-> o, admitted |-> 0,
                 floor |-> generation[o], policy |-> Policies!NoPolicy]
<1>1. /\ chain[t].phase = "idle" /\ clock <= LastArrival
      /\ chain' = [chain EXCEPT ![t] = c]
      /\ reader' = [reader EXCEPT ![t] = r]
      /\ UNCHANGED <<clock, cache, gateVars>>
  BY DEF Request, Policies!Call
<1>2. /\ c \in Chain /\ c.phase = "lookup" /\ c.hops = 0 /\ c.requests = 0
      /\ c.floor = -1 /\ ~c.claim
  BY NoChainFact DEF Chain, Phases
<1>3. reader'[t] = r /\ \A u \in Threads \ {t} : reader'[u] = reader[u]
  BY <1>1, ReaderStep
<1>4. r.step = "checking"  OBVIOUS
<1>5. step'[t] = "idle"  BY <1>1 DEF Inv, Coupled, Phased, gateVars
<1>6. Carried'  BY <1>1, <1>3, <1>4, CarriedStep DEF Inv, Coupled, Carried
<1>7. clock \in Nat /\ 0 <= MaxHops  BY Types, Bounds
<1>8. \A u \in Threads \ {t} : chain'[u] = chain[u] => Kept(u)
  BY <1>1, <1>3 DEF Kept, gateVars
<1>9. c.hops <= MaxHops /\ c.requests = c.hops /\ c.floor <= clock + 2
  <2> HIDE DEF c
  <2> QED BY <1>2, <1>7
<1> HIDE DEF c, r
<1> QED BY <1>1, <1>2, <1>3, <1>4, <1>5, <1>6, <1>8, <1>9, MovedStep DEF Gates!Ticketed

LEMMA RedirectInv ==
    ASSUME Inv, NEW t \in Threads, NEW o \in Origins, Redirect(t, o)
    PROVE  Coupled'
<1> DEFINE f == Gates!CausalNow(chain[t].begun)
           c == [phase |-> "lookup", hops |-> chain[t].hops + 1, floor |-> f,
                 begun |-> None, claim |-> FALSE, requests |-> chain[t].requests]
           r == [step |-> "checking", origin |-> o, admitted |-> 0,
                 floor |-> generation[o], policy |-> Policies!NoPolicy]
<1>1. /\ chain[t].phase = "flight" /\ clock <= LastArrival
      /\ chain[t].hops < MaxHops
      /\ chain' = [chain EXCEPT ![t] = c]
      /\ reader' = [reader EXCEPT ![t] = r]
      /\ UNCHANGED <<clock, cache, gateVars>>
  BY Types DEF Redirect, Policies!Call, Chain
<1>2. /\ clock \in Nat /\ chain[t] \in Chain /\ chain[t].hops \in Nat
      /\ chain[t].requests \in Nat /\ MaxHops \in Nat
  BY Types, Bounds
<1>3. /\ chain[t].begun \in Nat /\ chain[t].begun <= clock + 1
      /\ chain[t].requests = chain[t].hops + 1
      /\ step[t] = "idle"
  BY <1>1 DEF Inv, Coupled, Phased, Caused, Counted
<1>4. f \in Nat /\ f <= clock + 2  BY <1>2, <1>3 DEF Gates!CausalNow
<1>5. /\ c \in Chain /\ c.phase = "lookup" /\ c.hops = chain[t].hops + 1
      /\ c.requests = chain[t].requests /\ c.floor = f /\ ~c.claim
  <2> HIDE DEF f
  <2> QED BY <1>2, <1>4 DEF Chain, Phases, None, Gates!None
<1>6. reader'[t] = r /\ \A u \in Threads \ {t} : reader'[u] = reader[u]
  BY <1>1, ReaderStep
<1>7. r.step = "checking"  OBVIOUS
<1>8. step'[t] = "idle"  BY <1>1, <1>3 DEF gateVars
<1>9. Carried'  BY <1>1, <1>6, <1>7, CarriedStep DEF Inv, Coupled, Carried
<1>10. \A u \in Threads \ {t} : chain'[u] = chain[u] => Kept(u)
  BY <1>1, <1>6 DEF Kept, gateVars
<1>11. c.hops <= MaxHops /\ c.requests = c.hops /\ c.floor <= clock + 2
  BY <1>1, <1>2, <1>3, <1>4, <1>5
<1> HIDE DEF c, r
<1> QED BY <1>1, <1>5, <1>6, <1>7, <1>8, <1>9, <1>10, <1>11, MovedStep
        DEF Gates!Ticketed

\* Inside the lookup the chain stands still, and every policy a reader or the
\* cache comes to hold was observed just now or held before.
LEMMA LookupCarries ==
    ASSUME Inv, NEW t \in Threads, Lookup(t) \/ LookupFails(t)
    PROVE  /\ UNCHANGED <<clock, gateVars>>
           /\ reader[t].step # "idle"
           /\ Lookup(t) => reader'[t].step # "idle"
           /\ LookupFails(t) => reader'[t].step = "idle"
           /\ \A u \in Threads \ {t} :
                    reader'[u].step = "idle" <=> reader[u].step = "idle"
           /\ Carried'
<1> DEFINE Held == /\ \A o \in Origins : \A p \in cache[o] : Dated(p)
                   /\ \A u \in Threads :
                        reader[u].step \in {"fetched", "done"} =>
                            Dated(reader[u].policy)
<1>0. Held  BY DEF Inv, Coupled, Carried
<1>1. /\ reader[t].origin \in Origins /\ clock \in Nat /\ TTL \in Nat
      /\ reader \in [Threads -> Policies!Reader]
      /\ cache \in [Origins -> SUBSET Policies!Policy]
  BY Types, Bounds
<1>2. CASE Policies!ReturnCached(t) /\ UNCHANGED <<gateVars, chain>>
  <2>1. PICK p \in Policies!Hit(reader[t].origin) :
            reader' = [reader EXCEPT ![t].step = "done", ![t].policy = p]
    BY <1>2 DEF Policies!ReturnCached
  <2>2. p \in cache[reader[t].origin]  BY <2>1 DEF Policies!Hit
  <2>3. /\ reader[t].step = "checking" /\ reader'[t].step = "done"
        /\ reader'[t].policy = p
        /\ \A u \in Threads \ {t} : reader'[u] = reader[u]
        /\ UNCHANGED <<clock, cache, gateVars>>
    BY <1>1, <1>2, <2>1 DEF Policies!ReturnCached, Policies!Reader
  <2>4. Dated(p)  BY <1>0, <1>1, <2>2
  <2>5. Carried'  BY <1>0, <2>3, <2>4, CarriedStep
  <2>6. ~LookupFails(t)  BY <2>3 DEF LookupFails, Policies!GiveUp
  <2> QED BY <2>3, <2>5, <2>6
<1>3. CASE Policies!Wait(t) /\ UNCHANGED <<gateVars, chain>>
  <2>1. /\ reader[t].step = "checking" /\ reader'[t].step = "waiting"
        /\ \A u \in Threads \ {t} : reader'[u] = reader[u]
        /\ cache' = [cache EXCEPT ![reader[t].origin] = {}]
        /\ UNCHANGED <<clock, gateVars>>
    BY <1>1, <1>3 DEF Policies!Wait, Policies!Reader
  <2>2. \A o \in Origins : cache'[o] \subseteq cache[o]  BY <1>1, <2>1
  <2>3. Carried'  BY <1>0, <2>1, <2>2, CarriedStep
  <2>4. ~LookupFails(t)  BY <2>1 DEF LookupFails, Policies!GiveUp
  <2> QED BY <2>1, <2>3, <2>4
<1>4. CASE Policies!AdmitFetch(t) /\ UNCHANGED <<gateVars, chain>>
  <2>1. /\ reader[t].step = "checking" /\ reader'[t].step = "fetching"
        /\ \A u \in Threads \ {t} : reader'[u] = reader[u]
        /\ cache' = [cache EXCEPT ![reader[t].origin] = {}]
        /\ UNCHANGED <<clock, gateVars>>
    BY <1>1, <1>4 DEF Policies!AdmitFetch, Policies!Reader
  <2>2. \A o \in Origins : cache'[o] \subseteq cache[o]  BY <1>1, <2>1
  <2>3. Carried'  BY <1>0, <2>1, <2>2, CarriedStep
  <2>4. ~LookupFails(t)  BY <2>1 DEF LookupFails, Policies!GiveUp
  <2> QED BY <2>1, <2>3, <2>4
<1>5. CASE Policies!Fetch(t) /\ UNCHANGED <<gateVars, chain>>
  <2>1. PICK outcome \in Policies!Outcomes : reader' = [reader EXCEPT
                ![t].step = "fetched",
                ![t].policy = [observed |-> clock, expires |-> clock + TTL,
                               outcome |-> outcome, born |-> reader[t].admitted]]
    BY <1>5 DEF Policies!Fetch
  <2>2. /\ reader[t].step = "fetching" /\ reader'[t].step = "fetched"
        /\ reader'[t].policy.observed = clock
        /\ reader'[t].policy.expires = clock + TTL
        /\ \A u \in Threads \ {t} : reader'[u] = reader[u]
        /\ UNCHANGED <<clock, cache, gateVars>>
    BY <1>1, <1>5, <2>1 DEF Policies!Fetch, Policies!Reader
  <2>3. Dated(reader'[t].policy)  BY <1>1, <2>2 DEF Dated
  <2>4. Carried'  BY <1>0, <2>2, <2>3, CarriedStep
  <2>5. ~LookupFails(t)  BY <2>2 DEF LookupFails, Policies!GiveUp
  <2> QED BY <2>2, <2>4, <2>5
<1>6. CASE Policies!FetchRaises(t) /\ UNCHANGED <<gateVars, chain>>
  <2>1. /\ reader[t].step = "fetching" /\ reader'[t].step = "failed"
        /\ \A u \in Threads \ {t} : reader'[u] = reader[u]
        /\ UNCHANGED <<clock, cache, gateVars>>
    BY <1>1, <1>6 DEF Policies!FetchRaises, Policies!Reader
  <2>2. Carried'  BY <1>0, <2>1, CarriedStep
  <2>3. ~LookupFails(t)  BY <2>1 DEF LookupFails, Policies!GiveUp
  <2> QED BY <2>1, <2>2, <2>3
<1>7. CASE Policies!Publish(t) /\ UNCHANGED <<gateVars, chain>>
  <2>1. /\ reader[t].step = "fetched"
        /\ cache' = cache \/ cache' = [cache EXCEPT ![reader[t].origin] =
                                                            {reader[t].policy}]
        /\ reader' = [Policies!Notified EXCEPT ![t].step = "done"]
        /\ UNCHANGED <<clock, gateVars>>
    BY <1>7 DEF Policies!Publish
  <2>2. Policies!Notified[t] = reader[t]
    BY <1>1, <2>1 DEF Policies!Notified
  <2>3. /\ reader'[t].step = "done" /\ reader'[t].policy = reader[t].policy
        /\ \A u \in Threads \ {t} : reader'[u] = Policies!Notified[u]
    BY <1>1, <2>1, <2>2, WokenReaders DEF Policies!Reader
  <2>4. Dated(reader[t].policy)  BY <1>0, <2>1
  <2>5. \A o \in Origins : \A p \in cache'[o] : Dated(p)
    <3>1. CASE cache' = cache  BY <1>0, <3>1
    <3>2. CASE cache' = [cache EXCEPT ![reader[t].origin] = {reader[t].policy}]
      <4> TAKE o \in Origins
      <4> HIDE DEF Held
      <4>1. cache'[o] = IF o = reader[t].origin THEN {reader[t].policy} ELSE cache[o]
        BY <1>1, <3>2
      <4> QED BY <1>0, <2>4, <4>1 DEF Held
    <3> QED BY <2>1, <3>1, <3>2
  <2>6. Carried'  BY <1>0, <2>1, <2>3, <2>4, <2>5, WokenReaders, CarriedStep
  <2>7. ~LookupFails(t)  BY <2>1 DEF LookupFails, Policies!GiveUp
  <2> QED BY <2>1, <2>3, <2>6, <2>7, WokenReaders
<1>8. CASE LookupFails(t)
  <2>1. /\ reader[t].step = "failed"
        /\ reader' = [Policies!Notified EXCEPT ![t] = Policies!Released(t)]
        /\ UNCHANGED <<clock, cache, gateVars>>
    BY <1>8 DEF LookupFails, Policies!GiveUp
  <2>2. /\ reader'[t].step = "idle"
        /\ \A u \in Threads \ {t} : reader'[u] = Policies!Notified[u]
    BY <2>1, WokenReaders DEF Policies!Released
  <2>3. Carried'  BY <1>0, <2>1, <2>2, WokenReaders, CarriedStep
  <2>4. ~Lookup(t)
    BY <2>1 DEF Lookup, Policies!ReturnCached, Policies!Wait, Policies!AdmitFetch,
                Policies!Fetch, Policies!FetchRaises, Policies!Publish
  <2> QED BY <2>1, <2>2, <2>3, <2>4, WokenReaders
<1> QED BY <1>2, <1>3, <1>4, <1>5, <1>6, <1>7, <1>8 DEF Lookup

LEMMA LookupInv ==
    ASSUME Inv, NEW t \in Threads, Lookup(t)
    PROVE  Coupled'
<1>1. UNCHANGED chain  BY DEF Lookup
<1>2. /\ UNCHANGED <<clock, gateVars>> /\ Carried'
      /\ \A u \in Threads : reader'[u].step = "idle" <=> reader[u].step = "idle"
  BY LookupCarries
<1>3. \A u \in Threads : Kept(u)  BY <1>1, <1>2 DEF Kept, gateVars
<1>4. \A u \in Threads : (Phased(u) /\ Counted(u) /\ Caused(u))'
  BY <1>2, <1>3, KeptFact
<1> QED BY <1>1, <1>2, <1>4, Types DEF Coupled

LEMMA LookupFailsInv ==
    ASSUME Inv, NEW t \in Threads, LookupFails(t)
    PROVE  Coupled'
<1>1. /\ UNCHANGED <<clock, gateVars>> /\ Carried'
      /\ reader[t].step # "idle" /\ reader'[t].step = "idle"
      /\ \A u \in Threads \ {t} :
            reader'[u].step = "idle" <=> reader[u].step = "idle"
  BY LookupCarries
<1>2. step'[t] = "idle"  BY <1>1 DEF Inv, Coupled, Phased, gateVars
<1>3. \A u \in Threads \ {t} : chain'[u] = chain[u] => Kept(u)
  BY <1>1 DEF Kept, gateVars
<1> QED BY <1>1, <1>2, <1>3, EndedStep DEF LookupFails

\* The caller takes its policy away.
LEMMA ReturnCarries ==
    ASSUME Inv, NEW t \in Threads, Policies!Return(t)
    PROVE  /\ reader[t].step = "done" /\ reader'[t].step = "idle"
           /\ chain[t].phase = "lookup" /\ step[t] = "idle"
           /\ UNCHANGED <<clock, cache>>
           /\ \A u \in Threads \ {t} : reader'[u] = reader[u]
           /\ Carried'
<1>1. /\ reader[t].step = "done"
      /\ reader' = [reader EXCEPT ![t] = Policies!Released(t)]
      /\ UNCHANGED <<clock, cache>>
  BY DEF Policies!Return
<1>2. reader'[t].step = "idle" /\ \A u \in Threads \ {t} : reader'[u] = reader[u]
  BY <1>1, Types DEF Policies!Released
<1>3. chain[t].phase = "lookup" /\ step[t] = "idle"
  BY <1>1 DEF Inv, Coupled, Phased
<1>4. Carried'  BY <1>1, <1>2, CarriedStep DEF Inv, Coupled, Carried
<1> QED BY <1>1, <1>2, <1>3, <1>4

LEMMA DeclineInv ==
    ASSUME Inv, NEW t \in Threads, Decline(t)
    PROVE  Coupled'
<1>1. Policies!Return(t) /\ Ended(t) /\ UNCHANGED gateVars  BY DEF Decline
<1>2. \A u \in Threads \ {t} : chain'[u] = chain[u] => Kept(u)
  BY <1>1, ReturnCarries DEF Kept, gateVars
<1> QED BY <1>1, <1>2, ReturnCarries, EndedStep DEF gateVars

LEMMA RefusedInv ==
    ASSUME Inv, NEW t \in Threads, Refused(t)
    PROVE  Coupled'
<1>1. Policies!Return(t) /\ Ended(t) /\ UNCHANGED <<step, auth>>
  BY DEF Refused, Gates!Reject
<1>2. \A u \in Threads \ {t} : chain'[u] = chain[u] => Kept(u)
  BY <1>1, ReturnCarries DEF Kept
<1> QED BY <1>1, <1>2, ReturnCarries, EndedStep

LEMMA AdmitInv ==
    ASSUME Inv, NEW t \in Threads, Admit(t)
    PROVE  Coupled'
<1> DEFINE o == reader[t].origin
           now == Gates!CausalNow(chain[t].floor)
           g == Gates!Rolled(gate[o], now)
           slot == Gates!PacedSlot(g, now)
           c == [chain[t] EXCEPT !.phase = "gate"]
<1>1. /\ Policies!Return(t)
      /\ Gates!Authorize(t, o, Authority(t), chain[t].floor)
      /\ chain' = [chain EXCEPT ![t] = c]
  BY Types DEF Admit
<1>2. /\ clock \in Nat /\ chain[t] \in Chain /\ chain[t].floor \in Nat \cup {-1}
      /\ o \in Origins /\ gate \in [Origins -> Gates!Gate]
      /\ step \in [Threads -> Gates!Steps] /\ Pacing \in Nat
      /\ auth \in [Threads -> Gates!Auth \cup {Gates!NoAuth}]
  BY Types, Bounds DEF Gates!TypeOK
<1>3. now \in Nat /\ chain[t].floor < now  BY <1>2 DEF Gates!CausalNow
<1>4. g \in Gates!Gate
  <2> HIDE DEF now, o
  <2>1. now \in Gates!Time /\ gate[o] \in Gates!Gate  BY <1>2, <1>3 DEF Gates!Time
  <2> QED BY <2>1 DEF Gates!Rolled, Gates!Gate
<1>5. slot \in Nat /\ now <= slot
  <2> HIDE DEF now, g
  <2>1. g.lastReserved \in Nat \cup {-1} /\ g.lastStarted \in Nat \cup {-1}
    BY <1>4 DEF Gates!Gate, Gates!None, Gates!Time
  <2>2. Gates!Later(g.lastReserved, g.lastStarted) \in Nat \cup {-1}
    BY <2>1 DEF Gates!Later
  <2> QED BY <1>2, <1>3, <2>2 DEF Gates!PacedSlot, Gates!None, Gates!Later
<1>6. /\ step' = [step EXCEPT ![t] = "authorized"]
      /\ auth' = [auth EXCEPT ![t] =
            [held |-> TRUE, origin |-> o, policy |-> Authority(t), reserved |-> now,
             notBefore |-> slot, window |-> g.window, slot |-> g.used + 1,
             ticket |-> Gates!None, due |-> slot]]
  BY <1>1 DEF Gates!Authorize
<1>7. /\ step'[t] = "authorized" /\ auth'[t].reserved = now
      /\ auth'[t].notBefore = slot /\ auth'[t].due = slot
      /\ auth'[t].policy = Authority(t)
      /\ \A u \in Threads \ {t} : step'[u] = step[u] /\ auth'[u] = auth[u]
  <2> HIDE DEF now, slot, g, o
  <2> QED BY <1>2, <1>6
<1>8. /\ c \in Chain /\ c.phase = "gate" /\ c.hops = chain[t].hops
      /\ c.requests = chain[t].requests /\ c.floor = chain[t].floor
  BY <1>2 DEF Chain, Phases
<1>9. /\ c.hops <= MaxHops /\ c.requests = c.hops /\ c.floor <= clock + 2
  BY <1>1, <1>8, ReturnCarries DEF Inv, Coupled, Counted, Caused
<1>10. \A u \in Threads \ {t} : chain'[u] = chain[u] => Kept(u)
  BY <1>1, <1>7, ReturnCarries DEF Kept
<1>11. /\ c.floor < auth'[t].reserved
       /\ auth'[t].reserved <= auth'[t].notBefore
       /\ auth'[t].notBefore <= auth'[t].due
  <2> HIDE DEF now, slot, c
  <2> QED BY <1>3, <1>5, <1>7, <1>8
<1>12. /\ auth'[t].policy.observed <= auth'[t].reserved
       /\ auth'[t].policy.expires = auth'[t].policy.observed + TTL
  <2>1. Gates!Covers(Authority(t), now)
    BY <1>1 DEF Gates!Authorize, Gates!Admissible
  <2>2. Dated(reader[t].policy)
    BY <1>1, ReturnCarries DEF Inv, Coupled, Carried
  <2>3. Authority(t).observed <= now  BY <2>1 DEF Gates!Covers
  <2>4. Authority(t).expires = Authority(t).observed + TTL
    BY <2>2 DEF Dated, Authority
  <2> HIDE DEF now
  <2> QED BY <1>7, <2>3, <2>4
<1> HIDE DEF c, now, g, slot
<1> QED BY <1>1, <1>7, <1>8, <1>9, <1>10, <1>11, <1>12, ReturnCarries, MovedStep
        DEF Gates!Ticketed

\* While a chain is at the gate nothing of the cache moves.
LEMMA CarriedStutter ==
    ASSUME Inv, UNCHANGED <<clock, cacheVars>>
    PROVE  Carried'
BY CarriedStep DEF Inv, Coupled, Carried, cacheVars

LEMMA ClaimInv ==
    ASSUME Inv, NEW t \in Threads, Claim(t)
    PROVE  Coupled'
<1> DEFINE c == [chain[t] EXCEPT !.claim = TRUE]
<1>1. /\ step[t] = "authorized" /\ chain' = [chain EXCEPT ![t] = c]
      /\ UNCHANGED <<clock, cacheVars, gateVars>>
  BY Types DEF Claim
<1>2. /\ c \in Chain /\ c.claim = TRUE /\ c.phase = chain[t].phase
      /\ c.hops = chain[t].hops /\ c.floor = chain[t].floor
      /\ c.requests = chain[t].requests /\ c.begun = chain[t].begun
  BY Types DEF Chain
<1>3. chain[t].phase = "gate" /\ reader[t].step = "idle"
  BY <1>1 DEF Inv, Coupled, Phased
<1>4. /\ c.hops <= MaxHops /\ c.requests = c.hops /\ c.floor <= clock + 2
      /\ c.floor < auth[t].reserved /\ auth[t].reserved <= auth[t].notBefore
      /\ auth[t].notBefore <= auth[t].due
      /\ auth[t].policy.observed <= auth[t].reserved
      /\ auth[t].policy.expires = auth[t].policy.observed + TTL
  BY <1>1, <1>2, <1>3 DEF Inv, Coupled, Counted, Caused
<1>5. Carried'  BY <1>1, CarriedStutter
<1>6. \A u \in Threads \ {t} : chain'[u] = chain[u] => Kept(u)
  BY <1>1 DEF Kept, cacheVars, gateVars
<1> HIDE DEF c
<1> QED BY <1>1, <1>2, <1>3, <1>4, <1>5, <1>6, MovedStep
        DEF cacheVars, gateVars, Gates!Ticketed

\* At the gate the authorization keeps its floor and its policy, and its due
\* time only grows.
LEMMA GateMove ==
    ASSUME Inv, NEW t \in Threads, NEW x \in Gates!Steps \ {"idle"},
           step[t] # "idle",
           x \in Gates!Ticketed => chain[t].claim,
           step' = [step EXCEPT ![t] = x],
           UNCHANGED <<clock, cacheVars, chain>>,
           \A u \in Threads \ {t} : auth'[u] = auth[u],
           auth'[t].reserved = auth[t].reserved,
           auth'[t].notBefore = auth[t].notBefore,
           auth'[t].policy = auth[t].policy,
           auth[t].notBefore <= auth'[t].due
    PROVE  Coupled'
<1>1. chain[t].phase = "gate" /\ reader[t].step = "idle"
  BY DEF Inv, Coupled, Phased
<1>2. step'[t] = x /\ \A u \in Threads \ {t} : step'[u] = step[u]  BY Types
<1>3. chain[t] \in Chain /\ chain' = [chain EXCEPT ![t] = chain[t]]  BY Types
<1>4. /\ chain[t].hops <= MaxHops /\ chain[t].requests = chain[t].hops
      /\ chain[t].floor <= clock + 2
      /\ chain[t].floor < auth[t].reserved
      /\ auth[t].reserved <= auth[t].notBefore
      /\ auth[t].policy.observed <= auth[t].reserved
      /\ auth[t].policy.expires = auth[t].policy.observed + TTL
  BY <1>1 DEF Inv, Coupled, Counted, Caused
<1>5. Carried'  BY CarriedStutter
<1>6. \A u \in Threads \ {t} : chain'[u] = chain[u] => Kept(u)
  BY <1>2 DEF Kept, cacheVars
<1> QED BY <1>1, <1>2, <1>3, <1>4, <1>5, <1>6, MovedStep DEF cacheVars

LEMMA QueueInv ==
    ASSUME Inv, NEW t \in Threads, Queue(t) \/ Interrupt(t)
    PROVE  Coupled'
<1>1. /\ auth \in [Threads -> Gates!Auth \cup {Gates!NoAuth}]
      /\ Gates!TypeOK
      /\ step[t] # "idle" => /\ auth[t].reserved \in Nat
                             /\ auth[t].notBefore \in Nat
                             /\ auth[t].due \in Nat
                             /\ auth[t].notBefore <= auth[t].due
                             /\ auth[t] \in Gates!Auth
      /\ step[t] \in Gates!Ticketed => chain[t].claim
      /\ UNCHANGED <<cacheVars, chain>>
  BY Types DEF Inv, Coupled, Phased, Caused, Queue, Interrupt, Gates!TypeOK
<1>2. CASE chain[t].claim /\ Gates!TakeTicket(t)
  <2>1. /\ step[t] = "authorized" /\ step' = [step EXCEPT ![t] = "queued"]
        /\ auth' = [auth EXCEPT ![t].ticket = gate[auth[t].origin].nextTicket]
        /\ UNCHANGED clock
    BY <1>2 DEF Gates!TakeTicket
  <2>2. /\ auth'[t].reserved = auth[t].reserved
        /\ auth'[t].notBefore = auth[t].notBefore
        /\ auth'[t].policy = auth[t].policy
        /\ auth'[t].due = auth[t].due
        /\ \A u \in Threads \ {t} : auth'[u] = auth[u]
    BY <1>1, <2>1 DEF Gates!Auth
  <2>3. "queued" \in Gates!Steps \ {"idle"}  BY DEF Gates!Steps
  <2> QED BY <1>1, <1>2, <2>1, <2>2, <2>3, GateMove
<1>3. CASE Gates!AwaitTurn(t) \/ Gates!Refuse(t) \/ Gates!Interrupt(t)
  <2>1. PICK x \in {"waiting", "retiring"} : step' = [step EXCEPT ![t] = x]
    BY <1>3 DEF Gates!AwaitTurn, Gates!Refuse, Gates!Interrupt
  <2>2. step[t] \in Gates!Ticketed /\ step[t] # "idle" /\ UNCHANGED <<clock, auth>>
    BY <1>3 DEF Gates!AwaitTurn, Gates!Refuse, Gates!Interrupt, Gates!Ticketed
  <2>3. x \in Gates!Steps \ {"idle"}  BY DEF Gates!Steps
  <2> QED BY <1>1, <2>1, <2>2, <2>3, GateMove
<1>4. CASE Gates!TakeTurn(t)
  <2> DEFINE due == IF gate[auth[t].origin].lastStarted = Gates!None
                    THEN auth[t].notBefore
                    ELSE Gates!Later(auth[t].notBefore,
                                gate[auth[t].origin].lastStarted + Pacing)
  <2>1. /\ step[t] = "queued" /\ step' = [step EXCEPT ![t] = "sleeping"]
        /\ auth' = [auth EXCEPT ![t].due = due]
        /\ UNCHANGED clock
    BY <1>4 DEF Gates!TakeTurn
  <2>2. auth[t].notBefore <= due
    <3>1. auth[t].notBefore \in Nat /\ auth[t].origin \in Origins /\ Pacing \in Nat
      BY <2>1, Types, Bounds
    <3>2. gate[auth[t].origin].lastStarted \in Nat \cup {-1}
      BY <1>1, <3>1 DEF Gates!TypeOK, Gates!Gate, Gates!None, Gates!Time
    <3> QED BY <3>1, <3>2 DEF Gates!Later, Gates!None
  <2>3. /\ auth'[t].reserved = auth[t].reserved
        /\ auth'[t].notBefore = auth[t].notBefore
        /\ auth'[t].policy = auth[t].policy
        /\ auth'[t].due = due
        /\ \A u \in Threads \ {t} : auth'[u] = auth[u]
    <3> HIDE DEF due
    <3> QED BY <1>1, <2>1 DEF Gates!Auth
  <2>4. /\ "sleeping" \in Gates!Steps \ {"idle"} /\ step[t] # "idle"
        /\ step[t] \in Gates!Ticketed
    BY <2>1 DEF Gates!Steps, Gates!Ticketed
  <2> HIDE DEF due
  <2> QED BY <1>1, <2>1, <2>2, <2>3, <2>4, GateMove
<1> QED BY <1>2, <1>3, <1>4 DEF Queue, Interrupt

LEMMA LeaveInv ==
    ASSUME Inv, NEW t \in Threads, ClaimRaises(t) \/ StartFails(t)
    PROVE  Coupled'
<1>1. /\ Ended(t) /\ UNCHANGED cacheVars
      /\ Gates!Abandon(t) \/ Gates!Retire(t)
  BY DEF ClaimRaises, StartFails
<1>2. /\ step[t] # "idle" /\ UNCHANGED clock
      /\ auth' = [auth EXCEPT ![t] = Gates!NoAuth]
  BY <1>1 DEF Gates!Abandon, Gates!Retire
<1>3. \/ step' = [step EXCEPT ![t] = "idle"]
      \/ \E o : step' = [Gates!Notified(o) EXCEPT ![t] = "idle"]
  BY <1>1 DEF Gates!Abandon, Gates!Retire
<1>4. /\ step'[t] = "idle"
      /\ \A u \in Threads \ {t} :
            /\ step'[u] = "idle" <=> step[u] = "idle"
            /\ step'[u] \in Gates!Ticketed <=> step[u] \in Gates!Ticketed
  <2>1. CASE step' = [step EXCEPT ![t] = "idle"]  BY <2>1, Types
  <2>2. CASE \E o : step' = [Gates!Notified(o) EXCEPT ![t] = "idle"]
    <3>1. PICK o : step' = [Gates!Notified(o) EXCEPT ![t] = "idle"]  BY <2>2
    <3> QED BY <3>1, WokenSteps
  <2> QED BY <1>3, <2>1, <2>2
<1>5. \A u \in Threads \ {t} : auth'[u] = auth[u]  BY <1>2, Types
<1>6. reader'[t].step = "idle"  BY <1>1, <1>2 DEF Inv, Coupled, Phased, cacheVars
<1>7. \A u \in Threads \ {t} : chain'[u] = chain[u] => Kept(u)
  BY <1>1, <1>4, <1>5 DEF Kept, cacheVars
<1>8. Carried'  BY <1>1, <1>2, CarriedStutter
<1> QED BY <1>1, <1>2, <1>4, <1>6, <1>7, <1>8, EndedStep

LEMMA SendInv ==
    ASSUME Inv, NEW t \in Threads, Send(t)
    PROVE  Coupled'
<1> DEFINE at == Gates!StartTime(t)
           c == [phase |-> "flight", hops |-> chain[t].hops,
                 floor |-> chain[t].floor, begun |-> at,
                 claim |-> chain[t].claim, requests |-> chain[t].requests + 1]
           o == auth[t].origin
<1>1. /\ step[t] = "sleeping" /\ clock >= auth[t].due
      /\ step' = [Gates!Notified(o) EXCEPT ![t] = "idle"]
      /\ auth' = [auth EXCEPT ![t] = Gates!NoAuth]
      /\ UNCHANGED <<clock, cacheVars>>
  BY DEF Send, Gates!Start
<1>2. chain' = [chain EXCEPT ![t] = c]
  <2> HIDE DEF at
  <2>1. chain[t] \in Chain /\ chain \in [Threads -> Chain]  BY Types
  <2> QED BY <2>1 DEF Send, at, Chain
<1>3. /\ chain[t].phase = "gate" /\ reader[t].step = "idle" /\ chain[t].claim
      /\ chain[t].hops <= MaxHops /\ chain[t].requests = chain[t].hops
      /\ chain[t].floor <= clock + 2
      /\ chain[t].floor < auth[t].reserved
      /\ auth[t].reserved <= auth[t].notBefore
      /\ auth[t].notBefore <= auth[t].due
  <2>1. step[t] # "idle" /\ step[t] \in Gates!Ticketed  BY <1>1 DEF Gates!Ticketed
  <2>2. chain[t].phase = "gate" /\ reader[t].step = "idle" /\ chain[t].claim
    BY <2>1 DEF Inv, Coupled, Phased
  <2> QED BY <2>1, <2>2 DEF Inv, Coupled, Counted, Caused
<1>4. /\ clock \in Nat /\ chain[t] \in Chain /\ chain[t].floor \in Nat \cup {-1}
      /\ auth[t].reserved \in Nat /\ auth[t].notBefore \in Nat
      /\ auth[t].due \in Nat
      /\ chain[t].requests \in Nat /\ chain[t].hops \in Nat
  BY <1>1, Types
<1>5. at \in Nat /\ chain[t].floor < at /\ at <= clock + 1
  BY <1>1, <1>3, <1>4 DEF Gates!StartTime, Gates!CausalNow, Gates!Later
<1>6. /\ c \in Chain /\ c.phase = "flight" /\ c.hops = chain[t].hops
      /\ c.requests = chain[t].requests + 1 /\ c.floor = chain[t].floor
      /\ c.begun = at /\ c.claim
  <2> HIDE DEF at
  <2> QED BY <1>3, <1>4, <1>5 DEF Chain, Phases, None
<1>7. /\ c.requests = c.hops + 1 /\ c.hops <= MaxHops /\ c.floor <= clock + 2
      /\ c.floor < c.begun /\ c.begun <= clock + 1 /\ c.begun \in Nat
  <2> HIDE DEF at, c
  <2> QED BY <1>3, <1>4, <1>5, <1>6
<1>8. /\ step'[t] = "idle"
      /\ \A u \in Threads \ {t} :
            /\ step'[u] = "idle" <=> step[u] = "idle"
            /\ step'[u] \in Gates!Ticketed <=> step[u] \in Gates!Ticketed
            /\ auth'[u] = auth[u]
  BY <1>1, WokenSteps, Types
<1>9. Carried'  BY <1>1, CarriedStutter
<1>10. \A u \in Threads \ {t} : chain'[u] = chain[u] => Kept(u)
  BY <1>1, <1>8 DEF Kept, cacheVars
<1> HIDE DEF c, at
<1> QED BY <1>1, <1>2, <1>3, <1>6, <1>7, <1>8, <1>9, <1>10, MovedStep
        DEF cacheVars, Gates!Ticketed

LEMMA FinishInv ==
    ASSUME Inv, NEW t \in Threads, Finish(t)
    PROVE  Coupled'
<1>1. /\ chain[t].phase = "flight" /\ Ended(t)
      /\ UNCHANGED <<clock, cacheVars, gateVars>>
  BY DEF Finish
<1>2. reader'[t].step = "idle" /\ step'[t] = "idle"
  BY <1>1 DEF Inv, Coupled, Phased, cacheVars, gateVars
<1>3. \A u \in Threads \ {t} : chain'[u] = chain[u] => Kept(u)
  BY <1>1 DEF Kept, cacheVars, gateVars
<1>4. Carried'  BY <1>1, CarriedStutter
<1> QED BY <1>1, <1>2, <1>3, <1>4, EndedStep

LEMMA InvalidateInv ==
    ASSUME Inv, NEW o \in Origins, Invalidate({o})
    PROVE  Coupled'
<1>1. /\ cache' = [p \in Origins |-> IF p \in {o} THEN {} ELSE cache[p]]
      /\ reader' = Policies!Notified
      /\ UNCHANGED <<clock, gateVars, chain>>
  BY DEF Invalidate, Policies!Invalidate
<1>2. \A u \in Threads : Kept(u)  BY <1>1, WokenReaders DEF Kept, gateVars
<1>3. \A u \in Threads : (Phased(u) /\ Counted(u) /\ Caused(u))'
  BY <1>1, <1>2, KeptFact
<1>4. \A p \in Origins : cache'[p] \subseteq cache[p]  BY <1>1
<1>5. Carried'
  BY <1>1, <1>4, WokenReaders, CarriedStep DEF Inv, Coupled, Carried
<1> QED BY <1>1, <1>3, <1>5, Types DEF Coupled

LEMMA TickInv ==
    ASSUME Inv, Tick
    PROVE  Coupled'
<1>1. /\ clock' = clock + 1 /\ clock \in Nat /\ LastArrival \in Nat
      /\ clock >= LastArrival => \A t \in Threads : chain[t].phase # "lookup"
      /\ UNCHANGED <<cache, reader, step, auth, chain>>
  BY Types, Bounds DEF Tick, cacheVars, gateVars
<1>2. ASSUME NEW t \in Threads PROVE (Phased(t) /\ Counted(t) /\ Caused(t))'
  <2>1. Phased(t) /\ Counted(t) /\ Caused(t)  BY DEF Inv, Coupled
  <2>2. chain[t].floor \in Nat \cup {-1} /\ chain[t].begun \in Nat \cup {-1}
    BY Types
  <2>3. Phased(t)'  BY <1>1, <2>1 DEF Phased
  <2>4. Counted(t)'  BY <1>1, <2>1 DEF Counted
  <2>5. Caused(t)'  BY <1>1, <2>1, <2>2 DEF Caused
  <2> QED BY <2>3, <2>4, <2>5
<1>3. Carried'
  <2>1. ASSUME NEW p \in Policies!Policy, Dated(p) PROVE Dated(p)'
    BY <1>1, <2>1 DEF Dated, Policies!Policy
  <2>2. /\ \A o \in Origins : cache[o] \subseteq Policies!Policy
        /\ \A t \in Threads : reader[t].policy \in Policies!Policy
    BY Types
  <2> QED BY <1>1, <2>1, <2>2 DEF Inv, Coupled, Carried
<1> QED BY <1>1, <1>2, <1>3, Types DEF Coupled

LEMMA StutterInv == ASSUME Inv, UNCHANGED vars PROVE Coupled'
<1>1. \A u \in Threads : Kept(u)  BY DEF Kept, vars, cacheVars, gateVars
<1>2. \A u \in Threads : (Phased(u) /\ Counted(u) /\ Caused(u))'
  BY <1>1, KeptFact DEF vars
<1>3. Carried'  BY CarriedStutter DEF vars
<1> QED BY <1>2, <1>3, Types DEF Coupled, vars

LEMMA NextInv == ASSUME Inv, [Next]_vars PROVE Inv'
<1>1. CacheProofs!Inv'
  BY Simulated, SameCache, ChainAssumption, CacheProofs!NextInv DEF Inv
<1>2. GateProofs!Inv'
  BY Simulated, SameGate, ChainAssumption, GateProofs!NextInv DEF Inv
<1>3. Coupled'
  <2>1. ASSUME NEW t \in Threads, Advance(t) PROVE Coupled'
    BY <2>1, LookupInv, LookupFailsInv, DeclineInv, AdmitInv, RefusedInv,
       ClaimInv, QueueInv, LeaveInv, SendInv, FinishInv DEF Advance
  <2> QED BY <2>1, RequestInv, RedirectInv, LeaveInv, QueueInv, InvalidateInv,
             TickInv, StutterInv DEF Next, Quiet
<1> QED BY <1>1, <1>2, <1>3 DEF Inv

THEOREM SpecInv == Spec => []Inv
<1>1. Init => Inv  BY InitInv
<1>2. Inv /\ [Next]_vars => Inv'  BY NextInv
<1> QED BY <1>1, <1>2, PTL DEF Spec

-------------------------------------------------------------------------------
\* The three records of a request, its lookup, its authorization and its chain,
\* keep their types while other threads wake, invalidate and overtake it.
THEOREM TypeCorrect == Spec => []TypeOK
<1>1. Inv => TypeOK  BY Types DEF TypeOK
<1> QED BY SpecInv, <1>1, PTL

\* No request starts, and no ticket is taken, without the caller's send claim,
\* and every path out of a hop gives the claim back.
THEOREM ClaimCorrect == Spec => []ClaimFollowsHop
<1>1. ASSUME Inv PROVE ClaimFollowsHop
  <2>1. \A t \in Threads : Phased(t)  BY <1>1 DEF Inv, Coupled
  <2> QED BY <2>1, NoChainFact DEF Phased, ClaimFollowsHop
<1> QED BY SpecInv, <1>1, PTL

\* A chain of any number of redirects runs forward in time, hop by hop, and
\* ends after MaxHops of them.
THEOREM CausalCorrect == Spec => []CausalChain
<1>1. ASSUME Inv PROVE CausalChain
  <2>1. ASSUME NEW t \in Threads
        PROVE  /\ chain[t].requests <= MaxHops + 1
               /\ step[t] # "idle" =>
                    /\ auth[t].reserved > chain[t].floor
                    /\ auth[t].notBefore >= auth[t].reserved
               /\ chain[t].phase = "flight" => chain[t].begun > chain[t].floor
    <3>1. Counted(t) /\ Caused(t)  BY <1>1 DEF Inv, Coupled
    <3>2. /\ chain[t].hops \in Nat /\ chain[t].requests \in Nat /\ MaxHops \in Nat
          /\ chain[t].floor \in Nat \cup {-1} /\ chain[t].begun \in Nat \cup {-1}
          /\ step[t] # "idle" => auth[t].reserved \in Nat /\ auth[t].notBefore \in Nat
      BY <1>1, Types, Bounds
    <3> QED BY <3>1, <3>2 DEF Counted, Caused
  <2> QED BY <2>1 DEF CausalChain
<1> QED BY SpecInv, <1>1, PTL

\* A start re-tests the expiry of a policy that may have run out since it was
\* looked up, at the gate, in the queue or while asleep.
THEOREM LivePolicyCorrect == Spec => SentUnderLivePolicy
<1> DEFINE Live(t) == chain[t].phase # "flight" /\ chain'[t].phase = "flight" =>
                            /\ auth[t].policy.observed <= auth[t].reserved
                            /\ auth[t].reserved <= chain'[t].begun
                            /\ clock <= chain'[t].begun
                            /\ chain'[t].begun <= auth[t].policy.observed + TTL
<1>1. ASSUME Inv, [Next]_vars, NEW t \in Threads PROVE Live(t)
  <2>1. SUFFICES ASSUME chain[t].phase # "flight", chain'[t].phase = "flight"
                 PROVE  Live(t)
    OBVIOUS
  <2>2. chain \in [Threads -> Chain]  BY <1>1, Types
  <2>3. Send(t)
    <3>1. ASSUME NEW u \in Threads, Ended(u) PROVE FALSE
      BY <2>1, <2>2, <3>1, NoChainFact DEF Ended
    <3>2. ASSUME NEW u \in Threads, NEW o \in Origins, Request(u, o) \/ Redirect(u, o)
          PROVE  FALSE
      <4>1. chain'[u].phase = "lookup" /\ \A v \in Threads \ {u} : chain'[v] = chain[v]
        BY <2>2, <3>2, NoChainFact DEF Request, Redirect, Chain
      <4> QED BY <2>1, <4>1
    <3>3. ASSUME NEW u \in Threads, Admit(u) \/ Claim(u)  PROVE FALSE
      <4>1. chain'[u].phase \in {"gate", chain[u].phase}
            /\ \A v \in Threads \ {u} : chain'[v] = chain[v]
        BY <2>2, <3>3 DEF Admit, Claim, Chain
      <4> QED BY <2>1, <4>1
    <3>4. ASSUME chain' = chain  PROVE FALSE  BY <2>1, <3>4
    <3>5. ASSUME NEW u \in Threads, Advance(u) PROVE Send(t)
      <4>1. Send(u)
        BY <3>1, <3>3, <3>4, <3>5
           DEF Advance, Lookup, LookupFails, Decline, Refused, Queue, StartFails,
               Finish
      <4> QED BY <2>1, <2>2, <4>1 DEF Send
    <3> QED
      BY <1>1, <3>1, <3>2, <3>4, <3>5
         DEF Next, ClaimRaises, Interrupt, Invalidate, Tick, Quiet, vars
  <2> DEFINE at == Gates!StartTime(t)
  <2>4. chain'[t].begun = at /\ step[t] = "sleeping" /\ at <= auth[t].policy.expires
    <3>1. step[t] = "sleeping" /\ Gates!StillAuthorized(t)
      BY <2>3 DEF Send, Gates!Start
    <3> QED BY <2>2, <2>3, <3>1 DEF Send, Chain, Gates!StillAuthorized
  <2>5. /\ clock \in Nat /\ auth[t].reserved \in Nat /\ auth[t].due \in Nat
    BY <1>1, <2>4, Types
  <2>6. auth[t].reserved <= at /\ clock <= at
    BY <2>5 DEF Gates!StartTime, Gates!CausalNow, Gates!Later
  <2>7. Caused(t)  BY <1>1 DEF Inv, Coupled
  <2> HIDE DEF at
  <2> QED BY <2>4, <2>6, <2>7 DEF Caused
<1>2. Inv /\ [Next]_vars => [\A t \in Threads : Live(t)]_vars  BY <1>1
<1> QED BY SpecInv, <1>2, PTL DEF Spec, SentUnderLivePolicy

\* The starts of every origin stay in ticket order, paced and within budget, and
\* no request is admitted under a policy invalidated before its lookup began,
\* however redirects, refusals and invalidations of other chains fall between.
THEOREM GatewayKeepsPromises ==
    Spec => [](/\ Gates!FifoPaced /\ Gates!BudgetHonoured
               /\ Policies!SingleFlight /\ Policies!NoAnswerOlderThanCall)
<1>1. ASSUME Inv PROVE Gates!FifoPaced /\ Gates!BudgetHonoured
  BY <1>1 DEF Inv, GateProofs!Inv, GateProofs!FifoPaced, Gates!FifoPaced,
              GateProofs!BudgetHonoured, Gates!BudgetHonoured,
              GateProofs!InWindow, Gates!InWindow
<1>2. ASSUME Inv PROVE Policies!SingleFlight /\ Policies!NoAnswerOlderThanCall
  BY <1>2 DEF Inv, CacheProofs!Inv, CacheProofs!SingleFlight,
              Policies!SingleFlight, CacheProofs!Fetching, Policies!Fetching,
              CacheProofs!NoAnswerOlderThanCall, Policies!NoAnswerOlderThanCall,
              CacheProofs!Policy, Policies!Policy, CacheProofs!Outcomes,
              Policies!Outcomes
<1> QED BY SpecInv, <1>1, <1>2, PTL

=============================================================================
