--------------------------- MODULE PolicyCacheProofs ---------------------------
(***************************************************************************)
(* Proofs about PolicyCache for every number of threads, origins, lookups  *)
(* and invalidations.                                                      *)
(*                                                                         *)
(* The safety properties speak of the cache and of finished lookups; what  *)
(* makes them inductive is Admitted, the order of the three generations a  *)
(* lookup meets: the one it began under, the one its fetch was admitted    *)
(* under, and the present one.                                             *)
(***************************************************************************)
EXTENDS PolicyCache, TLAPS

Admitted ==
    \A t \in Threads :
        /\ reader[t].step # "idle" => reader[t].floor <= generation[reader[t].origin]
        /\ Fetching(t) => /\ reader[t].floor <= reader[t].admitted
                          /\ reader[t].admitted <= generation[reader[t].origin]
        /\ reader[t].step = "fetched" => reader[t].policy.born = reader[t].admitted

Inv ==
    /\ TypeOK
    /\ Admitted
    /\ SingleFlight
    /\ NoStaleRepopulation
    /\ NoAnswerOlderThanCall

\* What every step proof needs of the types.
LEMMA Types ==
    ASSUME Inv
    PROVE  /\ clock \in Nat
           /\ generation \in [Origins -> Nat]
           /\ reader \in [Threads -> Reader]
           /\ cache \in [Origins -> SUBSET Policy]
           /\ calls \in [Threads -> Nat]
           /\ \A t \in Threads : /\ reader[t].origin \in Origins
                                 /\ reader[t].step \in Steps
                                 /\ reader[t].floor \in Nat
                                 /\ reader[t].admitted \in Nat
                                 /\ reader[t].policy \in Policy
BY DEF Inv, TypeOK, Reader

\* SingleFlight, said key by key.
LEMMA InflightFact ==
    ASSUME SingleFlight, NEW o
    PROVE  o \in inflight <=> \E t \in Threads : Fetching(t) /\ reader[t].origin = o
BY DEF SingleFlight

LEMMA NoPolicyFact == NoPolicy \in Policy /\ NoPolicy.born = 0
BY DEF NoPolicy, Policy, Outcomes

LEMMA InitInv == Init => Inv
<1> SUFFICES ASSUME Init PROVE Inv  OBVIOUS
<1>1. \A t \in Threads : \E o \in Origins :
        reader[t] = [step |-> "idle", origin |-> o, admitted |-> 0, floor |-> 0,
                     policy |-> NoPolicy]
  BY DEF Init
<1>2. \A t \in Threads : reader[t] \in Reader /\ reader[t].step = "idle"
  <2> TAKE t \in Threads
  <2>1. PICK o \in Origins :
            reader[t] = [step |-> "idle", origin |-> o, admitted |-> 0, floor |-> 0,
                         policy |-> NoPolicy]
    BY <1>1
  <2>2. "idle" \in Steps /\ NoPolicy \in Policy  BY NoPolicyFact DEF Steps
  <2> QED BY <2>1, <2>2 DEF Reader
<1>3. reader \in [Threads -> Reader]
  <2>1. reader = [t \in Threads |-> reader[t]]  BY DEF Init
  <2> QED BY <1>2, <2>1
<1>4. TypeOK  BY <1>3 DEF Init, TypeOK
<1>5. \A t \in Threads : ~Fetching(t)  BY <1>2 DEF Fetching
<1> QED BY <1>2, <1>4, <1>5
        DEF Init, Inv, Admitted, SingleFlight, NoStaleRepopulation,
            NoAnswerOlderThanCall

\* Notified only moves waiters to "checking".
LEMMA NotifiedFact ==
    ASSUME Inv
    PROVE  /\ Notified \in [Threads -> Reader]
           /\ \A t \in Threads :
                /\ Notified[t].origin = reader[t].origin
                /\ Notified[t].floor = reader[t].floor
                /\ Notified[t].admitted = reader[t].admitted
                /\ Notified[t].policy = reader[t].policy
                /\ \/ Notified[t].step = reader[t].step
                   \/ reader[t].step = "waiting" /\ Notified[t].step = "checking"
<1>1. \A t \in Threads : reader[t] \in Reader  BY Types
<1>2. \A r \in Reader :
        LET n == [r EXCEPT !.step = "checking"]
        IN  /\ n \in Reader
            /\ n.origin = r.origin /\ n.floor = r.floor
            /\ n.admitted = r.admitted /\ n.policy = r.policy
            /\ n.step = "checking"
  BY DEF Reader, Steps
<1> QED BY <1>1, <1>2 DEF Notified

\* A step of thread t that leaves the generations and the in-flight set alone,
\* caches nothing, and makes nobody fetch who did not, keeps the invariant as
\* long as it keeps t's own part of it.
LEMMA LocalInv ==
    ASSUME Inv, NEW t \in Threads,
           reader' \in [Threads -> Reader],
           \A u \in Threads \ {t} : reader'[u] = reader[u],
           reader'[t].origin = reader[t].origin \/ ~Fetching(t),
           Fetching(t)' <=> Fetching(t),
           UNCHANGED <<inflight, generation>>,
           clock' \in Nat, calls' \in [Threads -> Nat],
           cache' \in [Origins -> SUBSET Policy],
           \A o \in Origins : cache'[o] \subseteq cache[o],
           reader'[t].step # "idle" =>
                reader'[t].floor <= generation[reader'[t].origin],
           Fetching(t)' => /\ reader'[t].floor <= reader'[t].admitted
                           /\ reader'[t].admitted <= generation[reader'[t].origin],
           reader'[t].step = "fetched" =>
                reader'[t].policy.born = reader'[t].admitted,
           reader'[t].step = "done" => reader'[t].policy.born >= reader'[t].floor
    PROVE  Inv'
<1>1. \A u \in Threads : Fetching(u)' <=> Fetching(u)  BY DEF Fetching
<1>2. TypeOK'  BY DEF Inv, TypeOK
<1>3. Admitted'  BY <1>1 DEF Inv, Admitted, Fetching
<1>4. SingleFlight'
  <2>1. \A u \in Threads : Fetching(u) => reader'[u].origin = reader[u].origin
    OBVIOUS
  <2> QED BY <1>1, <2>1 DEF Inv, SingleFlight
<1>5. NoStaleRepopulation'  BY DEF Inv, NoStaleRepopulation
<1>6. NoAnswerOlderThanCall'
  <2>1. \A u \in Threads : reader'[u].policy \in Policy  BY DEF Reader
  <2> QED BY <2>1 DEF Inv, NoAnswerOlderThanCall
<1> QED BY <1>2, <1>3, <1>4, <1>5, <1>6 DEF Inv

-------------------------------------------------------------------------------
(* The steps of one lookup.                                                *)

LEMMA CallInv ==
    ASSUME Inv, NEW t \in Threads, NEW o \in Origins, Call(t, o)
    PROVE  Inv'
<1> DEFINE r == [step |-> "checking", origin |-> o, admitted |-> 0,
                 floor |-> generation[o], policy |-> NoPolicy]
<1>1. /\ reader[t].step = "idle" /\ reader' = [reader EXCEPT ![t] = r]
      /\ calls' = [calls EXCEPT ![t] = calls[t] + 1]
      /\ UNCHANGED <<clock, cache, inflight, generation>>
  BY DEF Call
<1>2. /\ r \in Reader /\ r.step = "checking" /\ r.origin = o
      /\ r.floor = generation[o]
  BY NoPolicyFact, Types DEF Reader, Steps
<1>3. calls' \in [Threads -> Nat]  BY <1>1, Types
<1> HIDE DEF r
<1>4. reader'[t] = r /\ reader' \in [Threads -> Reader]
      /\ \A u \in Threads \ {t} : reader'[u] = reader[u]
  BY <1>1, <1>2, Types
<1>5. ~Fetching(t) /\ ~Fetching(t)'  BY <1>1, <1>2, <1>4 DEF Fetching
<1>6. generation[o] \in Nat  BY Types
<1> QED BY <1>1, <1>2, <1>3, <1>4, <1>5, <1>6, LocalInv, Types

LEMMA ReturnCachedInv ==
    ASSUME Inv, NEW t \in Threads, ReturnCached(t)
    PROVE  Inv'
<1> DEFINE o == reader[t].origin
<1>1. PICK p \in Hit(o) :
        reader' = [reader EXCEPT ![t].step = "done", ![t].policy = p]
  BY DEF ReturnCached
<1>2. reader[t].step = "checking" /\ UNCHANGED <<clock, cache, inflight, generation, calls>>
  BY DEF ReturnCached
<1>3. o \in Origins /\ p \in cache[o] /\ p \in Policy  BY <1>1, Types DEF Hit
<1>4. p.born = generation[o] /\ reader[t].floor <= generation[o]
  BY <1>2, <1>3 DEF Inv, NoStaleRepopulation, Admitted
<1> DEFINE r == [reader[t] EXCEPT !.step = "done", !.policy = p]
<1>5. reader[t] \in Reader  BY Types
<1>6. /\ r \in Reader /\ r.step = "done" /\ r.origin = o
      /\ r.floor = reader[t].floor /\ r.policy = p
  <2>1. "done" \in Steps  BY DEF Steps
  <2> QED BY <1>3, <1>5, <2>1 DEF Reader
<1>7. reader' = [reader EXCEPT ![t] = r]  BY <1>1
<1> HIDE DEF r
<1>8. reader'[t] = r /\ reader' \in [Threads -> Reader]
      /\ \A u \in Threads \ {t} : reader'[u] = reader[u]
  BY <1>6, <1>7, Types
<1>9. ~Fetching(t) /\ ~Fetching(t)'  BY <1>2, <1>6, <1>8 DEF Fetching
<1>10. generation[o] \in Nat /\ reader[t].floor \in Nat  BY <1>3, Types
<1> QED BY <1>2, <1>4, <1>6, <1>8, <1>9, <1>10, LocalInv, Types

LEMMA WaitInv ==
    ASSUME Inv, NEW t \in Threads, Wait(t)
    PROVE  Inv'
<1> DEFINE o == reader[t].origin
           r == [reader[t] EXCEPT !.step = "waiting"]
<1>1. /\ reader[t].step = "checking" /\ reader' = [reader EXCEPT ![t] = r]
      /\ cache' = [cache EXCEPT ![o] = {}]
      /\ UNCHANGED <<clock, inflight, generation, calls>>
  BY DEF Wait
<1>2. reader[t] \in Reader /\ o \in Origins  BY Types
<1>3. /\ r \in Reader /\ r.step = "waiting" /\ r.origin = o
      /\ r.floor = reader[t].floor
  <2>1. "waiting" \in Steps  BY DEF Steps
  <2> QED BY <1>2, <2>1 DEF Reader
<1> HIDE DEF r
<1>4. reader'[t] = r /\ reader' \in [Threads -> Reader]
      /\ \A u \in Threads \ {t} : reader'[u] = reader[u]
  BY <1>1, <1>3, Types
<1>5. ~Fetching(t) /\ ~Fetching(t)'  BY <1>1, <1>3, <1>4 DEF Fetching
<1>6. reader[t].floor <= generation[o]  BY <1>1 DEF Inv, Admitted
<1>7. cache' \in [Origins -> SUBSET Policy] /\ \A q \in Origins : cache'[q] \subseteq cache[q]
  BY <1>1, <1>2, Types
<1> QED BY <1>1, <1>3, <1>4, <1>5, <1>6, <1>7, LocalInv, Types

LEMMA FetchInv ==
    ASSUME CacheBounds, Inv, NEW t \in Threads, Fetch(t) \/ FetchRaises(t)
    PROVE  Inv'
<1>1. /\ reader[t].step = "fetching"
      /\ UNCHANGED <<clock, cache, inflight, generation, calls>>
  BY DEF Fetch, FetchRaises
<1>2. reader[t] \in Reader /\ reader[t].origin \in Origins /\ reader[t].admitted \in Nat
      /\ clock \in Nat
  BY Types
<1>3. \E r \in Reader :
        /\ reader' = [reader EXCEPT ![t] = r]
        /\ r.step \in {"fetched", "failed"}
        /\ r.origin = reader[t].origin
        /\ r.floor = reader[t].floor
        /\ r.admitted = reader[t].admitted
        /\ r.step = "fetched" => r.policy.born = r.admitted
  <2>1. CASE Fetch(t)
    <3>1. PICK outcome \in Outcomes :
            reader' = [reader EXCEPT
                ![t].step = "fetched",
                ![t].policy = [observed |-> clock, expires |-> clock + TTL,
                               outcome |-> outcome, born |-> reader[t].admitted]]
      BY <2>1 DEF Fetch
    <3> DEFINE p == [observed |-> clock, expires |-> clock + TTL,
                     outcome |-> outcome, born |-> reader[t].admitted]
               r == [reader[t] EXCEPT !.step = "fetched", !.policy = p]
    <3>2. p \in Policy /\ p.born = reader[t].admitted
      BY <1>2 DEF Policy, CacheBounds
    <3>3. reader' = [reader EXCEPT ![t] = r]  BY <3>1
    <3> HIDE DEF p
    <3>4. /\ r \in Reader /\ r.step = "fetched" /\ r.origin = reader[t].origin
          /\ r.floor = reader[t].floor /\ r.admitted = reader[t].admitted
          /\ r.policy = p
      <4>1. "fetched" \in Steps  BY DEF Steps
      <4> QED BY <1>2, <3>2, <4>1 DEF Reader
    <3> HIDE DEF r
    <3> QED BY <3>2, <3>3, <3>4
  <2>2. CASE FetchRaises(t)
    <3> DEFINE r == [reader[t] EXCEPT !.step = "failed"]
    <3>1. reader' = [reader EXCEPT ![t] = r]  BY <2>2 DEF FetchRaises
    <3>2. /\ r \in Reader /\ r.step = "failed" /\ r.origin = reader[t].origin
          /\ r.floor = reader[t].floor /\ r.admitted = reader[t].admitted
      <4>1. "failed" \in Steps  BY DEF Steps
      <4> QED BY <1>2, <4>1 DEF Reader
    <3> HIDE DEF r
    <3> QED BY <3>1, <3>2
  <2> QED BY <2>1, <2>2
<1>4. PICK r \in Reader :
        /\ reader' = [reader EXCEPT ![t] = r]
        /\ r.step \in {"fetched", "failed"}
        /\ r.origin = reader[t].origin
        /\ r.floor = reader[t].floor
        /\ r.admitted = reader[t].admitted
        /\ r.step = "fetched" => r.policy.born = r.admitted
  BY <1>3
<1>5. reader'[t] = r /\ reader' \in [Threads -> Reader]
      /\ \A u \in Threads \ {t} : reader'[u] = reader[u]
  BY <1>4, Types
<1>6. Fetching(t) /\ Fetching(t)' /\ r.step # "done" /\ r.step # "idle"
  BY <1>1, <1>4, <1>5 DEF Fetching
<1>7. reader[t].floor <= generation[r.origin] /\ reader[t].floor <= reader[t].admitted
      /\ reader[t].admitted <= generation[r.origin]
  BY <1>1, <1>4, <1>6 DEF Inv, Admitted
<1> QED BY <1>1, <1>4, <1>5, <1>6, <1>7, LocalInv, Types

LEMMA ReleasedFact ==
    ASSUME Inv, NEW t \in Threads
    PROVE  /\ Released(t) \in Reader
           /\ Released(t).step = "idle"
           /\ Released(t).origin = reader[t].origin
<1>1. "idle" \in Steps /\ NoPolicy \in Policy /\ reader[t].origin \in Origins
  BY NoPolicyFact, Types DEF Steps
<1> QED BY <1>1 DEF Released, Reader

LEMMA ReturnInv ==
    ASSUME Inv, NEW t \in Threads, Return(t)
    PROVE  Inv'
<1> DEFINE r == Released(t)
<1>1. reader[t].step = "done" /\ reader' = [reader EXCEPT ![t] = r]
      /\ UNCHANGED <<clock, cache, inflight, generation, calls>>
  BY DEF Return
<1>2. r \in Reader /\ r.step = "idle"  BY ReleasedFact
<1> HIDE DEF r
<1>3. reader'[t] = r /\ reader' \in [Threads -> Reader]
      /\ \A u \in Threads \ {t} : reader'[u] = reader[u]
  BY <1>1, <1>2, Types
<1>4. ~Fetching(t) /\ ~Fetching(t)'  BY <1>1, <1>2, <1>3 DEF Fetching
<1> QED BY <1>1, <1>2, <1>3, <1>4, LocalInv, Types

-------------------------------------------------------------------------------
(* The steps that touch the in-flight set or the generations.              *)

LEMMA AdmitFetchInv ==
    ASSUME Inv, NEW t \in Threads, AdmitFetch(t)
    PROVE  Inv'
<1> DEFINE o == reader[t].origin
           r == [reader[t] EXCEPT !.step = "fetching", !.admitted = generation[o]]
<1>1. /\ reader[t].step = "checking" /\ o \notin inflight
      /\ reader' = [reader EXCEPT ![t] = r]
      /\ cache' = [cache EXCEPT ![o] = {}]
      /\ inflight' = inflight \cup {o}
      /\ UNCHANGED <<clock, generation, calls>>
  BY DEF AdmitFetch
<1>2. reader[t] \in Reader /\ o \in Origins /\ generation[o] \in Nat /\ reader[t].floor \in Nat
  BY Types
<1>3. /\ r \in Reader /\ r.step = "fetching" /\ r.origin = o
      /\ r.floor = reader[t].floor /\ r.admitted = generation[o]
  <2>1. "fetching" \in Steps  BY DEF Steps
  <2> QED BY <1>2, <2>1 DEF Reader
<1> HIDE DEF r
<1>4. reader'[t] = r /\ reader' \in [Threads -> Reader]
      /\ \A u \in Threads : u # t => reader'[u] = reader[u]
  BY <1>1, <1>3, Types
<1>5. /\ \A u \in Threads : u # t => (Fetching(u)' <=> Fetching(u))
      /\ Fetching(t)' /\ ~Fetching(t)
  BY <1>1, <1>3, <1>4 DEF Fetching
<1>6. cache' \in [Origins -> SUBSET Policy] /\ \A q \in Origins : cache'[q] \subseteq cache[q]
  BY <1>1, <1>2, Types
<1>7. TypeOK'  BY <1>1, <1>2, <1>4, <1>6 DEF Inv, TypeOK
<1>8. Admitted'
  <2>1. reader[t].floor <= generation[o]  BY <1>1 DEF Inv, Admitted
  <2> QED BY <1>1, <1>2, <1>3, <1>4, <1>5, <2>1 DEF Inv, Admitted
<1>9. SingleFlight'
  <2>1. \A u \in Threads : Fetching(u) => reader[u].origin # o
    BY <1>1, InflightFact DEF Inv
  <2>2. \A u, v \in Threads : (u # v /\ Fetching(u)' /\ Fetching(v)') =>
            reader'[u].origin # reader'[v].origin
    BY <1>3, <1>4, <1>5, <2>1 DEF Inv, SingleFlight
  <2>3. \A q : q \in inflight' <=> \E u \in Threads : Fetching(u)' /\ reader'[u].origin = q
    BY <1>1, <1>3, <1>4, <1>5, InflightFact DEF Inv
  <2>4. inflight' = {reader'[u].origin : u \in {v \in Threads : Fetching(v)'}}
    BY <2>3
  <2> QED BY <2>2, <2>4 DEF SingleFlight, Fetching
<1>10. NoStaleRepopulation'  BY <1>1, <1>6 DEF Inv, NoStaleRepopulation
<1>11. NoAnswerOlderThanCall'
  BY <1>3, <1>4, Types DEF Inv, NoAnswerOlderThanCall
<1> QED BY <1>7, <1>8, <1>9, <1>10, <1>11 DEF Inv

\* The end of a fetch: the thread leaves the in-flight set and wakes everyone;
\* what it may cache is the policy it was admitted for.
LEMMA FinishInv ==
    ASSUME Inv, NEW t \in Threads, Fetching(t), NEW r \in Reader,
           r.origin = reader[t].origin,
           r.step \in {"done", "idle"},
           r.step = "done" => reader[t].step = "fetched" /\ r.policy = reader[t].policy
                              /\ r.floor = reader[t].floor,
           reader' = [Notified EXCEPT ![t] = r],
           inflight' = inflight \ {reader[t].origin},
           \/ cache' = cache
           \/ /\ reader[t].step = "fetched"
              /\ generation[reader[t].origin] = reader[t].admitted
              /\ cache' = [cache EXCEPT ![reader[t].origin] = {reader[t].policy}],
           UNCHANGED <<clock, generation, calls>>
    PROVE  Inv'
<1> DEFINE o == reader[t].origin
<1>1. o \in Origins /\ reader[t].policy \in Policy /\ reader[t].floor \in Nat
      /\ reader[t].admitted \in Nat /\ generation[o] \in Nat
  BY Types
<1>2. reader' \in [Threads -> Reader] /\ reader'[t] = r
      /\ \A u \in Threads : u # t => reader'[u] = Notified[u]
  BY NotifiedFact
<1>3. \A u \in Threads : u # t =>
        /\ reader'[u].origin = reader[u].origin
        /\ reader'[u].floor = reader[u].floor
        /\ reader'[u].admitted = reader[u].admitted
        /\ reader'[u].policy = reader[u].policy
        /\ reader'[u].step = reader[u].step
           \/ (reader[u].step = "waiting" /\ reader'[u].step = "checking")
  BY <1>2, NotifiedFact
<1>4. /\ \A u \in Threads : u # t => (Fetching(u)' <=> Fetching(u))
      /\ ~Fetching(t)'
  BY <1>2, <1>3 DEF Fetching
<1>5. /\ reader[t].floor <= reader[t].admitted
      /\ reader[t].admitted <= generation[o]
      /\ reader[t].floor <= generation[o]
      /\ reader[t].step = "fetched" => reader[t].policy.born = reader[t].admitted
  BY <1>1 DEF Inv, Admitted, Fetching
<1>6. cache' \in [Origins -> SUBSET Policy]  BY <1>1, Types
<1>7. TypeOK'  BY <1>2, <1>6 DEF Inv, TypeOK
<1>8. Admitted'
  <2> SUFFICES ASSUME NEW u \in Threads
               PROVE  /\ reader'[u].step # "idle" =>
                            reader'[u].floor <= generation[reader'[u].origin]
                      /\ Fetching(u)' => /\ reader'[u].floor <= reader'[u].admitted
                                         /\ reader'[u].admitted <= generation[reader'[u].origin]
                      /\ reader'[u].step = "fetched" =>
                            reader'[u].policy.born = reader'[u].admitted
    BY DEF Admitted, Fetching
  <2>1. CASE u = t  BY <1>2, <1>4, <1>5, <2>1
  <2>2. CASE u # t  BY <1>3, <1>4, <2>2 DEF Inv, Admitted
  <2> QED BY <2>1, <2>2
<1>9. SingleFlight'
  <2>1. \A u, v \in Threads : (u # v /\ Fetching(u)' /\ Fetching(v)') =>
            reader'[u].origin # reader'[v].origin
    BY <1>3, <1>4 DEF Inv, SingleFlight
  <2>2. \A q : q \in inflight' <=> \E u \in Threads : Fetching(u)' /\ reader'[u].origin = q
    <3>1. \A u \in Threads : (u # t /\ Fetching(u)) => reader[u].origin # o
      BY DEF Inv, SingleFlight
    <3> QED BY <1>3, <1>4, <3>1, InflightFact DEF Inv
  <2>3. inflight' = {reader'[u].origin : u \in {v \in Threads : Fetching(v)'}}
    BY <2>2
  <2> QED BY <2>1, <2>3 DEF SingleFlight, Fetching
<1>10. NoStaleRepopulation'
  BY <1>1, <1>5, Types DEF Inv, NoStaleRepopulation
<1>11. NoAnswerOlderThanCall'
  <2> SUFFICES ASSUME NEW u \in Threads, reader'[u].step = "done"
               PROVE  /\ reader'[u].policy.born >= reader'[u].floor
                      /\ reader'[u].policy \in Policy
    BY DEF NoAnswerOlderThanCall
  <2>1. CASE u = t  BY <1>1, <1>2, <1>5, <2>1
  <2>2. CASE u # t  BY <1>3, <2>2 DEF Inv, NoAnswerOlderThanCall
  <2> QED BY <2>1, <2>2
<1> QED BY <1>7, <1>8, <1>9, <1>10, <1>11 DEF Inv

LEMMA PublishInv ==
    ASSUME Inv, NEW t \in Threads, Publish(t)
    PROVE  Inv'
<1> DEFINE r == [reader[t] EXCEPT !.step = "done"]
<1>1. reader[t] \in Reader  BY Types
<1>2. /\ r \in Reader /\ r.step = "done" /\ r.origin = reader[t].origin
      /\ r.floor = reader[t].floor /\ r.policy = reader[t].policy
  <2>1. "done" \in Steps  BY DEF Steps
  <2> QED BY <1>1, <2>1 DEF Reader
<1>3. reader[t].step = "fetched" /\ Notified[t] = reader[t]
  BY DEF Publish, Notified
<1>4. reader' = [Notified EXCEPT ![t] = r]  BY <1>3 DEF Publish
<1> HIDE DEF r
<1>5. Fetching(t)  BY <1>3 DEF Fetching
<1> QED BY <1>2, <1>3, <1>4, <1>5, FinishInv DEF Publish

LEMMA GiveUpInv ==
    ASSUME Inv, NEW t \in Threads, GiveUp(t)
    PROVE  Inv'
<1>1. Fetching(t)  BY DEF GiveUp, Fetching
<1> QED BY <1>1, ReleasedFact, FinishInv DEF GiveUp

LEMMA InvalidateInv ==
    ASSUME Inv, NEW keys \in SUBSET Origins, Invalidate(keys)
    PROVE  Inv'
<1>1. /\ cache' = [o \in Origins |-> IF o \in keys THEN {} ELSE cache[o]]
      /\ generation' = [o \in Origins |->
            IF o \in keys THEN generation[o] + 1 ELSE generation[o]]
      /\ reader' = Notified
      /\ UNCHANGED <<clock, inflight, calls>>
  BY DEF Invalidate
<1>2. \A u \in Threads :
        /\ reader'[u].origin = reader[u].origin
        /\ reader'[u].floor = reader[u].floor
        /\ reader'[u].admitted = reader[u].admitted
        /\ reader'[u].policy = reader[u].policy
        /\ reader'[u].step = reader[u].step
           \/ (reader[u].step = "waiting" /\ reader'[u].step = "checking")
  BY <1>1, NotifiedFact
<1>3. \A u \in Threads : Fetching(u)' <=> Fetching(u)  BY <1>2 DEF Fetching
<1>4. /\ generation' \in [Origins -> Nat]
      /\ \A o \in Origins : generation[o] <= generation'[o]
      /\ cache' \in [Origins -> SUBSET Policy]
  BY <1>1, Types
<1>5. TypeOK'  BY <1>1, <1>4, NotifiedFact DEF Inv, TypeOK
<1>6. Admitted'
  <2> SUFFICES ASSUME NEW u \in Threads
               PROVE  /\ reader'[u].step # "idle" =>
                            reader'[u].floor <= generation'[reader'[u].origin]
                      /\ Fetching(u)' => /\ reader'[u].floor <= reader'[u].admitted
                                         /\ reader'[u].admitted <= generation'[reader'[u].origin]
                      /\ reader'[u].step = "fetched" =>
                            reader'[u].policy.born = reader'[u].admitted
    BY DEF Admitted, Fetching
  <2>1. /\ reader[u].origin \in Origins /\ reader[u].floor \in Nat /\ reader[u].admitted \in Nat
        /\ generation[reader[u].origin] \in Nat /\ generation'[reader[u].origin] \in Nat
        /\ generation[reader[u].origin] <= generation'[reader[u].origin]
    BY <1>4, Types
  <2>2. reader[u].step # "idle" => reader[u].floor <= generation[reader[u].origin]
    BY DEF Inv, Admitted
  <2>3. Fetching(u) => /\ reader[u].floor <= reader[u].admitted
                       /\ reader[u].admitted <= generation[reader[u].origin]
    BY DEF Inv, Admitted
  <2>4. reader[u].step = "fetched" => reader[u].policy.born = reader[u].admitted
    BY DEF Inv, Admitted
  <2> QED BY <1>2, <1>3, <2>1, <2>2, <2>3, <2>4
<1>7. SingleFlight'  BY <1>1, <1>2, <1>3 DEF Inv, SingleFlight
<1>8. NoStaleRepopulation'  BY <1>1 DEF Inv, NoStaleRepopulation
<1>9. NoAnswerOlderThanCall'  BY <1>2 DEF Inv, NoAnswerOlderThanCall
<1> QED BY <1>5, <1>6, <1>7, <1>8, <1>9 DEF Inv

LEMMA StutterInv ==
    ASSUME Inv, clock' \in Nat,
           UNCHANGED <<cache, inflight, generation, reader, calls>>
    PROVE  Inv'
BY DEF Inv, TypeOK, Admitted, SingleFlight, Fetching, NoStaleRepopulation,
       NoAnswerOlderThanCall

-------------------------------------------------------------------------------
(* The theorems.                                                           *)

\* Inv is inductive, whatever the interleaving of lookups and invalidations.
THEOREM NextInv == ASSUME CacheBounds, Inv, [Next]_vars PROVE Inv'
<1>1. ASSUME NEW t \in Threads, Advance(t) PROVE Inv'
  <2>1. CASE ReturnCached(t)  BY <2>1, ReturnCachedInv
  <2>2. CASE Wait(t)  BY <2>2, WaitInv
  <2>3. CASE AdmitFetch(t)  BY <2>3, AdmitFetchInv
  <2>4. CASE Fetch(t) \/ FetchRaises(t)  BY <2>4, FetchInv
  <2>5. CASE Publish(t)  BY <2>5, PublishInv
  <2>6. CASE GiveUp(t)  BY <2>6, GiveUpInv
  <2>7. CASE Return(t)  BY <2>7, ReturnInv
  <2> QED BY <1>1, <2>1, <2>2, <2>3, <2>4, <2>5, <2>6, <2>7 DEF Advance
<1>2. ASSUME NEW t \in Threads, NEW o \in Origins, Call(t, o) PROVE Inv'
  BY <1>2, CallInv
<1>3. ASSUME NEW o \in Origins, Invalidate({o}) PROVE Inv'
  BY <1>3, InvalidateInv
<1>4. CASE Invalidate(Origins)  BY <1>4, InvalidateInv
<1>5. CASE Tick  BY <1>5, StutterInv, Types DEF Tick
<1>6. CASE Quiet \/ UNCHANGED vars  BY <1>6, StutterInv, Types DEF Quiet, vars
<1> QED BY <1>1, <1>2, <1>3, <1>4, <1>5, <1>6 DEF Next

\* The invariant holds of every behaviour of the cache.
THEOREM SpecInv == Spec => []Inv
<1>1. Init => Inv  BY InitInv
<1>2. Inv /\ [Next]_vars => Inv'  BY CacheAssumption, NextInv
<1> QED BY <1>1, <1>2, PTL DEF Spec

\* Every variable keeps its type.
THEOREM TypeCorrect == Spec => []TypeOK
<1>1. Inv => TypeOK  BY DEF Inv
<1> QED BY SpecInv, <1>1, PTL

\* _policy_for performs one robots fetch per exact origin at a time, and the
\* in-flight set never keeps a key nobody is fetching.
THEOREM SingleFlightCorrect == Spec => []SingleFlight
<1>1. Inv => SingleFlight  BY DEF Inv
<1> QED BY SpecInv, <1>1, PTL

\* A fetch that was in flight when invalidate() ran never fills the cache.
THEOREM NoStaleCorrect == Spec => []NoStaleRepopulation
<1>1. Inv => NoStaleRepopulation  BY DEF Inv
<1> QED BY SpecInv, <1>1, PTL

\* A lookup that begins after invalidate() never answers with an older policy.
THEOREM NoOlderAnswerCorrect == Spec => []NoAnswerOlderThanCall
<1>1. Inv => NoAnswerOlderThanCall  BY DEF Inv
<1> QED BY SpecInv, <1>1, PTL

================================================================================
