------------------------------ MODULE PolicyCache ------------------------------
(***************************************************************************)
(* The access-policy cache of web_listening/blocks/access_gateway.py:      *)
(* _policy_for with its condition, in-flight set and generations, the      *)
(* robots fetch it performs outside the lock (_fetch_policy), and          *)
(* invalidate.                                                             *)
(*                                                                         *)
(* The policies of an origin are told apart by when they were observed and *)
(* by their outcome; "born" is history, the generation at which the fetch  *)
(* of a policy was admitted.  A thread blocked in condition.wait() runs    *)
(* again only after a notify_all().                                        *)
(***************************************************************************)
EXTENDS Integers

CONSTANTS
    Threads,        \* threads calling _policy_for
    Origins,        \* exact origins, one cache key each
    TTL,            \* config.policy_ttl
    MaxCalls,       \* bound: lookups one thread makes
    MaxGeneration,  \* bound: invalidations of one key
    MaxTime         \* bound: the clock stops here

CacheBounds ==
    /\ TTL \in Nat \ {0}
    /\ MaxCalls \in Nat
    /\ MaxGeneration \in Nat
    /\ MaxTime \in Nat

ASSUME CacheAssumption == CacheBounds

VARIABLES
    clock,       \* the gateway's clock
    cache,       \* _policy_cache
    inflight,    \* _inflight_policy_keys
    generation,  \* _cache_generations
    reader,      \* reader[t]: the _policy_for call of thread t
    calls        \* calls[t]: lookups begun by t (bound)

vars == <<clock, cache, inflight, generation, reader, calls>>

Outcomes == {"allow", "deny"}

Policy == [observed : Nat, expires : Nat, outcome : Outcomes, born : Nat]
NoPolicy == [observed |-> 0, expires |-> 0, outcome |-> "deny", born |-> 0]

Steps == {"idle", "checking", "waiting", "fetching", "fetched", "failed", "done"}

\* admitted: the generation read when the fetch was admitted;
\* floor: history, the generation when the call began.
Reader == [step : Steps, origin : Origins, admitted : Nat, floor : Nat,
           policy : Policy]

TypeOK ==
    /\ clock \in Nat
    /\ cache \in [Origins -> SUBSET Policy]
    /\ inflight \in SUBSET Origins
    /\ generation \in [Origins -> Nat]
    /\ reader \in [Threads -> Reader]
    /\ calls \in [Threads -> Nat]

Init ==
    /\ clock = 0
    /\ cache = [o \in Origins |-> {}]
    /\ inflight = {}
    /\ generation = [o \in Origins |-> 0]
    /\ reader \in [Threads ->
            {[step |-> "idle", origin |-> o, admitted |-> 0, floor |-> 0,
              policy |-> NoPolicy] : o \in Origins}]
    /\ calls = [t \in Threads |-> 0]

-------------------------------------------------------------------------------
Fresh(policy) == policy.observed <= clock /\ clock < policy.expires

Hit(o) == {p \in cache[o] : Fresh(p)}

\* _cache_condition is shared by all keys: notify_all() wakes every waiter.
Notified == [t \in Threads |->
    IF reader[t].step = "waiting" THEN [reader[t] EXCEPT !.step = "checking"]
    ELSE reader[t]]

Released(t) == [step |-> "idle", origin |-> reader[t].origin, admitted |-> 0,
                floor |-> 0, policy |-> NoPolicy]

Call(t, o) ==
    /\ reader[t].step = "idle"
    /\ calls[t] < MaxCalls
    /\ calls' = [calls EXCEPT ![t] = @ + 1]
    /\ reader' = [reader EXCEPT ![t] =
            [step |-> "checking", origin |-> o, admitted |-> 0,
             floor |-> generation[o], policy |-> NoPolicy]]
    /\ UNCHANGED <<clock, cache, inflight, generation>>

\* The first critical section, on a fresh cached policy.
ReturnCached(t) ==
    LET o == reader[t].origin
    IN  /\ reader[t].step = "checking"
        /\ \E p \in Hit(o) :
                reader' = [reader EXCEPT ![t].step = "done", ![t].policy = p]
        /\ UNCHANGED <<clock, cache, inflight, generation, calls>>

\* ... on a miss while another thread fetches the key.
Wait(t) ==
    LET o == reader[t].origin
    IN  /\ reader[t].step = "checking"
        /\ Hit(o) = {}
        /\ o \in inflight
        /\ cache' = [cache EXCEPT ![o] = {}]
        /\ reader' = [reader EXCEPT ![t].step = "waiting"]
        /\ UNCHANGED <<clock, inflight, generation, calls>>

\* ... on a miss nobody is serving: this thread fetches.
AdmitFetch(t) ==
    LET o == reader[t].origin
    IN  /\ reader[t].step = "checking"
        /\ Hit(o) = {}
        /\ o \notin inflight
        /\ cache' = [cache EXCEPT ![o] = {}]
        /\ inflight' = inflight \cup {o}
        /\ reader' = [reader EXCEPT ![t].step = "fetching",
                                    ![t].admitted = generation[o]]
        /\ UNCHANGED <<clock, generation, calls>>

\* Fault: the life of the policy is subtracted.
FetchExpired(t) ==
    /\ reader[t].step = "fetching"
    /\ reader' = [reader EXCEPT
            ![t].step = "fetched",
            ![t].policy = [observed |-> clock, expires |-> clock - TTL,
                           outcome |-> "allow", born |-> reader[t].admitted]]
    /\ UNCHANGED <<clock, cache, inflight, generation, calls>>

\* _fetch_policy: the policy is observed when the response has been read.
\* Unreachable, refused and unparsable robots become policies that deny.
Fetch(t) ==
    /\ reader[t].step = "fetching"
    /\ \E outcome \in Outcomes :
            reader' = [reader EXCEPT
                ![t].step = "fetched",
                ![t].policy = [observed |-> clock, expires |-> clock + TTL,
                               outcome |-> outcome, born |-> reader[t].admitted]]
    /\ UNCHANGED <<clock, cache, inflight, generation, calls>>

\* A safety failure, an unlisted status or a cancellation is raised instead.
FetchRaises(t) ==
    /\ reader[t].step = "fetching"
    /\ reader' = [reader EXCEPT ![t].step = "failed"]
    /\ UNCHANGED <<clock, cache, inflight, generation, calls>>

\* Fault: the generation is not compared before the policy is cached.
PublishAnyway(t) ==
    LET o == reader[t].origin
    IN  /\ reader[t].step = "fetched"
        /\ cache' = [cache EXCEPT ![o] = {reader[t].policy}]
        /\ inflight' = inflight \ {o}
        /\ reader' = [Notified EXCEPT ![t].step = "done"]
        /\ UNCHANGED <<clock, generation, calls>>

\* The second critical section: an invalidated fetch is returned, not cached.
Publish(t) ==
    LET o == reader[t].origin
    IN  /\ reader[t].step = "fetched"
        /\ cache' = IF generation[o] = reader[t].admitted
                    THEN [cache EXCEPT ![o] = {reader[t].policy}]
                    ELSE cache
        /\ inflight' = inflight \ {o}
        /\ reader' = [Notified EXCEPT ![t].step = "done"]
        /\ UNCHANGED <<clock, generation, calls>>

\* Fault: the exception path leaves the key in flight.
GiveUpKeepingKey(t) ==
    /\ reader[t].step = "failed"
    /\ reader' = [Notified EXCEPT ![t] = Released(t)]
    /\ UNCHANGED <<clock, cache, inflight, generation, calls>>

\* Fault: the exception path wakes nobody.
GiveUpSilently(t) ==
    /\ reader[t].step = "failed"
    /\ inflight' = inflight \ {reader[t].origin}
    /\ reader' = [reader EXCEPT ![t] = Released(t)]
    /\ UNCHANGED <<clock, cache, generation, calls>>

\* The critical section of the exception path.
GiveUp(t) ==
    LET o == reader[t].origin
    IN  /\ reader[t].step = "failed"
        /\ inflight' = inflight \ {o}
        /\ reader' = [Notified EXCEPT ![t] = Released(t)]
        /\ UNCHANGED <<clock, cache, generation, calls>>

\* The caller takes the policy away.
Return(t) ==
    /\ reader[t].step = "done"
    /\ reader' = [reader EXCEPT ![t] = Released(t)]
    /\ UNCHANGED <<clock, cache, inflight, generation, calls>>

\* Fault: only fetches under way are invalidated, not the cached policy.
InvalidateFlightOnly(keys) ==
    /\ \A o \in keys : generation[o] < MaxGeneration
    /\ generation' = [o \in Origins |->
            IF o \in keys THEN generation[o] + 1 ELSE generation[o]]
    /\ reader' = Notified
    /\ UNCHANGED <<clock, cache, inflight, calls>>

\* invalidate(origin), and invalidate() for every allowed origin.
Invalidate(keys) ==
    /\ \A o \in keys : generation[o] < MaxGeneration
    /\ cache' = [o \in Origins |-> IF o \in keys THEN {} ELSE cache[o]]
    /\ generation' = [o \in Origins |->
            IF o \in keys THEN generation[o] + 1 ELSE generation[o]]
    /\ reader' = Notified
    /\ UNCHANGED <<clock, inflight, calls>>

Tick ==
    /\ clock < MaxTime
    /\ clock' = clock + 1
    /\ UNCHANGED <<cache, inflight, generation, reader, calls>>

Quiet ==
    /\ clock = MaxTime
    /\ \A t \in Threads : reader[t].step = "idle" /\ calls[t] = MaxCalls
    /\ UNCHANGED vars

-------------------------------------------------------------------------------
Advance(t) ==
    \/ ReturnCached(t)
    \/ Wait(t)
    \/ AdmitFetch(t)
    \/ Fetch(t)
    \/ FetchRaises(t)
    \/ Publish(t)
    \/ GiveUp(t)
    \/ Return(t)

Next ==
    \/ \E t \in Threads, o \in Origins : Call(t, o)
    \/ \E t \in Threads : Advance(t)
    \/ \E o \in Origins : Invalidate({o})
    \/ Invalidate(Origins)
    \/ Tick
    \/ Quiet

Spec == Init /\ [][Next]_vars

\* A thread that can run does; robots fetches end (the transport has a timeout).
FairSpec == Spec /\ \A t \in Threads : WF_vars(Advance(t))

-------------------------------------------------------------------------------
(* Properties.                                                             *)

Fetching(t) == reader[t].step \in {"fetching", "fetched", "failed"}

\* One robots fetch per exact origin at a time, and the in-flight set names
\* exactly the origins somebody will finish: a key is never left in flight by
\* a thread that failed.
SingleFlight ==
    /\ \A t, u \in Threads :
            (t # u /\ Fetching(t) /\ Fetching(u)) =>
                reader[t].origin # reader[u].origin
    /\ inflight = {reader[t].origin : t \in {u \in Threads : Fetching(u)}}

\* A fetch that was in flight when its key was invalidated never repopulates
\* the cache: a cached policy is as young as the last invalidation.
NoStaleRepopulation ==
    \A o \in Origins : \A p \in cache[o] : p.born = generation[o]

\* Who asks after an invalidation is never answered with a policy whose fetch
\* was admitted before it, whether from the cache, from the own fetch or after
\* waiting for a fetch that was under way.
NoAnswerOlderThanCall ==
    \A t \in Threads : reader[t].step = "done" =>
        /\ reader[t].policy.born >= reader[t].floor
        /\ reader[t].policy \in Policy

\* Every lookup ends, whatever fails, expires or is invalidated meanwhile: no
\* waiter sleeps through the end of the fetch it waits for.
LookupEnds ==
    \A t \in Threads :
        reader[t].step \in {"checking", "waiting"} ~>
            reader[t].step \notin {"checking", "waiting"}

===============================================================================
