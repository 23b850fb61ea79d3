----------------------------- MODULE AccessGateway -----------------------------
(***************************************************************************)
(* AccessGateway.request_with_context of                                   *)
(* web_listening/blocks/access_gateway.py: one manually redirected request *)
(* chain per thread, composed of the policy cache (PolicyCache) and the    *)
(* per-origin gate (OriginGate).                                           *)
(*                                                                         *)
(* Every hop looks up the policy of its exact origin, is authorized,       *)
(* claims the target send from its caller (before_target_request), waits   *)
(* for its start, is sent, and releases the claim before the next hop      *)
(* begins.  What the gate is told of the past of a chain is its causal     *)
(* floor, the instant the previous hop's redirect was observed.            *)
(***************************************************************************)
EXTENDS Integers

CONSTANTS
    Threads, Origins, Pacing, Window, Limit, TTL, Ages, Skew,
    LastArrival, MaxTime, MaxCalls, MaxGeneration,
    MaxHops       \* config.max_redirect_hops

VARIABLES
    clock,
    cache, inflight, generation, reader, calls,  \* PolicyCache
    gate, step, auth, sent,                      \* OriginGate
    chain     \* chain[t]: the request_with_context call of thread t

cacheVars == <<cache, inflight, generation, reader, calls>>
gateVars == <<gate, step, auth, sent>>
vars == <<clock, cacheVars, gateVars, chain>>

Policies == INSTANCE PolicyCache
Gates == INSTANCE OriginGate

None == Gates!None

\* A chain presents a policy of any age since the clock began, and a causal
\* floor at most two instants ahead of the clock.
ASSUME ChainAssumption ==
    /\ Policies!CacheBounds
    /\ Gates!GateBounds
    /\ MaxHops \in Nat
    /\ 0..LastArrival \subseteq Ages
    /\ 2 <= Skew

Phases == {"idle", "lookup", "gate", "flight"}

\* claim: the caller's send claim is held; begun: start of the hop in flight.
Chain == [phase : Phases, hops : Nat, floor : Nat \cup {None},
          begun : Nat \cup {None}, claim : BOOLEAN, requests : Nat]

NoChain == [phase |-> "idle", hops |-> 0, floor |-> None, begun |-> None,
            claim |-> FALSE, requests |-> 0]

TypeOK ==
    /\ Policies!TypeOK
    /\ Gates!TypeOK
    /\ chain \in [Threads -> Chain]

Init ==
    /\ Policies!Init
    /\ Gates!Init
    /\ chain = [t \in Threads |-> NoChain]

-------------------------------------------------------------------------------
Ended(t) == chain' = [chain EXCEPT ![t] = NoChain]

\* The first hop: the URL is normalized and its origin is allowed.
Request(t, o) ==
    /\ clock <= LastArrival
    /\ chain[t].phase = "idle"
    /\ Policies!Call(t, o)
    /\ chain' = [chain EXCEPT ![t] = [NoChain EXCEPT !.phase = "lookup"]]
    /\ UNCHANGED gateVars

Lookup(t) ==
    /\ \/ Policies!ReturnCached(t)
       \/ Policies!Wait(t)
       \/ Policies!AdmitFetch(t)
       \/ Policies!Fetch(t)
       \/ Policies!FetchRaises(t)
       \/ Policies!Publish(t)
    /\ UNCHANGED <<gateVars, chain>>

LookupFails(t) ==
    /\ Policies!GiveUp(t)
    /\ Ended(t)
    /\ UNCHANGED gateVars

Authority(t) == [observed |-> reader[t].policy.observed,
                 expires |-> reader[t].policy.expires]

\* A policy that does not allow the URL ends the chain without a request.
Decline(t) ==
    /\ reader[t].policy.outcome # "allow"
    /\ Policies!Return(t)
    /\ Ended(t)
    /\ UNCHANGED gateVars

\* Fault: the previous hop's instant is not handed on.
AdmitUncaused(t) ==
    /\ reader[t].policy.outcome = "allow"
    /\ Policies!Return(t)
    /\ Gates!Authorize(t, reader[t].origin, Authority(t), None)
    /\ chain' = [chain EXCEPT ![t].phase = "gate"]

Admit(t) ==
    /\ reader[t].policy.outcome = "allow"
    /\ Policies!Return(t)
    /\ Gates!Authorize(t, reader[t].origin, Authority(t), chain[t].floor)
    /\ chain' = [chain EXCEPT ![t].phase = "gate"]

Refused(t) ==
    /\ reader[t].policy.outcome = "allow"
    /\ Policies!Return(t)
    /\ Gates!Reject(t, reader[t].origin, Authority(t), chain[t].floor)
    /\ Ended(t)

\* before_target_request grants the claim for this hop, or raises.
Claim(t) ==
    /\ step[t] = "authorized"
    /\ ~chain[t].claim
    /\ chain' = [chain EXCEPT ![t].claim = TRUE]
    /\ UNCHANGED <<clock, cacheVars, gateVars>>

ClaimRaises(t) ==
    /\ ~chain[t].claim
    /\ Gates!Abandon(t)
    /\ Ended(t)
    /\ UNCHANGED cacheVars

Queue(t) ==
    /\ \/ chain[t].claim /\ Gates!TakeTicket(t)
       \/ Gates!AwaitTurn(t)
       \/ Gates!TakeTurn(t)
       \/ Gates!Refuse(t)
    /\ UNCHANGED <<cacheVars, chain>>

Interrupt(t) ==
    /\ Gates!Interrupt(t)
    /\ UNCHANGED <<cacheVars, chain>>

\* Fault: the start is retired and the caller never hears of it.
StartFailsUnseen(t) ==
    /\ Gates!Retire(t)
    /\ UNCHANGED <<cacheVars, chain>>

\* The start is retired, then the finally clause releases the claim.
StartFails(t) ==
    /\ Gates!Retire(t)
    /\ Ended(t)
    /\ UNCHANGED cacheVars

Send(t) ==
    /\ Gates!Start(t)
    /\ chain' = [chain EXCEPT ![t].phase = "flight",
                              ![t].begun = Gates!StartTime(t),
                              ![t].requests = @ + 1]
    /\ UNCHANGED cacheVars

\* Fault: the claim of the previous hop is kept.
RedirectKeepingClaim(t, o) ==
    /\ clock <= LastArrival
    /\ chain[t].phase = "flight"
    /\ chain[t].hops < MaxHops
    /\ Policies!Call(t, o)
    /\ chain' = [chain EXCEPT
            ![t].phase = "lookup", ![t].hops = @ + 1,
            ![t].floor = Gates!CausalNow(chain[t].begun), ![t].begun = None]
    /\ UNCHANGED gateVars

\* Fault: hops are counted down from zero.
RedirectCountingDown(t, o) ==
    /\ clock <= LastArrival
    /\ chain[t].phase = "flight"
    /\ Policies!Call(t, o)
    /\ chain' = [chain EXCEPT
            ![t].phase = "lookup", ![t].hops = @ - 1,
            ![t].floor = Gates!CausalNow(chain[t].begun), ![t].begun = None,
            ![t].claim = FALSE]
    /\ UNCHANGED gateVars

\* A redirect to an allowed origin: the hop is recorded, its response closed,
\* its claim released, and the chain starts over behind the observed instant.
Redirect(t, o) ==
    /\ clock <= LastArrival
    /\ chain[t].phase = "flight"
    /\ chain[t].hops < MaxHops
    /\ Policies!Call(t, o)
    /\ chain' = [chain EXCEPT
            ![t].phase = "lookup",
            ![t].hops = @ + 1,
            ![t].floor = Gates!CausalNow(chain[t].begun),
            ![t].begun = None,
            ![t].claim = FALSE]
    /\ UNCHANGED gateVars

\* The consumer returns, or the transport, a refused redirect or the consumer
\* raises; either way the response is closed and the claim released.
Finish(t) ==
    /\ chain[t].phase = "flight"
    /\ Ended(t)
    /\ UNCHANGED <<clock, cacheVars, gateVars>>

Invalidate(keys) ==
    /\ Policies!Invalidate(keys)
    /\ UNCHANGED <<gateVars, chain>>

\* Bound: the time after LastArrival is left to the sleepers.
Tick ==
    /\ clock < MaxTime
    /\ clock >= LastArrival => \A t \in Threads : chain[t].phase # "lookup"
    /\ clock' = clock + 1
    /\ UNCHANGED <<cacheVars, gateVars, chain>>

Quiet ==
    /\ clock = MaxTime
    /\ \A t \in Threads : chain[t].phase = "idle"
    /\ UNCHANGED vars

-------------------------------------------------------------------------------
Advance(t) ==
    \/ Lookup(t)
    \/ LookupFails(t)
    \/ Decline(t)
    \/ Admit(t)
    \/ Refused(t)
    \/ Claim(t)
    \/ Queue(t)
    \/ StartFails(t)
    \/ Send(t)
    \/ Finish(t)

Next ==
    \/ \E t \in Threads, o \in Origins : Request(t, o)
    \/ \E t \in Threads : Advance(t)
    \/ \E t \in Threads : ClaimRaises(t)
    \/ \E t \in Threads : Interrupt(t)
    \/ \E t \in Threads, o \in Origins : Redirect(t, o)
    \/ \E o \in Origins : Invalidate({o})
    \/ Tick
    \/ Quiet

Spec == Init /\ [][Next]_vars

\* Threads run, transports and consumers end, and time passes.
FairSpec == Spec /\ WF_vars(Tick) /\ \A t \in Threads : WF_vars(Advance(t))

-------------------------------------------------------------------------------
(* Properties.                                                             *)

\* The claim on a target send is held exactly while its hop is on its way: a
\* thread that looks up the next policy, or is done, holds none, and no ticket
\* is taken and no request started without one.
ClaimFollowsHop ==
    \A t \in Threads :
        /\ chain[t].phase \in {"idle", "lookup"} => ~chain[t].claim
        /\ (step[t] \in Gates!Ticketed \/ chain[t].phase = "flight") =>
                chain[t].claim

\* Each hop is caused by the one before: it is reserved strictly after the
\* previous redirect was observed, which is strictly after that hop began, even
\* where the clock has not moved; and a chain sends at most MaxHops redirects
\* on, one request per hop.
CausalChain ==
    \A t \in Threads :
        /\ chain[t].requests <= MaxHops + 1
        /\ step[t] # "idle" =>
                /\ auth[t].reserved > chain[t].floor
                /\ auth[t].notBefore >= auth[t].reserved
        /\ (chain[t].phase = "flight") => chain[t].begun > chain[t].floor

\* From its reservation to its start a request lies within one TTL of the
\* moment its policy was observed, on the gateway's clock and in causal time,
\* whatever the lookup, the gate, the ticket queue and the sleep between them
\* took: a policy that runs out on the way refuses the request.
SentUnderLivePolicy ==
    [][\A t \in Threads :
            chain[t].phase # "flight" /\ chain'[t].phase = "flight" =>
                /\ auth[t].policy.observed <= auth[t].reserved
                /\ auth[t].reserved <= chain'[t].begun
                /\ clock <= chain'[t].begun
                /\ chain'[t].begun <= auth[t].policy.observed + TTL]_vars

\* Every request ends, in a result or an error, whatever the other threads,
\* the policies and the invalidations do meanwhile.
RequestEnds ==
    \A t \in Threads : chain[t].phase # "idle" ~> chain[t].phase = "idle"

===============================================================================
