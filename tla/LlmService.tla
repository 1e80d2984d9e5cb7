------------------------------- MODULE LlmService -------------------------------
(***************************************************************************)
(* LlmService::route of reachlock-server (services/llm_proxy.rs): every    *)
(* llm.call runs in a task of its own through the token bucket of its      *)
(* (player, universe), the quota check, and a provider that answers within *)
(* a timeout; only then is the call counted against the quota and sampled  *)
(* by the provider's health.  Classic calls stop before all this and BYOK  *)
(* ones have no quota: an account is a pair of the other two universes.    *)
(*                                                                         *)
(* Time runs in ticks.  The bucket and the quota are each read under their *)
(* own mutex with no await between them; a bucket step commutes with every *)
(* step on the quota, so the two are one action, and so are the three      *)
(* records made when the provider has answered.  The cost log, which       *)
(* nothing reads back, is left out.                                        *)
(***************************************************************************)
EXTENDS Naturals, Sequences

CONSTANTS
    Accounts,    \* (player, universe) pairs
    Budget,      \* calls of an account's quota (monthly_call_budget)
    Capacity,    \* tokens of a bucket (BUCKET_CAPACITY)
    Refill,      \* ticks per token (SECONDS_PER_TOKEN)
    CallTimeout, \* ticks a provider call may take (SERVER_TIMEOUT_CAP)
    Window       \* latest samples is_tripped looks at

ASSUME Limits == /\ Budget \in Nat \ {0} /\ Capacity \in Nat \ {0}
                 /\ Refill \in Nat \ {0} /\ CallTimeout \in Nat
ASSUME Samples == Window \in Nat \ {0}

\* The bucket counts in ticks: a token is worth Refill of them.
Full == Capacity * Refill
Ages == 0..CallTimeout

VARIABLES
    tokens,  \* Bucket.tokens of each account
    stale,   \* ticks since Bucket.last_refill, up to Full
    calls,   \* how many provider calls of each age an account has in flight
    usage,   \* MemoryQuotaManager.counters
    health,  \* ProviderHealth.results, its latest Window samples
    idle     \* history: ticks since the account took a token, up to Refill

vars == <<tokens, stale, calls, usage, health, idle>>

Init ==
    /\ tokens = [a \in Accounts |-> Full]
    /\ stale = [a \in Accounts |-> 0]
    /\ calls = [a \in Accounts |-> [g \in Ages |-> 0]]
    /\ usage = [a \in Accounts |-> 0]
    /\ health = <<>>
    /\ idle = [a \in Accounts |-> Refill]

Least(m, n) == IF m < n THEN m ELSE n

\* Mutants: the bucket has no rim; what is short of a whole token is not
\* credited; a call takes no token.
RefilledUncapped(a) == tokens[a] + stale[a]
RefilledWhole(a) == Least(tokens[a] + (stale[a] \div Refill) * Refill, Full)
SpentNothing(a) == tokens[a]

\* try_acquire: the elapsed time is credited first, in fractions of a token.
Refilled(a) == Least(tokens[a] + stale[a], Full)
Spent(a) == Refilled(a) - Refill
HasToken(a) == Refilled(a) >= Refill

\* A mutant: the check lets the call past the budget through.
WithinQuotaAndOne(a) == usage[a] <= Budget

\* QuotaManager::check, when it does not answer Exhausted.
WithinQuota(a) == usage[a] < Budget

\* try_acquire leaves n in the bucket.
SetBucket(a, n) ==
    /\ tokens' = [tokens EXCEPT ![a] = n]
    /\ stale' = [stale EXCEPT ![a] = 0]

RateLimited(a) ==
    /\ ~HasToken(a)
    /\ SetBucket(a, Refilled(a))
    /\ UNCHANGED <<calls, usage, health, idle>>

\* The token is spent although the call goes nowhere.
Exhausted(a) ==
    /\ HasToken(a)
    /\ ~WithinQuota(a)
    /\ SetBucket(a, Spent(a))
    /\ idle' = [idle EXCEPT ![a] = 0]
    /\ UNCHANGED <<calls, usage, health>>

\* The call goes to the provider.
Start(a) ==
    /\ HasToken(a)
    /\ WithinQuota(a)
    /\ SetBucket(a, Spent(a))
    /\ idle' = [idle EXCEPT ![a] = 0]
    /\ calls' = [calls EXCEPT ![a][0] = @ + 1]
    /\ UNCHANGED <<usage, health>>

\* The latest Window of a sequence of samples.
Latest(s) == IF Len(s) > Window THEN SubSeq(s, Len(s) - Window + 1, Len(s)) ELSE s

\* What route tells ProviderHealth::record, whose parameter is "success": a breaker that
\* asked is_tripped, as none does, would trip on successful calls.
Sample(ok) == ~ok

\* Of so many calls of each age, those no older than g.
Totals(count) ==
    LET total[g \in Ages] == count[g] + IF g = 0 THEN 0 ELSE total[g - 1]
    IN  total

InFlight(a) == Totals(calls[a])[CallTimeout]

\* The provider has answered, or failed, or timed out: the call is counted, and
\* sampled unless another one holds the lock of the health at this moment.
Finish(a, g, ok) ==
    /\ calls[a][g] > 0
    /\ calls' = [calls EXCEPT ![a][g] = @ - 1]
    /\ usage' = [usage EXCEPT ![a] = @ + 1]
    /\ \/ health' = Latest(Append(health, Sample(ok)))
       \/ (\E b \in Accounts : InFlight(b) > IF a = b THEN 1 ELSE 0)
          /\ UNCHANGED health
    /\ UNCHANGED <<tokens, stale, idle>>

\* A tick passes; a call as old as its timeout has ended before.
Tick ==
    /\ \A a \in Accounts : calls[a][CallTimeout] = 0
    /\ stale' = [a \in Accounts |-> Least(stale[a] + 1, Full)]
    /\ idle' = [a \in Accounts |-> Least(idle[a] + 1, Refill)]
    /\ calls' = [a \in Accounts |-> [g \in Ages |-> IF g = 0 THEN 0 ELSE calls[a][g - 1]]]
    /\ UNCHANGED <<tokens, usage, health>>

Next ==
    \/ \E a \in Accounts :
        \/ RateLimited(a)
        \/ Exhausted(a)
        \/ Start(a)
        \/ \E g \in Ages, ok \in BOOLEAN : Finish(a, g, ok)
    \/ Tick

Spec == Init /\ [][Next]_vars

-------------------------------------------------------------------------------
\* Types; no bucket overflows.
TypeOK ==
    /\ tokens \in [Accounts -> 0..Full]
    /\ stale \in [Accounts -> 0..Full]
    /\ calls \in [Accounts -> [Ages -> Nat]]
    /\ usage \in [Accounts -> Nat]
    /\ health \in Seq(BOOLEAN) /\ Len(health) <= Window
    /\ idle \in [Accounts -> 0..Refill]

\* What a bucket holds and what it gains while one call may last.
Burst == Capacity + CallTimeout \div Refill

\* The limiter bounds the provider calls of an account at any moment, although
\* nothing counts them: slow calls of earlier bursts cannot pile up.
InFlightBounded == \A a \in Accounts : InFlight(a) <= Burst

\* The quota is checked before the provider's answer and counted after it, so
\* concurrent calls overshoot it, but by less than one burst.
OvershootBounded ==
    \A a \in Accounts : usage[a] + InFlight(a) <= Budget - 1 + Burst

\* However often an account asks in vain, a token's worth of time after it last
\* took one it gets another: refused calls cost it nothing.
RefusalsAreFree == \A a \in Accounts : idle[a] = Refill => HasToken(a)
===============================================================================
