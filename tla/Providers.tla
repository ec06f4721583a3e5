------------------------------ MODULE Providers ------------------------------
(***************************************************************************)
(* ProviderManager: every completion selects a provider, is rate limited,  *)
(* retried, failed over, and written into the provider's health.  The      *)
(* figures of the limiter and of the failure streak live in Redis, which   *)
(* may be away, and are read and written back in two statements.  Time is  *)
(* reduced to three things that may elapse: the minute of the limiter, a   *)
(* cooldown, and the five minutes a failure streak is kept.                *)
(***************************************************************************)
EXTENDS Naturals

CONSTANTS
    Provs,        \* the registered providers
    Completions,  \* calls of complete()
    MAX_ATTEMPTS, FAILURES_BEFORE_COOLDOWN,
    RateLimitRpm, \* rateLimitRpm of every provider
    MaxElapses    \* bound: how often time elapses, or Redis goes or comes

ASSUME ProvidersAssumption ==
    /\ Provs # {}
    /\ MAX_ATTEMPTS \in Nat \ {0} /\ FAILURES_BEFORE_COOLDOWN \in Nat \ {0}
    /\ RateLimitRpm \in Nat \ {0} /\ MaxElapses \in Nat

VARIABLES
    health,     \* the provider rows: connected, cooling (cooldownUntil lies ahead)
    streak,     \* provider:failstreak:<id> in Redis
    used,       \* ratelimit:provider:<id>:<this minute> in Redis
    redisUp,    \* cache.isAvailable
    elapsed,    \* how often time has elapsed
    cmpl,       \* where each completion is and what it has read
    failures,   \* history: completions that failed on each provider
    admitted,   \* history: requests the limiter let through in this minute
    unlimited,  \* history: the limiter yielded, or two calls were in it at once
    tried       \* history: tried[c][p], requests completion c sent to p

pmVars == <<health, streak, used, redisUp, elapsed, cmpl, failures, admitted, unlimited, tried>>
pmHistory == <<failures, admitted, unlimited, tried>>

PmInit ==
    /\ health = [p \in Provs |-> [connected |-> TRUE, cooling |-> FALSE]]
    /\ streak = [p \in Provs |-> 0]
    /\ used = [p \in Provs |-> 0]
    /\ redisUp = TRUE
    /\ elapsed = 0
    /\ cmpl = [c \in Completions |-> [pc |-> "idle", prov |-> CHOOSE p \in Provs : TRUE, attempt |-> 1, seen |-> 0,
                                      failover |-> FALSE, over |-> FALSE]]
    /\ failures = [p \in Provs |-> 0]
    /\ admitted = [p \in Provs |-> 0]
    /\ unlimited = FALSE
    /\ tried = [c \in Completions |-> [p \in Provs |-> 0]]

PmAt(c, step)  == cmpl[c].pc = step
PmSet(c, r)    == cmpl' = [cmpl EXCEPT ![c] = r]
PmGo(c, step)  == PmSet(c, [cmpl[c] EXCEPT !.pc = step])
ProvOf(c)      == cmpl[c].prov
-----------------------------------------------------------------------------
\* complete(): the named provider or the default one; allowFailover is the
\* caller's choice.
Select(c) ==
    /\ PmAt(c, "idle")
    /\ \E f \in BOOLEAN, p \in Provs :
          PmSet(c, [cmpl[c] EXCEPT !.failover = f, !.prov = p,
                       !.pc = IF health[p].cooling THEN "thrown" ELSE "limit"])
    /\ UNCHANGED <<health, streak, used, redisUp, elapsed, pmHistory>>

Alternates(c) == {p \in Provs \ {ProvOf(c)} : health[p].connected /\ ~health[p].cooling}

\* The call failed: once, another provider may be tried.
Failover(c) ==
    /\ PmAt(c, "failed")
    /\ \/ /\ cmpl[c].failover /\ ~cmpl[c].over
          /\ \E p \in Alternates(c) :
                PmSet(c, [cmpl[c] EXCEPT !.pc = "limit", !.prov = p, !.attempt = 1, !.over = TRUE])
       \/ /\ ~cmpl[c].failover \/ cmpl[c].over \/ Alternates(c) = {}
          /\ PmGo(c, "thrown")
    /\ UNCHANGED <<health, streak, used, redisUp, elapsed, pmHistory>>

\* enforceRateLimit: the error it throws is outside the retry loop's try.
Admit(p) == admitted' = [admitted EXCEPT ![p] = @ + 1]
LimitRead(c) ==
    /\ PmAt(c, "limit")
    /\ \/ ~redisUp /\ PmGo(c, "send") /\ unlimited' = TRUE /\ Admit(ProvOf(c))
       \/ /\ redisUp
          /\ PmSet(c, [cmpl[c] EXCEPT !.seen = used[ProvOf(c)], !.pc = "limited"])
          /\ unlimited' = (unlimited \/ \E d \in Completions \ {c} : PmAt(d, "limited"))
          /\ UNCHANGED admitted
    /\ UNCHANGED <<health, streak, used, redisUp, elapsed, failures, tried>>

\* (mutant) the limit itself is let through
WithinLimitInclusive(n) == n <= RateLimitRpm
WithinLimit(n) == n < RateLimitRpm

LimitWrite(c) ==
    /\ PmAt(c, "limited")
    /\ \/ /\ WithinLimit(cmpl[c].seen)
          /\ used' = IF redisUp THEN [used EXCEPT ![ProvOf(c)] = cmpl[c].seen + 1] ELSE used
          /\ unlimited' = (unlimited \/ ~redisUp)
          /\ Admit(ProvOf(c))
          /\ PmGo(c, "send")
       \/ /\ ~WithinLimit(cmpl[c].seen)
          /\ PmGo(c, "failed")
          /\ UNCHANGED <<used, unlimited, admitted>>
    /\ UNCHANGED <<health, streak, redisUp, elapsed, failures, tried>>

\* The minute ended meanwhile: the key written is the old one.
LimitLate(c) ==
    /\ PmAt(c, "limitedBefore")
    /\ PmGo(c, IF WithinLimit(cmpl[c].seen) THEN "send" ELSE "failed")
    /\ UNCHANGED <<health, streak, used, redisUp, elapsed, pmHistory>>

\* (mutant) one attempt too many
LastAttemptLate(n) == n > MAX_ATTEMPTS
LastAttempt(n) == n = MAX_ATTEMPTS

\* adapter.complete()
Send(c) ==
    /\ PmAt(c, "send")
    /\ tried' = [tried EXCEPT ![c][ProvOf(c)] = @ + 1]
    /\ \/ PmGo(c, "success")
       \/ ~LastAttempt(cmpl[c].attempt) /\ PmSet(c, [cmpl[c] EXCEPT !.pc = "limit", !.attempt = @ + 1])
       \/ PmGo(c, "failure")       \* not retryable, or the last attempt
    /\ UNCHANGED <<health, streak, used, redisUp, elapsed, failures, admitted, unlimited>>

\* recordSuccess: ends a cooldown, leaves the streak.  It is inside the try: when
\* its update fails, the answer is lost and the completion counts as failed.
RecordSuccess(c) ==
    /\ PmAt(c, "success")
    /\ \/ /\ health' = [health EXCEPT ![ProvOf(c)] = [connected |-> TRUE, cooling |-> FALSE]]
          /\ PmGo(c, "returned")
       \/ PmGo(c, "failure") /\ UNCHANGED health
    /\ UNCHANGED <<streak, used, redisUp, elapsed, pmHistory>>

\* recordFailure: the streak is read, written back, then the row is written.
\* Without Redis the streak reads as empty.
FailureRead(c) ==
    /\ PmAt(c, "failure")
    /\ PmSet(c, [cmpl[c] EXCEPT !.seen = IF redisUp THEN streak[ProvOf(c)] ELSE 0, !.pc = "counted"])
    /\ failures' = [failures EXCEPT ![ProvOf(c)] = @ + 1]
    /\ UNCHANGED <<health, streak, used, redisUp, elapsed, admitted, unlimited, tried>>

FailureCount(c) ==
    /\ PmAt(c, "counted")
    /\ streak' = IF redisUp THEN [streak EXCEPT ![ProvOf(c)] = cmpl[c].seen + 1] ELSE streak
    /\ PmGo(c, "recorded")
    /\ UNCHANGED <<health, used, redisUp, elapsed, pmHistory>>

\* (mutant) benched one failure early
CoolsEarly(n) == n + 1 >= FAILURES_BEFORE_COOLDOWN
Cools(n) == n >= FAILURES_BEFORE_COOLDOWN

FailureWrite(c) ==
    /\ PmAt(c, "recorded")
    /\ health' = [health EXCEPT ![ProvOf(c)].connected = FALSE,
                                ![ProvOf(c)].cooling = @ \/ Cools(cmpl[c].seen + 1)]
    /\ PmGo(c, "failed")
    /\ UNCHANGED <<streak, used, redisUp, elapsed, pmHistory>>
-----------------------------------------------------------------------------
\* Time passes; Redis goes and comes back; an operator clears a streak.
Elapse == elapsed < MaxElapses /\ elapsed' = elapsed + 1

CooldownEnds(p) ==
    /\ Elapse
    /\ health[p].cooling
    /\ health' = [health EXCEPT ![p].cooling = FALSE]
    /\ UNCHANGED <<streak, used, redisUp, cmpl, pmHistory>>

\* The next minute has a key of its own.
MinutePasses ==
    /\ Elapse
    /\ \E p \in Provs : admitted[p] > 0
    /\ used' = [p \in Provs |-> 0]
    /\ admitted' = [p \in Provs |-> 0]
    /\ cmpl' = [c \in Completions |-> [cmpl[c] EXCEPT !.pc = IF @ = "limited" THEN "limitedBefore" ELSE @]]
    /\ UNCHANGED <<health, streak, redisUp, failures, unlimited, tried>>

\* clearFailureStreak, or the five minutes of the key are over.
StreakEnds(p) ==
    /\ Elapse
    /\ streak[p] > 0
    /\ streak' = [streak EXCEPT ![p] = 0]
    /\ UNCHANGED <<health, used, redisUp, cmpl, pmHistory>>

RedisSwitches ==
    /\ Elapse
    /\ redisUp' = ~redisUp
    /\ UNCHANGED <<health, streak, used, cmpl, pmHistory>>

CompletionStep(c) ==
    \/ Select(c) \/ Failover(c) \/ LimitRead(c) \/ LimitWrite(c) \/ LimitLate(c) \/ Send(c)
    \/ RecordSuccess(c) \/ FailureRead(c) \/ FailureCount(c) \/ FailureWrite(c)

PmNext ==
    \/ \E c \in Completions : CompletionStep(c)
    \/ \E p \in Provs : CooldownEnds(p) \/ StreakEnds(p)
    \/ MinutePasses \/ RedisSwitches

PmSpec == PmInit /\ [][PmNext]_pmVars
-----------------------------------------------------------------------------
(* Properties.                                                              *)

PmSteps == {"idle", "limit", "limited", "limitedBefore", "send", "success", "failure", "counted",
            "recorded", "failed", "returned", "thrown"}

\* Types of the rows, the figures in Redis and the completions.
PmTypeOK ==
    /\ health \in [Provs -> [connected : BOOLEAN, cooling : BOOLEAN]]
    /\ streak \in [Provs -> Nat] /\ used \in [Provs -> Nat] /\ redisUp \in BOOLEAN
    /\ cmpl \in [Completions -> [pc : PmSteps, prov : Provs, attempt : 1 .. MAX_ATTEMPTS,
                                  seen : Nat, failover : BOOLEAN, over : BOOLEAN]]

\* A provider is benched only after that many completions failed on it, however
\* the reads and writes of the streak interleave, expire or are lost.
BenchedAfterFailures ==
    \A p \in Provs : health[p].cooling => failures[p] >= FAILURES_BEFORE_COOLDOWN

\* Within one minute a provider gets no more requests than its rateLimitRpm,
\* unless Redis was away or two calls were between the limiter's get and its set
\* (enforceRateLimit reads the counter and writes it back; its comment counts on
\* one INCR).
LimitRespected == unlimited \/ \A p \in Provs : admitted[p] <= RateLimitRpm

\* One completion sends a provider at most MAX_ATTEMPTS requests and tries at
\* most two providers: failing over neither returns to the first nor goes on.
TriedBounded ==
    \A c \in Completions :
        /\ \A p \in Provs : tried[c][p] <= MAX_ATTEMPTS
        /\ \A p, q, r \in {o \in Provs : tried[c][o] > 0} : p = q \/ q = r \/ p = r
=============================================================================
