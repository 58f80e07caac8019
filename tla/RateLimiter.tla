---------------------------- MODULE RateLimiter ----------------------------
(***************************************************************************)
(* The rate limiter (server/ratelimit.go): a table with a token bucket per *)
(* client address, and a cleanup that drops idle entries.  A request reads *)
(* the clock before it gets the mutex, so what it stores as lastSeen may   *)
(* be older than what is there.                                            *)
(*                                                                         *)
(* A tick is the time in which a bucket gains one unit, so 1/rps is Cost   *)
(* ticks and nothing is multiplied.                                        *)
(***************************************************************************)
EXTENDS Integers, FiniteSets

CONSTANTS
    Requests,          \* slots of concurrent requests
    Addresses,         \* what clientKey makes of remote addresses
    Absent,
    Cost,              \* units a request takes: 1/rps in ticks
    Burst,
    Second,            \* ticks in a second
    ClientTTL,         \* clientTTL
    CleanupInterval,   \* cleanupInterval
    MaxClients,        \* maxClients
    MaxWait            \* bound on a wait for the mutex, the clock read included

\* The bucket's capacity.
Full == Burst * Cost

ASSUME RateLimiterAssumption ==
    /\ Cost \in Nat \ {0} /\ Burst \in Nat \ {0} /\ Second \in Nat \ {0}
    /\ ClientTTL \in Nat /\ CleanupInterval \in Nat \ {0}
    /\ MaxClients \in Nat /\ MaxWait \in Nat
    /\ Absent \notin [tokens : 0..Full, last : Nat, lastSeen : Nat]
    /\ Absent \notin [from : Addresses, at : Nat]
    /\ Absent \notin Nat

\* A bucket is full again before its entry may be dropped.  The code does not
\* check it: it holds of an rps of at least about Burst / 180.
ASSUME RefillAssumption == Full \in Nat /\ Cost <= Full /\ Full <= ClientTTL - MaxWait

VARIABLES
    now,        \* the clock, in ticks
    arriving,   \* by slot: a request between its clock read and the mutex
    clients,    \* by address: its entry in the table, or Absent
    cleanupAt,  \* when the cleanup's ticker fires next
    answer,     \* history: the last request's address and verdict, or Absent
    told        \* history, by address: the end of the first Retry-After it was
                \* given since it was last admitted, or Absent

Verdicts == {"ok", "limited", "full"}

limiterVars == <<now, arriving, clients, cleanupAt, answer, told>>

LimiterTypeOK ==
    /\ now \in Nat
    /\ arriving \in [Requests -> [from : Addresses, at : Nat] \cup {Absent}]
    /\ clients \in [Addresses -> [tokens : 0..Full, last : Nat, lastSeen : Nat]
                                     \cup {Absent}]
    /\ cleanupAt \in Nat
    /\ answer \in (Addresses \X Verdicts) \cup {Absent}
    /\ told \in [Addresses -> Nat \cup {Absent}]

LimiterInit ==
    /\ now = 0
    /\ arriving = [r \in Requests |-> Absent]
    /\ clients = [a \in Addresses |-> Absent]
    /\ cleanupAt = CleanupInterval
    /\ answer = Absent
    /\ told = [a \in Addresses |-> Absent]

-----------------------------------------------------------------------------
\* What Allow of the address's limiter finds now; a new limiter is full.
Level(a) ==
    IF clients[a] = Absent THEN Full
    ELSE LET units == clients[a].tokens + (now - clients[a].last)
         IN  IF units < Full THEN units ELSE Full

Table == {a \in Addresses : clients[a] # Absent}

\* Mutant of RetryAfter: the division rounds down.
RetryAfterFloor == IF Cost < Second THEN Second ELSE Second * (Cost \div Second)

\* retryAfterSec: max(1, ceil(1/rps)), in whole seconds.
RetryAfter ==
    IF Cost < Second THEN Second ELSE Second * ((Cost + Second - 1) \div Second)

\* allow reads the clock ...
Arrive(r, a) ==
    /\ arriving[r] = Absent
    /\ arriving' = [arriving EXCEPT ![r] = [from |-> a, at |-> now]]
    /\ UNCHANGED <<now, clients, cleanupAt, answer, told>>

Verdict(r) ==
    LET a == arriving[r].from IN
    IF clients[a] = Absent /\ Cardinality(Table) >= MaxClients THEN "full"
    ELSE IF Level(a) >= Cost THEN "ok"
    ELSE "limited"

\* ... and decides under the mutex.
Allow(r) ==
    /\ arriving[r] # Absent
    /\ LET a == arriving[r].from
           at == arriving[r].at
       IN
       /\ answer' = <<a, Verdict(r)>>
       /\ \/ /\ Verdict(r) = "full"
             /\ UNCHANGED <<clients, told>>
          \/ /\ Verdict(r) = "ok"
             /\ clients' = [clients EXCEPT ![a] =
                    [tokens |-> Level(a) - Cost, last |-> now, lastSeen |-> at]]
             /\ told' = [told EXCEPT ![a] = Absent]
          \/ /\ Verdict(r) = "limited"
             /\ clients' = [clients EXCEPT ![a].lastSeen = at]
             /\ told' = [told EXCEPT ![a] = IF @ = Absent THEN now + RetryAfter ELSE @]
    /\ arriving' = [arriving EXCEPT ![r] = Absent]
    /\ UNCHANGED <<now, cleanupAt>>

\* Mutant of Idle: the cleanup's period is taken for the time to live.
IdleForInterval(a) == clients[a] # Absent /\ now - clients[a].lastSeen > CleanupInterval

Idle(a) == clients[a] # Absent /\ now - clients[a].lastSeen > ClientTTL

\* Mutant of Cleanup: the ticker is given the time to live.
CleanupPerTTL ==
    /\ now >= cleanupAt
    /\ cleanupAt' = cleanupAt + ClientTTL
    /\ clients' = [a \in Addresses |-> IF Idle(a) THEN Absent ELSE clients[a]]
    /\ UNCHANGED <<now, arriving, answer, told>>

Cleanup ==
    /\ now >= cleanupAt
    /\ cleanupAt' = cleanupAt + CleanupInterval
    /\ clients' = [a \in Addresses |-> IF Idle(a) THEN Absent ELSE clients[a]]
    /\ UNCHANGED <<now, arriving, answer, told>>

\* Nobody waits for the mutex longer than MaxWait.
MutexIsPrompt ==
    \A r \in Requests : arriving[r] # Absent => now - arriving[r].at < MaxWait

Elapse ==
    /\ MutexIsPrompt
    /\ now' = now + 1
    /\ UNCHANGED <<arriving, clients, cleanupAt, answer, told>>

LimiterNext ==
    \/ \E r \in Requests, a \in Addresses : Arrive(r, a)
    \/ \E r \in Requests : Allow(r)
    \/ Cleanup
    \/ Elapse

LimiterSpec == LimiterInit /\ [][LimiterNext]_limiterVars

-----------------------------------------------------------------------------
\* README.md:149 "Requests per second allowed per client": although entries
\* are dropped and come back full, and lastSeen may go back, no address is
\* admitted more than a bucket that is never forgotten would admit, and none is
\* told that it is limited when such a bucket held enough.
Bucket == INSTANCE TokenBucket WITH level <- [a \in Addresses |-> Level(a)]
RateIsKept == Bucket!BucketSpec

\* "seconds until the next token" (ratelimit.go:48): once the Retry-After that
\* an address was told has passed, its bucket holds enough for a request,
\* however many it sent meanwhile that were refused.
WaitingPays == \A a \in Addresses : told[a] # Absent /\ told[a] <= now => Level(a) >= Cost
=============================================================================
