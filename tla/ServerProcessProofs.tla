------------------------ MODULE ServerProcessProofs ------------------------
(***************************************************************************)
(* Proofs about the rate limiter and the server process around it, for any *)
(* number of addresses, requests and consumers and all durations.  First   *)
(* the limiter keeps its promise (TokenBucket) although it forgets idle    *)
(* addresses and may store an old lastSeen.  Then its guarantees hold of   *)
(* the whole process, shutdown included, and the process's end comes in    *)
(* the order main.go means it to.                                          *)
(***************************************************************************)
EXTENDS ServerProcess, TLAPS

\* A request that waits for the mutex read the clock at most MaxWait ago.
WaitsAreShort ==
    \A r \in Requests : arriving[r] # Absent =>
        arriving[r].at <= now /\ now - arriving[r].at <= MaxWait

\* lastSeen lies at most MaxWait before the last time units were taken.
LastSeenIsFresh ==
    \A a \in Addresses : clients[a] # Absent =>
        clients[a].last <= now /\ clients[a].last - clients[a].lastSeen <= MaxWait

\* What remains of a Retry-After makes up for what the bucket lacks.
WaitCoversLack ==
    \A a \in Addresses : told[a] # Absent =>
        Level(a) >= Cost \/ Level(a) + (told[a] - now) >= Cost

LimiterInv == LimiterTypeOK /\ WaitsAreShort /\ LastSeenIsFresh /\ WaitCoversLack

Buckets == [tokens : 0..Full, last : Nat, lastSeen : Nat]
Arrivals == [from : Addresses, at : Nat]

LEMMA LevelInRange ==
    ASSUME LimiterTypeOK, LastSeenIsFresh, NEW a \in Addresses
    PROVE  Level(a) \in 0..Full
<1>1. CASE clients[a] = Absent
  BY <1>1, RefillAssumption DEF Level
<1>2. CASE clients[a] # Absent
  <2>1. clients[a] \in Buckets
    BY <1>2 DEF LimiterTypeOK, Buckets
  <2>2. /\ clients[a].tokens \in 0..Full /\ clients[a].last \in Nat
        /\ clients[a].last <= now /\ now \in Nat
    BY <1>2, <2>1 DEF Buckets, LastSeenIsFresh, LimiterTypeOK
  <2> QED
    BY <1>2, <2>2, RefillAssumption DEF Level
<1> QED
  BY <1>1, <1>2

\* The next whole second is no earlier than the next token.
LEMMA RetryAfterCovers ==
    RetryAfter \in Nat /\ RetryAfter >= Cost
<1>1. Cost \in Nat \ {0} /\ Second \in Nat \ {0}
  BY RateLimiterAssumption
<1>2. CASE Cost < Second
  BY <1>1, <1>2 DEF RetryAfter
<1>3. CASE ~(Cost < Second)
  <2> DEFINE q == (Cost + Second - 1) \div Second
             m == (Cost + Second - 1) % Second
  <2>1. /\ q \in Int /\ m \in 0..(Second - 1)
        /\ Cost + Second - 1 = Second * q + m
    BY <1>1, SMTT(60)
  <2>2. RetryAfter = Second * q
    BY <1>3 DEF RetryAfter
  <2> HIDE DEF q, m
  <2>3. Second * q \in Int
    BY <1>1, <2>1
  <2> QED
    BY <1>1, <2>1, <2>2, <2>3
<1> QED
  BY <1>2, <1>3

LEMMA LimiterInvInit ==
    LimiterInit => LimiterInv
BY RateLimiterAssumption
   DEF LimiterInit, LimiterInv, LimiterTypeOK, WaitsAreShort, LastSeenIsFresh, WaitCoversLack

\* A request reads the clock: no bucket notices.
LEMMA ArriveStep ==
    ASSUME LimiterInv, NEW r \in Requests, NEW a \in Addresses, Arrive(r, a)
    PROVE  LimiterInv' /\ \A b \in Addresses : Level(b)' = Level(b)
<1>1. /\ arriving' = [arriving EXCEPT ![r] = [from |-> a, at |-> now]]
      /\ UNCHANGED <<now, clients, cleanupAt, answer, told>>
  BY DEF Arrive
<1>2. \A b \in Addresses : Level(b)' = Level(b)
  BY <1>1 DEF Level
<1>3. LimiterTypeOK'
  BY <1>1 DEF LimiterInv, LimiterTypeOK
<1>4. WaitsAreShort'
  <2> SUFFICES ASSUME NEW q \in Requests, arriving'[q] # Absent
               PROVE  arriving'[q].at <= now /\ now - arriving'[q].at <= MaxWait
    BY <1>1 DEF WaitsAreShort
  <2>1. CASE q = r
    BY <1>1, <2>1, RateLimiterAssumption DEF LimiterInv, LimiterTypeOK
  <2>2. CASE q # r
    BY <1>1, <2>2 DEF LimiterInv, LimiterTypeOK, WaitsAreShort
  <2> QED
    BY <2>1, <2>2
<1>5. LastSeenIsFresh' /\ WaitCoversLack'
  BY <1>1, <1>2 DEF LimiterInv, LastSeenIsFresh, WaitCoversLack
<1> QED
  BY <1>2, <1>3, <1>4, <1>5 DEF LimiterInv

\* What a bucket holds is settled by its entry and the clock.
LEMMA LevelOfOthers ==
    ASSUME NEW b \in Addresses, clients'[b] = clients[b], now' = now
    PROVE  Level(b)' = Level(b)
BY DEF Level

\* The decision takes Cost units or none, from one bucket only.
LEMMA AllowStep ==
    ASSUME LimiterInv, NEW r \in Requests, Allow(r), NEW a, a = arriving[r].from
    PROVE  /\ LimiterInv'
           /\ a \in Addresses
           /\ \A b \in Addresses \ {a} : Level(b)' = Level(b)
           /\ answer' = <<a, Verdict(r)>>
           /\ Verdict(r) = "ok" => Level(a) >= Cost /\ Level(a)' = Level(a) - Cost
           /\ Verdict(r) = "limited" => Level(a) < Cost /\ Level(a)' = Level(a)
           /\ Verdict(r) = "full" => Level(a)' = Level(a)
<1> DEFINE at == arriving[r].at
<1>1. arriving[r] # Absent /\ arriving[r] \in Arrivals
  BY DEF Allow, LimiterInv, LimiterTypeOK, Arrivals
<1>2. /\ a \in Addresses /\ at \in Nat
      /\ at <= now /\ now - at <= MaxWait
      /\ now \in Nat /\ MaxWait \in Nat
  BY <1>1, RateLimiterAssumption DEF Arrivals, LimiterInv, LimiterTypeOK, WaitsAreShort
<1>3. /\ now' = now /\ cleanupAt' = cleanupAt
      /\ arriving' = [arriving EXCEPT ![r] = Absent]
      /\ answer' = <<a, Verdict(r)>>
  BY DEF Allow
<1>4. \A b \in Addresses : Level(b) \in 0..Full
  BY LevelInRange DEF LimiterInv
<1>5. Verdict(r) \in Verdicts
  BY DEF Verdict, Verdicts
<1>6. WaitsAreShort'
  BY <1>3 DEF LimiterInv, LimiterTypeOK, WaitsAreShort
<1>7. /\ cleanupAt' \in Nat /\ now' \in Nat
      /\ arriving' \in [Requests -> Arrivals \cup {Absent}]
      /\ answer' \in (Addresses \X Verdicts) \cup {Absent}
  BY <1>2, <1>3, <1>5 DEF LimiterInv, LimiterTypeOK, Arrivals
<1>8. \A b \in Addresses : Cost \in Nat \ {0} /\ Full \in Nat /\ Cost <= Full
  BY RateLimiterAssumption, RefillAssumption
<1> HIDE DEF at
<1>9. CASE Verdict(r) = "full"
  <2>1. clients' = clients /\ told' = told
    BY <1>9 DEF Allow
  <2>2. \A b \in Addresses : Level(b)' = Level(b)
    BY <1>3, <2>1, LevelOfOthers
  <2>3. LimiterInv'
    BY <1>3, <1>6, <1>7, <2>1, <2>2
       DEF LimiterInv, LimiterTypeOK, LastSeenIsFresh, WaitCoversLack, Arrivals
  <2> QED
    BY <1>2, <1>3, <1>9, <2>2, <2>3
<1>10. CASE Verdict(r) = "ok"
  <2> DEFINE bucket == [tokens |-> Level(a) - Cost, last |-> now, lastSeen |-> at]
  <2>1. /\ clients' = [clients EXCEPT ![a] = bucket]
        /\ told' = [told EXCEPT ![a] = Absent]
    BY <1>10 DEF Allow, at
  <2>2. Level(a) >= Cost
    BY <1>10 DEF Verdict
  <2>3. /\ bucket \in Buckets /\ bucket # Absent
        /\ bucket.tokens = Level(a) - Cost /\ bucket.last = now /\ bucket.lastSeen = at
    <3>1. Level(a) - Cost \in 0..Full
      BY <1>2, <1>4, <1>8, <2>2
    <3>2. bucket \in Buckets
      BY <1>2, <3>1 DEF Buckets
    <3> QED
      BY <3>2, RateLimiterAssumption DEF Buckets
  <2> HIDE DEF bucket
  <2>4. clients'[a] = bucket /\ \A b \in Addresses \ {a} : clients'[b] = clients[b]
    BY <1>2, <2>1 DEF LimiterInv, LimiterTypeOK
  <2>5. Level(a)' = Level(a) - Cost
    <3>1. Level(a)' = LET units == bucket.tokens + (now - now)
                      IN  IF units < Full THEN units ELSE Full
      BY <1>3, <2>3, <2>4 DEF Level
    <3> QED
      BY <1>2, <1>4, <1>8, <2>2, <2>3, <3>1
  <2>6. \A b \in Addresses \ {a} : Level(b)' = Level(b)
    BY <1>3, <2>4, LevelOfOthers
  <2>7. LimiterTypeOK'
    BY <1>7, <2>1, <2>3 DEF LimiterInv, LimiterTypeOK, Arrivals, Buckets
  <2>8. LastSeenIsFresh'
    BY <1>2, <1>3, <2>3, <2>4 DEF LimiterInv, LastSeenIsFresh
  <2>9. WaitCoversLack'
    <3> SUFFICES ASSUME NEW b \in Addresses, told'[b] # Absent
                 PROVE  Level(b)' >= Cost \/ Level(b)' + (told'[b] - now') >= Cost
      BY DEF WaitCoversLack
    <3>1. b # a /\ told'[b] = told[b]
      BY <2>1 DEF LimiterInv, LimiterTypeOK
    <3> QED
      BY <1>3, <2>6, <3>1 DEF LimiterInv, WaitCoversLack
  <2> QED
    BY <1>2, <1>3, <1>6, <1>10, <2>2, <2>5, <2>6, <2>7, <2>8, <2>9 DEF LimiterInv
<1>11. CASE Verdict(r) = "limited"
  <2>1. /\ clients' = [clients EXCEPT ![a].lastSeen = at]
        /\ told' = [told EXCEPT ![a] = IF @ = Absent THEN now + RetryAfter ELSE @]
    BY <1>11 DEF Allow, at
  <2>2. Level(a) < Cost
    BY <1>2, <1>4, <1>8, <1>11 DEF Verdict
  <2>3. clients[a] # Absent /\ clients[a] \in Buckets
    BY <1>2, <1>8, <2>2 DEF Level, LimiterInv, LimiterTypeOK, Buckets
  <2> DEFINE bucket == [clients[a] EXCEPT !.lastSeen = at]
  <2>4. /\ bucket \in Buckets /\ bucket # Absent
        /\ bucket.tokens = clients[a].tokens /\ bucket.last = clients[a].last
        /\ bucket.lastSeen = at
    <3>1. bucket \in Buckets
      BY <1>2, <2>3 DEF Buckets
    <3> QED
      BY <2>3, <3>1, RateLimiterAssumption DEF Buckets
  <2>5. clients' = [clients EXCEPT ![a] = bucket]
    BY <2>1
  <2> HIDE DEF bucket
  <2>6. clients'[a] = bucket /\ \A b \in Addresses \ {a} : clients'[b] = clients[b]
    BY <1>2, <2>5 DEF LimiterInv, LimiterTypeOK
  <2>7. Level(a)' = Level(a)
    BY <1>3, <2>3, <2>4, <2>6 DEF Level
  <2>8. \A b \in Addresses : Level(b)' = Level(b)
    BY <1>3, <2>6, <2>7, LevelOfOthers
  <2>9. LimiterTypeOK'
    BY <1>2, <1>7, <2>1, <2>4, <2>5, RetryAfterCovers
       DEF LimiterInv, LimiterTypeOK, Arrivals, Buckets
  <2>10. LastSeenIsFresh'
    <3>1. clients[a].last \in Nat /\ clients[a].last <= now
      BY <1>2, <2>3 DEF LimiterInv, LastSeenIsFresh, Buckets
    <3> QED
      BY <1>2, <1>3, <2>4, <2>6, <3>1 DEF LimiterInv, LastSeenIsFresh
  <2>11. WaitCoversLack'
    <3> SUFFICES ASSUME NEW b \in Addresses, told'[b] # Absent
                 PROVE  Level(b) >= Cost \/ Level(b) + (told'[b] - now) >= Cost
      BY <1>3, <2>8 DEF WaitCoversLack
    <3>1. CASE told'[b] = told[b]
      BY <3>1 DEF LimiterInv, WaitCoversLack
    <3>2. CASE told'[b] = now + RetryAfter
      BY <1>2, <1>4, <1>8, <3>2, RetryAfterCovers
    <3> QED
      BY <2>1, <3>1, <3>2 DEF LimiterInv, LimiterTypeOK
  <2> QED
    BY <1>2, <1>3, <1>6, <1>11, <2>2, <2>8, <2>9, <2>10, <2>11 DEF LimiterInv
<1> QED
  BY <1>5, <1>9, <1>10, <1>11 DEF Verdicts

\* An entry that may be dropped has a full bucket: its last use is at most
\* MaxWait younger than its lastSeen.
LEMMA IdleIsFull ==
    ASSUME LimiterInv, NEW a \in Addresses, Idle(a)
    PROVE  Level(a) = Full
<1>1. clients[a] # Absent /\ clients[a] \in Buckets
  BY DEF Idle, LimiterInv, LimiterTypeOK, Buckets
<1>2. /\ clients[a].tokens \in 0..Full
      /\ clients[a].last \in Nat /\ clients[a].lastSeen \in Nat
      /\ clients[a].last - clients[a].lastSeen <= MaxWait
      /\ now - clients[a].lastSeen > ClientTTL
  BY <1>1 DEF Buckets, Idle, LimiterInv, LastSeenIsFresh
<1>3. /\ now \in Nat /\ ClientTTL \in Nat /\ MaxWait \in Nat
      /\ Full \in Nat /\ Full <= ClientTTL - MaxWait
  BY RateLimiterAssumption, RefillAssumption DEF LimiterInv, LimiterTypeOK
<1>4. clients[a].tokens + (now - clients[a].last) >= Full
  BY <1>2, <1>3
<1> QED
  BY <1>1, <1>2, <1>3, <1>4 DEF Level

LEMMA CleanupStep ==
    ASSUME LimiterInv, Cleanup
    PROVE  LimiterInv' /\ \A a \in Addresses : Level(a)' = Level(a)
<1>1. /\ cleanupAt' = cleanupAt + CleanupInterval
      /\ clients' = [a \in Addresses |-> IF Idle(a) THEN Absent ELSE clients[a]]
      /\ UNCHANGED <<now, arriving, answer, told>>
  BY DEF Cleanup
<1>2. ASSUME NEW a \in Addresses PROVE Level(a)' = Level(a)
  <2>1. CASE Idle(a)
    <3>1. Level(a)' = Full
      BY <1>1, <2>1 DEF Level
    <3> QED
      BY <2>1, <3>1, IdleIsFull
  <2>2. CASE ~Idle(a)
    BY <1>1, <2>2, LevelOfOthers
  <2> QED
    BY <2>1, <2>2
<1>3. LimiterTypeOK'
  BY <1>1, RateLimiterAssumption DEF LimiterInv, LimiterTypeOK
<1>4. WaitsAreShort' /\ LastSeenIsFresh'
  BY <1>1 DEF LimiterInv, WaitsAreShort, LastSeenIsFresh
<1>5. WaitCoversLack'
  BY <1>1, <1>2 DEF LimiterInv, WaitCoversLack
<1> QED
  BY <1>2, <1>3, <1>4, <1>5 DEF LimiterInv

\* A tick refills every bucket by a unit.
LEMMA ElapseStep ==
    ASSUME LimiterInv, Elapse
    PROVE  /\ LimiterInv'
           /\ \A a \in Addresses :
                  Level(a)' = IF Level(a) < Full THEN Level(a) + 1 ELSE Full
<1>1. /\ now' = now + 1 /\ now \in Nat
      /\ UNCHANGED <<arriving, clients, cleanupAt, answer, told>>
  BY DEF Elapse, LimiterInv, LimiterTypeOK
<1>2. Full \in Nat /\ Cost \in Nat /\ Cost <= Full /\ MaxWait \in Nat
  BY RateLimiterAssumption, RefillAssumption
<1>3. ASSUME NEW a \in Addresses, clients[a] # Absent
      PROVE  /\ clients[a].tokens \in 0..Full
             /\ clients[a].last \in Nat /\ clients[a].lastSeen \in Nat
             /\ clients[a].last <= now
             /\ clients[a].last - clients[a].lastSeen <= MaxWait
  <2>1. clients[a] \in Buckets
    BY <1>3 DEF LimiterInv, LimiterTypeOK, Buckets
  <2> QED
    BY <1>3, <2>1 DEF Buckets, LimiterInv, LastSeenIsFresh
<1>4. ASSUME NEW a \in Addresses
      PROVE  Level(a)' = IF Level(a) < Full THEN Level(a) + 1 ELSE Full
  <2>1. CASE clients[a] = Absent
    BY <1>1, <1>2, <2>1 DEF Level
  <2>2. CASE clients[a] # Absent
    <3>1. Level(a) = IF clients[a].tokens + (now - clients[a].last) < Full
                     THEN clients[a].tokens + (now - clients[a].last) ELSE Full
      BY <2>2 DEF Level
    <3>2. Level(a)' = IF clients[a].tokens + (now' - clients[a].last) < Full
                      THEN clients[a].tokens + (now' - clients[a].last) ELSE Full
      BY <1>1, <2>2 DEF Level
    <3> DEFINE units == clients[a].tokens + (now - clients[a].last)
               next == clients[a].tokens + (now' - clients[a].last)
    <3>3. units \in Int /\ next = units + 1
      BY <1>1, <1>3, <2>2
    <3> HIDE DEF units, next
    <3>4. /\ Level(a) = IF units < Full THEN units ELSE Full
          /\ Level(a)' = IF next < Full THEN next ELSE Full
      BY <3>1, <3>2 DEF units, next
    <3> QED
      BY <1>2, <3>3, <3>4
  <2> QED
    BY <2>1, <2>2
<1>5. LimiterTypeOK'
  BY <1>1 DEF LimiterInv, LimiterTypeOK
<1>6. WaitsAreShort'
  <2> SUFFICES ASSUME NEW r \in Requests, arriving[r] # Absent
               PROVE  arriving[r].at <= now' /\ now' - arriving[r].at <= MaxWait
    BY <1>1 DEF WaitsAreShort
  <2>1. arriving[r] \in Arrivals
    BY DEF LimiterInv, LimiterTypeOK, Arrivals
  <2>2. arriving[r].at \in Nat /\ arriving[r].at <= now /\ now - arriving[r].at < MaxWait
    BY <2>1 DEF Arrivals, LimiterInv, WaitsAreShort, Elapse, MutexIsPrompt
  <2> QED
    BY <1>1, <1>2, <2>2
<1>7. LastSeenIsFresh'
  BY <1>1, <1>3 DEF LastSeenIsFresh
<1>8. WaitCoversLack'
  <2> SUFFICES ASSUME NEW a \in Addresses, told[a] # Absent
               PROVE  Level(a)' >= Cost \/ Level(a)' + (told[a] - (now + 1)) >= Cost
    BY <1>1 DEF WaitCoversLack
  <2>1. told[a] \in Nat /\ Level(a) \in 0..Full
    BY LevelInRange DEF LimiterInv, LimiterTypeOK
  <2>2. Level(a) >= Cost \/ Level(a) + (told[a] - now) >= Cost
    BY DEF LimiterInv, WaitCoversLack
  <2> QED
    BY <1>1, <1>2, <1>4, <2>1, <2>2
<1> QED
  BY <1>4, <1>5, <1>6, <1>7, <1>8 DEF LimiterInv

LEMMA LimiterStutter ==
    ASSUME UNCHANGED limiterVars
    PROVE  /\ LimiterInv => LimiterInv'
           /\ \A a \in Addresses : Level(a)' = Level(a)
           /\ answer' = answer
BY DEF limiterVars, LimiterInv, LimiterTypeOK, WaitsAreShort, LastSeenIsFresh,
       WaitCoversLack, Level

\* The inductive invariant of the limiter.
THEOREM LimiterInvariant ==
    LimiterSpec => []LimiterInv
<1>1. LimiterInv /\ [LimiterNext]_limiterVars => LimiterInv'
  <2> SUFFICES ASSUME LimiterInv, [LimiterNext]_limiterVars PROVE LimiterInv'
    OBVIOUS
  <2>1. ASSUME NEW r \in Requests, NEW a \in Addresses, Arrive(r, a) PROVE LimiterInv'
    BY <2>1, ArriveStep
  <2>2. ASSUME NEW r \in Requests, Allow(r) PROVE LimiterInv'
    BY <2>2, AllowStep
  <2>3. CASE Cleanup
    BY <2>3, CleanupStep
  <2>4. CASE Elapse
    BY <2>4, ElapseStep
  <2>5. CASE UNCHANGED limiterVars
    BY <2>5, LimiterStutter
  <2> QED
    BY <2>1, <2>2, <2>3, <2>4, <2>5 DEF LimiterNext
<1> QED
  BY <1>1, LimiterInvInit, PTL DEF LimiterSpec

-----------------------------------------------------------------------------
\* "seconds until the next token" (ratelimit.go:48): a client that waited for
\* the Retry-After it was told finds a token, for every rate and burst.
THEOREM RetryAfterPays ==
    LimiterSpec => []WaitingPays
<1>1. LimiterInv => WaitingPays
  <2> SUFFICES ASSUME LimiterInv, NEW a \in Addresses, told[a] # Absent, told[a] <= now
               PROVE  Level(a) >= Cost
    BY DEF WaitingPays
  <2>1. told[a] \in Nat /\ now \in Nat /\ Level(a) \in 0..Full /\ Cost \in Nat
    BY LevelInRange, RateLimiterAssumption DEF LimiterInv, LimiterTypeOK
  <2>2. Level(a) >= Cost \/ Level(a) + (told[a] - now) >= Cost
    BY DEF LimiterInv, WaitCoversLack
  <2> QED
    BY <2>1, <2>2, RefillAssumption
<1> QED
  BY <1>1, LimiterInvariant, PTL

\* README.md:149: the limiter implements buckets that are never forgotten.  The
\* entries it drops are full ones (IdleIsFull), which is where the bound on
\* burst / rps and on the wait for the mutex is needed.
THEOREM LimiterKeepsRate ==
    LimiterSpec => RateIsKept
<1> DEFINE level == [a \in Addresses |-> Level(a)]
<1>1. LimiterInit => Bucket!BucketInit
  BY DEF LimiterInit, Bucket!BucketInit, Level
<1>2. LimiterInv /\ [LimiterNext]_limiterVars => [Bucket!BucketNext]_(Bucket!bucketVars)
  <2> SUFFICES ASSUME LimiterInv, [LimiterNext]_limiterVars
               PROVE  [Bucket!BucketNext]_(Bucket!bucketVars)
    OBVIOUS
  <2>1. ASSUME \A a \in Addresses : Level(a)' = Level(a), answer' = answer
        PROVE  UNCHANGED Bucket!bucketVars
    BY <2>1 DEF Bucket!bucketVars
  <2>2. ASSUME NEW r \in Requests, NEW a \in Addresses, Arrive(r, a)
        PROVE  UNCHANGED Bucket!bucketVars
    BY <2>1, <2>2, ArriveStep DEF Arrive
  <2>3. ASSUME NEW r \in Requests, Allow(r)
        PROVE  Bucket!BucketNext
    <3> PICK a : a = arriving[r].from
      OBVIOUS
    <3>1. /\ a \in Addresses
          /\ \A b \in Addresses \ {a} : Level(b)' = Level(b)
          /\ answer' = <<a, Verdict(r)>>
          /\ Verdict(r) = "ok" => Level(a) >= Cost /\ Level(a)' = Level(a) - Cost
          /\ Verdict(r) = "limited" => Level(a) < Cost /\ Level(a)' = Level(a)
          /\ Verdict(r) = "full" => Level(a)' = Level(a)
      BY <2>3, AllowStep
    <3>2. Verdict(r) \in Verdicts
      BY DEF Verdict, Verdicts
    <3>3. CASE Verdict(r) = "ok"
      <4>1. level' = [level EXCEPT ![a] = @ - Cost] /\ level[a] >= Cost
        BY <3>1, <3>3
      <4>2. Bucket!Admit(a)
        BY <3>1, <3>3, <4>1 DEF Bucket!Admit
      <4> QED
        BY <3>1, <4>2 DEF Bucket!BucketNext
    <3>4. CASE Verdict(r) = "limited"
      <4>1. level' = level /\ level[a] < Cost
        BY <3>1, <3>4
      <4>2. Bucket!Limit(a)
        BY <3>1, <3>4, <4>1 DEF Bucket!Limit
      <4> QED
        BY <3>1, <4>2 DEF Bucket!BucketNext
    <3>5. CASE Verdict(r) = "full"
      <4>1. level' = level
        BY <3>1, <3>5
      <4>2. Bucket!TurnAway(a)
        BY <3>1, <3>5, <4>1 DEF Bucket!TurnAway
      <4> QED
        BY <3>1, <4>2 DEF Bucket!BucketNext
    <3> QED
      BY <3>2, <3>3, <3>4, <3>5 DEF Verdicts
  <2>4. CASE Cleanup
    BY <2>1, <2>4, CleanupStep DEF Cleanup
  <2>5. CASE Elapse
    <3>1. level' = [a \in Addresses |-> IF level[a] < Full THEN level[a] + 1 ELSE Full]
      BY <2>5, ElapseStep
    <3>2. Bucket!Refill
      BY <2>5, <3>1 DEF Bucket!Refill, Elapse
    <3> QED
      BY <3>2 DEF Bucket!BucketNext
  <2>6. CASE UNCHANGED limiterVars
    BY <2>1, <2>6, LimiterStutter
  <2> QED
    BY <2>2, <2>3, <2>4, <2>5, <2>6 DEF LimiterNext
<1> QED
  BY <1>1, <1>2, LimiterInvariant, PTL DEF LimiterSpec, RateIsKept, Bucket!BucketSpec

-----------------------------------------------------------------------------
\* A step of the process is one of the limiter or leaves it alone.
LEMMA ServerStepIsLimiterStep ==
    ASSUME [Next]_vars PROVE [LimiterNext]_limiterVars
<1>1. ASSUME NEW r \in Requests, NEW a \in Addresses, ArriveAtApi(r, a) PROVE LimiterNext
  BY <1>1 DEF ArriveAtApi, LimiterNext
<1>2. ASSUME NEW r \in Requests, Decide(r) PROVE LimiterNext
  BY <1>2 DEF Decide, LimiterNext
<1>3. ASSUME NEW r \in Requests, ArriveAtHealth(r) \/ Finish(r)
      PROVE  UNCHANGED limiterVars
  BY <1>3 DEF ArriveAtHealth, Finish
<1>4. CASE CleanupRound
  BY <1>4 DEF CleanupRound, LimiterNext
<1>5. ASSUME NEW c \in Consumers, Advance(c) \/ CommandFails(c)
      PROVE  UNCHANGED limiterVars
  BY <1>5 DEF Advance, CommandFails, Goto
<1>6. CASE Signal \/ Die \/ CloseRequestClient \/ Return
  BY <1>6 DEF Signal, Die, CloseRequestClient, Return
<1>7. CASE Tick
  BY <1>7 DEF Tick, LimiterNext
<1>8. CASE UNCHANGED vars
  BY <1>8 DEF vars
<1> QED
  BY <1>1, <1>2, <1>3, <1>4, <1>5, <1>6, <1>7, <1>8 DEF Next

\* The process implements the limiter alone.
THEOREM ServerImplementsLimiter ==
    Spec => LimiterSpec
<1>1. Init => LimiterInit
  BY DEF Init
<1> QED
  BY <1>1, ServerStepIsLimiterStep, PTL DEF Spec, LimiterSpec

\* README.md:149 and ratelimit.go:48 for the process: it keeps the rate of
\* every address, and a Retry-After pays, before and during a shutdown.
THEOREM ServerKeepsRate ==
    Spec => RateIsKept /\ []WaitingPays
BY ServerImplementsLimiter, LimiterKeepsRate, RetryAfterPays, PTL

-----------------------------------------------------------------------------
ServerTypeOK ==
    /\ now \in Nat
    /\ phase \in {"serving", "draining", "waiting", "exited"}
    /\ stage \in [Consumers -> Stages]
    /\ since \in [Consumers -> Nat]
    /\ signalAt \in Nat \cup {Absent}
    /\ killed \in BOOLEAN
    /\ phase \in {"draining", "waiting"} => deadline \in Nat
    /\ phase = "serving" => signalAt = Absent
    /\ phase \in {"draining", "waiting"} \/ (phase = "exited" /\ ~killed) =>
           signalAt \in Nat /\ signalAt <= now

\* What a consumer is at was begun before the signal and is not overdue.
ConsumersInTime ==
    \A c \in Consumers : stage[c] # "stopped" /\ phase # "exited" =>
        /\ since[c] <= now
        /\ stage[c] # "backoff" => now <= since[c] + Takes(c)
        /\ phase # "serving" => since[c] <= signalAt
        /\ phase # "serving" /\ stage[c] = "backoff" => now = signalAt

\* main waits for as long as a command begun before the signal takes.
WaitIsLong ==
    phase = "waiting" => deadline >= signalAt + MaxStopDelay + WorkerStopMargin

\* While main drains it has the whole timeout; what is in flight afterwards
\* was in flight when that was used up.
DrainIsWhole ==
    /\ phase = "draining" => deadline = signalAt + ShutdownTimeout
    /\ phase = "waiting" /\ InFlight # {} => signalAt + ShutdownTimeout <= now

\* A handler that was cut off was so late.
CutOffLate ==
    cutOff => /\ phase \notin {"serving", "draining"}
              /\ signalAt \in Nat /\ signalAt + ShutdownTimeout <= now

ServerInv ==
    /\ ServerTypeOK /\ ConsumersInTime /\ WaitIsLong /\ DrainIsWhole /\ CutOffLate
    /\ phase = "exited" /\ ~killed => AllStopped

\* The constants, and the slowest consumer.
LEMMA Durations ==
    /\ MaxStopDelay \in Nat
    /\ \A c \in Consumers : BlockDuration[c] \in Nat /\ BlockDuration[c] <= MaxStopDelay
    /\ WorkerStopMargin \in Nat /\ ShutdownTimeout \in Nat /\ CommandTime \in Nat
    /\ CommandTime < WorkerStopMargin
<1>1. BlockDuration \in [Consumers -> Nat]
  BY ServerProcessAssumption
<1>2. \E d \in {BlockDuration[c] : c \in Consumers} :
          \A c \in Consumers : BlockDuration[c] <= d
  BY SlowestAssumption
<1>3. /\ MaxStopDelay \in {BlockDuration[c] : c \in Consumers}
      /\ \A c \in Consumers : BlockDuration[c] <= MaxStopDelay
  BY <1>2 DEF MaxStopDelay
<1> QED
  BY <1>1, <1>3, ServerProcessAssumption, MarginAssumption

\* A consumer that is not done when the context is gone is so for a read at most.
LEMMA StopsInTime ==
    ASSUME ServerInv, phase \in {"draining", "waiting"},
           NEW c \in Consumers, stage[c] # "stopped"
    PROVE  now <= signalAt + MaxStopDelay + CommandTime
<1>1. /\ now \in Nat /\ signalAt \in Nat /\ since[c] \in Nat
      /\ stage[c] \in {"command", "read", "backoff"}
  BY DEF ServerInv, ServerTypeOK, Stages
<1>2. since[c] <= signalAt
  BY DEF ServerInv, ConsumersInTime
<1>3. CASE stage[c] = "backoff"
  BY <1>1, <1>3, Durations DEF ServerInv, ConsumersInTime
<1>4. CASE stage[c] = "read"
  <2>1. now <= since[c] + (BlockDuration[c] + CommandTime)
    BY <1>4 DEF ServerInv, ConsumersInTime, Takes
  <2> QED
    BY <1>1, <1>2, <2>1, Durations
<1>5. CASE stage[c] = "command"
  <2>1. now <= since[c] + CommandTime
    BY <1>5 DEF ServerInv, ConsumersInTime, Takes
  <2> QED
    BY <1>1, <1>2, <2>1, Durations
<1> QED
  BY <1>1, <1>3, <1>4, <1>5

LEMMA ServerInvInit ==
    Init => ServerInv
<1> SUFFICES ASSUME Init PROVE ServerInv
  OBVIOUS
<1>1. /\ now = 0 /\ phase = "serving" /\ deadline = Absent /\ signalAt = Absent
      /\ stage = [c \in Consumers |-> "command"] /\ since = [c \in Consumers |-> 0]
      /\ cutOff = FALSE /\ killed = FALSE
  BY DEF Init, LimiterInit
<1>2. ServerTypeOK /\ WaitIsLong /\ DrainIsWhole /\ CutOffLate
  BY <1>1 DEF ServerTypeOK, WaitIsLong, DrainIsWhole, CutOffLate, Stages
<1>3. \A c \in Consumers : Takes(c) = CommandTime
  BY <1>1 DEF Takes
<1>4. ConsumersInTime
  BY <1>1, <1>3, Durations DEF ConsumersInTime
<1> QED
  BY <1>1, <1>2, <1>4 DEF ServerInv

\* Steps that move neither main nor the clock nor a consumer.
LEMMA RequestStep ==
    ASSUME ServerInv, UNCHANGED <<now, mainVars, consumerVars>>,
           phase = "waiting" => InFlight' \subseteq InFlight,
           cutOff' => cutOff \/ (phase = "waiting" /\ InFlight # {})
    PROVE  ServerInv'
<1>1. UNCHANGED <<now, phase, deadline, signalAt, killed, stage, since>>
  BY DEF mainVars, consumerVars
<1>2. ServerTypeOK' /\ ConsumersInTime' /\ WaitIsLong'
  BY <1>1 DEF ServerInv, ServerTypeOK, ConsumersInTime, WaitIsLong, Takes
<1>3. DrainIsWhole'
  BY <1>1 DEF ServerInv, DrainIsWhole
<1>4. CutOffLate'
  BY <1>1 DEF ServerInv, CutOffLate, DrainIsWhole, ServerTypeOK
<1>5. (phase = "exited" /\ ~killed => AllStopped)'
  BY <1>1 DEF ServerInv, AllStopped
<1> QED
  BY <1>2, <1>3, <1>4, <1>5 DEF ServerInv

\* Its next command is begun before the signal, or it stops.
LEMMA ConsumerStep ==
    ASSUME ServerInv, phase # "exited", NEW c \in Consumers, NEW next \in Stages, Goto(c, next)
    PROVE  ServerInv'
<1>1. /\ stage' = [stage EXCEPT ![c] = IF phase # "serving" THEN "stopped" ELSE next]
      /\ since' = [since EXCEPT ![c] = now]
      /\ UNCHANGED <<now, arriving, phase, deadline, signalAt, killed, running, cutOff>>
  BY DEF Goto, Cancelled, limiterVars, mainVars
<1>2. now \in Nat
  BY DEF ServerInv, ServerTypeOK
<1>3. ServerTypeOK'
  BY <1>1 DEF ServerInv, ServerTypeOK, Stages
<1>4. ConsumersInTime'
  <2> SUFFICES ASSUME NEW d \in Consumers, stage'[d] # "stopped"
               PROVE  /\ since'[d] <= now
                      /\ stage'[d] # "backoff" => now <= since'[d] + Takes(d)'
                      /\ phase # "serving" => since'[d] <= signalAt
                      /\ phase # "serving" /\ stage'[d] = "backoff" => now = signalAt
    BY <1>1 DEF ConsumersInTime
  <2>1. CASE d # c
    <3>1. stage'[d] = stage[d] /\ since'[d] = since[d]
      BY <1>1, <2>1 DEF ServerInv, ServerTypeOK
    <3>2. Takes(d)' = Takes(d)
      BY <3>1 DEF Takes
    <3> QED
      BY <3>1, <3>2 DEF ServerInv, ConsumersInTime
  <2>2. CASE d = c
    <3>1. phase = "serving" /\ since'[d] = now
      BY <1>1, <2>2 DEF ServerInv, ServerTypeOK
    <3>2. Takes(d)' \in Nat
      BY ServerProcessAssumption DEF Takes
    <3> QED
      BY <1>2, <3>1, <3>2
  <2> QED
    BY <2>1, <2>2
<1>5. WaitIsLong' /\ DrainIsWhole' /\ CutOffLate'
  BY <1>1 DEF ServerInv, WaitIsLong, DrainIsWhole, CutOffLate, InFlight
<1> QED
  BY <1>1, <1>3, <1>4, <1>5 DEF ServerInv

LEMMA SignalStep ==
    ASSUME ServerInv, Signal PROVE ServerInv'
<1>1. /\ phase = "serving" /\ phase' = "draining"
      /\ deadline' = now + ShutdownTimeout /\ signalAt' = now
      /\ UNCHANGED <<now, arriving, stage, since, running, cutOff, killed>>
  BY DEF Signal, limiterVars, consumerVars
<1>2. now \in Nat /\ ~cutOff
  BY <1>1 DEF ServerInv, ServerTypeOK, CutOffLate
<1>3. ServerTypeOK'
  BY <1>1, <1>2, Durations DEF ServerInv, ServerTypeOK
<1>4. ConsumersInTime'
  <2> SUFFICES ASSUME NEW c \in Consumers, stage[c] # "stopped"
               PROVE  /\ since[c] <= now
                      /\ stage[c] # "backoff" => now <= since[c] + Takes(c)'
    BY <1>1 DEF ConsumersInTime
  <2>1. Takes(c)' = Takes(c)
    BY <1>1 DEF Takes
  <2> QED
    BY <1>1, <2>1 DEF ServerInv, ConsumersInTime
<1>5. WaitIsLong' /\ DrainIsWhole' /\ CutOffLate'
  BY <1>1, <1>2 DEF WaitIsLong, DrainIsWhole, CutOffLate
<1> QED
  BY <1>1, <1>3, <1>4, <1>5 DEF ServerInv

\* Shutdown returned before its timeout only if nothing is in flight.
LEMMA CloseRequestClientStep ==
    ASSUME ServerInv, CloseRequestClient PROVE ServerInv'
<1>1. /\ phase = "draining" /\ phase' = "waiting"
      /\ deadline' = now + MaxStopDelay + WorkerStopMargin
      /\ InFlight = {} \/ now >= deadline
      /\ UNCHANGED <<now, arriving, stage, since, running, cutOff, killed, signalAt>>
  BY DEF CloseRequestClient, limiterVars, consumerVars, DrainOver
<1>2. /\ now \in Nat /\ ~cutOff /\ signalAt \in Nat /\ signalAt <= now
      /\ deadline = signalAt + ShutdownTimeout
  BY <1>1 DEF ServerInv, ServerTypeOK, CutOffLate, DrainIsWhole
<1>3. ServerTypeOK'
  BY <1>1, <1>2, Durations DEF ServerInv, ServerTypeOK
<1>4. ConsumersInTime'
  BY <1>1 DEF ServerInv, ConsumersInTime, Takes
<1>5. WaitIsLong' /\ CutOffLate'
  BY <1>1, <1>2, Durations DEF WaitIsLong, CutOffLate
<1>6. DrainIsWhole'
  <2>1. InFlight' = InFlight
    BY <1>1 DEF InFlight
  <2> QED
    BY <1>1, <1>2, <2>1, Durations DEF DrainIsWhole
<1> QED
  BY <1>1, <1>3, <1>4, <1>5, <1>6 DEF ServerInv

\* The wait is over when the consumers are: its timeout is longer than a read
\* that was begun before the signal.
LEMMA ReturnStep ==
    ASSUME ServerInv, Return PROVE ServerInv'
<1>1. /\ phase = "waiting" /\ phase' = "exited"
      /\ AllStopped \/ now >= deadline
      /\ UNCHANGED <<now, stage, since, cutOff, killed, signalAt>>
  BY DEF Return, limiterVars, consumerVars
<1>2. AllStopped
  <2> SUFFICES ASSUME now >= deadline, NEW c \in Consumers, stage[c] # "stopped"
               PROVE  FALSE
    BY <1>1 DEF AllStopped
  <2>1. now <= signalAt + MaxStopDelay + CommandTime
    BY <1>1, StopsInTime
  <2>2. deadline >= signalAt + MaxStopDelay + WorkerStopMargin
    BY <1>1 DEF ServerInv, WaitIsLong
  <2>3. now \in Nat /\ signalAt \in Nat /\ deadline \in Nat
    BY <1>1 DEF ServerInv, ServerTypeOK
  <2> QED
    BY <2>1, <2>2, <2>3, Durations
<1>3. ServerTypeOK'
  BY <1>1 DEF ServerInv, ServerTypeOK
<1>4. ConsumersInTime' /\ WaitIsLong' /\ DrainIsWhole'
  BY <1>1 DEF ConsumersInTime, WaitIsLong, DrainIsWhole
<1>5. CutOffLate'
  BY <1>1 DEF ServerInv, CutOffLate
<1>6. AllStopped'
  BY <1>1, <1>2 DEF AllStopped
<1> QED
  BY <1>3, <1>4, <1>5, <1>6 DEF ServerInv

LEMMA DieStep ==
    ASSUME ServerInv, Die PROVE ServerInv'
<1>1. /\ phase' = "exited" /\ killed' = TRUE
      /\ UNCHANGED <<now, stage, since, cutOff, signalAt>>
  BY DEF Die, limiterVars, consumerVars
<1> QED
  BY <1>1 DEF ServerInv, ServerTypeOK, ConsumersInTime, WaitIsLong, DrainIsWhole, CutOffLate

\* Time passes only while no command is overdue.
LEMMA TickStep ==
    ASSUME ServerInv, Tick PROVE ServerInv'
<1>1. /\ now' = now + 1 /\ now \in Nat /\ phase # "exited"
      /\ UNCHANGED <<arriving, phase, deadline, signalAt, killed, stage, since, running, cutOff>>
  BY DEF Tick, Alive, Elapse, mainVars, consumerVars, ServerInv, ServerTypeOK
<1>2. ServerTypeOK'
  BY <1>1 DEF ServerInv, ServerTypeOK
<1>3. ConsumersInTime'
  <2> SUFFICES ASSUME NEW c \in Consumers, stage[c] # "stopped"
               PROVE  /\ since[c] <= now'
                      /\ stage[c] # "backoff" => now' <= since[c] + Takes(c)'
                      /\ phase # "serving" => since[c] <= signalAt
                      /\ phase # "serving" => stage[c] # "backoff"
    BY <1>1 DEF ConsumersInTime
  <2>1. /\ now < since[c] + Takes(c)
        /\ stage[c] = "backoff" => phase = "serving"
    BY DEF Tick, ConsumersArePrompt, Cancelled
  <2>2. Takes(c)' = Takes(c) /\ Takes(c) \in Nat
    BY <1>1, ServerProcessAssumption DEF Takes
  <2>3. since[c] \in Nat /\ since[c] <= now /\ (phase # "serving" => since[c] <= signalAt)
    BY <1>1 DEF ServerInv, ServerTypeOK, ConsumersInTime
  <2> QED
    BY <1>1, <2>1, <2>2, <2>3
<1>4. WaitIsLong'
  BY <1>1 DEF ServerInv, WaitIsLong
<1>5. InFlight' = InFlight
  BY <1>1 DEF InFlight
<1>6. DrainIsWhole' /\ CutOffLate'
  BY <1>1, <1>5, Durations DEF ServerInv, ServerTypeOK, DrainIsWhole, CutOffLate
<1>7. (phase = "exited" /\ ~killed => AllStopped)'
  BY <1>1
<1> QED
  BY <1>2, <1>3, <1>4, <1>6, <1>7 DEF ServerInv

LEMMA ServerInvStep ==
    ASSUME ServerInv, [Next]_vars PROVE ServerInv'
<1>1. ASSUME NEW r \in Requests, NEW a \in Addresses, ArriveAtApi(r, a) PROVE ServerInv'
  <2>1. /\ UNCHANGED <<now, mainVars, consumerVars, cutOff>> /\ phase = "serving"
    BY <1>1 DEF ArriveAtApi, Arrive, Cancelled
  <2> QED
    BY <2>1, RequestStep
<1>2. ASSUME NEW r \in Requests, ArriveAtHealth(r) PROVE ServerInv'
  <2>1. /\ UNCHANGED <<now, mainVars, consumerVars, cutOff>> /\ phase = "serving"
    BY <1>2 DEF ArriveAtHealth, Cancelled, limiterVars
  <2> QED
    BY <2>1, RequestStep
<1>3. ASSUME NEW r \in Requests, Decide(r) PROVE ServerInv'
  <2>1. /\ UNCHANGED <<now, mainVars, consumerVars, cutOff>>
        /\ arriving[r] # Absent /\ arriving' = [arriving EXCEPT ![r] = Absent]
        /\ running' \subseteq running \cup {r}
    BY <1>3 DEF Decide, Allow
  <2>2. InFlight' \subseteq InFlight
    <3> SUFFICES ASSUME NEW q, q \in InFlight' PROVE q \in InFlight
      OBVIOUS
    <3>1. CASE q \in running'
      BY <2>1, <3>1 DEF InFlight
    <3>2. CASE q \in Requests /\ arriving'[q] # Absent /\ q = r
      BY <2>1, <3>2 DEF InFlight
    <3>3. CASE q \in Requests /\ arriving'[q] # Absent /\ q # r
      BY <2>1, <3>3 DEF InFlight
    <3> QED
      BY <3>1, <3>2, <3>3 DEF InFlight
  <2> QED
    BY <2>1, <2>2, RequestStep
<1>4. ASSUME NEW r \in Requests, Finish(r) PROVE ServerInv'
  <2>1. /\ UNCHANGED <<limiterVars, mainVars, consumerVars>>
        /\ r \in running /\ running' = running \ {r}
        /\ cutOff' => cutOff \/ phase = "waiting"
    BY <1>4 DEF Finish
  <2>2. InFlight' \subseteq InFlight /\ InFlight # {}
    BY <2>1 DEF InFlight, limiterVars
  <2> QED
    BY <2>1, <2>2, RequestStep DEF limiterVars
<1>5. CASE CleanupRound
  <2>1. UNCHANGED <<now, mainVars, consumerVars, cutOff>> /\ phase = "serving"
    BY <1>5 DEF CleanupRound, Cleanup, Cancelled
  <2> QED
    BY <2>1, RequestStep
<1>6. ASSUME NEW c \in Consumers, Advance(c) \/ CommandFails(c) PROVE ServerInv'
  <2>1. phase # "exited" /\ (Goto(c, "command") \/ Goto(c, "read") \/ Goto(c, "backoff"))
    BY <1>6 DEF Advance, CommandFails, Alive
  <2>2. "command" \in Stages /\ "read" \in Stages /\ "backoff" \in Stages
    BY DEF Stages
  <2> QED
    BY <2>1, <2>2, ConsumerStep
<1>7. CASE UNCHANGED vars
  <2>1. UNCHANGED <<now, mainVars, consumerVars, cutOff>> /\ InFlight' = InFlight
    BY <1>7 DEF vars, limiterVars, InFlight
  <2> QED
    BY <2>1, RequestStep
<1> QED
  BY <1>1, <1>2, <1>3, <1>4, <1>5, <1>6, <1>7,
     SignalStep, DieStep, CloseRequestClientStep, ReturnStep, TickStep DEF Next

THEOREM ServerInvariant ==
    Spec => []ServerInv
BY ServerInvInit, ServerInvStep, PTL DEF Spec

-----------------------------------------------------------------------------
\* main.go:126: main closes the consumers' client after all of them stopped,
\* however long the drain took, if a command takes less than workerStopMargin.
THEOREM ConsumersStopBeforeReturn ==
    Spec => []ConsumersStopFirst
<1>1. ServerInv => ConsumersStopFirst
  BY DEF ServerInv, ConsumersStopFirst
<1> QED
  BY <1>1, ServerInvariant, PTL

\* README.md:148: one read after the signal the consumers are done, so they
\* add nothing to a shutdown timeout that is longer than that.
THEOREM ConsumersStopInTime ==
    Spec => []ConsumersStopOnSignal
<1>1. ServerInv => ConsumersStopOnSignal
  <2> SUFFICES ASSUME ServerInv, signalAt # Absent, ~killed,
                      now > signalAt + MaxStopDelay + CommandTime,
                      NEW c \in Consumers, stage[c] # "stopped"
               PROVE  FALSE
    BY DEF ConsumersStopOnSignal, AllStopped
  <2>1. phase \in {"serving", "draining", "waiting", "exited"} /\ phase # "exited"
    BY DEF ServerInv, ServerTypeOK, AllStopped
  <2>2. phase # "serving"
    BY DEF ServerInv, ServerTypeOK
  <2>3. now \in Nat /\ signalAt \in Nat
    BY DEF ServerInv, ServerTypeOK
  <2>4. now <= signalAt + MaxStopDelay + CommandTime
    BY <2>1, <2>2, StopsInTime
  <2> QED
    BY <2>3, <2>4, Durations
<1> QED
  BY <1>1, ServerInvariant, PTL

\* main.go:121: a handler whose command fails because the request client is
\* closed had all of SHUTDOWN_TIMEOUT to finish.
THEOREM CutOffOnlyLate ==
    Spec => []CutOffAfterTimeout
<1>1. ServerInv => CutOffAfterTimeout
  BY DEF ServerInv, CutOffLate, CutOffAfterTimeout
<1> QED
  BY <1>1, ServerInvariant, PTL

-----------------------------------------------------------------------------
\* While the server serves the cleanup is never late, and what it left in the
\* table at its last round, or what came in since, was seen recently enough.
CleanupInTime ==
    phase = "serving" =>
        /\ now <= cleanupAt /\ cleanupAt <= now + CleanupInterval
        /\ \A a \in Addresses : clients[a] # Absent =>
               cleanupAt - CleanupInterval - clients[a].lastSeen <= ClientTTL

\* The clock, the ticker and an entry are numbers.
LEMMA LimiterNumbers ==
    ASSUME LimiterInv
    PROVE  /\ now \in Nat /\ cleanupAt \in Nat /\ CleanupInterval \in Nat \ {0}
           /\ ClientTTL \in Nat /\ MaxWait \in Nat /\ MaxWait <= ClientTTL
           /\ \A a \in Addresses : clients[a] # Absent => clients[a].lastSeen \in Nat
<1>1. ASSUME NEW a \in Addresses, clients[a] # Absent PROVE clients[a].lastSeen \in Nat
  BY <1>1 DEF LimiterInv, LimiterTypeOK
<1> QED
  BY <1>1, RateLimiterAssumption, RefillAssumption DEF LimiterInv, LimiterTypeOK

\* A decided request was seen at most MaxWait ago: later than the last round
\* but for that, and MaxWait is within the time to live.
LEMMA AllowKeepsInTime ==
    ASSUME LimiterInv, CleanupInTime, NEW r \in Requests, Allow(r), phase' = phase
    PROVE  CleanupInTime'
<1> DEFINE b == arriving[r].from
           at == arriving[r].at
<1>1. /\ arriving[r] # Absent /\ arriving[r] \in Arrivals
      /\ now' = now /\ cleanupAt' = cleanupAt
  BY DEF Allow, LimiterInv, LimiterTypeOK, Arrivals
<1>2. b \in Addresses /\ at \in Nat /\ now - at <= MaxWait
  BY <1>1 DEF Arrivals, LimiterInv, WaitsAreShort
<1>3. \A a \in Addresses : clients'[a] # Absent =>
          clients'[a] = clients[a] \/ clients'[a].lastSeen = at
  <2>1. CASE Verdict(r) = "full"
    BY <2>1 DEF Allow
  <2>2. CASE Verdict(r) = "ok"
    <3> DEFINE bucket == [tokens |-> Level(b) - Cost, last |-> now, lastSeen |-> at]
    <3>1. clients' = [clients EXCEPT ![b] = bucket]
      BY <2>2 DEF Allow
    <3>2. bucket.lastSeen = at
      OBVIOUS
    <3> HIDE DEF bucket
    <3> QED
      BY <1>2, <3>1, <3>2 DEF LimiterInv, LimiterTypeOK
  <2>3. CASE Verdict(r) = "limited"
    <3>1. clients' = [clients EXCEPT ![b].lastSeen = at]
      BY <2>3 DEF Allow
    <3>2. clients[b] # Absent
      <4>1. ~(Level(b) >= Cost)
        BY <2>3 DEF Verdict
      <4> QED
        BY <4>1, RateLimiterAssumption, RefillAssumption DEF Level
    <3>3. clients[b] \in Buckets
      BY <1>2, <3>2 DEF LimiterInv, LimiterTypeOK, Buckets
    <3>4. clients'[b].lastSeen = at
      BY <1>2, <3>1, <3>3 DEF LimiterInv, LimiterTypeOK, Buckets
    <3>5. \A a \in Addresses \ {b} : clients'[a] = clients[a]
      BY <1>2, <3>1 DEF LimiterInv, LimiterTypeOK
    <3> QED
      BY <3>4, <3>5
  <2> QED
    BY <2>1, <2>2, <2>3 DEF Allow
<1> HIDE DEF b, at
<1> SUFFICES ASSUME phase = "serving"
             PROVE  \A a \in Addresses : clients'[a] # Absent =>
                        cleanupAt - CleanupInterval - clients'[a].lastSeen <= ClientTTL
  BY <1>1 DEF CleanupInTime
<1>4. cleanupAt <= now + CleanupInterval
  BY DEF CleanupInTime
<1>5. cleanupAt - CleanupInterval - at <= ClientTTL
  BY <1>2, <1>4, LimiterNumbers
<1> QED
  BY <1>3, <1>5 DEF CleanupInTime

\* A round comes when it is due; what it leaves was seen within the time to live.
LEMMA CleanupKeepsInTime ==
    ASSUME LimiterInv, CleanupInTime, Cleanup, phase' = phase
    PROVE  CleanupInTime'
<1>1. /\ now >= cleanupAt /\ now' = now
      /\ cleanupAt' = cleanupAt + CleanupInterval
      /\ clients' = [a \in Addresses |-> IF Idle(a) THEN Absent ELSE clients[a]]
  BY DEF Cleanup
<1> SUFFICES ASSUME phase = "serving"
             PROVE  /\ now <= cleanupAt' /\ cleanupAt' <= now + CleanupInterval
                    /\ \A a \in Addresses : clients'[a] # Absent =>
                           cleanupAt' - CleanupInterval - clients'[a].lastSeen <= ClientTTL
  BY <1>1 DEF CleanupInTime
<1>2. now = cleanupAt
  BY <1>1, LimiterNumbers DEF CleanupInTime
<1>3. ASSUME NEW a \in Addresses, clients'[a] # Absent
      PROVE  /\ clients[a] # Absent /\ clients'[a] = clients[a]
             /\ now - clients[a].lastSeen <= ClientTTL
  <2>1. clients[a] # Absent /\ clients'[a] = clients[a] /\ ~Idle(a)
    BY <1>1, <1>3
  <2> QED
    BY <2>1, LimiterNumbers DEF Idle
<1> QED
  BY <1>1, <1>2, <1>3, LimiterNumbers

LEMMA CleanupInTimeInit == Init => CleanupInTime
BY RateLimiterAssumption DEF Init, LimiterInit, CleanupInTime

LEMMA CleanupInTimeStep ==
    ASSUME LimiterInv, CleanupInTime, [Next]_vars PROVE CleanupInTime'
<1>1. ASSUME UNCHANGED <<now, clients, cleanupAt>>,
             phase' = phase \/ phase' \in {"draining", "waiting", "exited"}
      PROVE  CleanupInTime'
  BY <1>1 DEF CleanupInTime
<1>2. ASSUME NEW r \in Requests, NEW a \in Addresses, ArriveAtApi(r, a) PROVE CleanupInTime'
  BY <1>1, <1>2 DEF ArriveAtApi, Arrive, mainVars
<1>3. ASSUME NEW r \in Requests, ArriveAtHealth(r) \/ Finish(r) PROVE CleanupInTime'
  BY <1>1, <1>3 DEF ArriveAtHealth, Finish, mainVars, limiterVars
<1>4. ASSUME NEW r \in Requests, Decide(r) PROVE CleanupInTime'
  BY <1>4, AllowKeepsInTime DEF Decide, mainVars
<1>5. CASE CleanupRound
  BY <1>5, CleanupKeepsInTime DEF CleanupRound, mainVars
<1>6. ASSUME NEW c \in Consumers, Advance(c) \/ CommandFails(c) PROVE CleanupInTime'
  <2>1. UNCHANGED <<now, clients, cleanupAt, phase>>
    BY <1>6 DEF Advance, CommandFails, Goto, limiterVars, mainVars
  <2> QED
    BY <1>1, <2>1
<1>7. CASE Signal \/ Die \/ CloseRequestClient \/ Return
  BY <1>1, <1>7 DEF Signal, Die, CloseRequestClient, Return, limiterVars
<1>8. CASE Tick
  <2>1. /\ now' = now + 1 /\ UNCHANGED <<clients, cleanupAt, phase>>
        /\ phase = "serving" => now < cleanupAt
    BY <1>8 DEF Tick, Elapse, mainVars, CleanupIsPrompt
  <2>2. \A a \in Addresses : clients'[a] = clients[a]
    BY <2>1
  <2>3. phase = "serving" => now' <= cleanupAt /\ cleanupAt <= now' + CleanupInterval
    BY <2>1, LimiterNumbers DEF CleanupInTime
  <2> QED
    BY <2>1, <2>2, <2>3 DEF CleanupInTime
<1>9. CASE UNCHANGED vars
  BY <1>1, <1>9 DEF vars, limiterVars, mainVars
<1> QED
  BY <1>2, <1>3, <1>4, <1>5, <1>6, <1>7, <1>8, <1>9 DEF Next

\* ratelimit.go:110: as long as the server serves, an entry outlives its
\* address's last request by clientTTL and a period of the ticker at most.
THEOREM IdleEntriesGo ==
    Spec => []IdleIsForgotten
<1>1. LimiterInv /\ CleanupInTime => IdleIsForgotten
  <2> SUFFICES ASSUME LimiterInv, CleanupInTime, phase = "serving",
                      NEW a \in Addresses, clients[a] # Absent
               PROVE  now - clients[a].lastSeen <= ClientTTL + CleanupInterval
    BY DEF IdleIsForgotten
  <2> QED
    BY LimiterNumbers DEF CleanupInTime
<1>2. Spec => []LimiterInv
  BY ServerImplementsLimiter, LimiterInvariant, PTL
<1> QED
  BY <1>1, <1>2, CleanupInTimeInit, CleanupInTimeStep, PTL DEF Spec
=============================================================================
