---------------------------- MODULE TokenBucket ----------------------------
(***************************************************************************)
(* What RATE_LIMIT_RPS and RATE_LIMIT_BURST promise: every address has a   *)
(* bucket that is never forgotten.  It refills by one unit a tick up to    *)
(* Full, a request is admitted for Cost units, and only a request that     *)
(* finds fewer is told that it is limited.  A request may be turned away   *)
(* for another reason at any time.                                         *)
(***************************************************************************)
EXTENDS Integers

CONSTANTS Addresses, Full, Cost, Absent

VARIABLES
    level,    \* by address: the units in its bucket
    answer    \* the last request's address and the verdict on it, or Absent

bucketVars == <<level, answer>>

BucketInit ==
    /\ level = [a \in Addresses |-> Full]
    /\ answer = Absent

Admit(a) ==
    /\ level[a] >= Cost
    /\ level' = [level EXCEPT ![a] = @ - Cost]
    /\ answer' = <<a, "ok">>

Limit(a) ==
    /\ level[a] < Cost
    /\ answer' = <<a, "limited">>
    /\ UNCHANGED level

TurnAway(a) ==
    /\ answer' = <<a, "full">>
    /\ UNCHANGED level

Refill ==
    /\ level' = [a \in Addresses |-> IF level[a] < Full THEN level[a] + 1 ELSE Full]
    /\ UNCHANGED answer

BucketNext == Refill \/ \E a \in Addresses : Admit(a) \/ Limit(a) \/ TurnAway(a)

BucketSpec == BucketInit /\ [][BucketNext]_bucketVars
=============================================================================
