------------------------------- MODULE Ledger -------------------------------
(***************************************************************************)
(* The data every part of Apex shares: score events, the sorted set that   *)
(* holds one board's standings, and the replay of a ledger into such a     *)
(* set.  Nothing here has state.                                           *)
(*                                                                         *)
(* A sorted set maps members to doubles.  Scores are integers of magnitude *)
(* far below 2^53 (score/score.go), so doubles behave as integers here; an *)
(* absent member is the constant Absent.                                   *)
(***************************************************************************)
EXTENDS Integers, Sequences

CONSTANTS
    Players,    \* player ids a request may name, registered or not
    Boards,     \* board ids a request may name, registered or not
    MaxScore,   \* score.Max
    Absent      \* "no such member": what ZSCORE answers with nil

ASSUME LedgerAssumption == /\ MaxScore \in Nat
                           /\ Absent \notin Int

\* score.Validate, and the bound the write script applies to its result.
InRange(v) == -MaxScore <= v /\ v <= MaxScore

EventTypes == {"set", "increment"}

\* An entry of the stream.  Its id is its position: XADD with '*' hands out
\* strictly increasing ids and nothing trims the stream.
Event == [type : EventTypes, player : Players, board : Boards, amount : Int]

Zset == [Players -> Int \cup {Absent}]
EmptyZset == [p \in Players |-> Absent]

\* The value an increment starts from: a missing member counts as 0.
ScoreOrZero(z, p) == IF z[p] = Absent THEN 0 ELSE z[p]

\* Mutant of NewScore: a set adds to the current score.
NewScoreAdds(z, e) == ScoreOrZero(z, e.player) + e.amount

\* The member's score after ZADD (set) or ZINCRBY (increment).
NewScore(z, e) ==
    IF e.type = "set" THEN e.amount ELSE ScoreOrZero(z, e.player) + e.amount

Fold(z, e) == [z EXCEPT ![e.player] = NewScore(z, e)]

\* ReplaySteps(l, b)[n] is board b's sorted set after the first n events of
\* ledger l; the events of other boards are skipped.
ReplaySteps(l, b) ==
    LET z[n \in 0..Len(l)] ==
            IF n = 0 THEN EmptyZset
            ELSE IF l[n].board = b THEN Fold(z[n-1], l[n])
            ELSE z[n-1]
    IN  z

Replay(l, b) == ReplaySteps(l, b)[Len(l)]
=============================================================================
