----------------------------- MODULE ScoreWrites -----------------------------
(***************************************************************************)
(* The score write path (storage/scripts/apply_score_event.lua, run by     *)
(* storage/score_repo.go): a request is checked, applied to its board's    *)
(* projection, appended to the global ledger and remembered under its      *)
(* idempotency key, all in one Lua script and so in one atomic action.     *)
(*                                                                         *)
(* Rebuilds, which write projections without this script, are the subject  *)
(* of ProjectionAdmin; clients that lose replies and retry, of             *)
(* WriteClients.                                                           *)
(***************************************************************************)
EXTENDS Registry

CONSTANTS
    Keys,         \* Idempotency-Key values of score writes
    Amounts,      \* submitted scores and deltas
    MaxEvents     \* bound on the ledger's length

\* "entry_id|op|amount"
IdempotencyRecord == [entry : Nat, type : EventTypes, amount : Int]

\* The handlers run score.Validate on every submitted amount.
ASSUME ScoreWritesAssumption ==
    /\ MaxEvents \in Nat
    /\ Amounts \subseteq Int
    /\ \A a \in Amounts : InRange(a)
    /\ NoKey \notin Keys
    /\ Absent \notin IdempotencyRecord

VARIABLES
    projection,   \* app:view:leaderboard:{board}: a sorted set per board
    ledger,       \* app:ledger:events
    idempotency   \* app:ledger:idempotency, by <<board, player, key>>

scoreVars == <<projection, ledger, idempotency>>
vars == <<registryVars, scoreVars>>

Fields == Boards \X Players \X Keys

\* A score write as the storage layer receives it.
Request == [type : EventTypes, player : Players, board : Boards,
            amount : Amounts, key : Keys \cup {NoKey}]

TypeOK ==
    /\ RegistryTypeOK
    /\ projection \in [Boards -> Zset]
    /\ ledger \in Seq(Event)
    /\ idempotency \in [Fields -> IdempotencyRecord \cup {Absent}]

Init ==
    /\ RegistryInit
    /\ projection = [b \in Boards |-> EmptyZset]
    /\ ledger = << >>
    /\ idempotency = [f \in Fields |-> Absent]

-----------------------------------------------------------------------------
Field(r) == <<r.board, r.player, r.key>>

Seen(r) == r.key # NoKey /\ idempotency[Field(r)] # Absent

SameFingerprint(r) ==
    /\ idempotency[Field(r)].type = r.type
    /\ idempotency[Field(r)].amount = r.amount

\* Mutant of Resulting: only the submitted amount is bounded.
ResultingAmountOnly(r) == r.amount

\* The score the write would leave, as the script computes it beforehand.
Resulting(r) ==
    r.amount + IF r.type = "set" THEN 0
               ELSE ScoreOrZero(projection[r.board], r.player)

\* Mutants of Code: without the board's EXISTS check; with the board's state
\* looked up ahead of the idempotency record.
CodeWithoutBoardCheck(r) ==
    IF Seen(r) THEN IF SameFingerprint(r) THEN "deduped" ELSE "idempotency_conflict"
    ELSE IF profiles[r.player] = Absent THEN "player_not_found"
    ELSE IF boardState[r.board] = "closed" THEN "board_closed"
    ELSE IF ~InRange(Resulting(r)) THEN "score_out_of_range"
    ELSE "applied"

CodeBoardFirst(r) ==
    IF profiles[r.player] = Absent THEN "player_not_found"
    ELSE IF boardState[r.board] = Absent THEN "board_not_found"
    ELSE IF boardState[r.board] = "closed" THEN "board_closed"
    ELSE IF Seen(r) THEN IF SameFingerprint(r) THEN "deduped" ELSE "idempotency_conflict"
    ELSE IF ~InRange(Resulting(r)) THEN "score_out_of_range"
    ELSE "applied"

\* The script's decision, in the order of its early returns.
Code(r) ==
    IF Seen(r) THEN IF SameFingerprint(r) THEN "deduped" ELSE "idempotency_conflict"
    ELSE IF profiles[r.player] = Absent THEN "player_not_found"
    ELSE IF boardState[r.board] = Absent THEN "board_not_found"
    ELSE IF boardState[r.board] = "closed" THEN "board_closed"
    ELSE IF ~InRange(Resulting(r)) THEN "score_out_of_range"
    ELSE "applied"

\* Mutant of Accepted: the out-of-range code is not mapped to an error.
AcceptedByDefault(code) ==
    code \notin {"player_not_found", "board_not_found", "board_closed", "idempotency_conflict"}

\* SetScore and IncrementScore report a replay like the first application.
Accepted(code) == code \in {"applied", "deduped"}

\* Mutant of EventOf: a type the replay does not know.
EventOfSigned(r) == [type |-> IF r.amount < 0 THEN "decrement" ELSE r.type,
                     player |-> r.player, board |-> r.board, amount |-> r.amount]

EventOf(r) == [type |-> r.type, player |-> r.player,
               board |-> r.board, amount |-> r.amount]

\* Mutants of Remember: the record names the entry before its own; increments
\* are not recorded at all.
RememberPrevious(r) ==
    IF r.key = NoKey THEN idempotency
    ELSE [idempotency EXCEPT ![Field(r)] =
             [entry |-> Len(ledger), type |-> r.type, amount |-> r.amount]]

RememberSetsOnly(r) ==
    IF r.key = NoKey \/ r.type # "set" THEN idempotency
    ELSE [idempotency EXCEPT ![Field(r)] =
             [entry |-> Len(ledger) + 1, type |-> r.type, amount |-> r.amount]]

\* The record names the entry that is being appended.
Remember(r) ==
    IF r.key = NoKey THEN idempotency
    ELSE [idempotency EXCEPT ![Field(r)] =
             [entry |-> Len(ledger) + 1, type |-> r.type, amount |-> r.amount]]

\* Mutant of ApplyScoreEvent: the projection is written ahead of the range check.
ApplyProjectionFirst(r) ==
    /\ projection' = IF Code(r) \in {"applied", "score_out_of_range"}
                     THEN [projection EXCEPT ![r.board] = Fold(@, r)] ELSE projection
    /\ \/ /\ Code(r) = "applied"
          /\ Len(ledger) < MaxEvents
          /\ ledger' = Append(ledger, EventOf(r))
          /\ idempotency' = Remember(r)
       \/ /\ Code(r) # "applied"
          /\ UNCHANGED <<ledger, idempotency>>
    /\ UNCHANGED registryVars

ApplyScoreEvent(r) ==
    /\ \/ /\ Code(r) = "applied"
          /\ Len(ledger) < MaxEvents
          /\ projection' = [projection EXCEPT ![r.board] = Fold(@, r)]
          /\ ledger' = Append(ledger, EventOf(r))
          /\ idempotency' = Remember(r)
       \/ /\ Code(r) # "applied"
          /\ UNCHANGED scoreVars
    /\ UNCHANGED registryVars

\* HEXPIRE: Redis drops the field 24 h after it was written.
ExpireKey(f) ==
    /\ idempotency[f] # Absent
    /\ idempotency' = [idempotency EXCEPT ![f] = Absent]
    /\ UNCHANGED <<projection, ledger, registryVars>>

Next ==
    \/ RegistryNext /\ UNCHANGED scoreVars
    \/ \E r \in Request : ApplyScoreEvent(r)
    \/ \E f \in Fields : ExpireKey(f)

Spec == Init /\ [][Next]_vars

-----------------------------------------------------------------------------
\* Rule 1 of docs/architecture.md: a projection can be deleted and rebuilt
\* from the ledger with the same result.  The write script maintains the
\* projection by single updates and never replays; the two must agree on
\* every board after any sequence of writes, rejections and replays.
ProjectionIsReplay == \A b \in Boards : projection[b] = Replay(ledger, b)

\* Every prefix of the ledger replays into scores within +-score.Max, which
\* is what lets rebuild and the as-of read fold without clamping
\* (apply_score_event.lua:71, score_repo.go:217).
PrefixesInRange ==
    \A b \in Boards, n \in 0..Len(ledger), p \in Players :
        LET s == ReplaySteps(ledger, b)[n][p] IN s = Absent \/ InRange(s)

\* Rule 4: a player's standing is the last value set plus the increments
\* after it; no earlier event matters.
EventsOf(b, p) ==
    {i \in 1..Len(ledger) : ledger[i].board = b /\ ledger[i].player = p}

SetsOf(b, p) == {i \in EventsOf(b, p) : ledger[i].type = "set"}

\* The position of the last set, or 0 where there is none.
LastSet(b, p) ==
    CHOOSE m \in SetsOf(b, p) \cup {0} : \A i \in SetsOf(b, p) : i <= m

\* What each entry adds to the player's standing, and a sequence of such
\* numbers added up: sum[n] is that of the first n.
Counted(b, p) ==
    [i \in 1..Len(ledger) |->
        IF i \in EventsOf(b, p) /\ i >= LastSet(b, p) THEN ledger[i].amount ELSE 0]

PartialSums(a) ==
    LET sum[n \in 0..Len(a)] == IF n = 0 THEN 0 ELSE sum[n-1] + a[n]
    IN  sum

SnapshotBarrier ==
    \A b \in Boards, p \in Players :
        projection[b][p] =
            IF EventsOf(b, p) = {} THEN Absent
            ELSE PartialSums(Counted(b, p))[Len(ledger)]

\* A record answers a retry with the entry of its own write: the entry it
\* names exists, was made by the same operation on the same board and
\* player, and answers for no other key.
RecordsNameTheirEntry ==
    \A f \in Fields : idempotency[f] # Absent =>
        LET rec == idempotency[f] IN
        /\ rec.entry \in 1..Len(ledger)
        /\ ledger[rec.entry] = [type |-> rec.type, player |-> f[2],
                                board |-> f[1], amount |-> rec.amount]
        /\ \A g \in Fields :
               idempotency[g] # Absent /\ idempotency[g].entry = rec.entry => g = f

\* Events exist only for registered players and boards, although the ledger
\* is written without foreign keys.
EventsHaveOwners ==
    \A i \in 1..Len(ledger) :
        profiles[ledger[i].player] # Absent /\ boardState[ledger[i].board] # Absent
=============================================================================
