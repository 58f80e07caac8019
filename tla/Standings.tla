------------------------------ MODULE Standings ------------------------------
(***************************************************************************)
(* Reads of a leaderboard (storage/score_repo.go, handlers/                *)
(* score_handler.go): a player's standing, a page of the live projection,  *)
(* and a page of the standings as of a past day, folded from the ledger.   *)
(* The first two are two Redis commands each, "pipelined, not atomic":     *)
(* writes and rebuilds run in between.  The third is one command and the   *)
(* rest in memory, so its answer is an operator on the state.              *)
(*                                                                         *)
(* Reads change nothing, so one read is followed among all the writers.    *)
(* Redis compares player ids bytewise, and so does Go: ids are numbers     *)
(* here, in that order.  The day of an entry is that of its id, which      *)
(* Redis takes from its own clock.  Which days may be asked for is the     *)
(* app's clock's matter and may be any: the two clocks are independent.    *)
(***************************************************************************)
EXTENDS ProjectionAdmin, FiniteSets

CONSTANTS
    LastDay,    \* bound on Redis's clock, which starts on day 1
    Limits,     \* values of the limit query, at least 1
    Offsets     \* values of the offset query

ASSUME StandingsAssumption ==
    /\ Players \subseteq Nat /\ IsFiniteSet(Players)
    /\ LastDay \in Nat \ {0}
    /\ Limits \subseteq Nat \ {0}
    /\ Offsets \subseteq Nat

VARIABLES
    stamps,     \* the day in the id of each ledger entry
    redisDay,   \* the day by Redis's clock
    read        \* the read that is followed, or Absent

standingsVars == <<adminVars, stamps, redisDay, read>>

Days == 1..LastDay
Row == [player : Players, score : Int, rank : Nat \ {0}]

\* `left` holds the commands still to be sent; `dropped` is a history
\* variable: a rebuild deleted the board's projection during the read.
Read == [kind : {"standing", "page"}, board : Boards, player : Players,
         limit : Limits, offset : Offsets, left : Seq({"rank", "card", "range"}),
         total : Nat, rows : Seq(Row), dropped : BOOLEAN]

StandingsTypeOK ==
    /\ AdminTypeOK
    /\ stamps \in Seq(Days) /\ Len(stamps) = Len(ledger)
    /\ redisDay \in Days
    /\ read \in Read \cup {Absent}

StandingsInit ==
    /\ AdminInit
    /\ stamps = << >>
    /\ redisDay = 1
    /\ read = Absent

-----------------------------------------------------------------------------
Members(z) == {p \in Players : z[p] # Absent}

\* The order of ZREVRANGE: highest score first, ties by member, descending.
Above(z, p) ==
    {q \in Members(z) : z[q] > z[p] \/ (z[q] = z[p] /\ q > p)}

RankOf(z, p) == Cardinality(Above(z, p)) + 1

AtRank(z, n) == CHOOSE p \in Members(z) : RankOf(z, p) = n

\* ZREVRANGE offset, offset + limit - 1, each row ranked by its position.
LivePage(z, limit, offset) ==
    LET size == Cardinality(Members(z))
        rows == IF size <= offset THEN 0
                ELSE IF size - offset < limit THEN size - offset ELSE limit
    IN  [i \in 1..rows |->
            LET p == AtRank(z, offset + i)
            IN  [player |-> p, score |-> z[p], rank |-> offset + i]]

\* Mutant of Cutoff: the day after is read as well.
CutoffOneDayMore(day) == Cardinality({i \in DOMAIN stamps : stamps[i] <= day + 1})

\* XRANGE - (<first millisecond of the next day>: how many entries it reads.
Cutoff(day) == Cardinality({i \in DOMAIN stamps : stamps[i] <= day})

\* The scores that ListStandingsAsOf folds, a map in Go.
AsOfScores(b, day) == Replay(SubSeq(ledger, 1, Cutoff(day)), b)

\* Mutant of SortsBefore: ties by player id, ascending.
SortsBeforeAscending(z, p, q) == z[p] > z[q] \/ (z[p] = z[q] /\ p < q)

\* The comparison of sort.Slice over the map's players ...
SortsBefore(z, p, q) == z[p] > z[q] \/ (z[p] = z[q] /\ p > q)

\* ... and what the sort leaves.
AsOfOrder(z) ==
    CHOOSE s \in [1..Cardinality(Members(z)) -> Members(z)] :
        \A i, j \in DOMAIN s : i < j => SortsBefore(z, s[i], s[j])

AsOfPage(b, day, limit, offset) ==
    LET z == AsOfScores(b, day)
        order == AsOfOrder(z)
        all == [i \in DOMAIN order |->
                   [player |-> order[i], score |-> z[order[i]], rank |-> i]]
    IN  SubSeq(all, offset + 1,
               IF offset + limit < Len(all) THEN offset + limit ELSE Len(all))

-----------------------------------------------------------------------------
\* Mutant of Commands: the pipelines the other way round.
CommandsSwapped(kind) ==
    CASE kind = "standing" -> <<"card", "rank">>
      [] kind = "page" -> <<"range", "card">>

\* The commands of GetStanding and of ListStandings.
Commands(kind) ==
    CASE kind = "standing" -> <<"rank", "card">>
      [] kind = "page" -> <<"card", "range">>

\* A request that passed its handler.  What a kind of read does not use is left
\* at a fixed value.
BeginRead ==
    /\ read = Absent
    /\ \E b \in Boards, p \in Players, limit \in Limits, offset \in Offsets,
          kind \in {"standing", "page"} :
          /\ kind = "page" => \A q \in Players : p <= q
          /\ kind = "standing" =>
                /\ \A l \in Limits : limit <= l
                /\ \A o \in Offsets : offset <= o
          /\ read' = [kind |-> kind, board |-> b, player |-> p,
                      limit |-> limit, offset |-> offset, left |-> Commands(kind),
                      total |-> 0, rows |-> << >>, dropped |-> FALSE]
    /\ UNCHANGED <<adminVars, stamps, redisDay>>

Sends(command) == read # Absent /\ read.left # << >> /\ Head(read.left) = command

\* ZREVRANK WITHSCORE: a missing member is "not found", whatever follows.
ReadRank ==
    /\ Sends("rank")
    /\ LET z == projection[read.board] IN
       read' = IF z[read.player] = Absent THEN Absent
               ELSE [read EXCEPT
                       !.left = Tail(@),
                       !.rows = <<[player |-> read.player, score |-> z[read.player],
                                   rank |-> RankOf(z, read.player)]>>]
    /\ UNCHANGED <<adminVars, stamps, redisDay>>

ReadCard ==
    /\ Sends("card")
    /\ read' = [read EXCEPT !.left = Tail(@),
                            !.total = Cardinality(Members(projection[read.board]))]
    /\ UNCHANGED <<adminVars, stamps, redisDay>>

ReadRange ==
    /\ Sends("range")
    /\ read' = [read EXCEPT
                  !.left = Tail(@),
                  !.rows = LivePage(projection[read.board], read.limit, read.offset)]
    /\ UNCHANGED <<adminVars, stamps, redisDay>>

Answered == read # Absent /\ read.left = << >>

EndRead ==
    /\ Answered
    /\ read' = Absent
    /\ UNCHANGED <<adminVars, stamps, redisDay>>

\* XADD '*': the clock's time, or the last id's if the clock is behind it.
Stamp ==
    IF stamps # << >> /\ stamps[Len(stamps)] > redisDay
    THEN stamps[Len(stamps)] ELSE redisDay

\* Everything the writers and the rebuilds do meanwhile.
OthersStep ==
    /\ AdminNext
    /\ stamps' = IF Len(ledger') > Len(ledger) THEN Append(stamps, Stamp) ELSE stamps
    /\ read' = IF /\ read # Absent
                  /\ \E p \in Players :
                        /\ projection[read.board][p] # Absent
                        /\ projection'[read.board][p] = Absent
               THEN [read EXCEPT !.dropped = TRUE] ELSE read
    /\ UNCHANGED redisDay

\* Redis's clock runs, and may be set back.
Clock ==
    /\ redisDay' \in {redisDay + 1, redisDay - 1} \cap Days
    /\ UNCHANGED <<adminVars, stamps, read>>

StandingsNext ==
    \/ BeginRead \/ ReadRank \/ ReadCard \/ ReadRange \/ EndRead
    \/ OthersStep
    \/ Clock

StandingsSpec == StandingsInit /\ [][StandingsNext]_standingsVars

-----------------------------------------------------------------------------
\* "Returns a player's standing and the total number of ranked players"
\* (interface.go:34): a rank is never beyond the total it is shown with, although
\* the two come from two commands, because writes only ever add members.  Only
\* a rebuild that drops the projection in between breaks it.
RankWithinTotal ==
    Answered /\ read.kind = "standing" /\ ~read.dropped =>
        read.rows[1].rank <= read.total

\* A page is never shorter than its own total makes it: a client that pages
\* until it has seen `total` rows never meets an empty page on the way, which is
\* why the size is read ahead of the page.
PagesAreFull ==
    Answered /\ read.kind = "page" /\ ~read.dropped =>
        \/ Len(read.rows) = read.limit
        \/ read.offset + Len(read.rows) >= read.total

\* Two implementations of one order: wherever the projection is the replay of
\* the ledger, every live page is the page that the as-of read folds and
\* sorts for a day that no entry is beyond.
AsOfNowIsLive ==
    \A b \in Boards :
        Drift(b) = {} =>
            \A limit \in 1..Cardinality(Players), offset \in 0..Cardinality(Players) :
                AsOfPage(b, LastDay, limit, offset) = LivePage(projection[b], limit, offset)

\* A past day is final: once the ledger holds an entry of a later day, no write,
\* rebuild or correction of Redis's clock changes the standings as of that day.
AsOfIsFinal ==
    [][\A b \in Boards, day \in Days :
          stamps # << >> /\ stamps[Len(stamps)] > day =>
              AsOfScores(b, day)' = AsOfScores(b, day)
      ]_standingsVars
=============================================================================
