--------------------------- MODULE LedgerConsumer ---------------------------
(***************************************************************************)
(* The asynchronous consumers (consumer/consumer.go and their stores):     *)
(* each tails the ledger from its own durable cursor, folds a batch into   *)
(* its view, then saves the cursor.  Two views exist: the daily activity   *)
(* counts, whose ZINCRBY is not idempotent, and the player history index,  *)
(* whose ZADD is.                                                          *)
(*                                                                         *)
(* Of the write path a consumer sees only that the stream grows, so that   *)
(* is all that is modelled of it here.  An entry is reduced to its id, its *)
(* player and board, what it says, and whether entryToEvent accepts it.    *)
(***************************************************************************)
EXTENDS Integers, Sequences, FiniteSets, SequencesExt

CONSTANTS
    Players,
    Boards,
    Clocks,       \* what Redis's clock may read, in milliseconds
    DayLength,    \* milliseconds of a UTC day
    SeqScale,     \* seqScale: sequence numbers an index score has room for
    Radix,        \* base in which an entry id is written
    Contents,     \* type and amount of the n-th write
    BatchCount,   \* batchCount: entries an XREAD returns at most
    MaxMalformed, \* bound on entries that do not decode (a hand-edited ledger)
    MaxFaults     \* bound on failed commands and crashes

MaxEntries == Len(Contents)   \* bound on the stream's length

\* Digits of n as it is written.
Width(n) == IF n = 0 THEN 1 ELSE CHOOSE w \in 1..n : Radix^(w-1) <= n /\ n < Radix^w

ASSUME LedgerConsumerAssumption ==
    /\ Clocks \subseteq Nat /\ Clocks # {} /\ DayLength \in Nat \ {0}
    /\ SeqScale \in Nat \ {0} /\ Radix \in Nat \ {0, 1}
    /\ Contents \in Seq(Range(Contents))
    /\ BatchCount \in Nat \ {0} /\ MaxMalformed \in Nat /\ MaxFaults \in Nat

Views == {"daily_activity", "player_history"}
DayOf(ms) == ms \div DayLength
Days == {DayOf(ms) : ms \in Clocks}
EntryId == [ms : Clocks, seq : Nat]
Entry == [id : EntryId, player : Players, board : Boards,
          content : Range(Contents), valid : BOOLEAN]
Batch == [first : Nat, last : Nat]
NoBatch == [first |-> 1, last |-> 0]
Histories == Players \X Boards

VARIABLES
    stream,   \* app:ledger:events
    cursor,   \* app:consumer:{name}:cursor; 0 stands for "0-0" or missing
    pc,       \* where each consumer's processOnce is
    from,     \* the cursor it loaded
    batch,    \* the entries it read: their first and last position
    counts,   \* app:view:activity:daily:{day}: count per player
    index,    \* app:view:player:history:{player}:{board}: positions of entries
    faults    \* failures so far

durable == <<stream, cursor, counts, index>>
vars == <<durable, pc, from, batch, faults>>

TypeOK ==
    /\ stream \in Seq(Entry)
    /\ cursor \in [Views -> Nat]
    /\ pc \in [Views -> {"load", "read", "apply", "save"}]
    /\ from \in [Views -> Nat]
    /\ batch \in [Views -> Batch]
    /\ counts \in [Days -> [Players -> Nat]]
    /\ index \in [Histories -> SUBSET Nat]
    /\ faults \in Nat

Init ==
    /\ stream = << >>
    /\ cursor = [v \in Views |-> 0]
    /\ pc = [v \in Views |-> "load"]
    /\ from = [v \in Views |-> 0]
    /\ batch = [v \in Views |-> NoBatch]
    /\ counts = [d \in Days |-> [p \in Players |-> 0]]
    /\ index = [h \in Histories |-> {}]
    /\ faults = 0

-----------------------------------------------------------------------------
\* The id XADD gives an entry: Redis's clock, or, where that has not moved on
\* or has stepped back, the next sequence number of the last entry's.
NextId(clock) ==
    IF stream # << >> /\ clock <= stream[Len(stream)].id.ms
    THEN [stream[Len(stream)].id EXCEPT !.seq = @ + 1]
    ELSE [ms |-> clock, seq |-> 0]

\* The write path appends; the stream is never trimmed.
XAdd(p, b, valid, clock) ==
    /\ Len(stream) < MaxEntries
    /\ ~valid => Cardinality({i \in DOMAIN stream : ~stream[i].valid}) < MaxMalformed
    /\ stream' = Append(stream,
           [id |-> NextId(clock), player |-> p, board |-> b,
            content |-> Contents[Len(stream) + 1], valid |-> valid])
    /\ UNCHANGED <<cursor, counts, index, pc, from, batch, faults>>

Goto(v, step) == pc' = [pc EXCEPT ![v] = step]

Smaller(x, y) == IF x < y THEN x ELSE y

\* processOnce: LoadCursor ...
LoadCursor(v) ==
    /\ pc[v] = "load"
    /\ from' = [from EXCEPT ![v] = cursor[v]]
    /\ Goto(v, "read")
    /\ UNCHANGED <<durable, batch, faults>>

\* ... XREAD after it: nothing new, and the block times out ...
ReadNothing(v) ==
    /\ pc[v] = "read"
    /\ from[v] >= Len(stream)
    /\ Goto(v, "load")
    /\ UNCHANGED <<durable, from, batch, faults>>

\* What an XREAD after position n returns.
NextBatch(n) == [first |-> n + 1, last |-> Smaller(n + BatchCount, Len(stream))]

\* Mutants of ReadBatch: the cursor is saved as soon as the batch is read; the
\* read includes the entry at the cursor; it returns the newest entries.
ReadBatchAndSave(v) ==
    /\ pc[v] = "read" /\ from[v] < Len(stream)
    /\ batch' = [batch EXCEPT ![v] = NextBatch(from[v])]
    /\ cursor' = [cursor EXCEPT ![v] = batch'[v].last]
    /\ Goto(v, "apply")
    /\ UNCHANGED <<stream, counts, index, from, faults>>

ReadBatchInclusive(v) ==
    /\ pc[v] = "read" /\ from[v] < Len(stream)
    /\ batch' = [batch EXCEPT ![v] =
           NextBatch(IF from[v] = 0 THEN 0 ELSE from[v] - 1)]
    /\ Goto(v, "apply")
    /\ UNCHANGED <<durable, from, faults>>

ReadBatchNewest(v) ==
    /\ pc[v] = "read" /\ from[v] < Len(stream)
    /\ batch' = [batch EXCEPT ![v] =
           NextBatch(IF Len(stream) - BatchCount < from[v] THEN from[v]
                     ELSE Len(stream) - BatchCount)]
    /\ Goto(v, "apply")
    /\ UNCHANGED <<durable, from, faults>>

\* ... or up to BatchCount entries.
ReadBatch(v) ==
    /\ pc[v] = "read" /\ from[v] < Len(stream)
    /\ batch' = [batch EXCEPT ![v] = NextBatch(from[v])]
    /\ Goto(v, "apply")
    /\ UNCHANGED <<durable, from, faults>>

\* The entries of a batch that decode; the rejected ones are skipped.
Events(v) == {i \in batch[v].first..batch[v].last : stream[i].valid}

OnDayOf(i, p, d) == stream[i].player = p /\ DayOf(stream[i].id.ms) = d
InHistory(i, h) == <<stream[i].player, stream[i].board>> = h

\* These events of the batch, as the view's pipeline applies them: one ZINCRBY,
\* or one ZADD keyed by the entry, for each.
ApplyEvents(v, done) ==
    IF v = "daily_activity"
    THEN /\ counts' = [d \in Days |-> [p \in Players |->
                 counts[d][p] + Cardinality({i \in done : OnDayOf(i, p, d)})]]
         /\ UNCHANGED index
    ELSE /\ index' = [h \in Histories |-> index[h] \cup {i \in done : InHistory(i, h)}]
         /\ UNCHANGED counts

Apply(v) ==
    /\ pc[v] = "apply"
    /\ ApplyEvents(v, Events(v))
    /\ Goto(v, "save")
    /\ UNCHANGED <<stream, cursor, from, batch, faults>>

\* The pipeline, in order, up to one of its events.
ApplyPrefix(v) ==
    /\ pc[v] = "apply"
    /\ \E k \in Events(v) : ApplyEvents(v, {i \in Events(v) : i <= k})

\* Mutants of LastId: the id of the last event instead of the last entry; for a
\* batch without events, the zero id or the cursor as it was.
LastEventOr(v, none) ==
    IF Events(v) = {} THEN none
    ELSE CHOOSE i \in Events(v) : \A j \in Events(v) : j <= i
LastEventOrZero(v) == LastEventOr(v, 0)
LastEventOrCursor(v) == LastEventOr(v, from[v])

LastId(v) == batch[v].last

SaveCursor(v) ==
    /\ pc[v] = "save"
    /\ cursor' = [cursor EXCEPT ![v] = LastId(v)]
    /\ batch' = [batch EXCEPT ![v] = NoBatch]
    /\ Goto(v, "load")
    /\ UNCHANGED <<stream, counts, index, from, faults>>

\* A command fails or the process dies: whatever was in memory is given up and
\* the next round starts from the saved cursor.
Abort(v) ==
    /\ faults < MaxFaults
    /\ faults' = faults + 1
    /\ batch' = [batch EXCEPT ![v] = NoBatch]
    /\ Goto(v, "load")
    /\ UNCHANGED <<stream, from>>

FailCommand(v) ==
    /\ Abort(v)
    /\ UNCHANGED <<cursor, counts, index>>

\* The connection breaks in the middle of the pipeline, which is not a
\* transaction: a prefix of it, or all of it, has been applied.
FailInPipeline(v) ==
    /\ ApplyPrefix(v)
    /\ Abort(v)
    /\ UNCHANGED cursor

\* The same break, and the library sends the pipeline again by itself.
ResendPipeline(v) ==
    /\ ApplyPrefix(v)
    /\ faults < MaxFaults
    /\ faults' = faults + 1
    /\ UNCHANGED <<stream, cursor, pc, from, batch>>

\* The cursor is saved but the reply is lost.
FailAfterSave(v) ==
    /\ pc[v] = "save"
    /\ cursor' = [cursor EXCEPT ![v] = LastId(v)]
    /\ Abort(v)
    /\ UNCHANGED <<counts, index>>

ProcessOnce(v) ==
    LoadCursor(v) \/ ReadNothing(v) \/ ReadBatch(v) \/ Apply(v) \/ SaveCursor(v)

Fault(v) ==
    FailCommand(v) \/ FailInPipeline(v) \/ ResendPipeline(v) \/ FailAfterSave(v)

Next ==
    \/ \E p \in Players, b \in Boards, valid \in BOOLEAN, clock \in Clocks :
           XAdd(p, b, valid, clock)
    \/ \E v \in Views : ProcessOnce(v) \/ Fault(v)

Spec == Init /\ [][Next]_vars

\* Run loops until the process is told to stop, and backs off for a second
\* after a failure instead of giving up: every consumer keeps taking steps.
\* Writes and faults are owed to nobody.
FairSpec == Spec /\ \A v \in Views : WF_vars(ProcessOnce(v))

-----------------------------------------------------------------------------
\* Reading the history index, a sorted set of entry ids.

\* Text order, in which a sorted set puts members of equal score ("10" is
\* before "2"): numbers of different widths are filled up with zeros.
TextBefore(m, n) ==
    LET x == m * Radix^Width(n)
        y == n * Radix^Width(m)
    IN  IF Width(m) = Width(n) THEN m < n
        ELSE x < y \/ (x = y /\ Width(m) < Width(n))

IdBefore(a, b) ==
    TextBefore(a.ms, b.ms) \/ (a.ms = b.ms /\ TextBefore(a.seq, b.seq))

\* Mutant of StreamIdScore: all scores are equal, and the ids decide.
StreamIdScoreNone(id) == 0

\* streamIDScore: both halves of the id in one number, a double that holds it
\* exactly as long as it is below 2^53: until the year 2039.
StreamIdScore(id) == id.ms * SeqScale + Smaller(id.seq, SeqScale - 1)

\* Entry i is before entry j in ZRANGE REV.
Newer(i, j) ==
    LET a == stream[i].id
        b == stream[j].id
    IN  \/ StreamIdScore(a) > StreamIdScore(b)
        \/ StreamIdScore(a) = StreamIdScore(b) /\ IdBefore(b, a)

\* What ZRANGE REV lists of a set of entries.
InReverse(S) ==
    CHOOSE s \in [1..Cardinality(S) -> S] :
        \A i, j \in DOMAIN s : i < j => Newer(s[i], s[j])

\* PlayerHistory: a page of the index; every id in it resolves, as the stream
\* keeps all entries and the index holds only those that decode.
PlayerHistory(h, limit) ==
    SubSeq(InReverse(index[h]), 1, Smaller(limit, Cardinality(index[h])))

-----------------------------------------------------------------------------
\* Among the first n entries: a player's valid ones of day d, over all boards;
\* and a history's.
OnDay(p, d, n) ==
    {i \in 1..n : stream[i].valid /\ OnDayOf(i, p, d)}
History(h, n) ==
    {i \in 1..n : stream[i].valid /\ InHistory(i, h)}

\* "A count can be inflated, but data is never lost" (docs/architecture.md:196):
\* whatever fails and whenever, every entry the cursor has passed is counted,
\* and no entry is counted more often than there were failures to repeat it.
NeverLost ==
    \A d \in Days, p \in Players :
        /\ counts[d][p] >= Cardinality(OnDay(p, d, cursor["daily_activity"]))
        /\ counts[d][p] <= (1 + faults) * Cardinality(OnDay(p, d, Len(stream)))

\* Without failures between apply and save the counts are exact.
ExactUnlessFaulty ==
    \A d \in Days, p \in Players :
        faults = 0 /\ pc["daily_activity"] # "save"
            => counts[d][p] = Cardinality(OnDay(p, d, cursor["daily_activity"]))

\* A player's history is the whole of its entries up to some point, with no
\* holes and nothing foreign: an entry in it never overtakes an earlier one,
\* although batches are interrupted halfway and replayed.
HistoryHasNoHoles ==
    \A h \in Histories : \E n \in cursor["player_history"]..Len(stream) :
        index[h] = History(h, n)

\* The clamp loses the order of the sequence numbers from SeqScale - 1 on; the
\* text order still has it, as long as those numbers are equally wide: with
\* 4096, as long as no entry of the history has 10000 or a later number of its
\* millisecond.
SequencesFit(h) ==
    \A i \in index[h] : stream[i].id.seq >= SeqScale - 1 =>
        Width(stream[i].id.seq) = Width(SeqScale - 1)

\* A history page is newest first in the order of the ledger: with several
\* entries in one millisecond, with more of them than an index score has room
\* for, up to ten thousand, and although Redis's clock steps back.
PagesAreNewestFirst ==
    \A h \in Histories : SequencesFit(h) =>
        LET page == PlayerHistory(h, MaxEntries)
        IN  \A k \in 1..Len(page) - 1 : page[k] > page[k+1]

\* The cursor never moves back, so a view is never folded from the start again.
CursorAdvances == [][\A v \in Views : cursor'[v] >= cursor[v]]_cursor

\* What is written to the ledger reaches both views in the end: neither a
\* malformed entry nor a finite number of failures wedges a consumer.
EveryEntryArrives ==
    \A n \in 1..MaxEntries, v \in Views : Len(stream) >= n ~> cursor[v] >= n
=============================================================================
