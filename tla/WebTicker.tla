------------------------------ MODULE WebTicker ------------------------------
(***************************************************************************)
(* The live ledger of the page (web/app.js): a ticker that pages through   *)
(* the event feed (handlers/event_handler.go, storage/event_repo.go) by a  *)
(* cursor, and takes up its rows and cursor again after a reload.          *)
(*                                                                         *)
(* Entry ids are 1, 2, 3, ...; they grow with time, so a cursor made from  *)
(* the browser's clock is the last id there is: the page assumes that the  *)
(* browser's and Redis's clocks agree.  A flush of Redis removes all       *)
(* entries; ids go on growing.  Both stored items are written at one go:   *)
(* a browser that refuses one is taken to refuse both.  An entry may be    *)
(* malformed, which only a hand-edited ledger can have.                    *)
(***************************************************************************)
EXTENDS Integers, Sequences, FiniteSets, SequencesExt

CONSTANTS
    EventLimit,    \* EVENT_LIMIT
    TickerMax,     \* TICKER_MAX
    MaxId,         \* bound on the entries ever appended
    MaxFlushes,    \* bound on flushes of Redis
    MaxReloads,    \* bound on reloads of the page
    MaxFaults,     \* bound on requests that fail
    MaxMalformed,  \* bound on entries that do not decode
    NotStored      \* nothing in localStorage

ASSUME WebTickerAssumption ==
    /\ EventLimit \in Nat \ {0} /\ TickerMax \in Nat \ {0}
    /\ {MaxId, MaxFlushes, MaxReloads, MaxFaults, MaxMalformed} \subseteq Nat

VARIABLES
    base, last,          \* the ledger holds the ids base + 1 .. last
    malformed,           \* the ids of entries that do not decode
    eventCursor, events, \* the page: its cursor, and its rows, newest first
    tickerPolling,       \* the single-flight flag
    polls,               \* pollEvents calls under way
    stored,              \* ticker_cursor and ticker_events
    since,               \* history: where the page's rows begin
    flushes, reloads, faults   \* so far

ledger == <<base, last, malformed>>
page == <<eventCursor, events, tickerPolling, polls, since>>
counts == <<flushes, reloads, faults>>
tickerVars == <<ledger, page, stored, counts>>

Ids == 1..MaxId
Poll == [slot : 1..2, after : 0..MaxId, at : {"fetch", "names"}, found : Seq(Ids)]

TickerTypeOK ==
    /\ base \in 0..MaxId /\ last \in base..MaxId /\ malformed \subseteq 1..last
    /\ eventCursor \in 0..MaxId /\ since \in 0..MaxId
    /\ events \in Seq(Ids) /\ Len(events) <= TickerMax
    /\ tickerPolling \in BOOLEAN
    /\ polls \subseteq Poll
    /\ stored \in [cursor : 0..MaxId, events : Seq(Ids), since : 0..MaxId] \cup {NotStored}
    /\ flushes \in 0..MaxFlushes /\ reloads \in 0..MaxReloads /\ faults \in 0..MaxFaults

\* A first visit: restoreTicker finds nothing and starts at the tail.
TickerInit ==
    /\ base = 0 /\ last \in 0..1 /\ malformed = {}
    /\ eventCursor = last /\ events = << >> /\ since = last
    /\ tickerPolling = FALSE /\ polls = {}
    /\ stored = [cursor |-> last, events |-> << >>, since |-> last]
    /\ flushes = 0 /\ reloads = 0 /\ faults = 0

-----------------------------------------------------------------------------
AppendEntry(valid) ==
    /\ last < MaxId
    /\ last' = last + 1
    /\ \/ valid /\ UNCHANGED malformed
       \/ /\ ~valid /\ Cardinality(malformed) < MaxMalformed
          /\ malformed' = malformed \cup {last + 1}
    /\ UNCHANGED <<base, page, stored, counts>>

\* Redis is flushed, or replaced by an empty one.
Flush ==
    /\ flushes < MaxFlushes /\ base < last
    /\ base' = last
    /\ flushes' = flushes + 1
    /\ UNCHANGED <<last, malformed, page, stored, reloads, faults>>

\* Mutant of FeedPage: the newest events after the cursor, not the oldest.
FeedPageNewest(after) ==
    LET from == IF after < base THEN base ELSE after
        size == IF last - from < EventLimit THEN last - from ELSE EventLimit
    IN  [i \in 1..(IF size < 0 THEN 0 ELSE size) |-> last - size + i]

\* ListEventsAfter: XRANGE (after + COUNT limit, oldest first.  A cursor may be
\* ahead of the ledger.
FeedPage(after) ==
    LET from == IF after < base THEN base ELSE after
        size == IF last - from < EventLimit THEN last - from ELSE EventLimit
    IN  [i \in 1..(IF size < 0 THEN 0 ELSE size) |-> from + i]

\* Mutant of StartPoll: without the single-flight check.
StartPollAlways ==
    /\ \E slot \in 1..2 :
          /\ \A p \in polls : p.slot # slot
          /\ polls' = polls \cup
                 {[slot |-> slot, after |-> eventCursor, at |-> "fetch", found |-> << >>]}
    /\ tickerPolling' = TRUE
    /\ UNCHANGED <<ledger, eventCursor, events, since, stored, counts>>

\* The timer, the end of a score write or of a tool.
StartPoll ==
    /\ ~tickerPolling
    /\ \E slot \in 1..2 :
          /\ \A p \in polls : p.slot # slot
          /\ polls' = polls \cup
                 {[slot |-> slot, after |-> eventCursor, at |-> "fetch", found |-> << >>]}
    /\ tickerPolling' = TRUE
    /\ UNCHANGED <<ledger, eventCursor, events, since, stored, counts>>

\* The feed answers; an empty page ends the poll, and so does an error: one
\* malformed entry fails the whole page.
AnswerPoll(p) ==
    /\ p.at = "fetch"
    /\ LET found == FeedPage(p.after) IN
       IF found = << >> \/ \E i \in DOMAIN found : found[i] \in malformed
       THEN polls' = polls \ {p} /\ tickerPolling' = FALSE
       ELSE /\ polls' = (polls \ {p}) \cup {[p EXCEPT !.at = "names", !.found = found]}
            /\ UNCHANGED tickerPolling
    /\ UNCHANGED <<ledger, eventCursor, events, since, stored, counts>>

Shown(found) ==
    LET all == Reverse(found) \o events
    IN  SubSeq(all, 1, IF Len(all) < TickerMax THEN Len(all) ELSE TickerMax)

\* The names are there: rows and cursor change together and are stored, unless
\* the browser refuses.
FinishPoll(p, saved) ==
    /\ p.at = "names"
    /\ polls' = polls \ {p}
    /\ tickerPolling' = FALSE
    /\ eventCursor' = p.found[Len(p.found)]     \* metadata.next_after
    /\ events' = Shown(p.found)
    /\ stored' = IF saved THEN [cursor |-> eventCursor', events |-> events', since |-> since]
                 ELSE stored
    /\ UNCHANGED <<ledger, since, counts>>

\* Mutant of FailPoll: the flag is cleared on success only.
FailPollBusy(p) ==
    /\ p.at = "fetch"
    /\ faults < MaxFaults
    /\ faults' = faults + 1
    /\ polls' = polls \ {p}
    /\ UNCHANGED <<ledger, eventCursor, events, tickerPolling, since, stored, flushes, reloads>>

FailPoll(p) ==
    /\ p.at = "fetch"
    /\ faults < MaxFaults
    /\ faults' = faults + 1
    /\ polls' = polls \ {p}
    /\ tickerPolling' = FALSE
    /\ UNCHANGED <<ledger, eventCursor, events, since, stored, flushes, reloads>>

\* ledgerContinuesFrom: the oldest entry of the feed is not newer than the cursor.
\* A probe that cannot run, or fails on a malformed head, counts as yes.
Continues(cursor, answered) ==
    ~answered \/ base + 1 \in malformed \/ (base < last /\ base + 1 <= cursor)

\* What restoreTicker leaves in the page and in the store.
Restored(cursor, rows, from, keep) ==
    /\ eventCursor' = cursor
    /\ events' = rows
    /\ since' = from
    /\ stored' = keep

\* The page is loaded again: what was under way is gone, and restoreTicker runs
\* before the timer starts.  A stored cursor is resumed when it is recent;
\* otherwise the ticker starts at the tail below the rows it had.
Reload(fresh, answered) ==
    /\ reloads < MaxReloads
    /\ reloads' = reloads + 1
    /\ tickerPolling' = FALSE /\ polls' = {}
    /\ IF stored = NotStored
       THEN Restored(last, << >>, last, [cursor |-> last, events |-> << >>, since |-> last])
       ELSE IF ~Continues(stored.cursor, answered)
       THEN Restored(last, << >>, last, NotStored)
       ELSE IF fresh
       THEN Restored(stored.cursor, stored.events, stored.since, stored)
       ELSE Restored(last, stored.events, last, [stored EXCEPT !.cursor = last, !.since = last])
    /\ UNCHANGED <<ledger, flushes, faults>>

TickerNext ==
    \/ \E valid \in BOOLEAN : AppendEntry(valid)
    \/ Flush \/ StartPoll
    \/ \E p \in polls :
          \/ AnswerPoll(p) \/ FailPoll(p)
          \/ \E saved \in BOOLEAN : FinishPoll(p, saved)
    \/ \E fresh \in BOOLEAN, answered \in BOOLEAN : Reload(fresh, answered)

\* The timer fires every five seconds for ever, and requests that do not fail
\* are answered.
Fairness ==
    /\ WF_tickerVars(StartPoll)
    /\ WF_tickerVars(\E p \in polls :
          AnswerPoll(p) \/ \E saved \in BOOLEAN : FinishPoll(p, saved))

TickerSpec == TickerInit /\ [][TickerNext]_tickerVars /\ Fairness

-----------------------------------------------------------------------------
\* "two polls with the same cursor would prepend the same events twice"
\* (web/README.md, request freshness): no row is shown twice or out of order,
\* and none is ahead of the cursor, through reloads, lost writes to the store
\* and flushes.
RowsAreOrdered ==
    /\ \A i \in 1..(Len(events) - 1) : events[i] > events[i + 1]
    /\ events # << >> => events[1] <= eventCursor

\* The ticker leaves nothing out: of the entries that exist between the point
\* where the page's rows begin and its cursor, each is shown unless newer rows
\* fill the list.  A reload that resumes a recent cursor "closes the gap"
\* (app.js:544).
NothingIsSkipped ==
    \A id \in (since + 1)..eventCursor :
        base < id /\ id <= last =>
            \/ \E i \in DOMAIN events : events[i] = id
            \/ Len(events) = TickerMax /\ id < events[TickerMax]

\* "A burst larger than EVENT_LIMIT is not lost: the cursor advances one page
\* per tick until the feed catches up" (app.js:619), also after failed polls;
\* nothing but a malformed entry within the next page ever stops it.
CatchesUp ==
    <>[](\/ base = last \/ eventCursor >= last
         \/ \E i \in DOMAIN FeedPage(eventCursor) : FeedPage(eventCursor)[i] \in malformed)
=============================================================================
