----------------------------- MODULE HistoryWait -----------------------------
(***************************************************************************)
(* The demo script that writes a random history and checks what the API    *)
(* returns of it (apiscripts/randomhistory).  The history view is filled   *)
(* by a consumer, so the script polls a page until it takes the view to be *)
(* complete, and only then compares.  Its player is fresh: the whole       *)
(* history is what it has written, and it writes nothing while it waits.   *)
(***************************************************************************)
EXTENDS LedgerConsumer

CONSTANT PageLimit   \* historyPageLimit, the server's cap on a page

ASSUME HistoryWaitAssumption == PageLimit \in Nat \ {0}

\* The script's writes, newest first, and what a list of entries says.
Written(h) ==
    LET all == History(h, Len(stream))
    IN  CHOOSE s \in [1..Cardinality(all) -> all] :
            \A i, j \in DOMAIN s : i < j => s[i] > s[j]
Said(ids) == [k \in DOMAIN ids |-> stream[ids[k]].content]

Want(h) == Smaller(Len(Written(h)), PageLimit)
Page(h) == PlayerHistory(h, Want(h))

\* Mutant of WaitIsOver: a full page, whatever its head.
WaitIsOverLength(h) ==
    /\ Len(Page(h)) = Want(h)
    /\ Page(h) # << >>

\* The page that ends the wait: full, and headed by what was written last.
WaitIsOver(h) ==
    /\ Len(Page(h)) = Want(h)
    /\ Page(h) # << >>
    /\ Head(Said(Page(h))) = Head(Said(Written(h)))

\* verifyHistory: the page is what was written last, event by event.
Verified(h) == Said(Page(h)) = SubSeq(Said(Written(h)), 1, Want(h))

\* The head tells that the consumer has passed the last write: the page shows
\* all writes, or no earlier one says the same.
HeadIsTelling(h) ==
    \/ Len(Written(h)) <= PageLimit
    \/ \A k \in 2..Len(Written(h)) : Said(Written(h))[k] # Head(Said(Written(h)))

\* "the consumer folds in stream order, so by then everything older is indexed
\* too" (randomhistory.go:129): when the wait is over the index is complete and
\* the comparison succeeds, whatever has failed in the consumer, provided that
\* the head is telling and that no millisecond has more entries than text order
\* can tell apart.
WaitMeansIndexed ==
    \A h \in Histories : WaitIsOver(h) /\ HeadIsTelling(h) /\ SequencesFit(h) =>
        index[h] = History(h, Len(stream)) /\ Verified(h)
=============================================================================
