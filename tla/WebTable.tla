------------------------------- MODULE WebTable -------------------------------
(***************************************************************************)
(* The leaderboard table and the history panel of the page (web/app.js).   *)
(* JavaScript runs one handler at a time but gives way at every await:     *)
(* timers, clicks and other answers run before a call goes on.  A call     *)
(* keeps the selection it started with and gives up when a newer call has  *)
(* been started since.                                                     *)
(*                                                                         *)
(* The server is external: an answer is any page that some board size      *)
(* allows.  Of a row nothing is kept; a page is a number of rows.          *)
(***************************************************************************)
EXTENDS Integers

CONSTANTS
    Boards, Players,
    None,          \* nothing selected, nothing shown
    PageSizes,     \* what the page-size picker offers
    MaxSize,       \* bound on a board's players
    MaxRequests,   \* bound on the refreshes ever started
    MaxHistory     \* bound on the history requests ever started

ASSUME WebTableAssumption ==
    /\ PageSizes \subseteq Nat \ {0}
    /\ MaxSize \in Nat /\ MaxRequests \in Nat /\ MaxHistory \in Nat
    /\ None \notin Boards /\ None \notin Players

VARIABLES
    boardId, limit, offset,     \* the selection
    rows, total, error,         \* the table: a page with its origin, the board's size
    refreshRequestId, refreshes,
    historyPlayerId, historyEvents, historyLoading,
    historyRequestId, histories

selection == <<boardId, limit, offset>>
table == <<rows, total, error, refreshRequestId, refreshes>>
history == <<historyPlayerId, historyEvents, historyLoading,
             historyRequestId, histories>>
tableVars == <<selection, table, history>>

\* The board, page size and offset a page was asked with, and its length.
NoRows == [board |-> None, limit |-> 1, offset |-> 0, count |-> 0]
Page == [board : Boards \cup {None}, limit : PageSizes \cup {1}, offset : Nat, count : Nat]

Refresh == [id : 1..MaxRequests, board : Boards, limit : PageSizes, offset : Nat,
            at : {"fetch", "refetch", "names"}, count : Nat, total : Nat]
History == [id : 1..MaxHistory, board : Boards, player : Players]

TableTypeOK ==
    /\ boardId \in Boards \cup {None} /\ limit \in PageSizes /\ offset \in Nat
    /\ rows \in Page /\ total \in 0..MaxSize /\ error \in BOOLEAN
    /\ refreshRequestId \in 0..MaxRequests /\ refreshes \subseteq Refresh
    /\ historyPlayerId \in Players \cup {None}
    /\ historyEvents \in [board : Boards, player : Players] \cup {None}
    /\ historyLoading \in BOOLEAN
    /\ historyRequestId \in Nat /\ histories \subseteq History

TableInit ==
    /\ boardId \in Boards \cup {None} /\ limit \in PageSizes /\ offset = 0
    /\ rows = NoRows /\ total = 0 /\ error = FALSE
    /\ refreshRequestId = 0 /\ refreshes = {}
    /\ historyPlayerId = None /\ historyEvents = None /\ historyLoading = FALSE
    /\ historyRequestId = 0 /\ histories = {}

-----------------------------------------------------------------------------
\* The rows of a page: what the API returns for a board of that size.
PageCount(size, lim, off) ==
    IF size <= off THEN 0 ELSE IF size - off < lim THEN size - off ELSE lim

\* Mutant of LastPage: without the - 1 of a size that fills its last page.
LastPageFloor(size, lim) == (size \div lim) * lim

\* (Math.ceil(total / limit) - 1) * limit
LastPage(size, lim) == ((size + lim - 1) \div lim - 1) * lim

\* The first part of refresh(), up to its await, for the selection it finds.
StartRefresh(b, lim, off) ==
    /\ refreshRequestId < MaxRequests
    /\ refreshRequestId' = refreshRequestId + 1
    /\ refreshes' = IF b = None THEN refreshes
                    ELSE refreshes \cup
                         {[id |-> refreshRequestId + 1, board |-> b, limit |-> lim,
                           offset |-> off, at |-> "fetch", count |-> 0, total |-> 0]}

\* The timer, and the end of a score write: the same selection again.
PollBoard ==
    /\ StartRefresh(boardId, limit, offset)
    /\ IF boardId = None THEN rows' = NoRows /\ total' = 0 ELSE UNCHANGED <<rows, total>>
    /\ UNCHANGED <<selection, error, history>>

SelectBoard(b) ==
    /\ boardId' = b /\ offset' = 0 /\ UNCHANGED limit
    /\ rows' = NoRows /\ total' = 0
    /\ StartRefresh(b, limit, 0)
    /\ historyRequestId < MaxHistory
    /\ historyRequestId' = historyRequestId + 1
    /\ historyPlayerId' = None /\ historyEvents' = None /\ historyLoading' = FALSE
    /\ UNCHANGED <<error, histories>>

\* The end of createBoard and of runTool, after loadBoards has set or cleared
\* the error: table and history are left as they are.
SwitchBoard(b) ==
    /\ boardId' = b /\ offset' = 0 /\ UNCHANGED limit
    /\ error' \in BOOLEAN
    /\ StartRefresh(b, limit, 0)
    /\ UNCHANGED <<rows, total, history>>

SetPageSize(lim) ==
    /\ boardId # None
    /\ limit' = lim /\ offset' = 0 /\ UNCHANGED boardId
    /\ StartRefresh(boardId, lim, 0)
    /\ UNCHANGED <<rows, total, error, history>>

\* The pager's buttons are disabled unless hasNext, hasPrev.
NextPage ==
    /\ boardId # None
    /\ offset + limit < total
    /\ offset' = offset + limit /\ UNCHANGED <<boardId, limit>>
    /\ StartRefresh(boardId, limit, offset')
    /\ UNCHANGED <<rows, total, error, history>>

PrevPage ==
    /\ boardId # None
    /\ offset > 0
    /\ offset' = (IF offset > limit THEN offset - limit ELSE 0)
    /\ UNCHANGED <<boardId, limit>>
    /\ StartRefresh(boardId, limit, offset')
    /\ UNCHANGED <<rows, total, error, history>>

Current(c) == c.id = refreshRequestId

\* A page arrives.  One that is empty although the board is not makes the call
\* fetch the last page; an answer to an old call ends the call.
Answer(c, size) ==
    /\ c.at \in {"fetch", "refetch"}
    /\ LET count == PageCount(size, c.limit, c.offset)
           snap == c.at = "fetch" /\ count = 0 /\ c.offset > 0 /\ size > 0
           next == [c EXCEPT !.at = IF snap THEN "refetch" ELSE "names",
                             !.offset = IF snap THEN LastPage(size, c.limit) ELSE @,
                             !.count = count, !.total = size]
       IN  refreshes' = (refreshes \ {c}) \cup (IF Current(c) THEN {next} ELSE {})
    /\ UNCHANGED <<selection, rows, total, error, refreshRequestId, history>>

\* Mutant of Show: no look at the request id after the names have come.
ShowAnyway(c) ==
    /\ c.at = "names"
    /\ refreshes' = refreshes \ {c}
    /\ offset' = c.offset
    /\ rows' = [board |-> c.board, limit |-> c.limit, offset |-> c.offset,
                count |-> c.count]
    /\ total' = c.total
    /\ error' = FALSE
    /\ UNCHANGED <<boardId, limit, refreshRequestId, history>>

\* All names have come, or their lookups have failed: the table changes at once.
Show(c) ==
    /\ c.at = "names"
    /\ refreshes' = refreshes \ {c}
    /\ IF Current(c)
       THEN /\ offset' = c.offset
            /\ rows' = [board |-> c.board, limit |-> c.limit, offset |-> c.offset,
                        count |-> c.count]
            /\ total' = c.total
            /\ error' = FALSE
       ELSE UNCHANGED <<offset, rows, total, error>>
    /\ UNCHANGED <<boardId, limit, refreshRequestId, history>>

\* A page does not arrive.
FailRefresh(c) ==
    /\ c.at \in {"fetch", "refetch"}
    /\ refreshes' = refreshes \ {c}
    /\ error' = (error \/ Current(c))
    /\ UNCHANGED <<selection, rows, total, refreshRequestId, history>>

-----------------------------------------------------------------------------
\* A click on a row: of another player, or of the one whose history is shown.
LoadHistory(p) ==
    /\ boardId # None /\ rows.count > 0
    /\ historyRequestId < MaxHistory
    /\ historyRequestId' = historyRequestId + 1
    /\ historyEvents' = None
    /\ IF historyPlayerId = p
       THEN historyPlayerId' = None /\ historyLoading' = FALSE /\ UNCHANGED histories
       ELSE /\ historyPlayerId' = p /\ historyLoading' = TRUE
            /\ histories' = histories \cup
                   {[id |-> historyRequestId + 1, board |-> boardId, player |-> p]}
    /\ UNCHANGED <<selection, table>>

ClearHistory ==
    /\ historyPlayerId # None
    /\ historyRequestId < MaxHistory
    /\ historyRequestId' = historyRequestId + 1
    /\ historyPlayerId' = None /\ historyEvents' = None /\ historyLoading' = FALSE
    /\ UNCHANGED <<selection, table, histories>>

\* Mutant of EndHistory: the answer is taken whoever asked for it.
EndHistoryAny(h, arrived) ==
    /\ histories' = histories \ {h}
    /\ historyEvents' = IF arrived THEN [board |-> h.board, player |-> h.player] ELSE historyEvents
    /\ historyLoading' = (historyLoading /\ h.id # historyRequestId)
    /\ UNCHANGED <<selection, table, historyPlayerId, historyRequestId>>

\* The answer, or the failure, of a history request.
EndHistory(h, arrived) ==
    /\ histories' = histories \ {h}
    /\ historyEvents' =
           IF arrived /\ h.id = historyRequestId /\ h.player = historyPlayerId
           THEN [board |-> h.board, player |-> h.player] ELSE historyEvents
    /\ historyLoading' = (historyLoading /\ h.id # historyRequestId)
    /\ UNCHANGED <<selection, table, historyPlayerId, historyRequestId>>

TableNext ==
    \/ PollBoard \/ NextPage \/ PrevPage \/ ClearHistory
    \/ \E b \in Boards : SelectBoard(b) \/ SwitchBoard(b)
    \/ \E lim \in PageSizes : SetPageSize(lim)
    \/ \E c \in refreshes, size \in 0..MaxSize : Answer(c, size)
    \/ \E c \in refreshes : Show(c) \/ FailRefresh(c)
    \/ \E p \in Players : LoadHistory(p)
    \/ \E h \in histories, arrived \in BOOLEAN : EndHistory(h, arrived)

TableSpec == TableInit /\ [][TableNext]_tableVars

-----------------------------------------------------------------------------
Refreshing == \E c \in refreshes : Current(c)

\* "A response updates the page only while its id is still current"
\* (web/README.md, request freshness): however refreshes, answers and changes
\* of the selection overlap, once no current refresh is under way and the last
\* one did not fail, the table shows the page that is selected, and its rows
\* are a page of the size shown beside them.
TableShowsSelection ==
    refreshRequestId > 0 /\ boardId # None /\ ~Refreshing /\ ~error =>
        /\ rows.board = boardId
        /\ rows.limit = limit
        /\ rows.offset = offset
        /\ rows.count = PageCount(total, limit, offset)

\* The second fetch of a refresh asks for "the last page that has rows": it
\* starts on a row and no row is beyond it, for every size and page size.
SnapsToLastPage ==
    \A c \in refreshes :
        c.at = "refetch" => c.offset < c.total /\ c.total <= c.offset + c.limit

\* The panel shows the history of the player it names, and says "loading"
\* exactly while the request for it is under way.
HistoryMatchesPlayer ==
    /\ historyEvents # None => historyEvents.player = historyPlayerId
    /\ historyLoading <=> \E h \in histories : h.id = historyRequestId
=============================================================================
