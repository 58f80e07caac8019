----------------------------- MODULE PageProofs -----------------------------
(***************************************************************************)
(* The page and the tools it starts: the tool runner, for any number of    *)
(* requests and any timeouts; then the page's table, history panel and     *)
(* live ledger, for any board and page sizes, lengths of the list and      *)
(* interleavings of its calls.                                             *)
(***************************************************************************)
EXTENDS ToolRunner, WebTable, WebTicker, SequenceTheorems, TLAPS

\* The token and the children belong to the one request that holds the slot.
SlotInv ==
    /\ \A r, s \in Requests : stage[r] = "run" /\ stage[s] = "run" => r = s
    /\ busy = 1 <=> \E r \in Requests : stage[r] = "run"
    /\ \A r \in Requests : tool[r] # "none" => stage[r] = "run"

\* How long a request has been where it is.
TimeInv ==
    \A r \in Requests :
        /\ stage[r] = "body" => age[r] <= ReadTimeout
        /\ stage[r] = "run" =>
               /\ began[r] < ReadTimeout /\ began[r] <= age[r]
               /\ Ran(r) <= Timeout
               /\ ctx[r] = "deadline" => Ran(r) >= Timeout

Inv == TypeOK /\ SlotInv /\ TimeInv /\ AnswersInTime

LEMMA ToolRunnerTypes == TypeOK /\ TimeInv /\ [Next]_vars => TypeOK'
<1> SUFFICES ASSUME TypeOK, TimeInv, [Next]_vars PROVE TypeOK'
    OBVIOUS
<1> USE ToolRunnerAssumption
<1>1. ASSUME NEW r \in Requests, Arrive(r) PROVE TypeOK'
      BY <1>1 DEF TypeOK, Arrive, NoAnswer, Answers
<1>2. ASSUME NEW r \in Requests, Dismiss(r) PROVE TypeOK'
      BY <1>2 DEF TypeOK, Dismiss
<1>3. ASSUME NEW r \in Requests, Take(r) PROVE TypeOK'
      BY <1>3 DEF TypeOK, Take
<1>4. ASSUME NEW r \in Requests, End(r) PROVE TypeOK'
      BY <1>4 DEF TypeOK, End
<1>5. ASSUME NEW r \in Requests, NEW why \in {"canceled", "deadline"}, Done(r, why)
      PROVE TypeOK'
      BY <1>5 DEF TypeOK, Done
<1>6. ASSUME NEW r \in Requests, Kill(r) PROVE TypeOK'
      BY <1>6 DEF TypeOK, Kill
<1>7. ASSUME NEW r \in Requests, Return(r) PROVE TypeOK'
  <2>1. Ran(r) \in Nat
        BY <1>7 DEF Return, Report, TimeInv, TypeOK, Ran
  <2>2. [ran |-> Ran(r), at |-> age[r], ok |-> tool[r] = "succeeded",
         timedOut |-> ctx[r] = "deadline"] \in Answers
        BY <2>1 DEF Answers, TypeOK
  <2>3. QED
        BY <1>7, <2>2 DEF Return, Report, TypeOK
<1>8. ASSUME Tick PROVE TypeOK'
      BY <1>8 DEF TypeOK, Tick
<1>9. ASSUME UNCHANGED vars PROVE TypeOK'
      BY <1>9 DEF TypeOK, vars
<1> QED
    BY <1>1, <1>2, <1>3, <1>4, <1>5, <1>6, <1>7, <1>8, <1>9
    DEF Next, Refuse, BodyTimeout, Conflict, HangUp, Expire

LEMMA SlotStep == TypeOK /\ SlotInv /\ [Next]_vars => SlotInv'
<1> SUFFICES ASSUME TypeOK, SlotInv, [Next]_vars PROVE SlotInv'
    OBVIOUS
<1>1. ASSUME NEW r \in Requests, Arrive(r) PROVE SlotInv'
      BY <1>1 DEF TypeOK, SlotInv, Arrive
<1>2. ASSUME NEW r \in Requests, Dismiss(r) PROVE SlotInv'
      BY <1>2 DEF TypeOK, SlotInv, Dismiss
<1>3. ASSUME NEW r \in Requests, Take(r) PROVE SlotInv'
  <2>1. \A s \in Requests : stage'[s] = "run" <=> s = r
        BY <1>3 DEF Take, TypeOK, SlotInv
  <2>2. \A s \in Requests : tool'[s] # "none" => s = r
        BY <1>3 DEF Take, TypeOK, SlotInv
  <2>3. busy' = 1
        BY <1>3 DEF Take
  <2>4. QED
        BY <2>1, <2>2, <2>3 DEF SlotInv
<1>4. ASSUME NEW r \in Requests, End(r) PROVE SlotInv'
      BY <1>4 DEF TypeOK, SlotInv, End
<1>5. ASSUME NEW r \in Requests, NEW why \in {"canceled", "deadline"}, Done(r, why)
      PROVE SlotInv'
      BY <1>5 DEF TypeOK, SlotInv, Done
<1>6. ASSUME NEW r \in Requests, Kill(r) PROVE SlotInv'
      BY <1>6 DEF TypeOK, SlotInv, Kill
<1>7. ASSUME NEW r \in Requests, Return(r) PROVE SlotInv'
  <2>1. \A s \in Requests : stage'[s] # "run"
        BY <1>7 DEF Return, Report, TypeOK, SlotInv
  <2>2. \A s \in Requests : tool'[s] = "none"
        BY <1>7 DEF Return, Report, TypeOK, SlotInv
  <2>3. busy' = 0
        BY <1>7 DEF Return
  <2>4. QED
        BY <2>1, <2>2, <2>3 DEF SlotInv
<1>8. ASSUME Tick PROVE SlotInv'
      BY <1>8 DEF SlotInv, Tick
<1>9. ASSUME UNCHANGED vars PROVE SlotInv'
      BY <1>9 DEF SlotInv, vars
<1> QED
    BY <1>1, <1>2, <1>3, <1>4, <1>5, <1>6, <1>7, <1>8, <1>9
    DEF Next, Refuse, BodyTimeout, Conflict, HangUp, Expire

LEMMA TimeStep == TypeOK /\ TimeInv /\ [Next]_vars => TimeInv'
<1> SUFFICES ASSUME TypeOK, TimeInv, [Next]_vars PROVE TimeInv'
    OBVIOUS
<1> USE ToolRunnerAssumption
<1>1. ASSUME NEW r \in Requests, Arrive(r) PROVE TimeInv'
      BY <1>1 DEF TypeOK, TimeInv, Arrive, Ran
<1>2. ASSUME NEW r \in Requests, Dismiss(r) PROVE TimeInv'
      BY <1>2 DEF TypeOK, TimeInv, Dismiss, Ran
<1>3. ASSUME NEW r \in Requests, Take(r) PROVE TimeInv'
      BY <1>3 DEF TypeOK, TimeInv, Take, Ran
<1>4. ASSUME NEW r \in Requests, End(r) PROVE TimeInv'
      BY <1>4 DEF TypeOK, TimeInv, End, Ran
<1>5. ASSUME NEW r \in Requests, HangUp(r) PROVE TimeInv'
      BY <1>5 DEF TypeOK, TimeInv, HangUp, Done, Ran
<1>6. ASSUME NEW r \in Requests, Expire(r) PROVE TimeInv'
      BY <1>6 DEF TypeOK, TimeInv, Expire, Done, Ran
<1>7. ASSUME NEW r \in Requests, Kill(r) PROVE TimeInv'
      BY <1>7 DEF TypeOK, TimeInv, Kill, Ran
<1>8. ASSUME NEW r \in Requests, Return(r) PROVE TimeInv'
      BY <1>8 DEF TypeOK, TimeInv, Return, Report, Ran
<1>9. ASSUME Tick PROVE TimeInv'
      BY <1>9 DEF TypeOK, TimeInv, Tick, Ran
<1>10. ASSUME UNCHANGED vars PROVE TimeInv'
      BY <1>10 DEF TimeInv, Ran, vars
<1> QED
    BY <1>1, <1>2, <1>3, <1>4, <1>5, <1>6, <1>7, <1>8, <1>9, <1>10
    DEF Next, Refuse, BodyTimeout, Conflict

LEMMA AnswersStep == TypeOK /\ TimeInv /\ AnswersInTime /\ [Next]_vars => AnswersInTime'
<1> SUFFICES ASSUME TypeOK, TimeInv, AnswersInTime, [Next]_vars PROVE AnswersInTime'
    OBVIOUS
<1> USE ToolRunnerAssumption DEF WriteTimeout
<1>1. ASSUME NEW r \in Requests, Arrive(r) PROVE AnswersInTime'
      BY <1>1 DEF TypeOK, AnswersInTime, Arrive, NoAnswer
<1>2. ASSUME NEW r \in Requests, Return(r) PROVE AnswersInTime'
  <2>1. /\ age[r] < Timeout + WriteSlack
        /\ ctx[r] = "deadline" => Ran(r) >= Timeout
        BY <1>2 DEF Return, TypeOK, TimeInv, Ran
  <2>2. answer' = [answer EXCEPT ![r] =
            [ran |-> Ran(r), at |-> age[r], ok |-> tool[r] = "succeeded",
             timedOut |-> ctx[r] = "deadline"]]
        BY <1>2 DEF Return, Report
  <2>3. ASSUME NEW s \in Requests
        PROVE  answer'[s].at < WriteTimeout /\ (answer'[s].timedOut => answer'[s].ran >= Timeout)
    <3>1. CASE s = r
          BY <2>1, <2>2, <3>1 DEF TypeOK
    <3>2. CASE s # r
      <4>1. answer'[s] = answer[s]
            BY <2>2, <3>2 DEF TypeOK
      <4>2. QED
            BY <4>1 DEF AnswersInTime
    <3>3. QED
          BY <3>1, <3>2
  <2>4. QED
        BY <2>3 DEF AnswersInTime
<1>3. ASSUME UNCHANGED answer PROVE AnswersInTime'
      BY <1>3 DEF AnswersInTime
<1> QED
    BY <1>1, <1>2, <1>3
    DEF Next, Refuse, BodyTimeout, Conflict, Dismiss, Take, End, HangUp, Expire,
        Done, Kill, Tick, vars

LEMMA ToolRunnerInv == Spec => []Inv
<1>1. Init => Inv
      BY ToolRunnerAssumption
      DEF Init, Inv, TypeOK, SlotInv, TimeInv, AnswersInTime, NoAnswer, Answers, WriteTimeout
<1>2. Inv /\ [Next]_vars => Inv'
      BY ToolRunnerTypes, SlotStep, TimeStep, AnswersStep DEF Inv
<1> QED
    BY <1>1, <1>2, PTL DEF Spec

\* The claim of main.go:35, for any number of requests.
THEOREM RunsOneTool == Spec => []OneToolAtATime
<1>1. Inv => OneToolAtATime
      BY DEF Inv, SlotInv, OneToolAtATime
<1> QED
    BY <1>1, ToolRunnerInv, PTL

\* An answer beats its connection's write deadline for all timeouts, so long as
\* the slack is no less than the time a body may take.
THEOREM AnswersBeatDeadline == Spec => []AnswersInTime
<1>1. Inv => AnswersInTime
      BY DEF Inv
<1> QED
    BY <1>1, ToolRunnerInv, PTL

-----------------------------------------------------------------------------
\* The table and the history panel (WebTable).

\* The last page starts on a row, and no row is beyond it.
LEMMA LastPageHasRows ==
    ASSUME NEW size \in Nat \ {0}, NEW lim \in Nat \ {0}
    PROVE  /\ LastPage(size, lim) \in Nat
           /\ LastPage(size, lim) < size /\ size <= LastPage(size, lim) + lim
<1> DEFINE q == (size + lim - 1) \div lim
           m == (size + lim - 1) % lim
<1>1. /\ q \in Int /\ m \in 0..(lim - 1)
      /\ size + lim - 1 = lim * q + m
  BY SMTT(60)
<1>2. LastPage(size, lim) = (q - 1) * lim
  BY DEF LastPage
<1>3. q >= 1
  <2>1. size + lim - 1 >= lim
    OBVIOUS
  <2> QED
    BY <2>1, SMTT(60)
<1> HIDE DEF q, m
<1>4. lim * q \in Int /\ (q - 1) * lim = lim * q - lim
  BY <1>1
<1>5. (q - 1) * lim \in Nat
  BY <1>1, <1>3, SMTT(60)
<1> QED
  BY <1>1, <1>2, <1>4, <1>5

Calls == [id : Nat, board : Boards, limit : PageSizes, offset : Nat,
          at : {"fetch", "refetch", "names"}, count : Nat, total : Nat]

\* The calls of refresh() that are under way: the current one was started for
\* what is selected, and a page that waits for its names is one of the board.
RefreshesOK ==
    /\ refreshRequestId \in Nat
    /\ refreshes \subseteq Calls
    /\ boardId \in Boards \cup {None}
    /\ limit \in PageSizes /\ offset \in Nat /\ total \in Nat
    /\ \A c, d \in refreshes : c.id = d.id => c = d
    /\ \A c \in refreshes :
           /\ c.id <= refreshRequestId
           /\ Current(c) => c.board = boardId /\ c.limit = limit
           /\ c.at = "names" => c.count = PageCount(c.total, c.limit, c.offset)

TableInv == RefreshesOK /\ TableShowsSelection /\ SnapsToLastPage

LEMMA TableInvInit == TableInit => TableInv
BY WebTableAssumption
   DEF TableInit, TableInv, RefreshesOK, TableShowsSelection, SnapsToLastPage

\* A refresh is started, for the selection as it is then.
LEMMA StartKeeps ==
    ASSUME TableInv, NEW b \in Boards, NEW lim \in PageSizes, NEW off \in Nat,
           StartRefresh(b, lim, off),
           boardId' = b, limit' = lim, offset' = off, total' \in Nat
    PROVE  TableInv'
<1> DEFINE new == [id |-> refreshRequestId + 1, board |-> b, limit |-> lim,
                   offset |-> off, at |-> "fetch", count |-> 0, total |-> 0]
<1>1. /\ refreshRequestId' = refreshRequestId + 1
      /\ refreshes' = refreshes \cup {new}
  BY WebTableAssumption DEF StartRefresh
<1>2. /\ refreshRequestId \in Nat
      /\ refreshes \subseteq Calls
      /\ \A c, d \in refreshes : c.id = d.id => c = d
      /\ \A c \in refreshes : c.id <= refreshRequestId
  BY DEF TableInv, RefreshesOK
<1>3. /\ new \in Calls
      /\ new.id = refreshRequestId + 1 /\ new.board = b /\ new.limit = lim
      /\ new.at = "fetch"
  BY <1>2 DEF Calls
<1> HIDE DEF new
<1>4. \A c \in refreshes : c.id # refreshRequestId + 1 /\ c.id <= refreshRequestId + 1
  BY <1>2 DEF Calls
<1>5. \A c, d \in refreshes' : c.id = d.id => c = d
  BY <1>1, <1>2, <1>3, <1>4
<1>6. \A c \in refreshes' :
          /\ c.id <= refreshRequestId'
          /\ c.id = refreshRequestId' => c.board = b /\ c.limit = lim
          /\ c.at = "names" => c.count = PageCount(c.total, c.limit, c.offset)
  BY <1>1, <1>2, <1>3, <1>4 DEF TableInv, RefreshesOK
<1>7. RefreshesOK'
  BY <1>1, <1>2, <1>3, <1>5, <1>6 DEF RefreshesOK, Current
<1>8. TableShowsSelection'
  BY <1>1, <1>3 DEF TableShowsSelection, Refreshing, Current
<1>9. SnapsToLastPage'
  BY <1>1, <1>3 DEF TableInv, SnapsToLastPage
<1> QED
  BY <1>7, <1>8, <1>9 DEF TableInv

\* With no board selected a refresh ends at once.
LEMMA PollKeeps == ASSUME TableInv, PollBoard PROVE TableInv'
<1>0. /\ limit \in PageSizes /\ offset \in Nat /\ total \in Nat
      /\ UNCHANGED <<boardId, limit, offset>>
  BY DEF TableInv, RefreshesOK, PollBoard, selection
<1>1. CASE boardId \in Boards
  <2>1. StartRefresh(boardId, limit, offset) /\ total' \in Nat
    BY <1>0, <1>1, WebTableAssumption DEF PollBoard
  <2> QED
    BY <1>0, <1>1, <2>1, StartKeeps
<1>2. CASE boardId = None
  <2>1. /\ refreshRequestId' = refreshRequestId + 1 /\ refreshes' = refreshes
        /\ total' = 0
    BY <1>2 DEF PollBoard, StartRefresh
  <2>2. \A c \in refreshes : c.id <= refreshRequestId + 1 /\ c.id # refreshRequestId + 1
    BY DEF TableInv, RefreshesOK, Calls
  <2>3. RefreshesOK'
    BY <1>0, <2>1, <2>2 DEF TableInv, RefreshesOK, Current
  <2>4. TableShowsSelection' /\ SnapsToLastPage'
    BY <1>0, <1>2, <2>1 DEF TableInv, TableShowsSelection, SnapsToLastPage
  <2> QED
    BY <2>3, <2>4 DEF TableInv
<1> QED
  BY <1>1, <1>2 DEF TableInv, RefreshesOK

\* A call goes on or ends; no other call notices, nor does what is shown.
LEMMA AnswerKeeps ==
    ASSUME TableInv, NEW c \in refreshes, NEW size \in 0..MaxSize, Answer(c, size)
    PROVE  TableInv'
<1> DEFINE count == PageCount(size, c.limit, c.offset)
           snap == c.at = "fetch" /\ count = 0 /\ c.offset > 0 /\ size > 0
           next == [c EXCEPT !.at = IF snap THEN "refetch" ELSE "names",
                             !.offset = IF snap THEN LastPage(size, c.limit) ELSE @,
                             !.count = count, !.total = size]
<1>1. /\ refreshes' = (refreshes \ {c}) \cup (IF Current(c) THEN {next} ELSE {})
      /\ UNCHANGED <<boardId, limit, offset, rows, total, error, refreshRequestId>>
  BY DEF Answer, selection
<1>2. /\ size \in Nat /\ refreshRequestId \in Nat
      /\ c \in Calls
      /\ c.limit \in Nat \ {0} /\ c.offset \in Nat
  <2>1. refreshRequestId \in Nat /\ c \in Calls
    BY DEF TableInv, RefreshesOK
  <2>2. size \in Nat
    BY WebTableAssumption
  <2>3. c.limit \in PageSizes /\ c.offset \in Nat
    BY <2>1 DEF Calls
  <2> QED
    BY <2>1, <2>2, <2>3, WebTableAssumption
<1>3. count \in Nat
  BY <1>2 DEF PageCount
<1>4. snap => /\ LastPage(size, c.limit) \in Nat
              /\ LastPage(size, c.limit) < size /\ size <= LastPage(size, c.limit) + c.limit
  BY <1>2, LastPageHasRows
<1>5. /\ next \in Calls
      /\ next.id = c.id /\ next.board = c.board /\ next.limit = c.limit
      /\ next.at = "names" => next.count = PageCount(next.total, next.limit, next.offset)
      /\ next.at = "refetch" => next.offset < next.total
                                /\ next.total <= next.offset + next.limit
  <2> HIDE DEF count, snap
  <2> DEFINE off == IF snap THEN LastPage(size, c.limit) ELSE c.offset
  <2>1. off \in Nat
    BY <1>2, <1>4
  <2>2. /\ next.id = c.id /\ next.board = c.board /\ next.limit = c.limit
        /\ next.offset = off /\ next.count = count /\ next.total = size
        /\ next.at = IF snap THEN "refetch" ELSE "names"
    BY <1>2
  <2>3. next \in Calls
    BY <1>2, <1>3, <2>1 DEF Calls
  <2>4. ~snap => count = PageCount(size, c.limit, off)
    BY DEF count
  <2> HIDE DEF next
  <2> QED
    BY <1>4, <2>2, <2>3, <2>4
<1> HIDE DEF count, snap, next
<1>6. ASSUME NEW d \in refreshes'
      PROVE  (d \in refreshes /\ d # c) \/ (d = next /\ Current(c))
  BY <1>1
<1>7. \A d, e \in refreshes' : d.id = e.id => d = e
  BY <1>5, <1>6 DEF TableInv, RefreshesOK
<1>8. RefreshesOK'
  <2>1. \A d \in refreshes' :
           /\ d \in Calls
           /\ d.id <= refreshRequestId
           /\ d.id = refreshRequestId => d.board = boardId /\ d.limit = limit
           /\ d.at = "names" => d.count = PageCount(d.total, d.limit, d.offset)
    BY <1>5, <1>6 DEF TableInv, RefreshesOK, Current
  <2> QED
    BY <1>1, <1>7, <2>1 DEF TableInv, RefreshesOK, Current
<1>9. SnapsToLastPage'
  BY <1>5, <1>6 DEF TableInv, SnapsToLastPage
<1>10. Refreshing' <=> Refreshing
  BY <1>1, <1>5, <1>6 DEF Refreshing, Current
<1>11. TableShowsSelection'
  BY <1>1, <1>10 DEF TableInv, TableShowsSelection
<1> QED
  BY <1>8, <1>9, <1>11 DEF TableInv

\* A call ends: the current one has changed the table or the error, no other does.
LEMMA ShowKeeps ==
    ASSUME TableInv, NEW c \in refreshes, Show(c) \/ FailRefresh(c)
    PROVE  TableInv'
<1>1. refreshes' = refreshes \ {c} /\ UNCHANGED <<boardId, limit, refreshRequestId>>
  BY DEF Show, FailRefresh, selection
<1>2. CASE ~Current(c)
  <2>1. UNCHANGED <<offset, rows, total>> /\ (error' <=> error)
    BY <1>2 DEF Show, FailRefresh, selection
  <2>2. RefreshesOK' /\ SnapsToLastPage'
    BY <1>1, <2>1 DEF TableInv, RefreshesOK, SnapsToLastPage, Current
  <2>3. Refreshing' <=> Refreshing
    BY <1>1, <1>2 DEF Refreshing, Current
  <2>4. TableShowsSelection'
    BY <1>1, <2>1, <2>3 DEF TableInv, TableShowsSelection
  <2> QED
    BY <2>2, <2>4 DEF TableInv
<1>3. CASE Current(c) /\ FailRefresh(c)
  <2>1. UNCHANGED <<offset, rows, total>> /\ error'
    BY <1>3 DEF FailRefresh, selection
  <2>2. RefreshesOK' /\ SnapsToLastPage' /\ TableShowsSelection'
    BY <1>1, <2>1 DEF TableInv, RefreshesOK, SnapsToLastPage, TableShowsSelection, Current
  <2> QED
    BY <2>2 DEF TableInv
<1>4. CASE Current(c) /\ Show(c)
  <2>1. /\ offset' = c.offset /\ total' = c.total /\ c.at = "names"
        /\ rows' = [board |-> c.board, limit |-> c.limit, offset |-> c.offset,
                    count |-> c.count]
    BY <1>4 DEF Show
  <2>2. /\ c.board = boardId /\ c.limit = limit
        /\ c.count = PageCount(c.total, c.limit, c.offset)
        /\ c.offset \in Nat /\ c.total \in Nat
    BY <1>4, <2>1 DEF TableInv, RefreshesOK, Calls
  <2>3. RefreshesOK' /\ SnapsToLastPage'
    BY <1>1, <2>1, <2>2 DEF TableInv, RefreshesOK, SnapsToLastPage, Current
  <2>4. TableShowsSelection'
    BY <1>1, <2>1, <2>2 DEF TableShowsSelection
  <2> QED
    BY <2>3, <2>4 DEF TableInv
<1> QED
  BY <1>2, <1>3, <1>4

LEMMA TableInvStep ==
    ASSUME TableInv, [TableNext]_tableVars PROVE TableInv'
<1>0. /\ boardId \in Boards \cup {None} /\ limit \in PageSizes /\ limit \in Nat \ {0}
      /\ offset \in Nat /\ total \in Nat
  BY WebTableAssumption DEF TableInv, RefreshesOK
<1>1. ASSUME NEW b \in Boards, SelectBoard(b) \/ SwitchBoard(b) PROVE TableInv'
  <2>1. /\ StartRefresh(b, limit, 0) /\ total' \in Nat
        /\ boardId' = b /\ limit' = limit /\ offset' = 0
    BY <1>0, <1>1 DEF SelectBoard, SwitchBoard
  <2> QED
    BY <1>0, <2>1, StartKeeps
<1>2. ASSUME NEW lim \in PageSizes, SetPageSize(lim) PROVE TableInv'
  BY <1>0, <1>2, StartKeeps DEF SetPageSize
<1>3. CASE NextPage \/ PrevPage
  <2>1. /\ boardId \in Boards /\ StartRefresh(boardId, limit, offset') /\ offset' \in Nat
        /\ UNCHANGED <<boardId, limit, total>>
    BY <1>0, <1>3 DEF NextPage, PrevPage
  <2> QED
    BY <1>0, <2>1, StartKeeps
<1>4. CASE \/ ClearHistory \/ UNCHANGED tableVars
           \/ \E p \in Players : LoadHistory(p)
           \/ \E h \in histories, arrived \in BOOLEAN : EndHistory(h, arrived)
  <2>1. UNCHANGED <<boardId, limit, offset, rows, total, error, refreshRequestId, refreshes>>
    BY <1>4 DEF ClearHistory, LoadHistory, EndHistory, tableVars, selection, table
  <2> QED
    BY <2>1 DEF TableInv, RefreshesOK, TableShowsSelection, SnapsToLastPage, Refreshing, Current
<1> QED
  BY <1>1, <1>2, <1>3, <1>4, PollKeeps, AnswerKeeps, ShowKeeps DEF TableNext

THEOREM TableInvariant == TableSpec => []TableInv
BY TableInvInit, TableInvStep, PTL DEF TableSpec

\* web/README.md, request freshness: with no refresh under way and none failed,
\* the table is the selected page of the board, for all board and page sizes.
THEOREM TableIsCurrent == TableSpec => []TableShowsSelection
<1>1. TableInv => TableShowsSelection
  BY DEF TableInv
<1> QED
  BY <1>1, TableInvariant, PTL

\* app.js:681: the page that a refresh falls back to has rows and is the last.
THEOREM FallsBackToLastPage == TableSpec => []SnapsToLastPage
<1>1. TableInv => SnapsToLastPage
  BY DEF TableInv
<1> QED
  BY <1>1, TableInvariant, PTL

\* Requests of the history panel are told apart by their ids.
HistoryInv ==
    /\ historyRequestId \in Nat
    /\ \A h \in histories : h.id \in Nat /\ h.id <= historyRequestId
    /\ \A h, i \in histories : h.id = i.id => h = i
    /\ HistoryMatchesPlayer

LEMMA HistoryInvStep ==
    ASSUME HistoryInv, [TableNext]_tableVars PROVE HistoryInv'
<1>1. ASSUME UNCHANGED history PROVE HistoryInv'
  BY <1>1 DEF history, HistoryInv, HistoryMatchesPlayer
<1>2. ASSUME historyRequestId' = historyRequestId + 1, histories' = histories,
             historyEvents' = None, ~historyLoading'
      PROVE  HistoryInv'
  BY <1>2 DEF HistoryInv, HistoryMatchesPlayer
<1>3. ASSUME NEW p \in Players, LoadHistory(p) PROVE HistoryInv'
  <2>1. CASE historyPlayerId = p
    BY <1>2, <1>3, <2>1 DEF LoadHistory
  <2>2. CASE historyPlayerId # p
    <3> DEFINE new == [id |-> historyRequestId + 1, board |-> boardId, player |-> p]
    <3>1. /\ historyRequestId' = historyRequestId + 1 /\ histories' = histories \cup {new}
          /\ historyEvents' = None /\ historyLoading'
      BY <1>3, <2>2 DEF LoadHistory
    <3>2. new.id = historyRequestId + 1
      OBVIOUS
    <3> HIDE DEF new
    <3>3. \A h \in histories : h.id # historyRequestId + 1 /\ h.id <= historyRequestId + 1
      BY DEF HistoryInv
    <3> QED
      BY <3>1, <3>2, <3>3 DEF HistoryInv, HistoryMatchesPlayer
  <2> QED
    BY <2>1, <2>2
<1>4. ASSUME NEW h \in histories, NEW arrived \in BOOLEAN, EndHistory(h, arrived)
      PROVE  HistoryInv'
  <2>1. /\ histories' = histories \ {h}
        /\ historyLoading' <=> historyLoading /\ h.id # historyRequestId
        /\ UNCHANGED <<historyPlayerId, historyRequestId>>
    BY <1>4 DEF EndHistory
  <2>2. historyEvents' # None => historyEvents'.player = historyPlayerId
    BY <1>4 DEF EndHistory, HistoryInv, HistoryMatchesPlayer
  <2>3. historyLoading' <=> \E i \in histories' : i.id = historyRequestId
    BY <2>1 DEF HistoryInv, HistoryMatchesPlayer
  <2> QED
    BY <2>1, <2>2, <2>3 DEF HistoryInv, HistoryMatchesPlayer
<1>5. CASE ClearHistory \/ \E b \in Boards : SelectBoard(b)
  BY <1>2, <1>5 DEF ClearHistory, SelectBoard
<1>6. CASE \/ PollBoard \/ NextPage \/ PrevPage \/ UNCHANGED tableVars
           \/ \E b \in Boards : SwitchBoard(b)
           \/ \E lim \in PageSizes : SetPageSize(lim)
           \/ \E c \in refreshes, size \in 0..MaxSize : Answer(c, size)
           \/ \E c \in refreshes : Show(c) \/ FailRefresh(c)
  <2>1. UNCHANGED history
    BY <1>6 DEF PollBoard, NextPage, PrevPage, tableVars, SwitchBoard, SetPageSize,
                Answer, Show, FailRefresh
  <2> QED
    BY <1>1, <2>1
<1> QED
  BY <1>3, <1>4, <1>5, <1>6 DEF TableNext

\* app.js:400: the panel's events are those of the player it names, and it says
\* "loading" while that request is under way and at no other time.
THEOREM HistoryIsOfPlayer == TableSpec => []HistoryMatchesPlayer
<1>1. TableInit => HistoryInv
  BY DEF TableInit, HistoryInv, HistoryMatchesPlayer
<1>2. HistoryInv => HistoryMatchesPlayer
  BY DEF HistoryInv
<1> QED
  BY <1>1, <1>2, HistoryInvStep, PTL DEF TableSpec

-----------------------------------------------------------------------------
\* The live ledger (WebTicker).

\* Rows of the list: newest first, none ahead of the cursor.
RowsUpTo(shown, cursor) ==
    /\ shown \in Seq(Nat) /\ Len(shown) <= TickerMax
    /\ \A i, j \in 1..Len(shown) : i < j => shown[i] > shown[j]
    /\ \A i \in 1..Len(shown) : shown[i] <= cursor

\* Every entry above b, from where the rows begin to the cursor, is among the
\* rows or older than all of a full list.
Complete(shown, begin, cursor, b) ==
    \A id \in (begin + 1)..cursor : b < id =>
        \/ \E i \in 1..Len(shown) : shown[i] = id
        \/ Len(shown) = TickerMax /\ id < shown[TickerMax]

\* A page of the feed: consecutive entries, the first of them the next after
\* the cursor or after what a flush has removed.
Follows(found, after, b, l) ==
    /\ found \in Seq(Nat) /\ Len(found) > 0
    /\ found[1] > after
    /\ found[1] = after + 1 \/ found[1] <= b + 1
    /\ \A i \in 1..Len(found) : found[i] = found[1] + (i - 1)
    /\ found[Len(found)] <= l

\* One poll at most is under way, and it continues from the page's cursor.
PollsOK ==
    /\ polls # {} => tickerPolling
    /\ \A p, q \in polls : p = q
    /\ \A p \in polls :
           /\ p \in [slot : 1..2, after : Nat, at : {"fetch", "names"}, found : Seq(Nat)]
           /\ p.after = eventCursor
           /\ p.at = "names" => Follows(p.found, eventCursor, base, last)

\* What is stored would do as the page's own.
StoredOK ==
    stored # NotStored =>
        /\ stored \in [cursor : Nat, events : Seq(Nat), since : Nat]
        /\ stored.cursor <= last
        /\ RowsUpTo(stored.events, stored.cursor)
        /\ Complete(stored.events, stored.since, stored.cursor, base)

TickerInv ==
    /\ base \in Nat /\ last \in Nat /\ base <= last
    /\ eventCursor \in Nat /\ since \in Nat /\ eventCursor <= last
    /\ RowsUpTo(events, eventCursor)
    /\ Complete(events, since, eventCursor, base)
    /\ PollsOK /\ StoredOK

LEMMA FeedFollows ==
    ASSUME base \in Nat, last \in Nat, base <= last,
           NEW after \in Nat, after <= last, FeedPage(after) # << >>
    PROVE  Follows(FeedPage(after), after, base, last)
<1> DEFINE from == IF after < base THEN base ELSE after
           size == IF last - from < EventLimit THEN last - from ELSE EventLimit
<1>1. /\ from \in Nat /\ from <= last /\ from >= after
      /\ from = after \/ from = base
  OBVIOUS
<1> HIDE DEF from
<1>2. size \in Nat /\ size <= last - from
  BY <1>1, WebTickerAssumption
<1> HIDE DEF size
<1>3. FeedPage(after) = [i \in 1..size |-> from + i]
  BY <1>2 DEF FeedPage, from, size
<1>4. PICK found : found = FeedPage(after)
  OBVIOUS
<1>5. size > 0
  <2>1. CASE size = 0
    <3>1. found = << >>
      BY <1>3, <1>4, <2>1
    <3> QED
      BY <1>4, <3>1
  <2> QED
    BY <1>2, <2>1
<1>6. /\ found \in Seq(Nat) /\ Len(found) = size
      /\ \A i \in 1..size : found[i] = from + i
  BY <1>1, <1>2, <1>3, <1>4
<1> QED
  BY <1>1, <1>2, <1>4, <1>5, <1>6 DEF Follows

LEMMA ReverseIsSeq ==
    ASSUME NEW found \in Seq(Nat)
    PROVE  /\ Reverse(found) \in Seq(Nat) /\ Len(Reverse(found)) = Len(found)
           /\ \A i \in 1..Len(found) :
                  Reverse(found)[i] = found[Len(found) - i + 1]
<1>1. PICK n \in Nat : n = Len(found) /\ found \in [1..n -> Nat]
  BY LenProperties
<1>2. PICK rev : rev = Reverse(found)
  OBVIOUS
<1>3. rev = [i \in 1..n |-> found[n - i + 1]]
  BY <1>1, <1>2 DEF Reverse
<1>4. \A i \in 1..n : n - i + 1 \in 1..n
  OBVIOUS
<1>5. rev \in [1..n -> Nat]
  BY <1>1, <1>3, <1>4
<1>6. rev \in Seq(Nat)
  BY <1>5, SeqDef
<1>7. Len(rev) = n
  BY <1>5, <1>6, LenProperties
<1> QED
  BY <1>1, <1>2, <1>3, <1>6, <1>7

\* The rows after a poll: those found, newest first, above those that were shown,
\* cut off at the length of the list.
LEMMA ShownKeeps ==
    ASSUME RowsUpTo(events, eventCursor), eventCursor \in Nat, since \in Nat,
           NEW b \in Nat, NEW l \in Nat, Complete(events, since, eventCursor, b),
           NEW found, Follows(found, eventCursor, b, l)
    PROVE  LET cursor == found[Len(found)]
           IN  /\ cursor \in Nat /\ cursor <= l
               /\ RowsUpTo(Shown(found), cursor)
               /\ Complete(Shown(found), since, cursor, b)
<1>1. PICK n, m, k, s, f :
          /\ n = Len(found) /\ m = Len(events) /\ s = Shown(found) /\ f = found[1]
          /\ k = IF n + m < TickerMax THEN n + m ELSE TickerMax
  OBVIOUS
<1>2. /\ n \in Nat /\ m \in Nat /\ k \in Nat /\ k <= n + m
      /\ s \in Seq(Nat) /\ Len(s) = k
      /\ \A i \in 1..k : s[i] = IF i <= n THEN f + (n - i) ELSE events[i - n]
  <2>1. /\ found \in Seq(Nat) /\ events \in Seq(Nat)
        /\ \A i \in 1..Len(found) : found[i] = f + (i - 1)
    BY <1>1 DEF Follows, RowsUpTo
  <2>2. n \in Nat /\ m \in Nat /\ (n > 0 => f \in Nat)
    BY <1>1, <2>1, LenProperties
  <2>3. k \in Nat /\ k <= n + m
    BY <1>1, <2>2, WebTickerAssumption
  <2>4. PICK rev : rev = Reverse(found)
    OBVIOUS
  <2>5. /\ rev \in Seq(Nat) /\ Len(rev) = n
        /\ \A i \in 1..n : rev[i] = found[n - i + 1]
    BY <1>1, <2>1, <2>4, ReverseIsSeq
  <2>6. PICK all : all = rev \o events
    OBVIOUS
  <2>7. /\ all \in Seq(Nat) /\ Len(all) = n + m
        /\ \A i \in 1..(n + m) : all[i] = IF i <= n THEN rev[i] ELSE events[i - n]
    <3>1. /\ rev \o events \in Seq(Nat)
          /\ Len(rev \o events) = Len(rev) + Len(events)
          /\ \A i \in 1..(Len(rev) + Len(events)) :
                 (rev \o events)[i] = IF i <= Len(rev) THEN rev[i] ELSE events[i - Len(rev)]
      BY <2>1, <2>5, ConcatProperties
    <3> QED
      BY <1>1, <2>5, <2>6, <3>1
  <2>8. s = SubSeq(all, 1, k)
    BY <1>1, <2>4, <2>6, <2>7 DEF Shown
  <2>9. \A i \in 1..k : i \in 1..(n + m)
    BY <2>2, <2>3
  <2>10. \A i \in 1..k : all[i] \in Nat
    BY <2>7, <2>9, LenProperties
  <2>11. /\ s \in Seq(Nat) /\ Len(s) = IF 1 <= k THEN k - 1 + 1 ELSE 0
         /\ \A i \in 1..(k - 1 + 1) : s[i] = all[1 + i - 1]
    BY <2>3, <2>8, <2>10, SubSeqProperties
  <2>12. Len(s) = k
    BY <2>3, <2>11
  <2>13. ASSUME NEW i \in 1..k
         PROVE  s[i] = IF i <= n THEN f + (n - i) ELSE events[i - n]
    <3>1. s[i] = all[i] /\ all[i] = IF i <= n THEN rev[i] ELSE events[i - n]
      BY <2>3, <2>7, <2>9, <2>11
    <3>2. ASSUME i <= n PROVE rev[i] = f + (n - i)
      <4>1. PICK j \in 1..n : j = n - i + 1
        BY <2>2, <2>3, <3>2
      <4>2. found[j] = f + (j - 1)
        BY <1>1, <2>1, <4>1
      <4>3. i \in 1..n
        BY <2>2, <2>3, <3>2
      <4>4. rev[i] = found[j]
        BY <2>5, <4>1, <4>3
      <4>5. n > 0
        BY <2>2, <4>3
      <4> QED
        BY <2>2, <4>1, <4>2, <4>3, <4>4, <4>5
    <3> QED
      BY <3>1, <3>2
  <2> QED
    BY <2>2, <2>3, <2>11, <2>12, <2>13
<1>3. /\ f \in Nat /\ n > 0 /\ found[n] = f + (n - 1) /\ found[n] <= l
      /\ f > eventCursor /\ (f = eventCursor + 1 \/ f <= b + 1)
      /\ \A i \in 1..n : found[i] = f + (i - 1)
  BY <1>1 DEF Follows
<1>4. /\ events \in Seq(Nat) /\ m <= TickerMax /\ TickerMax \in Nat \ {0}
      /\ \A i, j \in 1..m : i < j => events[i] > events[j]
      /\ \A i \in 1..m : events[i] \in Nat /\ events[i] <= eventCursor
  BY <1>1, WebTickerAssumption DEF RowsUpTo
<1> DEFINE all(i) == IF i <= n THEN f + (n - i) ELSE events[i - n]
<1>5. \A i, j \in 1..(n + m) : i < j => all(i) > all(j)
  <2> SUFFICES ASSUME NEW i \in 1..(n + m), NEW j \in 1..(n + m), i < j
               PROVE  all(i) > all(j)
    OBVIOUS
  <2>1. CASE j <= n
    BY <1>2, <1>3, <2>1
  <2>2. CASE i <= n /\ j > n
    BY <1>2, <1>3, <1>4, <2>2
  <2>3. CASE i > n
    <3>1. i - n \in 1..m /\ j - n \in 1..m /\ i - n < j - n
      BY <1>2, <2>3
    <3> QED
      BY <1>2, <1>4, <2>3, <3>1
  <2> QED
    BY <1>2, <2>1, <2>2, <2>3
<1>6. \A i \in 1..(n + m) : all(i) \in Nat /\ all(i) <= f + (n - 1)
  <2> SUFFICES ASSUME NEW i \in 1..(n + m) PROVE all(i) \in Nat /\ all(i) <= f + (n - 1)
    OBVIOUS
  <2>1. CASE i <= n
    BY <1>2, <1>3, <2>1
  <2>2. CASE i > n
    <3>1. i - n \in 1..m
      BY <1>2, <2>2
    <3> QED
      BY <1>2, <1>3, <1>4, <2>2, <3>1
  <2> QED
    BY <1>2, <2>1, <2>2
<1>7. \A i \in 1..k : i \in 1..(n + m) /\ s[i] = all(i)
  BY <1>2
<1>8. k <= TickerMax /\ (k = n + m \/ k = TickerMax)
  BY <1>1, <1>2, <1>4
<1>9. RowsUpTo(s, found[n])
  <2> HIDE DEF all
  <2> QED
    BY <1>2, <1>3, <1>5, <1>6, <1>7, <1>8 DEF RowsUpTo
\* What is somewhere in the whole list is shown or older than a full list.
<1>10. ASSUME NEW i \in 1..(n + m)
       PROVE  (\E j \in 1..k : s[j] = all(i)) \/ (k = TickerMax /\ all(i) < s[TickerMax])
  <2> HIDE DEF all
  <2>1. CASE i <= k
    BY <1>2, <1>7, <2>1
  <2>2. CASE i > k
    <3>1. k = TickerMax /\ k \in 1..(n + m) /\ k \in 1..k
      BY <1>2, <1>4, <1>8, <2>2
    <3>2. all(k) > all(i) /\ s[k] = all(k)
      BY <1>5, <1>7, <2>2, <3>1
    <3> QED
      BY <1>6, <3>1, <3>2
  <2> QED
    BY <1>2, <2>1, <2>2
<1>11. ASSUME NEW id \in (since + 1)..found[n], b < id
       PROVE  (\E j \in 1..k : s[j] = id) \/ (k = TickerMax /\ id < s[TickerMax])
  <2>1. CASE id > eventCursor
    <3>1. id >= f
      BY <1>3, <1>11, <2>1
    <3> DEFINE i == n - (id - f)
    <3>2. i \in 1..(n + m) /\ i <= n /\ all(i) = id
      BY <1>2, <1>3, <1>11, <3>1
    <3> HIDE DEF i, all
    <3> QED
      BY <1>10, <3>2
  <2>2. CASE id <= eventCursor
    <3>1. \/ \E i \in 1..m : events[i] = id
          \/ m = TickerMax /\ id < events[TickerMax]
      BY <1>1, <1>3, <1>11, <2>2 DEF Complete
    <3>2. ASSUME NEW i \in 1..m, events[i] = id
          PROVE  (\E j \in 1..k : s[j] = id) \/ (k = TickerMax /\ id < s[TickerMax])
      <4>1. n + i \in 1..(n + m) /\ all(n + i) = id
        BY <1>2, <1>3, <3>2
      <4> HIDE DEF all
      <4> QED
        BY <1>10, <4>1
    <3>3. CASE m = TickerMax /\ id < events[TickerMax]
      <4>1. k = TickerMax /\ k \in 1..(n + m) /\ n + m \in 1..(n + m) /\ k < n + m
        BY <1>1, <1>2, <1>3, <1>4, <3>3
      <4>2. all(n + m) = events[m]
        BY <1>2, <1>3, <1>4, <3>3
      <4>3. s[k] = all(k) /\ all(k) > all(n + m) /\ all(k) \in Nat /\ all(n + m) \in Nat
        <5> HIDE DEF all
        <5> QED
          BY <1>5, <1>6, <1>7, <4>1
      <4> HIDE DEF all
      <4> QED
        BY <1>3, <1>4, <3>3, <4>1, <4>2, <4>3
    <3> QED
      BY <3>1, <3>2, <3>3
  <2> QED
    BY <1>3, <1>11, <2>1, <2>2
<1>12. Complete(s, since, found[n], b)
  BY <1>2, <1>11 DEF Complete
<1> QED
  BY <1>1, <1>3, <1>2, <1>9, <1>12

LEMMA TickerInvInit == TickerInit => TickerInv
<1> SUFFICES ASSUME TickerInit PROVE TickerInv
  OBVIOUS
<1>1. /\ base = 0 /\ last \in Nat /\ eventCursor = last /\ since = last /\ polls = {}
      /\ events = << >>
      /\ stored = [cursor |-> last, events |-> << >>, since |-> last]
  BY DEF TickerInit
<1>2. RowsUpTo(<< >>, last)
  BY WebTickerAssumption DEF RowsUpTo
<1>3. Complete(<< >>, last, last, 0)
  BY <1>1 DEF Complete
<1>4. StoredOK
  <2>1. /\ stored \in [cursor : Nat, events : Seq(Nat), since : Nat]
        /\ stored.cursor = last /\ stored.events = << >> /\ stored.since = last
    BY <1>1
  <2> QED
    BY <1>1, <1>2, <1>3, <2>1 DEF StoredOK
<1> QED
  BY <1>1, <1>2, <1>3, <1>4 DEF TickerInv, PollsOK

\* The ledger grows, or loses what it has to a flush: nothing that was complete
\* is less so.
LEMMA LedgerKeeps ==
    ASSUME TickerInv, base' \in Nat, last' \in Nat, base' <= last',
           base <= base', last <= last', UNCHANGED <<page, stored>>
    PROVE  TickerInv'
<1>1. UNCHANGED <<eventCursor, events, tickerPolling, polls, since, stored>>
  BY DEF page
<1>2. base \in Nat /\ last \in Nat /\ eventCursor \in Nat /\ since \in Nat
  BY DEF TickerInv
<1>3. ASSUME NEW shown, NEW begin \in Nat, NEW cursor \in Nat,
             Complete(shown, begin, cursor, base)
      PROVE  Complete(shown, begin, cursor, base')
  BY <1>2, <1>3 DEF Complete
<1>4. ASSUME NEW found, Follows(found, eventCursor, base, last)
      PROVE  Follows(found, eventCursor, base', last')
  <2>1. found[1] \in Nat /\ found[Len(found)] \in Nat
    BY <1>4 DEF Follows
  <2> QED
    BY <1>2, <1>4, <2>1 DEF Follows
<1>5. PollsOK'
  BY <1>1, <1>4 DEF TickerInv, PollsOK
<1>6. StoredOK'
  <2> SUFFICES ASSUME stored # NotStored
               PROVE  /\ stored.cursor <= last'
                      /\ Complete(stored.events, stored.since, stored.cursor, base')
    BY <1>1 DEF TickerInv, StoredOK
  <2>1. /\ stored.cursor \in Nat /\ stored.since \in Nat /\ stored.cursor <= last
        /\ Complete(stored.events, stored.since, stored.cursor, base)
    BY DEF TickerInv, StoredOK
  <2> QED
    BY <1>2, <1>3, <2>1
<1> QED
  BY <1>1, <1>2, <1>3, <1>5, <1>6 DEF TickerInv

\* A poll starts, is answered or fails: neither the rows nor the cursor move.
LEMMA PollKeepsRows ==
    ASSUME TickerInv, PollsOK',
           UNCHANGED <<ledger, eventCursor, events, since, stored>>
    PROVE  TickerInv'
BY DEF TickerInv, StoredOK, ledger

LEMMA StartPollKeeps == ASSUME TickerInv, StartPoll PROVE TickerInv'
<1>1. polls = {}
  BY DEF StartPoll, TickerInv, PollsOK
<1>2. PICK slot \in 1..2 :
          polls' = {[slot |-> slot, after |-> eventCursor, at |-> "fetch", found |-> << >>]}
  BY <1>1 DEF StartPoll
<1>3. tickerPolling' /\ UNCHANGED <<ledger, eventCursor, events, since, stored>>
  BY DEF StartPoll
<1>4. PollsOK'
  BY <1>2, <1>3 DEF TickerInv, PollsOK
<1> QED
  BY <1>3, <1>4, PollKeepsRows

LEMMA AnswerPollKeeps == ASSUME TickerInv, NEW p \in polls, AnswerPoll(p) PROVE TickerInv'
<1>1. UNCHANGED <<ledger, eventCursor, events, since, stored>>
  BY DEF AnswerPoll
<1>2. /\ p \in [slot : 1..2, after : Nat, at : {"fetch", "names"}, found : Seq(Nat)]
      /\ p.after = eventCursor /\ polls = {p} /\ tickerPolling
  BY DEF TickerInv, PollsOK
<1>3. CASE polls' = polls \ {p}
  <2>1. PollsOK'
    BY <1>2, <1>3 DEF PollsOK
  <2> QED
    BY <1>1, <2>1, PollKeepsRows
<1>4. CASE /\ FeedPage(p.after) # << >>
           /\ polls' = (polls \ {p}) \cup
                  {[p EXCEPT !.at = "names", !.found = FeedPage(p.after)]}
           /\ UNCHANGED tickerPolling
  <2>1. Follows(FeedPage(eventCursor), eventCursor, base, last)
    BY <1>2, <1>4, FeedFollows DEF TickerInv
  <2>2. PICK found : found = FeedPage(eventCursor)
    OBVIOUS
  <2>3. found \in Seq(Nat)
    BY <2>1, <2>2 DEF Follows
  <2>4. PICK q : q = [p EXCEPT !.at = "names", !.found = found]
    OBVIOUS
  <2>5. /\ q \in [slot : 1..2, after : Nat, at : {"fetch", "names"}, found : Seq(Nat)]
        /\ q.after = eventCursor /\ q.found = found
    BY <1>2, <2>3, <2>4
  <2>6. polls' = {q} /\ tickerPolling'
    BY <1>2, <1>4, <2>2, <2>4
  <2>7. PollsOK'
    BY <1>1, <2>1, <2>2, <2>5, <2>6 DEF PollsOK, ledger
  <2> QED
    BY <1>1, <2>7, PollKeepsRows
<1> QED
  BY <1>3, <1>4 DEF AnswerPoll

LEMMA FailPollKeeps == ASSUME TickerInv, NEW p \in polls, FailPoll(p) PROVE TickerInv'
<1>1. /\ UNCHANGED <<ledger, eventCursor, events, since, stored>>
      /\ polls' = polls \ {p}
  BY DEF FailPoll
<1>2. polls = {p}
  BY DEF TickerInv, PollsOK
<1>3. PollsOK'
  BY <1>1, <1>2 DEF PollsOK
<1> QED
  BY <1>1, <1>3, PollKeepsRows

\* The rows found follow on from those that were there.
LEMMA FinishPollKeeps ==
    ASSUME TickerInv, NEW p \in polls, NEW saved \in BOOLEAN, FinishPoll(p, saved)
    PROVE  TickerInv'
<1>1. PICK found : found = p.found
  OBVIOUS
<1>2. /\ Follows(found, eventCursor, base, last) /\ polls = {p}
      /\ base \in Nat /\ last \in Nat
  BY <1>1 DEF TickerInv, PollsOK, FinishPoll
<1>3. PICK cursor, shown : cursor = found[Len(found)] /\ shown = Shown(found)
  OBVIOUS
<1>4. /\ cursor \in Nat /\ cursor <= last
      /\ RowsUpTo(shown, cursor) /\ Complete(shown, since, cursor, base)
  BY <1>2, <1>3, ShownKeeps DEF TickerInv
<1>5. /\ eventCursor' = cursor /\ events' = shown /\ polls' = {}
      /\ UNCHANGED <<base, last, since>>
      /\ stored' = IF saved THEN [cursor |-> cursor, events |-> shown, since |-> since]
                   ELSE stored
  BY <1>1, <1>2, <1>3 DEF FinishPoll, ledger
<1>6. StoredOK'
  <2>1. CASE saved
    <3>1. /\ stored'.cursor = cursor /\ stored'.events = shown /\ stored'.since = since
          /\ stored' = [cursor |-> cursor, events |-> shown, since |-> since]
      BY <1>5, <2>1
    <3>2. shown \in Seq(Nat) /\ since \in Nat
      BY <1>4 DEF RowsUpTo, TickerInv
    <3> QED
      BY <1>4, <1>5, <3>1, <3>2 DEF StoredOK
  <2>2. CASE ~saved
    BY <1>5, <2>2 DEF TickerInv, StoredOK
  <2> QED
    BY <2>1, <2>2
<1>7. PollsOK'
  BY <1>5 DEF PollsOK
<1> QED
  BY <1>4, <1>5, <1>6, <1>7 DEF TickerInv

\* What a reload resumes was in order when it was stored; a start at the tail
\* has nothing between its beginning and its cursor.
LEMMA ReloadKeeps ==
    ASSUME TickerInv, NEW fresh \in BOOLEAN, NEW answered \in BOOLEAN, Reload(fresh, answered)
    PROVE  TickerInv'
<1>1. base \in Nat /\ last \in Nat /\ base <= last
  BY DEF TickerInv
<1>2. ASSUME NEW cursor \in Nat, cursor <= last, NEW begin \in Nat, NEW shown, NEW keep,
             Restored(cursor, shown, begin, keep),
             RowsUpTo(shown, cursor), Complete(shown, begin, cursor, base),
             keep # NotStored =>
                 /\ keep \in [cursor : Nat, events : Seq(Nat), since : Nat]
                 /\ keep.cursor <= last
                 /\ RowsUpTo(keep.events, keep.cursor)
                 /\ Complete(keep.events, keep.since, keep.cursor, base)
      PROVE  TickerInv'
  <2>1. /\ UNCHANGED <<base, last>> /\ polls' = {}
        /\ eventCursor' = cursor /\ events' = shown /\ since' = begin /\ stored' = keep
    BY <1>2 DEF Reload, ledger, Restored
  <2>2. PollsOK'
    BY <2>1 DEF PollsOK
  <2>3. StoredOK'
    BY <1>2, <2>1 DEF StoredOK
  <2> QED
    BY <1>1, <1>2, <2>1, <2>2, <2>3 DEF TickerInv
<1>3. /\ RowsUpTo(<< >>, last)
      /\ \A shown : Complete(shown, last, last, base)
  BY <1>1, WebTickerAssumption DEF RowsUpTo, Complete
<1>4. CASE /\ stored = NotStored
           /\ Restored(last, << >>, last, [cursor |-> last, events |-> << >>, since |-> last])
  <2> DEFINE keep == [cursor |-> last, events |-> << >>, since |-> last]
  <2>1. /\ keep \in [cursor : Nat, events : Seq(Nat), since : Nat]
        /\ keep.cursor = last /\ keep.events = << >> /\ keep.since = last
    BY <1>1
  <2>2. Restored(last, << >>, last, keep)
    BY <1>4
  <2> HIDE DEF keep
  <2> QED
    BY <1>1, <1>2, <1>3, <2>1, <2>2
<1>5. CASE Restored(last, << >>, last, NotStored)
  BY <1>1, <1>2, <1>3, <1>5
<1>6. CASE stored # NotStored /\ Restored(stored.cursor, stored.events, stored.since, stored)
  <2>1. /\ stored \in [cursor : Nat, events : Seq(Nat), since : Nat]
        /\ stored.cursor \in Nat /\ stored.since \in Nat
        /\ stored.cursor <= last /\ RowsUpTo(stored.events, stored.cursor)
        /\ Complete(stored.events, stored.since, stored.cursor, base)
    BY <1>6 DEF TickerInv, StoredOK
  <2> QED
    BY <1>2, <1>6, <2>1
<1>7. CASE /\ stored # NotStored
           /\ Restored(last, stored.events, last,
                       [stored EXCEPT !.cursor = last, !.since = last])
  <2>1. /\ stored \in [cursor : Nat, events : Seq(Nat), since : Nat]
        /\ stored.cursor \in Nat /\ stored.cursor <= last
        /\ RowsUpTo(stored.events, stored.cursor)
    BY <1>7 DEF TickerInv, StoredOK
  <2>2. RowsUpTo(stored.events, last)
    <3>1. \A i \in 1..Len(stored.events) : stored.events[i] \in Nat
      BY <2>1
    <3> QED
      BY <1>1, <2>1, <3>1 DEF RowsUpTo
  <2> DEFINE keep == [stored EXCEPT !.cursor = last, !.since = last]
  <2>3. /\ keep \in [cursor : Nat, events : Seq(Nat), since : Nat]
        /\ keep.cursor = last /\ keep.events = stored.events /\ keep.since = last
    BY <1>1, <2>1
  <2>4. Restored(last, stored.events, last, keep)
    BY <1>7
  <2> HIDE DEF keep
  <2> QED
    BY <1>1, <1>2, <1>3, <2>2, <2>3, <2>4
<1> QED
  BY <1>4, <1>5, <1>6, <1>7 DEF Reload

LEMMA TickerInvStep == ASSUME TickerInv, [TickerNext]_tickerVars PROVE TickerInv'
<1>0. base \in Nat /\ last \in Nat /\ base <= last
  BY DEF TickerInv
<1>1. ASSUME NEW valid \in BOOLEAN, AppendEntry(valid) PROVE TickerInv'
  BY <1>0, <1>1, LedgerKeeps DEF AppendEntry
<1>2. CASE Flush
  BY <1>0, <1>2, LedgerKeeps DEF Flush
<1>3. CASE UNCHANGED tickerVars
  BY <1>0, <1>3, LedgerKeeps DEF tickerVars, ledger
<1> QED
  BY <1>1, <1>2, <1>3, StartPollKeeps, AnswerPollKeeps, FailPollKeeps, FinishPollKeeps,
     ReloadKeeps DEF TickerNext

THEOREM TickerInvariant == TickerSpec => []TickerInv
BY TickerInvInit, TickerInvStep, PTL DEF TickerSpec

\* web/README.md, request freshness: no row is shown twice or out of order, and
\* none is ahead of the cursor, for any length of the list and of a page.
THEOREM NoRowTwice == TickerSpec => []RowsAreOrdered
<1>1. TickerInv => RowsAreOrdered
  <2> SUFFICES ASSUME TickerInv PROVE RowsAreOrdered
    OBVIOUS
  <2>1. PICK m \in Nat : m = Len(events)
    BY DEF TickerInv, RowsUpTo
  <2>2. /\ events \in Seq(Nat)
        /\ \A i, j \in 1..m : i < j => events[i] > events[j]
        /\ \A i \in 1..m : events[i] <= eventCursor
    BY <2>1 DEF TickerInv, RowsUpTo
  <2>3. \A i \in 1..(m - 1) : i \in 1..m /\ i + 1 \in 1..m /\ i < i + 1
    BY <2>1
  <2>4. events # << >> => 1 \in 1..m
    BY <2>1, <2>2
  <2> QED
    BY <2>1, <2>2, <2>3, <2>4 DEF RowsAreOrdered
<1> QED
  BY <1>1, TickerInvariant, PTL

\* app.js:544: through polls that fail, reloads, refused writes to the store and
\* flushes, the list has every entry between its beginning and the cursor that
\* still exists, unless newer ones fill it.
THEOREM NoRowMissing == TickerSpec => []NothingIsSkipped
<1>1. TickerInv => NothingIsSkipped
  <2> SUFFICES ASSUME TickerInv, NEW id \in (since + 1)..eventCursor, base < id
               PROVE  \/ \E i \in DOMAIN events : events[i] = id
                      \/ Len(events) = TickerMax /\ id < events[TickerMax]
    BY DEF NothingIsSkipped
  <2>1. DOMAIN events = 1..Len(events)
    BY DEF TickerInv, RowsUpTo
  <2> QED
    BY <2>1 DEF TickerInv, Complete
<1> QED
  BY <1>1, TickerInvariant, PTL
=============================================================================
