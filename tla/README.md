# Apex leaderboard: specifications, model checking and proofs

Apex is an HTTP leaderboard service over Redis. Score writes go through one Lua
script that updates a board's sorted set and appends an event to a global
stream, the ledger; everything else is derived from the ledger, or is a document
the script looks up. This directory holds TLA+ modules that model the service,
TLC configurations that check them on small instances, and proofs that TLAPS
checks for every instance.

Paths below are relative to the repository's root.

## 1. The system

| Component | Sources | State | Operations | Hard parts |
|---|---|---|---|---|
| Score domain and replay | `score/`, `ledger/`, `storage/storage.go` | none | range check, decoding of an entry, fold of an event | order of sets and increments, bounds |
| Registry | `storage/profile_repo.go`, `storage/board_repo.go`, `storage/scripts/create_*.lua`, `set_board_state.lua` | profile hashes, board hashes, board index, player idempotency hash | create player, create board, open and close board, read, list | keys reused with another name, fresh candidate ids on a retry, hash and index in step, listing order |
| Score write path | `storage/scripts/apply_score_event.lua`, `storage/score_repo.go`, `handlers/score_handler.go` | projection per board, ledger, idempotency hash | set, increment | order of the checks, rejected writes leave nothing, record and entry agree |
| Keyed writes and clients | `web/app.js`, `apexredis/client.go` | key of each pending write | send, lose, resend, retry | lost replies, closed boards between attempts |
| Projection admin | `storage/projection_admin.go`, `handlers/admin_handler.go` | live projection, scratch key per board | rebuild, verify | many commands per call, calls and writes interleave, calls are cut short, commands run twice |
| Ledger consumers | `consumer/`, `storage/ledger_consumer.go`, `activity_store.go`, `player_history_store.go` | cursor per consumer, daily counts, history index | load cursor, read batch, apply, save cursor | at-least-once, partial pipelines, malformed entries, ids under a clock that steps back, progress |
| Standings and history reads | `storage/score_repo.go`, `storage/activity_repo.go` | none | rank, page, as-of page, history page | several commands per read, three sort orders, two clocks |
| Event feed | `storage/event_repo.go`, `handlers/event_handler.go` | cursor held by the client | page after a cursor | gaps, malformed entries |
| Rate limiter | `server/ratelimit.go` | bucket per client address | allow, cleanup | table at its limit, eviction |
| Process lifecycle | `main.go`, `server/server.go` | server, consumers, two Redis clients | start, signal, shut down | close order, timeouts |
| Web page | `web/app.js` | selection, rows, ticker cursor | refresh, poll, write | stale answers, single flight |
| Tool runner | `apiscripts/toolrunner/` | one busy slot, one child process | run a tool | slot given back on every path, two deadlines that count from different moments |
| History script | `apiscripts/randomhistory/` | what it has written | write, wait for the view, compare | telling a complete asynchronous view from a stale one |
| Other scripts, middleware, request ids, logging, configuration, API document, markup | `apiscripts/`, `server/middleware.go`, `requestid/`, `apexredis/hook.go`, `apispec/`, `web/index.html` | none | | none of their own |

How they interact: the HTTP handlers call the storage layer; all shared state is
in Redis. A Lua script is atomic; a Go method that sends several commands is
not. A score write reads the registry's hashes. Rebuild and verify read the
ledger and write the live projection or a scratch key, next to running writes.
The two consumers read the ledger with a blocking read and write only their
view and cursor. The web page and the scripts are API clients.

What makes each component correct:

- write path: the projection is the replay of the ledger (rule 1 of
  `docs/architecture.md`), every prefix replays within the score range, an
  event exists only for an applied write of a registered player and board
  (rule 2), a set is a barrier (rule 4), a record answers with its own entry;
- clients: a keyed write is applied at most once and "ok" means applied (rule 3);
- registry: records and index never dangle;
- admin: an undisturbed rebuild restores the replay from anything, an
  undisturbed verify reports exactly the drift;
- consumers: nothing is lost, history has no holes and reads newest first, everything
  arrives;
- tool runner: one process at a time, an answer for every run, the slot comes back;
- rate limiter: forgetting an entry gives nobody more than its rate, waiting out a
  Retry-After pays, idle entries do go;
- process: no handler or consumer loses its Redis client before its timeout.

`PROJECT.json` lists the hazards at their lines, with the properties that cover
them, or the reason why none does yet.

## 2. Modules

| Module | Models | Extends |
|---|---|---|
| `Ledger` | events, sorted sets, replay; no state | |
| `Registry` | players and boards | `Ledger` |
| `BoardListing` | overlapping board creations and the list of boards | `Registry` |
| `ScoreWrites` | the write script over registry, projections, ledger and records | `Registry` |
| `WriteOnce` | abstract: what a client with a key is promised | |
| `WriteClients` | clients that retry over a lossy path; implements `WriteOnce` | `ScoreWrites` |
| `ProjectionAdmin` | rebuild and verify next to writes | `ScoreWrites` |
| `QuietRebuilds` | rebuilds of a board that is closed throughout | `ProjectionAdmin` |
| `Standings` | rank, page and as-of reads next to writes and a rebuild | `ProjectionAdmin` |
| `LedgerConsumer` | the two consumers, the ids they see and the history page | |
| `HistoryWait` | the script that waits for the history view to catch up | `LedgerConsumer` |
| `WebTable` | the page's table and history panel | |
| `WebTicker` | the page's live ledger, over the event feed | |
| `TokenBucket` | abstract: a bucket per address that is never forgotten | |
| `RateLimiter` | the limiter's table, its decisions and its cleanup; implements `TokenBucket` | |
| `ServerProcess` | requests, consumers, signal, shutdown | `RateLimiter` |
| `ToolRunner` | the tool runner's slot, child process and deadlines | |
| `SortingProofs` | proofs about sorting a finite set, which need no model | |
| `ScoreWritesProofs` | proofs about replay, the registry and the write path | `ScoreWrites`, `SortingProofs` |
| `BoardListingProofs` | proofs about overlapping board creations and the list of boards | `BoardListing`, `ScoreWritesProofs` |
| `StandingsProofs` | proofs about rebuild, verify and the reads next to them | `Standings`, `ScoreWritesProofs` |
| `WriteClientsProofs` | proofs about clients that retry | `WriteClients`, `ScoreWritesProofs` |
| `LedgerConsumerProofs` | proofs about the consumers, history pages and the wait for them | `HistoryWait`, `SortingProofs` |
| `ServerProcessProofs` | proofs about the limiter and the process | `ServerProcess` |
| `PageProofs` | proofs about the page, its ticker and the tool runner behind it | `WebTable`, `WebTicker`, `ToolRunner` |
| `MC*` | instances for TLC: amounts and symmetry | the module they are named after |

### From the code to the models

**Redis.** Each script and each single command is one atomic action; a Go method
that sends several is several actions. A sorted set is a function from members to
scores with `Absent` for a missing member. The stream is a sequence, an entry's id
its position: `XADD *` ids increase and nothing trims or deletes. `LedgerConsumer` also
has the ids themselves, as its index depends on how they are written. Scores are
integers: `score.Max` is 1e13, sums stay below 2^53 (`score/score.go`), so doubles
are exact. A key's TTL is an action that may happen at any time once the key
exists, since the models have no clock.

**Registry.** `CreatePlayerProfile`, `CreateBoard` and `SetBoardState` are the three
scripts, each with its `...Code` operator for the returned code. Display names and
creation timestamps of the hashes are left out: nothing decides on them. The player's
name stays, as the fingerprint of its idempotency record. Profiles and boards are
never deleted, as in the code.

**BoardListing.** `BeginCreate` is `board.NewBoard`, which takes the clock; `RunCreate` the
script. `ReadIndex` and `ReadBoard` are the commands of `ListBoards`: ZRANGE, then an
HGETALL for each board. `InOrder` says of a sequence that it is what ZRANGE returns, and
`Index` is that sequence. Board ids are numbers in the bytewise order of Redis.
`createdAt`, and `known` and `seen` of a listing, are history.

**ScoreWrites.** `Code` is the chain of early returns of the script, in its order;
`ApplyScoreEvent` is the whole script: projection, ledger, record. `Resulting` is
the script's own computation of the new score, apart from `NewScore`, which is what
`ZADD` and `ZINCRBY` then do. `Accepted` is how `applyEvent` turns codes into success.

**ProjectionAdmin.** `pc` names the command a call sends next: `read` (XRANGE), `drop`
(DEL), `fold` (one ZADD or ZINCRBY per event; `todo` holds the positions of the entries it
read and has still to fold, which it takes in order), `read_live`, `read_scratch`, `clean`
(the deferred DEL). `Dest` and `PutDest` are the `keyFor` argument of `foldInto`.
`FailBeforeDiff` is an error before the `defer` is registered, `FailInDiff` one after
it, which leads to the deferred DEL (`quit`), `Die` the end of the process. `ResendCommand`
is go-redis, whose retries `apexredis.New` leaves at their default: Redis runs a command, the
connection breaks before the reply, and the command is sent again. A second DEL or ZADD changes
nothing by itself; a second ZINCRBY counts its increment twice, and the call succeeds all the
same. `overlap` and `resent` are history variables. The first is what else touched the board
while the call ran; the properties use it to say "undisturbed". The second is the players one
of whose commands was sent again and no set of theirs folded since: the scores the properties
except. A command that Redis runs only later, after it was sent again or after its call has
ended, is left out.

**QuietRebuilds.** The same system, observed: `opened` is the boards that were not closed at
some moment since the calls now running on them began, and so its complement the boards that
no write can have touched meanwhile.

**Standings.** One read is followed, since reads change nothing. `Commands` is the order of
its pipeline: ZREVRANK then ZCARD for a standing, ZCARD then ZREVRANGE for a page. The
as-of read is one XRANGE and the rest in memory, so it is an operator, `AsOfPage`; what
`sort.Slice` leaves is the sequence that its comparison, `SortsBefore`, orders (`AsOfOrder`).
`stamps` are the days in the entries' ids, which XADD takes from Redis's clock but never
lets go back (`Stamp`). The check of the requested day against the app's clock is left
out: the app's clock is independent of Redis's, and so any day may be asked for.
Player ids are numbers in bytewise order. `dropped` is history. Members with scores that
no integer can hold, which only a foreign hand can write, are left out.

**WriteClients.** `Start` and `Retry` are `sendIdempotentJSON`, which keeps the key of
a write that failed or was rejected and drops it only after a success. `inflight` holds commands between the server and Redis; `RunCommand`
runs the script and its reply may be lost, `NoReply` is go-redis resending or giving
up, `Disconnect` the client's connection failing. `owner` (who made each ledger entry)
is a history variable.

**LedgerConsumer.** `LoadCursor`, `ReadNothing`/`ReadBatch`, `Apply`, `SaveCursor` are the
steps of `processOnce`; `Fault` covers a failed command or a crash at any of them, a
pipeline applied up to any point, a pipeline the library sends twice, and a saved cursor
whose reply is lost. An entry is its id, player, board, content and whether it decodes; a
batch is the interval of the stream it was read from. `NextId` is what XADD makes of
Redis's clock, which may read anything in `Clocks` at any time and so stand still or step
back. `StreamIdScore` is the packed score with its clamp, `Newer` the order of ZRANGE REV:
by score, and among equal scores by the *text* of the ids, which `TextBefore` computes from
the numbers' digits in base `Radix`. The packed score is an integer in the model; in the code
it is a float64, exact below 2^53 and so until the year 2039 (`player_history_store.go:16`). `InReverse` is the sequence in that order, `PlayerHistory`
a page of it. The XRANGE
for each id is left out: the stream keeps all entries, and the index holds only those that
decode. The 30-day expiry of a day's counts is not modelled.

**HistoryWait.** Operators only: what the script has written for its fresh player, the page
it asks for, the condition that ends its wait and the comparison it then makes, evaluated in
every state of the consumers. Its polling changes nothing. A page is one evaluation, although
the code reads index and entries in two commands, because entries never change.

**WebTable.** One action per stretch of JavaScript between two awaits. A refresh keeps the
selection it started with and its request id; `Answer` is the arrival of a page (and the
decision to fetch the last page instead), `Show` the assignment once the names are there,
`FailRefresh` the `catch`. `SwitchBoard` is the end of `createBoard` and of `runTool`:
between `loadBoards` and the refresh they start, only microtasks run, so it is one
action. The server's answer is a page of any size. A row's content is left out.

**WebTicker.** Entry ids are numbers; the ledger is the range between the last flush and
the last id. `AnswerPoll` is the feed's answer (`FeedPage`), `FinishPoll` the update of
rows and cursor and their storing. `Reload` is `restoreTicker`; whether a stored cursor is
recent and whether the probe is answered are free choices. An entry that does not decode
fails each page that contains it. The model takes the browser's
clock to agree with Redis's, as the code says it does, and takes a browser that refuses
to store one of the two items to refuse both.

**RateLimiter.** A tick is the time in which a bucket gains one unit, so that 1/rps is
`Cost` ticks and a level is an integer. `Arrive` is the clock read of `allow`, `Allow` what it
does under the mutex; `Level` is the bucket of `x/time/rate`, which computes its tokens from
the time of its last admission and reads a clock of its own. `Cleanup` is one round of
`runCleanup`. `told` and `answer` are history. `RefillAssumption` says that a bucket refills
within `clientTTL`, less the longest wait for the mutex: burst / rps below three minutes. The
code does not check it. Outside it (an rps of 0.05 with the default burst, say) a client that
pauses for three minutes is forgotten with an empty bucket and comes back with a full one.
With an rps of 0 the limiter is not installed, which the model leaves out.

**ServerProcess.** `phase` is what `main` is at: `serving`, `draining` (`srv.Shutdown`),
`waiting` (`waitFor`), `exited`. `Signal` cancels the context that consumers, cleanup and
server share. `Finish` is a handler's end; if the request client was closed under it, its
remaining commands may have failed (`cutOff`). A consumer is the command it is at and since
when: go-redis does not send a command under a cancelled context and does not abort one that
is on the wire. `CommandTime` bounds the latter, and `MarginAssumption` says it is below
`workerStopMargin`; against a slower Redis, `main` logs a warning and closes the client anyway.
`Die` is `os.Exit(1)` after `ListenAndServe` failed, or a second signal. Rounds of the cleanup
after the signal are left out: nothing reads the table then.

**ToolRunner.** A request is reading its body or running its tool; `age` counts from its
header, as `http.Server` counts the write deadline; the read deadline begins a little earlier. `Take` is the `select` on the channel
and the start of `cmd.Run`, which may fail; `Expire` and `HangUp` end the context, `Kill` is
what `exec.CommandContext` then does, `Return` the end of `cmd.Run`, the answer and the
deferred receive from the channel. A tool is one of this repository's static binaries and
starts nothing itself, so its output is closed when it ends; a killed tool is reaped before
time passes. What one tool, its arguments or its output are is left out.

Definitions marked *Mutant* are plausible bugs. No specification uses them: each
replaces the definition it names in a check that the property listed for it in
`PROJECT.json` then fails.

## 3. Model checking

| Run | Checks | Instance |
|---|---|---|
| `board_listing` | `KeysNameProfiles`, `IndexNamesBoards`, `ListingIsWhole`, `OrderFollowsSeconds` | 2 player ids, 2 names, 2 keys: a key is reused with the other name, ids collide across keys, keys expire; 2 boards, 2 overlapping creations, 2 seconds: ties and overtaken creations |
| `score_writes` | `TypeOK`, `ProjectionIsReplay`, `PrefixesInRange`, `SnapshotBarrier`, `RecordsNameTheirEntry`, `EventsHaveOwners` | 2 players, 2 boards, range -3..3, amounts -2, 2, 3, one key, 3 events: both bounds are reached and exceeded by two increments |
| `admin_faults` | `VerifyReportsDrift`, `RebuildRestores` | 2 calls, 2 boards, 2 events, errors and deaths, one command sent twice: every pair of calls overlaps at every point, on one board or on two |
| `standings` | `RankWithinTotal`, `PagesAreFull`, `AsOfNowIsLive`, `AsOfIsFinal` | 2 players with equal and different scores, 2 events, a rebuild, 2 days, pages at offsets 0 and 1 |
| `write_clients` | `OkIsInTheLedger`, `AppliedIsRemembered`, `AppliesOnce` (refinement of `WriteOnce`) | 2 clients, 2 attempts of 2 sends each, 3 events, boards close and reopen |
| `consumers` | `NeverLost`, `ExactUnlessFaulty`, `HistoryHasNoHoles`, `PagesAreNewestFirst`, `WaitMeansIndexed`, `CursorAdvances`, `EveryEntryArrives` | 3 entries in batches of 2, 2 boards, one malformed entry, one failure; a clock of two readings, on both sides of midnight and written with one digit and with two, so that text order is not number order; sequence numbers 0, 1 and 2 of which the last is clamped; pages of 2 |
| `web_table` | `TableShowsSelection`, `SnapsToLastPage`, `HistoryMatchesPlayer` | 2 boards of up to 3 players, page sizes 1 and 2, 3 refreshes, 2 history requests: three refreshes are enough for an answer two selections old |
| `web_ticker` | `RowsAreOrdered`, `NothingIsSkipped`, `CatchesUp` | 6 entries, one of them malformed, pages of 2, 3 rows, 2 flushes, 2 reloads, 2 failed requests |
| `server_process` | `WaitingPays`, `IdleIsForgotten`, `CutOffAfterTimeout`, `ConsumersStopFirst`, `RateIsKept` (refinement of `TokenBucket`) | 2 requests, 2 addresses, a table of 1: it is full, and an address waits for the other's entry to go; 1/rps is one and a half seconds, so Retry-After rounds; a request may wait a tick for the mutex; 2 consumers |
| `tool_runner` | `OneToolAtATime`, `AnswersInTime`, `SlotComesBack` | 3 requests, a timeout, a read timeout and a slack of 2 ticks each: a body may come at the last moment, and the slot may be asked for while a tool is being killed |

Every module has one type invariant. That of the write path is checked and proved. Of the other
modules, the invariants of section 4 hold the types their proofs need, some of them stated anew
there; the runs do not spend time on them.

These pass. Three events are enough for a set between two increments, and for a
write, its replay and a write by another; longer ledgers only repeat such patterns,
and the safety properties of all runs are proved for all lengths (section 4). Two admin calls
suffice because calls interact only through one key, in pairs. `admin_faults` leaves out closed
boards (`BoardsStayOpen`): a closed board turns writes down, which a run in which nobody writes
shows just as well, and rebuild and verify do not look at the status. Three entries make two
batches of different sizes, a page that leaves one out, and an id whose sequence number is
clamped next to one whose is not. `MaxServing` lets an entry be dropped and its address return
before the signal; all later times are relative to it. `MaxEvents`, `MaxEntries` (the length of `Contents`), `Clocks`, `MaxAttempts`, `MaxSends`,
`MaxResends`, `MaxMalformed`, `MaxFaults`, `LastDay`,
`MaxSize`, `MaxRequests`, `MaxHistory`, `MaxId`, `MaxFlushes`, `MaxReloads` and `MaxServing` are bounds of the models, not of the program, except
that `MaxSends` is go-redis's finite number of resends and `MaxResends` their number in all, `MaxWait` the scheduler's delay and
`CommandTime` what a Redis command takes.

`RebuildRestores` is the part of rule 1 that rebuild keeps: one that overlaps no write
and no other rebuild of its board ends with the replay, whatever was there, but for players
one of whose increments was sent twice in it. It implies that a later rebuild repairs what a
disturbed, broken or resent one left. `VerifyReportsDrift` makes the same exception.

`RankWithinTotal` and `PagesAreFull` hold for opposite reasons: a rank is read before the
total and a page after it, and in between a board only grows. Either order reversed
breaks them, and so does a rebuild that drops the projection in between, which the
properties exclude and the API does not. `web_table` runs without deadlock
checking: once its bounded requests are used up, nothing more happens. So does `server_process`: the process ends.

**Fairness.** `EveryEntryArrives` needs weak fairness of each consumer's
`ProcessOnce`. `Run` loops until the process stops and sleeps for a second after a
failure instead of giving up, so a consumer whose next step is possible takes it. New
entries, a moving clock and failures are owed to nobody. The number of failures is finite;
if Redis failed for ever, nothing could arrive. `CatchesUp` needs weak fairness of
`StartPoll`, which a timer repeats every five seconds, and of the answers to requests
that do not fail; a request that hangs for ever would block the ticker, as `fetch` has no
timeout there. It says "except for a malformed entry in the next page", which the feed never
gets past. `SlotComesBack` needs that time passes, timers fire, a killed process dies and a
handler whose process has ended runs on; no tool is owed to end by itself.

`AppliesOnce` assumes that nobody retries a write after its record has expired, 24 hours
later (`ExpireClientKey`); a retry after that is a new write, in the code and by design.

### Where the code and its documents disagree

Each of these runs checks one stated property and TLC finds a counterexample.

| Run | Property | What happens |
|---|---|---|
| `two_rebuilds` | `QuietRebuildRestores` | A board with one increment is closed, and then rebuilt twice at once: both calls read and drop the projection before either folds, and the increment counts twice. No write came near either call, and both succeed (`projection_admin.go:81`, against `docs/architecture.md:241`). |
| `rebuild_range` | `PrefixesInRange` | During a rebuild the write script checks the range against a partial score, and accepts an event whose total, replayed, is out of range (`apply_score_event.lua:76`, against `score_repo.go:217`). |

Not runs, but known in the same way:

- go-redis sends a ZINCRBY again when its reply is lost (`projection_admin.go:92`,
  `apexredis/client.go:41`): a rebuild that nothing disturbs succeeds with an increment counted
  twice, where the result "must be the same" (`docs/architecture.md:241`), and a verify that
  nothing disturbs reports drift that is not there (`projection_admin.go:107`). The two
  properties except those players, and `admin_faults` reaches the case;
- two verifies of one board share a scratch key, and one call's commands can hide real drift
  from the other (`projection_admin.go:120`), where an empty result is to mean no drift
  (`:107`). `VerifyReportsDrift` speaks of a verify that overlaps nothing;
- a rejected write is not recorded under its key, so a retry may be applied later
  (`apply_score_event.lua:101`), where "retrying the same request_id produces the same
  result" (`docs/architecture.md:246`);
- the history script's wait ends on the head of the page alone
  (`randomhistory.go:143`). If it wrote more events than a page holds and an older one has the
  type and amount of the newest, a stale page may end the wait and fail the comparison,
  although by then everything older is to be indexed (`:129`). `WaitMeansIndexed` says when
  it is;
- clamping an id's sequence is to need four million writes a second
  (`player_history_store.go:67`). After Redis's clock was set back, every write joins the last
  millisecond until the clock has caught up, at whatever rate. The order survives it, by the
  text of the ids, as long as no entry of the history is beyond the ten thousandth of its
  millisecond (`SequencesFit`).

## 4. Proofs

Every safety property that a run checks, invariant or action property, is also proved,
for all values of the constants that satisfy the named assumptions of section 4.9; so are
the three refinements. `PROJECT.json` names the theorem for each. What follows is the argument
of each proof: the inductive invariant and why it is needed.

### 4.1 Replay and the write path (`ScoreWritesProofs`)

- Replay is a recursive function, so its equation is proved by well-founded induction over
  explicit sets (`NatSetInduction`, `ReplayExists`, `ReplayEquation`), then that appending an
  event is one fold (`ReplayAppend`) and that replays of ledgers with a common prefix agree
  there (`ReplayAgrees`).
- `TypeCorrect` and `ScoreInvariant`: the projection equals the replay, replays of all prefixes
  are in range, records name their entries, events have owners. `PrefixesInRange` is not
  inductive alone: the script checks the range against the *projection*, so the step needs
  `ProjectionIsReplay` to know that the score it checked is the one the replay reaches.
  `ProjectionEqualsReplay`, `PrefixReplaysInRange`, `RecordsAreFaithful` and `NoOrphanEvents`
  are its parts. The step has a case for an applied write (where `AppliedProjection`,
  `AppliedRange`, `AppliedRecords` and `AppliedOwners` each treat one part), for a rejected one,
  for registry actions (`RegistryGrows`: owners never disappear) and for expiry.
- `SetIsBarrier`: for every ledger, a player's replayed score is that of the replay from
  any of the player's sets on. `StandingIsLastSetPlusRest` is rule 4 of the projection itself,
  as the sum of the last set and what follows it: along the ledger nothing is counted before
  the last set, and from it on the score is the sum so far. `PartialSums` is a recursive
  function like replay and exists by the same argument.
- `RegistryIsConsistent`: `RegistryTypeOK`, `KeysNameProfiles` and `IndexNamesBoards` are
  inductive together: a new idempotency record names a profile that was `Absent`, and
  `KeysNameProfiles` says every other record names one that was not, so no two records meet.

### 4.2 Sorting (`SortingProofs`)

Redis ranks a member by those ahead of it, `sort.Slice` leaves a sequence. For a strict total
order (`StrictlyOrders`) of a finite set, ranks number its members from 1 on, each once
(`RankIsBijection`), a sorted sequence exists (`SortExists`) and holds each member at its
rank (`SortedByRank`), so there is one only. The as-of page, the list of boards and the history
page all rest on this.

### 4.3 Boards (`BoardListingProofs`)

- `ListIsInCreationOrder`: from `ClockWasRead`: a board's score in the index is a clock
  reading not later than the second its script ran in, and a creation under way holds a reading
  not later than now.
- `ListingImplementsRegistry`: `ListingSpec => RegistrySpec`, step by step; `ClockWasRead`
  provides that the call a script runs for is well-typed. `ListingIsConsistent` carries
  `RegistryIsConsistent` over.
- `ListingsAreWhole`: the invariant `SoFar` relates the rows read to the ids still to read: they
  make up the index as it was read, no known board has lost its hash, and what each board's
  state has been is seen.

### 4.4 Rebuild, verify and reads (`StandingsProofs`)

- `RebuildIsReplay` and `VerifyIsExact` from `AdminInv`. A call in the middle of its commands
  has folded a prefix of the ledger: `CallInv` says that the key it folds into is the replay of
  the first `k` entries, for some `k`, and `todo` are its board's entries beyond them,
  unless something has disturbed it. That something else *is* known to have disturbed it needs
  `OverlapsAreSeen`: two calls on one board are in each other's `overlap`, which is why a command
  of the other cannot touch an undisturbed call's key. All of it is up to the scores of `resent`
  (`AgreeBut`): a fold keeps two sorted sets in agreement on the players they agreed on, a set
  brings its player back into agreement, and a command sent twice takes its player out (`FoldAgrees`).
- `RankStaysWithinTotal` and `PagesStayFull` from `ReadInv`, which follows one read through its
  pipeline: what the first command found bounds what the second will, because without a
  rebuild's DEL a sorted set only gains members.
- `AsOfAgreesWithLive`: the order of the as-of read and that of Redis are the same set of
  pairs, so `SortedByRank` puts every player of both pages in the same place.
- `PastDayIsFinal`: a new stamp is no earlier than the last one (`StampsGrow`), so the entries up
  to a past day are a prefix, as long as `Cutoff` says, that no later entry extends.

### 4.5 Clients (`WriteClientsProofs`)

`OkMeansApplied`, `RetriesAreRemembered` and `RetriesApplyOnce` (the refinement of `WriteOnce`)
from `ClientsInv`: for each client, its entry in the ledger, if any, is its own write and the only
one, and while it may retry that entry is remembered; `RecordsAreOwn` says that a record under
its key names an entry it made. The refinement maps a step to a step of `WriteOnce` or to a
stutter: a command that runs twice finds the record of its first run.

### 4.6 Consumers and history (`LedgerConsumerProofs`)

- `NothingIsLost`, `ExactWithoutFaults`, `HistoryIsAPrefix` and `CursorsAdvance`, from
  `ConsumerInv`. None of them is inductive, because between `Apply` and `SaveCursor`
  a batch is folded that the cursor does not know of: `Folded` is where a view is for certain,
  and `CountInv` and `IndexInv` speak of it. `BatchInv` says that the batch in hand follows the
  cursor. Each fault either forgets that something was folded or folds a prefix once more, and
  both add at most what there is to a count (`CountAborted`, `CountApplied`); a history that an
  interrupted batch has taken further stays a prefix when the batch is replayed (`IndexApplied`).
  `TallyFold` and `TallyAppend` are the facts about counting on which this rests.
- `PagesReadBackwards`: ids increase lexicographically (`IdsInv`), and where an id `Fits` the
  index puts the later of two ids first (`LaterIdFirst`): scores of
  different milliseconds are a whole `SeqScale` apart, and where the clamp makes two scores equal,
  `SequencesFit` says the sequence numbers are equally wide, and then their texts are in order.
- `WaitingIsEnough`: the index is the history up to some point (`IndexInv`); a full page of all
  writes, or a head that only the last write can have, puts that point at the end; and one set has
  one descending sequence (`DescendingIsUnique`), so the comparison succeeds.

### 4.7 Limiter and process (`ServerProcessProofs`)

- `LimiterKeepsRate`: the refinement of `TokenBucket`, and `RetryAfterPays`. `LimiterInv` adds to
  the types that no request waits long for the mutex (`WaitsAreShort`), that a stored `lastSeen`
  is not older than the bucket's own clock by more than that wait (`LastSeenIsFresh`), and that
  the wait an address was told covers what its bucket lacks (`WaitCoversLack`). `IdleIsFull` is
  the heart of it: an entry that may be dropped has a full bucket.
- `ServerKeepsRate`: the process runs the limiter's steps and no others
  (`ServerImplementsLimiter`), so it keeps the rate too.
- `IdleEntriesGo` from `CleanupInTime`: while the server serves the ticker is never late, and an
  entry that survived its last round had been seen within `clientTTL` before it.
- `ConsumersStopBeforeReturn`, `ConsumersStopInTime` and `CutOffOnlyLate`: the shutdown
  properties, from `ServerInv`: no consumer is late with its command (`ConsumersInTime`), the wait
  for consumers ends after the slowest of them can be done (`WaitIsLong`), and a drain has its
  whole timeout (`DrainIsWhole`). `ConsumersStopOnSignal`, which the second of them states, has
  no run of its own.

### 4.8 Page and tool runner (`PageProofs`)

- `TableIsCurrent` and `FallsBackToLastPage` from `TableInv`. `TableShowsSelection` is about
  moments without a current refresh, so it is kept through them by `RefreshesOK`: ids are
  distinct, the current call was started for what is selected now, and a page that waits for its
  names is a page of the board's size it carries.
- `HistoryIsOfPlayer` from `HistoryInv`: requests are told apart by ids that only grow.
- `NoRowTwice` and `NoRowMissing` from `TickerInv`, two properties that are inductive only
  together: the rows are ordered and not ahead of the cursor (`RowsUpTo`), every entry between
  where they begin and the cursor is shown or older than a full list (`Complete`), at most one poll
  is under way and its page follows the cursor without a gap (`PollsOK`, `Follows`), and what is
  stored would do as the page's own after a reload (`StoredOK`).
- `RunsOneTool` and `AnswersBeatDeadline`: the slot is taken exactly while one request runs
  its tool (`SlotInv`), and a tool that runs began within the read timeout (`TimeInv`).

### 4.9 Assumptions

Each is named, stands in the module that declares its constants, and is evaluated by TLC
in the runs of the modules that extend it. The ones that say something about the system:

- `LedgerAssumption`, `ScoreWritesAssumption`: `score.Max` is a natural number and the amounts of
  requests are in its range, which the handlers validate; `Absent` and `NoKey` are not values
  they could be confused with.
- `BoardListingAssumption`, `StandingsAssumption`: boards and players are finitely many, so that
  a listing ends and ranks are numbers. Ids are numbers in their bytewise order.
- `RefillAssumption`, `MarginAssumption`: see `RateLimiter` and `ServerProcess` above.
- `ToolRunnerAssumption`: the slack after the tool's timeout is no less than the read timeout,
  which the code's two five seconds satisfy.

`PagesReadBackwards` and `WaitingIsEnough` have one more hypothesis, a predicate of the state and
not of the constants: `SequencesFit(h)`, that sequence numbers in the history `h` which an index
score clamps are as wide as the clamp. It bounds the entries of one millisecond, by ten
thousand, and not the ledger. Section 3 says when it could fail.

### 4.10 What only TLC checks

Liveness (`EveryEntryArrives`, `CatchesUp`, `SlotComesBack`) needs fairness and `ENABLED`, which
are out of the prover's reach. The two properties of `two_rebuilds` and `rebuild_range` are
refuted there, not proved.

## 5. Plan

The components with state are modelled, and the safety properties stated so far are proved. What is
left, by what it would add:

1. The page's board list and its status toggle (`app.js:364`), in `WebTable`.
2. The expiry of daily counts, with a clock of days, and the script that waits for them
   (`apiscripts/dailyactivity`).
3. An atomic rebuild as an abstract specification that `ProjectionAdmin` implements while
   rebuilds are undisturbed.

## 6. Not modelled

Request decoding and response encoding, logging, metrics, configuration, the page's
markup and the demo scripts but one have no state that a property could be about. Redis's
own persistence and replication are outside: a Redis that loses acknowledged data
breaks everything here. A ledger edited by hand is modelled only where the code
defends against it, in the consumers and in the feed. A tool that leaves a child of its own
behind, which would keep `cmd.Run` waiting, is outside `ToolRunner`.
