--------------------------- MODULE ProjectionAdmin ---------------------------
(***************************************************************************)
(* Rebuild and verify (storage/projection_admin.go).  Unlike a score write *)
(* they are not scripts: each call is a series of Redis commands, and the  *)
(* commands of concurrent calls, of score writes and of board switches     *)
(* interleave.  A call may be cut short between any two commands: by an    *)
(* error of Redis, by a cancelled request context, or with its process.    *)
(* And a command may run twice: go-redis, whose retries the code leaves at *)
(* their default, sends a command again when its reply is lost.            *)
(*                                                                         *)
(* Every call on a board folds into one of two keys shared by all calls on *)
(* that board: rebuild into the live projection, verify into a scratch     *)
(* key.                                                                    *)
(***************************************************************************)
EXTENDS ScoreWrites

CONSTANTS
    Admins,       \* concurrent admin calls
    AdminOps,     \* which of {"rebuild", "verify"} the calls may be
    Faults,       \* which of {"error", "death"} may end a call early
    MaxResends    \* bound on the commands sent again, in all

ASSUME ProjectionAdminAssumption ==
    /\ AdminOps \subseteq {"rebuild", "verify"}
    /\ Faults \subseteq {"error", "death"}
    /\ MaxResends \in Nat

VARIABLES
    resends,      \* commands sent again so far
    scratch,      \* app:admin:temp:verify:{board}: a sorted set per board
    pc,           \* the command each call sends next
    op,           \* what the call is
    target,       \* the board it is about
    todo,         \* the entries read and not yet folded, by position: the ledger
                  \* only grows, so an entry read earlier is what it was
    live,         \* verify: the live projection as it was read
    drift,        \* verify: the players found to differ
    overlap,      \* history: what else touched the board during the call
    resent        \* history: the players one of whose entries was sent again,
                  \* and no set folded since

callVars == <<pc, op, target, todo, live, drift, overlap, resent>>
adminVars == <<vars, scratch, resends, callVars>>

Disturbances == {"write", "rebuild", "verify"}
Steps == {"idle", "read", "drop", "fold", "read_live", "read_scratch", "clean", "quit"}

AdminTypeOK ==
    /\ TypeOK
    /\ scratch \in [Boards -> Zset]
    /\ pc \in [Admins -> Steps]
    /\ op \in [Admins -> AdminOps \cup {Absent}]
    /\ target \in [Admins -> Boards \cup {Absent}]
    /\ todo \in [Admins -> SUBSET (DOMAIN ledger)]
    /\ live \in [Admins -> Zset]
    /\ drift \in [Admins -> SUBSET Players]
    /\ overlap \in [Admins -> SUBSET Disturbances]
    /\ resent \in [Admins -> SUBSET Players]
    /\ resends \in 0..MaxResends

AdminInit ==
    /\ Init
    /\ scratch = [b \in Boards |-> EmptyZset]
    /\ pc = [a \in Admins |-> "idle"]
    /\ op = [a \in Admins |-> Absent]
    /\ target = [a \in Admins |-> Absent]
    /\ todo = [a \in Admins |-> {}]
    /\ live = [a \in Admins |-> EmptyZset]
    /\ drift = [a \in Admins |-> {}]
    /\ overlap = [a \in Admins |-> {}]
    /\ resent = [a \in Admins |-> {}]
    /\ resends = 0

Running(a, b) == pc[a] # "idle" /\ target[a] = b

-----------------------------------------------------------------------------
\* requireBoard: a call on an unknown board returns ErrBoardNotFound.
Begin(a, o, b) ==
    /\ pc[a] = "idle"
    /\ boardState[b] # Absent
    /\ pc' = [pc EXCEPT ![a] = "read"]
    /\ op' = [op EXCEPT ![a] = o]
    /\ target' = [target EXCEPT ![a] = b]
    /\ overlap' = [c \in Admins |->
            IF c = a THEN {op[d] : d \in {d \in Admins : Running(d, b)}}
            ELSE IF Running(c, b) THEN overlap[c] \cup {o}
            ELSE overlap[c]]
    /\ UNCHANGED <<vars, scratch, resends, todo, live, drift, resent>>

\* readBoardEvents: one XRANGE over the whole stream.
ReadEvents(a) ==
    /\ pc[a] = "read"
    /\ todo' = [todo EXCEPT ![a] = {i \in DOMAIN ledger : ledger[i].board = target[a]}]
    /\ pc' = [pc EXCEPT ![a] = "drop"]
    /\ UNCHANGED <<vars, scratch, resends, op, target, live, drift, overlap, resent>>

\* keyFor(board): where foldInto writes.
Dest(a) == IF op[a] = "rebuild" THEN projection[target[a]] ELSE scratch[target[a]]

PutDest(a, z) ==
    IF op[a] = "rebuild"
    THEN /\ projection' = [projection EXCEPT ![target[a]] = z]
         /\ UNCHANGED scratch
    ELSE /\ scratch' = [scratch EXCEPT ![target[a]] = z]
         /\ UNCHANGED projection

\* What a call forgets when it returns.
Forget(a) ==
    /\ op' = [op EXCEPT ![a] = Absent]
    /\ target' = [target EXCEPT ![a] = Absent]
    /\ todo' = [todo EXCEPT ![a] = {}]
    /\ live' = [live EXCEPT ![a] = EmptyZset]
    /\ drift' = [drift EXCEPT ![a] = {}]
    /\ overlap' = [overlap EXCEPT ![a] = {}]
    /\ resent' = [resent EXCEPT ![a] = {}]

\* The players still in doubt once these entries are folded: a set makes good
\* what was sent twice before it.
InDoubt(a, entries) ==
    {p \in resent[a] : \A i \in entries : ledger[i].type # "set" \/ ledger[i].player # p}

\* After the last fold a rebuild returns; a verify goes on to diffBoard.
Proceed(a, rest, doubt) ==
    IF rest = {} /\ op[a] = "rebuild"
    THEN pc' = [pc EXCEPT ![a] = "idle"] /\ Forget(a)
    ELSE /\ pc' = [pc EXCEPT ![a] = IF rest = {} THEN "read_live" ELSE "fold"]
         /\ todo' = [todo EXCEPT ![a] = rest]
         /\ resent' = [resent EXCEPT ![a] = doubt]
         /\ UNCHANGED <<op, target, live, drift, overlap>>

\* Mutant of Drop: the fold starts on top of what is there.
DropNothing(a) ==
    /\ pc[a] = "drop"
    /\ Proceed(a, todo[a], {})
    /\ UNCHANGED <<vars, scratch, resends>>

\* foldInto: DEL, ...
Drop(a) ==
    /\ pc[a] = "drop"
    /\ PutDest(a, EmptyZset)
    /\ Proceed(a, todo[a], {})
    /\ UNCHANGED <<registryVars, ledger, idempotency, resends>>

\* The entry whose command foldInto sends next: the oldest left.
IsNext(a, i) == i \in todo[a] /\ \A j \in todo[a] : i <= j

\* ... then one ZADD or ZINCRBY for each event, the oldest first.
FoldOne(a) ==
    /\ pc[a] = "fold"
    /\ \E i \in todo[a] :
          /\ IsNext(a, i)
          /\ PutDest(a, Fold(Dest(a), ledger[i]))
          /\ Proceed(a, todo[a] \ {i}, InDoubt(a, {i}))
    /\ UNCHANGED <<registryVars, ledger, idempotency, resends>>

\* Redis runs a command, the connection breaks before its reply is read, and
\* go-redis sends the command again: it runs now, and the call is where it was.
\* A second DEL or ZADD changes nothing, unless another call came in between; a
\* second ZINCRBY counts twice.  Commands that only read need no such action.
ResendCommand(a) ==
    /\ resends < MaxResends
    /\ resends' = resends + 1
    /\ \/ /\ pc[a] \in {"drop", "clean", "quit"}
          /\ PutDest(a, EmptyZset)
          /\ UNCHANGED resent
       \/ /\ pc[a] = "fold"
          /\ \E i \in todo[a] :
                /\ IsNext(a, i)
                /\ PutDest(a, Fold(Dest(a), ledger[i]))
                /\ resent' = [resent EXCEPT ![a] = @ \cup {ledger[i].player}]
    /\ UNCHANGED <<registryVars, ledger, idempotency, pc, op, target, todo, live, drift, overlap>>

\* diffBoard reads the live projection, then the scratch key.
ReadLive(a) ==
    /\ pc[a] = "read_live"
    /\ live' = [live EXCEPT ![a] = projection[target[a]]]
    /\ pc' = [pc EXCEPT ![a] = "read_scratch"]
    /\ UNCHANGED <<vars, scratch, resends, op, target, todo, drift, overlap, resent>>

\* Mutant of ReadScratch: members only the replay has are overlooked.
ReadScratchOfLive(a) ==
    /\ pc[a] = "read_scratch"
    /\ drift' = [drift EXCEPT ![a] =
            {p \in Players : live[a][p] # Absent /\ live[a][p] # scratch[target[a]][p]}]
    /\ pc' = [pc EXCEPT ![a] = "clean"]
    /\ UNCHANGED <<vars, scratch, resends, op, target, todo, live, overlap, resent>>

ReadScratch(a) ==
    /\ pc[a] = "read_scratch"
    /\ drift' = [drift EXCEPT ![a] =
            {p \in Players : live[a][p] # scratch[target[a]][p]}]
    /\ pc' = [pc EXCEPT ![a] = "clean"]
    /\ UNCHANGED <<vars, scratch, resends, op, target, todo, live, overlap, resent>>

\* The deferred DEL of the scratch key, under a context of its own: after the
\* diff, or after an error in it.
Clean(a) ==
    /\ pc[a] \in {"clean", "quit"}
    /\ scratch' = [scratch EXCEPT ![target[a]] = EmptyZset]
    /\ pc' = [pc EXCEPT ![a] = "idle"]
    /\ Forget(a)
    /\ UNCHANGED <<vars, resends>>

\* Redis fails or the request's context is cancelled: the call returns at
\* once.  The deferred DEL is in place only once foldInto has succeeded: an
\* error in diffBoard leads to it, an earlier one leaves everything as it is.
FailBeforeDiff(a) ==
    /\ "error" \in Faults
    /\ pc[a] \in {"read", "drop", "fold"}
    /\ pc' = [pc EXCEPT ![a] = "idle"]
    /\ Forget(a)
    /\ UNCHANGED <<vars, scratch, resends>>

FailInDiff(a) ==
    /\ "error" \in Faults
    /\ pc[a] \in {"read_live", "read_scratch"}
    /\ pc' = [pc EXCEPT ![a] = "quit"]
    /\ UNCHANGED <<vars, scratch, resends, op, target, todo, live, drift, overlap, resent>>

\* The process ends, or the deferred DEL itself fails: nothing is cleaned.
Die(a) ==
    /\ "death" \in Faults
    /\ pc[a] # "idle"
    /\ pc' = [pc EXCEPT ![a] = "idle"]
    /\ Forget(a)
    /\ UNCHANGED <<vars, scratch, resends>>

\* A score write on board b is an overlap for every call running on b.
Write(r) ==
    /\ ApplyScoreEvent(r)
    /\ overlap' = [a \in Admins |->
            IF Code(r) = "applied" /\ Running(a, r.board)
            THEN overlap[a] \cup {"write"} ELSE overlap[a]]
    /\ UNCHANGED <<scratch, resends, pc, op, target, todo, live, drift, resent>>

AdminStep(a) ==
    \/ \E o \in AdminOps, b \in Boards : Begin(a, o, b)
    \/ ReadEvents(a)
    \/ Drop(a)
    \/ FoldOne(a)
    \/ ResendCommand(a)
    \/ ReadLive(a)
    \/ ReadScratch(a)
    \/ Clean(a)
    \/ FailBeforeDiff(a)
    \/ FailInDiff(a)
    \/ Die(a)

AdminNext ==
    \/ RegistryNext /\ UNCHANGED <<scoreVars, scratch, resends, callVars>>
    \/ \E r \in Request : Write(r)
    \/ \E f \in Fields : ExpireKey(f) /\ UNCHANGED <<scratch, resends, callVars>>
    \/ \E a \in Admins : AdminStep(a)

AdminSpec == AdminInit /\ [][AdminNext]_adminVars

-----------------------------------------------------------------------------
\* A rebuild that returns successfully in this step.
RebuildReturns(a) ==
    /\ op[a] = "rebuild"
    /\ \/ pc[a] = "drop" /\ todo[a] = {}
       \/ pc[a] = "fold" /\ \E i \in todo[a] : todo[a] = {i}
    /\ Drop(a) \/ FoldOne(a)

\* Rule 1, as far as rebuild keeps it: a rebuild that overlaps no write and no
\* other rebuild of its board leaves exactly the replay of the ledger,
\* whatever the projection was before: drifted, half rebuilt by a call that
\* failed, or rebuilt twice at once.  Verifies, and anything on other boards,
\* do not disturb it.  The scores it does not vouch for are those of the
\* players one of whose increments go-redis sent again (ZINCRBY counts twice)
\* with no set after it: the call succeeds all the same.
RebuildRestores ==
    [][\A a \in Admins :
          RebuildReturns(a) /\ overlap[a] \subseteq {"verify"} =>
              \A p \in Players \ InDoubt(a, todo[a]) :
                  projection'[target[a]][p] = Replay(ledger', target[a])[p]]_adminVars

Drift(b) == {p \in Players : projection[b][p] # Replay(ledger, b)[p]}

\* A verify that overlaps nothing on its board reports exactly the drift there
\* is: no mismatch is invented and none is missed, even over a scratch key
\* that an earlier verify left behind.  Excepted are, again, the players one of
\* whose increments was sent twice into the scratch key.
VerifyReportsDrift ==
    \A a \in Admins :
        pc[a] = "clean" /\ overlap[a] = {} =>
            \A p \in Players \ resent[a] : p \in drift[a] <=> p \in Drift(target[a])
=============================================================================
