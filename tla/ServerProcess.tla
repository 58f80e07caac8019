--------------------------- MODULE ServerProcess ---------------------------
(***************************************************************************)
(* The server process from its first request to its end (main.go and       *)
(* server.Start): requests pass the rate limiter and run handlers on the   *)
(* request client, the consumers run on a client of their own, and a       *)
(* signal cancels the context all of them share.  Then main drains the     *)
(* requests, closes the request client, waits for the consumers, closes    *)
(* theirs and returns; each wait has a timeout.                            *)
(*                                                                         *)
(* Of a consumer only its commands and their durations are kept; what it   *)
(* folds is in LedgerConsumer.  A command that is under way when the       *)
(* context is cancelled completes, a later one is not sent.                *)
(***************************************************************************)
EXTENDS RateLimiter

CONSTANTS
    Consumers,
    BlockDuration,     \* by consumer: how long its XREAD parks
    RetryBackoff,      \* retryBackoff
    WorkerStopMargin,  \* workerStopMargin
    ShutdownTimeout,   \* SHUTDOWN_TIMEOUT
    CommandTime,       \* bound on a command's time on the wire and in Redis
    MaxServing         \* bound on the time until a signal comes

ASSUME ServerProcessAssumption ==
    /\ BlockDuration \in [Consumers -> Nat]
    /\ RetryBackoff \in Nat /\ WorkerStopMargin \in Nat
    /\ ShutdownTimeout \in Nat \ {0} /\ CommandTime \in Nat \ {0} /\ MaxServing \in Nat

ASSUME SlowestAssumption ==
    \E c \in Consumers : \A d \in Consumers : BlockDuration[d] <= BlockDuration[c]

\* The margin is for what a read needs beyond the time it parks.
ASSUME MarginAssumption == CommandTime < WorkerStopMargin

VARIABLES
    phase,     \* what main is at
    deadline,  \* when its present wait ends, or Absent
    running,   \* slots whose handler runs
    stage,     \* by consumer: the command it is at
    since,     \* by consumer: when it issued that
    signalAt,  \* history: when the signal came, or Absent
    cutOff,    \* history: a handler found the request client closed
    killed     \* history: the process ended in another way than by main's return

mainVars == <<phase, deadline, signalAt, killed>>
consumerVars == <<stage, since>>
vars == <<limiterVars, mainVars, consumerVars, running, cutOff>>

Stages == {"command", "read", "backoff", "stopped"}

TypeOK ==
    /\ LimiterTypeOK
    /\ phase \in {"serving", "draining", "waiting", "exited"}
    /\ deadline \in Nat \cup {Absent}
    /\ deadline # Absent <=> phase \in {"draining", "waiting"}
    /\ running \in SUBSET Requests
    /\ stage \in [Consumers -> Stages]
    /\ since \in [Consumers -> Nat]
    /\ signalAt \in Nat \cup {Absent}
    /\ cutOff \in BOOLEAN /\ killed \in BOOLEAN

Init ==
    /\ LimiterInit
    /\ phase = "serving" /\ deadline = Absent
    /\ running = {}
    /\ stage = [c \in Consumers |-> "command"]
    /\ since = [c \in Consumers |-> 0]
    /\ signalAt = Absent
    /\ cutOff = FALSE /\ killed = FALSE

Alive == phase # "exited"

\* ctx.Done() is closed.
Cancelled == phase # "serving"

-----------------------------------------------------------------------------
\* A request of an API path comes in and is put to the limiter.  Shutdown
\* closes the listeners first.
ArriveAtApi(r, a) ==
    /\ ~Cancelled /\ r \notin running
    /\ Arrive(r, a)
    /\ UNCHANGED <<mainVars, consumerVars, running, cutOff>>

\* /livez and /readyz skip the limiter.
ArriveAtHealth(r) ==
    /\ ~Cancelled /\ r \notin running /\ arriving[r] = Absent
    /\ running' = running \cup {r}
    /\ UNCHANGED <<limiterVars, mainVars, consumerVars, cutOff>>

\* The middleware answers 429 or 503 itself, or calls the handler.
Decide(r) ==
    /\ Alive
    /\ Allow(r)
    /\ running' = IF Verdict(r) = "ok" THEN running \cup {r} ELSE running
    /\ UNCHANGED <<mainVars, consumerVars, cutOff>>

\* The handler returns; if it had a command left and the request client is
\* closed, that one failed.
Finish(r) ==
    /\ Alive /\ r \in running
    /\ running' = running \ {r}
    /\ cutOff' \in {cutOff, cutOff \/ phase = "waiting"}
    /\ UNCHANGED <<limiterVars, mainVars, consumerVars>>

\* runCleanup returns once the context is cancelled.  A round the select still
\* picks then could as well have come just before the signal.
CleanupRound ==
    /\ ~Cancelled
    /\ Cleanup
    /\ UNCHANGED <<mainVars, consumerVars, running, cutOff>>

-----------------------------------------------------------------------------
Goto(c, next) ==
    /\ stage' = [stage EXCEPT ![c] = IF Cancelled THEN "stopped" ELSE next]
    /\ since' = [since EXCEPT ![c] = now]
    /\ UNCHANGED <<limiterVars, mainVars, running, cutOff>>

\* A command of processOnce returns, and the next one is issued.
Advance(c) ==
    /\ Alive
    /\ \/ stage[c] \in {"command", "read"} /\ Goto(c, "command")
       \/ stage[c] = "command" /\ Goto(c, "read")
       \/ stage[c] = "backoff" /\ (Cancelled \/ now >= since[c] + RetryBackoff)
            /\ Goto(c, "command")

\* It fails, and Run backs off.
CommandFails(c) ==
    /\ Alive
    /\ stage[c] \in {"command", "read"}
    /\ Goto(c, "backoff")

\* How long a consumer stays at its present command at most.
Takes(c) ==
    CASE stage[c] = "read" -> BlockDuration[c] + CommandTime
      [] stage[c] = "backoff" -> RetryBackoff
      [] OTHER -> CommandTime

AllStopped == \A c \in Consumers : stage[c] = "stopped"

\* Mutant of MaxStopDelay: only the margin is waited for.
MaxStopDelayNone == 0

MaxStopDelay ==
    CHOOSE d \in {BlockDuration[c] : c \in Consumers} :
        \A c \in Consumers : BlockDuration[c] <= d

-----------------------------------------------------------------------------
\* ctx is cancelled; Start goes on to Shutdown.
Signal ==
    /\ phase = "serving"
    /\ phase' = "draining"
    /\ deadline' = now + ShutdownTimeout
    /\ signalAt' = now
    /\ UNCHANGED <<limiterVars, consumerVars, running, cutOff, killed>>

\* ListenAndServe fails and main calls os.Exit(1), or a second signal comes
\* after stop() and has its default effect.
Die ==
    /\ Alive
    /\ phase' = "exited" /\ deadline' = Absent
    /\ killed' = TRUE
    /\ UNCHANGED <<limiterVars, consumerVars, running, cutOff, signalAt>>

InFlight == running \cup {r \in Requests : arriving[r] # Absent}

\* Mutant of DrainOver: Close in place of Shutdown.
DrainOverAtOnce == TRUE

\* Shutdown returns: no request is in flight, or its context has expired.
DrainOver == InFlight = {} \/ now >= deadline

\* main closes the request client and starts to wait for the consumers.
CloseRequestClient ==
    /\ phase = "draining" /\ DrainOver
    /\ phase' = "waiting"
    /\ deadline' = now + MaxStopDelay + WorkerStopMargin
    /\ UNCHANGED <<limiterVars, consumerVars, running, cutOff, signalAt, killed>>

\* waitFor returns, main closes the consumers' client and returns.
Return ==
    /\ phase = "waiting" /\ (AllStopped \/ now >= deadline)
    /\ phase' = "exited" /\ deadline' = Absent
    /\ UNCHANGED <<limiterVars, consumerVars, running, cutOff, signalAt, killed>>

\* The cleanup gets the mutex as soon as its ticker fires.
CleanupIsPrompt == now < cleanupAt

\* A command returns in time, and a backoff ends with the context.
ConsumersArePrompt ==
    \A c \in Consumers : stage[c] # "stopped" =>
        /\ now < since[c] + Takes(c)
        /\ stage[c] = "backoff" => ~Cancelled

\* Time passes while nothing that takes bounded time is due.
Tick ==
    /\ Alive
    /\ IF phase = "serving" THEN CleanupIsPrompt /\ now < MaxServing ELSE now < deadline
    /\ ConsumersArePrompt
    /\ Elapse
    /\ UNCHANGED <<mainVars, consumerVars, running, cutOff>>

Next ==
    \/ \E r \in Requests, a \in Addresses : ArriveAtApi(r, a)
    \/ \E r \in Requests : ArriveAtHealth(r) \/ Decide(r) \/ Finish(r)
    \/ CleanupRound
    \/ \E c \in Consumers : Advance(c) \/ CommandFails(c)
    \/ Signal \/ Die
    \/ CloseRequestClient \/ Return
    \/ Tick

Spec == Init /\ [][Next]_vars

-----------------------------------------------------------------------------
\* runCleanup "Drops entries that are idle" (ratelimit.go:110), table full or
\* not: an entry outlives its last request by clientTTL and one period of the
\* ticker at most, as long as the server serves.
IdleIsForgotten ==
    phase = "serving" =>
        \A a \in Addresses : clients[a] # Absent =>
            now - clients[a].lastSeen <= ClientTTL + CleanupInterval

\* "server stopped, closing the request pool" (main.go:121): no handler finds
\* the client closed unless the shutdown used up its whole timeout.
CutOffAfterTimeout == cutOff => signalAt + ShutdownTimeout <= now

\* "Close the ledger pool after all consumers stopped" (main.go:126): when main
\* returns they have, whatever they were at when the signal came; a read that
\* parks and a retry's backoff included.
ConsumersStopFirst == phase = "exited" /\ ~killed => AllStopped

\* "Keep below the deployment's termination grace period" (README.md:148) is
\* sound advice for SHUTDOWN_TIMEOUT although main waits for the consumers after
\* it: they were cancelled with the listeners, so they are done one read after
\* the signal, long before the default timeout.
ConsumersStopOnSignal ==
    signalAt # Absent /\ ~killed /\ now > signalAt + MaxStopDelay + CommandTime => AllStopped
=============================================================================
