---------------------------- MODULE WriteClients ----------------------------
(***************************************************************************)
(* Clients that send a score write with an Idempotency-Key and retry it    *)
(* under the same key when they get no answer or a rejection (web/app.js:  *)
(* sendIdempotentJSON keeps the key of a write until it succeeds), over a  *)
(* path that may lose commands and replies: the browser's connection to    *)
(* the server, and the server's to Redis, whose client library resends a   *)
(* command by itself when the connection breaks.                           *)
(*                                                                         *)
(* A key is a fresh UUID for each logical write, so each client here makes *)
(* one write and its key is the client itself.                             *)
(***************************************************************************)
EXTENDS ScoreWrites

CONSTANTS
    Clients,           \* logical writes with a key
    MaxAttempts,       \* bound on how often a client tries
    MaxSends           \* how often the library sends a command (1 + MaxRetries)

ASSUME WriteClientsAssumption ==
    /\ Clients \subseteq Keys
    /\ MaxAttempts \in Nat \ {0} /\ MaxSends \in Nat \ {0}
    /\ Absent \notin Clients

VARIABLES
    request,    \* the write of each client, or Absent
    told,       \* what the client knows: idle, waiting, unknown, ok, rejected
    attempts,   \* HTTP requests the client has sent
    inflight,   \* commands on their way to Redis
    owner       \* history: who made each ledger entry

clientVars == <<request, told, attempts, inflight>>
allVars == <<vars, clientVars, owner>>

Command == [client : Clients, attempt : 1..MaxAttempts, sends : 1..MaxSends]

ClientTypeOK ==
    /\ TypeOK
    /\ request \in [Clients -> Request \cup {Absent}]
    /\ told \in [Clients -> {"idle", "waiting", "unknown", "ok", "rejected"}]
    /\ attempts \in [Clients -> 0..MaxAttempts]
    /\ inflight \subseteq Command
    /\ owner \in Seq(Clients \cup {Absent})

ClientInit ==
    /\ Init
    /\ request = [c \in Clients |-> Absent]
    /\ told = [c \in Clients |-> "idle"]
    /\ attempts = [c \in Clients |-> 0]
    /\ inflight = {}
    /\ owner = << >>

-----------------------------------------------------------------------------
SendAttempt(c) ==
    /\ attempts' = [attempts EXCEPT ![c] = @ + 1]
    /\ inflight' = inflight \cup
           {[client |-> c, attempt |-> attempts[c] + 1, sends |-> 1]}
    /\ told' = [told EXCEPT ![c] = "waiting"]

Start(c, r) ==
    /\ told[c] = "idle"
    /\ r.key = c
    /\ request' = [request EXCEPT ![c] = r]
    /\ SendAttempt(c)
    /\ UNCHANGED <<vars, owner>>

\* The same write again, under the key kept from the attempt that failed or
\* was rejected.
Retry(c) ==
    /\ told[c] \in {"unknown", "rejected"}
    /\ attempts[c] < MaxAttempts
    /\ SendAttempt(c)
    /\ UNCHANGED <<vars, request, owner>>

Awaits(m) == told[m.client] = "waiting" /\ attempts[m.client] = m.attempt

\* An answer to an attempt the client has given up on goes nowhere.
Tell(m, what) ==
    told' = IF Awaits(m) THEN [told EXCEPT ![m.client] = what] ELSE told

\* The client's connection fails; the server may go on regardless.
Disconnect(c) ==
    /\ told[c] = "waiting"
    /\ told' = [told EXCEPT ![c] = "unknown"]
    /\ UNCHANGED <<vars, request, attempts, inflight, owner>>

\* The server has no reply from Redis: the library resends, or gives up when
\* its sends are spent or the request is gone.
NoReply(m) ==
    \/ /\ m.sends < MaxSends
       /\ inflight' = (inflight \ {m}) \cup {[m EXCEPT !.sends = @ + 1]}
       /\ UNCHANGED told
    \/ /\ m.sends = MaxSends \/ ~Awaits(m)
       /\ inflight' = inflight \ {m}
       /\ Tell(m, "unknown")

\* Redis runs the script; its reply arrives or not.
RunCommand(m) ==
    LET r == request[m.client]
        verdict == IF Accepted(Code(r)) THEN "ok" ELSE "rejected"
    IN
    /\ ApplyScoreEvent(r)
    /\ owner' = IF Code(r) = "applied" THEN Append(owner, m.client) ELSE owner
    /\ \/ /\ inflight' = inflight \ {m}
          /\ Tell(m, verdict)
       \/ NoReply(m)
    /\ UNCHANGED <<request, attempts>>

\* The command never reaches Redis.
LoseCommand(m) ==
    /\ NoReply(m)
    /\ UNCHANGED <<vars, request, attempts, owner>>

\* A client without a key: whatever it retries is a write of its own.
OtherWrite(r) ==
    /\ r.key = NoKey
    /\ ApplyScoreEvent(r)
    /\ owner' = IF Code(r) = "applied" THEN Append(owner, Absent) ELSE owner
    /\ UNCHANGED clientVars

\* Nothing more is to come of the client's write.
Settled(c) ==
    /\ told[c] = "ok" \/ attempts[c] = MaxAttempts
    /\ \A m \in inflight : m.client # c

\* Assumption: nobody retries a write 24 h after its first attempt, so a key
\* outlives every retry of its write.
ExpireClientKey(f) ==
    /\ f[3] \in Clients => Settled(f[3])
    /\ ExpireKey(f)
    /\ UNCHANGED <<clientVars, owner>>

ClientNext ==
    \/ RegistryNext /\ UNCHANGED <<scoreVars, clientVars, owner>>
    \/ \E c \in Clients, r \in Request : Start(c, r)
    \/ \E c \in Clients : Retry(c) \/ Disconnect(c)
    \/ \E m \in inflight : RunCommand(m) \/ LoseCommand(m)
    \/ \E r \in Request : OtherWrite(r)
    \/ \E f \in Fields : ExpireClientKey(f)

ClientSpec == ClientInit /\ [][ClientNext]_allVars

-----------------------------------------------------------------------------
\* The detailed specification implements WriteOnce: a client's entries in the
\* ledger are its applications, and what it was told is its answer.
Once == INSTANCE WriteOnce WITH
    Other <- Absent,
    log <- owner,
    told <- [c \in Clients |->
                IF told[c] \in {"ok", "rejected"} THEN told[c] ELSE "nothing"]

\* Retries under one key apply at most once, "ok" means applied, and no retry
\* of an applied write is rejected, although the board may be closed and the
\* player's score may move between the attempts (the script consults the
\* idempotency record before anything else).
AppliesOnce == Once!OnceSpec

\* A client told "ok" finds exactly its own write in the ledger, once.
OkIsInTheLedger ==
    \A c \in Clients : told[c] = "ok" =>
        \E i \in DOMAIN owner :
            /\ owner[i] = c /\ ledger[i] = EventOf(request[c])
            /\ \A j \in DOMAIN owner : owner[j] = c => j = i

\* An unsettled write that is in the ledger is remembered there: a retry is
\* sure to be answered from the record instead of being applied again.
AppliedIsRemembered ==
    \A c \in Clients :
        ~Settled(c) /\ (\E i \in DOMAIN owner : owner[i] = c)
            => /\ idempotency[Field(request[c])] # Absent
               /\ owner[idempotency[Field(request[c])].entry] = c
=============================================================================
