------------------------- MODULE WriteClientsProofs -------------------------
(***************************************************************************)
(* Proofs about clients that retry a keyed write over a path that loses    *)
(* commands and replies, for any number of clients, attempts and resends,  *)
(* next to any writers without a key, to registry changes and to the       *)
(* expiry of keys.                                                         *)
(***************************************************************************)
EXTENDS WriteClients, ScoreWritesProofs

InLedger(c) == \E i \in DOMAIN owner : owner[i] = c

\* Where one client stands: before it starts nothing of it is anywhere; then
\* its ledger entry, if any, is its own write and the only one, it is told
\* "ok" only of such an entry, and as long as a retry may still come the entry
\* is remembered.
ClientInv(c) ==
    /\ told[c] = "idle" => /\ attempts[c] = 0 /\ ~InLedger(c)
                           /\ \A m \in inflight : m.client # c
    /\ told[c] # "idle" => request[c] \in Request /\ request[c].key = c
    /\ \A i \in DOMAIN owner : owner[i] = c => ledger[i] = EventOf(request[c])
    /\ \A i, j \in DOMAIN owner : owner[i] = c /\ owner[j] = c => i = j
    /\ told[c] = "ok" => InLedger(c)
    /\ ~Settled(c) /\ InLedger(c) => idempotency[Field(request[c])] # Absent

\* A record under a client's key names an entry that this client made.
RecordsAreOwn ==
    \A f \in Fields :
        idempotency[f] # Absent /\ f[3] \in Clients => owner[idempotency[f].entry] = f[3]

ClientsInv ==
    /\ ScoreInv
    /\ ClientTypeOK
    /\ Len(owner) = Len(ledger)
    /\ RecordsAreOwn
    /\ \A c \in Clients : ClientInv(c)

-----------------------------------------------------------------------------
Knowledge == {"idle", "waiting", "unknown", "ok", "rejected"}

LEMMA ClientFacts ==
    ASSUME ClientsInv
    PROVE  /\ TypeOK /\ ledger \in Seq(Event) /\ owner \in Seq(Clients \cup {Absent})
           /\ Len(ledger) \in Nat /\ DOMAIN ledger = 1..Len(ledger)
           /\ DOMAIN owner = 1..Len(ledger)
           /\ request \in [Clients -> Request \cup {Absent}]
           /\ told \in [Clients -> Knowledge]
           /\ attempts \in [Clients -> 0..MaxAttempts]
           /\ inflight \subseteq Command
           /\ MaxAttempts \in Nat \ {0} /\ MaxSends \in Nat \ {0}
           /\ Clients \subseteq Keys /\ Absent \notin Clients /\ NoKey \notin Clients
BY WriteClientsAssumption, ScoreWritesAssumption
   DEF ClientsInv, ScoreInv, ClientTypeOK, TypeOK, Knowledge

\* What an answer, a lost one or a resend may do: commands only leave or are
\* sent again, and nobody but the command's client hears anything.
Answers(m, what) ==
    /\ told' \in [Clients -> Knowledge]
    /\ inflight' \subseteq Command
    /\ \A n \in inflight' : \E k \in inflight : k.client = n.client
    /\ \A c \in Clients :
          \/ told'[c] = told[c]
          \/ c = m.client /\ told[c] = "waiting" /\ told'[c] \in {what, "unknown"}

LEMMA AnswersFacts ==
    ASSUME ClientsInv, NEW m \in inflight, NEW what \in {"ok", "rejected", "unknown"},
           (inflight' = inflight \ {m} /\ Tell(m, what)) \/ NoReply(m)
    PROVE  Answers(m, what)
<1>1. /\ told \in [Clients -> Knowledge] /\ inflight \subseteq Command /\ m \in Command
      /\ MaxSends \in Nat
  BY ClientFacts
<1>2. m.client \in Clients /\ m.sends \in 1..MaxSends /\ m.attempt \in 1..MaxAttempts
  BY <1>1 DEF Command
<1>3. ASSUME NEW w \in {"ok", "rejected", "unknown"}, Tell(m, w)
      PROVE  /\ told' \in [Clients -> Knowledge]
             /\ \A c \in Clients :
                   \/ told'[c] = told[c]
                   \/ c = m.client /\ told[c] = "waiting" /\ told'[c] = w
  BY <1>1, <1>2, <1>3 DEF Tell, Awaits, Knowledge
<1>4. CASE inflight' = inflight \ {m} /\ Tell(m, what)
  BY <1>1, <1>3, <1>4 DEF Answers
<1>5. CASE /\ m.sends < MaxSends
           /\ inflight' = (inflight \ {m}) \cup {[m EXCEPT !.sends = @ + 1]}
           /\ UNCHANGED told
  <2>1. m.sends + 1 \in 1..MaxSends
    BY <1>1, <1>2, <1>5
  <2>2. /\ [m EXCEPT !.sends = @ + 1] \in Command
        /\ [m EXCEPT !.sends = @ + 1].client = m.client
    BY <1>1, <2>1 DEF Command
  <2> QED
    BY <1>1, <1>5, <2>2 DEF Answers
<1>6. CASE inflight' = inflight \ {m} /\ Tell(m, "unknown")
  BY <1>1, <1>3, <1>6 DEF Answers
<1> QED
  BY <1>4, <1>5, <1>6 DEF NoReply

\* What the run of a client's command does to the ledger: the write is
\* applied if it is not there yet, and it is there exactly if a record says so.
LEMMA CommandFacts ==
    ASSUME ClientsInv, NEW m \in inflight, RunCommand(m),
           NEW c, c = m.client, NEW r, r = request[c]
    PROVE  /\ c \in Clients /\ r \in Request /\ r.key = c /\ told[c] # "idle"
           /\ Field(r) \in Fields /\ r.key # NoKey
           /\ ApplyScoreEvent(r) /\ UNCHANGED <<request, attempts>>
           /\ \/ Code(r) = "applied" /\ ~InLedger(c) /\ owner' = Append(owner, c)
                 /\ Answers(m, "ok")
              \/ Code(r) = "deduped" /\ InLedger(c) /\ UNCHANGED <<scoreVars, owner>>
                 /\ Answers(m, "ok")
              \/ Code(r) \notin {"applied", "deduped"} /\ ~InLedger(c)
                 /\ UNCHANGED <<scoreVars, owner>> /\ Answers(m, "rejected")
<1>1. c \in Clients /\ NoKey \notin Clients /\ inflight \subseteq Command
  BY ClientFacts DEF Command
<1>2. ClientInv(c) /\ told[c] # "idle" /\ ~Settled(c)
  BY <1>1 DEF ClientsInv, ClientInv, Settled
<1>3. r \in Request /\ r.key = c /\ r.key # NoKey
  BY <1>1, <1>2 DEF ClientInv
<1>4. Field(r) \in Fields
  BY <1>3, RequestFacts
<1>5. /\ ApplyScoreEvent(r) /\ UNCHANGED <<request, attempts>>
      /\ owner' = IF Code(r) = "applied" THEN Append(owner, c) ELSE owner
      /\ Answers(m, IF Accepted(Code(r)) THEN "ok" ELSE "rejected")
  BY AnswersFacts DEF RunCommand
<1>6. InLedger(c) => Seen(r)
  BY <1>2, <1>3 DEF ClientInv, Seen
<1>7. Seen(r) => InLedger(c) /\ SameFingerprint(r)
  <2> SUFFICES ASSUME Seen(r) PROVE InLedger(c) /\ SameFingerprint(r)
    OBVIOUS
  <2>1. idempotency[Field(r)] # Absent /\ Field(r)[3] = c
    BY <1>3 DEF Seen, Field
  <2>2. PICK rec : rec = idempotency[Field(r)]
    OBVIOUS
  <2>3. /\ rec.entry \in 1..Len(ledger)
        /\ ledger[rec.entry] = [type |-> rec.type, player |-> Field(r)[2],
                                board |-> Field(r)[1], amount |-> rec.amount]
    BY <1>4, <2>1, <2>2 DEF ClientsInv, ScoreInv, RecordsNameTheirEntry
  <2>4. owner[rec.entry] = c /\ rec.entry \in DOMAIN owner
    BY <1>1, <1>4, <2>1, <2>2, <2>3, ClientFacts DEF ClientsInv, RecordsAreOwn
  <2>5. ledger[rec.entry] = EventOf(r)
    BY <1>2, <2>4 DEF ClientInv
  <2>6. rec.type = r.type /\ rec.amount = r.amount
    BY <2>3, <2>5 DEF EventOf
  <2> QED
    BY <2>2, <2>4, <2>6 DEF InLedger, SameFingerprint
<1>8. CASE Code(r) = "applied"
  <2>1. ~Seen(r)
    BY <1>8 DEF Code
  <2> QED
    BY <1>1, <1>2, <1>3, <1>4, <1>5, <1>6, <1>8, <2>1 DEF Accepted
<1>9. CASE Code(r) = "deduped"
  <2>1. Seen(r)
    BY <1>9 DEF Code
  <2>2. UNCHANGED <<scoreVars, owner>>
    BY <1>5, <1>9 DEF ApplyScoreEvent
  <2> QED
    BY <1>1, <1>2, <1>3, <1>4, <1>5, <1>7, <1>9, <2>1, <2>2 DEF Accepted
<1>10. CASE Code(r) \notin {"applied", "deduped"}
  <2>1. ~Seen(r)
    BY <1>7, <1>10 DEF Code
  <2>2. UNCHANGED <<scoreVars, owner>>
    BY <1>5, <1>10 DEF ApplyScoreEvent
  <2> QED
    BY <1>1, <1>2, <1>3, <1>4, <1>5, <1>6, <1>10, <2>1, <2>2 DEF Accepted
<1> QED
  BY <1>8, <1>9, <1>10

-----------------------------------------------------------------------------
\* A client to which nothing happens but that it is told less than it knows
\* it may be told, and whose entry and record stay, keeps its invariant.
LEMMA ClientFrame ==
    ASSUME ClientsInv, NEW c \in Clients,
           request'[c] = request[c], attempts'[c] = attempts[c],
           \A n \in inflight' : n.client = c => \E k \in inflight : k.client = c,
           \/ told'[c] = told[c]
           \/ told[c] = "waiting" /\ told'[c] \in {"unknown", "rejected"}
           \/ told[c] = "waiting" /\ told'[c] = "ok" /\ InLedger(c),
           DOMAIN owner \subseteq DOMAIN owner',
           \A i \in DOMAIN owner : owner'[i] = owner[i] /\ ledger'[i] = ledger[i],
           \A i \in DOMAIN owner' : owner'[i] = c => i \in DOMAIN owner,
           told[c] # "idle" /\ ~Settled(c) /\ idempotency[Field(request[c])] # Absent
               => idempotency'[Field(request[c])] # Absent
    PROVE  ClientInv(c)'
<1>1. ClientInv(c)
  BY DEF ClientsInv
<1>2. InLedger(c)' <=> InLedger(c)
  BY DEF InLedger
<1>3. Settled(c) => Settled(c)'
  BY DEF Settled
<1>4. /\ told'[c] = "idle" => told[c] = "idle"
      /\ told'[c] = "ok" => told[c] = "ok" \/ InLedger(c)
  OBVIOUS
<1>5. told'[c] = "idle" => attempts'[c] = 0 /\ ~InLedger(c)' /\ \A n \in inflight' : n.client # c
  BY <1>1, <1>2, <1>4 DEF ClientInv
<1>6. told'[c] # "idle" => request'[c] \in Request /\ request'[c].key = c
  BY <1>1 DEF ClientInv
<1>7. /\ \A i \in DOMAIN owner' : owner'[i] = c => ledger'[i] = EventOf(request'[c])
      /\ \A i, j \in DOMAIN owner' : owner'[i] = c /\ owner'[j] = c => i = j
  BY <1>1 DEF ClientInv
<1>8. told'[c] = "ok" => InLedger(c)'
  BY <1>1, <1>2, <1>4 DEF ClientInv
<1>9. ~Settled(c)' /\ InLedger(c)' => idempotency'[Field(request'[c])] # Absent
  BY <1>1, <1>2, <1>3 DEF ClientInv
<1> QED
  BY <1>5, <1>6, <1>7, <1>8, <1>9 DEF ClientInv

\* The client whose write is applied.
LEMMA ClientApplies ==
    ASSUME ClientsInv, NEW m \in inflight, RunCommand(m),
           NEW c, c = m.client, NEW r, r = request[c], Code(r) = "applied"
    PROVE  ClientInv(c)'
<1>1. /\ c \in Clients /\ r \in Request /\ r.key = c /\ told[c] # "idle"
      /\ Field(r) \in Fields /\ r.key # NoKey
      /\ ApplyScoreEvent(r) /\ UNCHANGED <<request, attempts>>
      /\ ~InLedger(c) /\ owner' = Append(owner, c) /\ Answers(m, "ok")
  BY CommandFacts
<1>2. /\ ledger' = Append(ledger, EventOf(r)) /\ idempotency' = Remember(r)
      /\ EventOf(r) \in Event
  BY <1>1, AppliedFacts, ClientFacts, RequestFacts
<1>3. /\ DOMAIN owner' = 1..(Len(ledger) + 1) /\ owner'[Len(ledger) + 1] = c
      /\ ledger'[Len(ledger) + 1] = EventOf(r)
      /\ Len(ledger) \in Nat
      /\ \A i \in 1..Len(ledger) : owner'[i] # c
  <2>1. Len(owner) = Len(ledger)
    BY DEF ClientsInv
  <2>2. /\ owner \in Seq(Clients \cup {Absent}) /\ ledger \in Seq(Event)
        /\ DOMAIN owner = 1..Len(ledger) /\ Len(ledger) \in Nat
    BY ClientFacts
  <2>3. \A i \in 1..Len(ledger) : owner'[i] = owner[i]
    BY <1>1, <2>1, <2>2
  <2>4. \A i \in 1..Len(ledger) : owner[i] # c
    BY <1>1, <2>2 DEF InLedger
  <2> QED
    BY <1>1, <1>2, <2>1, <2>2, <2>3, <2>4
<1>4. /\ \A i \in DOMAIN owner' : owner'[i] = c => ledger'[i] = EventOf(r)
      /\ \A i, j \in DOMAIN owner' : owner'[i] = c /\ owner'[j] = c => i = j
  <2>1. \A i \in DOMAIN owner' : owner'[i] = c => i = Len(ledger) + 1
    BY <1>3
  <2> QED
    BY <1>3, <2>1
<1>5. InLedger(c)'
  <2>1. Len(ledger) + 1 \in DOMAIN owner'
    BY <1>3
  <2> QED
    BY <1>3, <2>1 DEF InLedger
<1>6. told'[c] # "idle" /\ request'[c] = r
  BY <1>1 DEF Answers
<1>7. idempotency'[Field(r)] # Absent
  <2>1. [entry |-> Len(ledger) + 1, type |-> r.type, amount |-> r.amount] \in IdempotencyRecord
    BY <1>1, <1>3, RequestFacts DEF IdempotencyRecord
  <2>2. idempotency'[Field(r)] =
            [entry |-> Len(ledger) + 1, type |-> r.type, amount |-> r.amount]
    BY <1>1, <1>2, ClientFacts DEF Remember, TypeOK
  <2> QED
    BY <2>1, <2>2, ConstantFacts
<1> QED
  BY <1>1, <1>4, <1>5, <1>6, <1>7 DEF ClientInv

\* A new entry of somebody else's, and at most one new record of somebody
\* else's, disturb no client.
LEMMA OthersApply ==
    ASSUME ClientsInv, NEW r \in Request, ApplyScoreEvent(r), Code(r) = "applied",
           NEW who \in Clients \cup {Absent}, owner' = Append(owner, who)
    PROVE  /\ Len(owner') = Len(ledger')
           /\ DOMAIN owner \subseteq DOMAIN owner'
           /\ \A i \in DOMAIN owner : owner'[i] = owner[i] /\ ledger'[i] = ledger[i]
           /\ \A c \in Clients : c # who =>
                 \A i \in DOMAIN owner' : owner'[i] = c => i \in DOMAIN owner
           /\ \A c \in Clients : c # r.key =>
                 idempotency'[Field(request[c])] # Absent
                     \/ idempotency[Field(request[c])] = Absent
                     \/ told[c] = "idle"
<1>1. /\ ledger \in Seq(Event) /\ owner \in Seq(Clients \cup {Absent})
      /\ Len(owner) = Len(ledger) /\ idempotency \in [Fields -> IdempotencyRecord \cup {Absent}]
  BY ClientFacts DEF ClientsInv, TypeOK
<1>2. ledger' = Append(ledger, EventOf(r)) /\ idempotency' = Remember(r) /\ EventOf(r) \in Event
  BY AppliedFacts, ClientFacts, RequestFacts
<1>3. /\ Len(owner') = Len(ledger')
      /\ DOMAIN owner \subseteq DOMAIN owner'
      /\ \A i \in DOMAIN owner : owner'[i] = owner[i] /\ ledger'[i] = ledger[i]
      /\ \A i \in DOMAIN owner' : i \in DOMAIN owner \/ owner'[i] = who
  BY <1>1, <1>2
<1>4. ASSUME NEW c \in Clients, c # r.key, told[c] # "idle"
      PROVE  idempotency'[Field(request[c])] = idempotency[Field(request[c])]
  <2>1. request[c] \in Request /\ request[c].key = c /\ c # NoKey
    BY <1>4, ClientFacts DEF ClientsInv, ClientInv
  <2>2. Field(request[c]) \in Fields /\ Field(request[c])[3] = c
    BY <2>1, RequestFacts DEF Field
  <2>3. Field(request[c]) # Field(r)
    BY <1>4, <2>2 DEF Field
  <2> QED
    BY <1>1, <1>2, <2>2, <2>3 DEF Remember
<1> QED
  BY <1>3, <1>4

-----------------------------------------------------------------------------
LEMMA ClientsInvInit == ASSUME ClientInit PROVE ClientsInv
<1>1. ScoreInv
  BY ScoreInvInit DEF ClientInit
<1>2. ClientTypeOK
  BY <1>1, WriteClientsAssumption DEF ClientInit, ClientTypeOK, ScoreInv
<1>3. Len(owner) = Len(ledger) /\ DOMAIN owner = {}
  BY DEF ClientInit, Init
<1>4. RecordsAreOwn
  BY DEF ClientInit, Init, RecordsAreOwn
<1>5. \A c \in Clients : ClientInv(c)
  BY <1>3 DEF ClientInit, ClientInv, InLedger
<1> QED
  BY <1>1, <1>2, <1>3, <1>4, <1>5 DEF ClientsInv

\* Every step is one of the score write path, or leaves the score data alone.
LEMMA ClientStepIsScoreStep ==
    ASSUME ClientsInv, [ClientNext]_allVars
    PROVE  [Next]_vars
<1>1. ASSUME NEW m \in inflight, RunCommand(m) PROVE Next
  <2>1. \E r \in Request : ApplyScoreEvent(r)
    BY <1>1, CommandFacts
  <2> QED
    BY <2>1 DEF Next
<1> QED
  BY <1>1 DEF ClientNext, Next, Start, Retry, Disconnect, LoseCommand, OtherWrite,
              ExpireClientKey, allVars

LEMMA ClientScore ==
    ASSUME ClientsInv, [ClientNext]_allVars
    PROVE  ScoreInv' /\ TypeOK'
BY ClientStepIsScoreStep, ScoreInvStep DEF ClientsInv, ScoreInv

\* Steps that apply nothing: the ledger, its owners and the records stay.
LEMMA QuietClientStep ==
    ASSUME ClientsInv, [ClientNext]_allVars, UNCHANGED <<scoreVars, owner>>, ClientTypeOK',
           \A c \in Clients : ClientInv(c)'
    PROVE  ClientsInv'
<1>1. Len(owner') = Len(ledger') /\ RecordsAreOwn'
  BY DEF scoreVars, ClientsInv, RecordsAreOwn
<1> QED
  BY <1>1, ClientScore DEF ClientsInv

\* A client sends its write, for the first time or again.
LEMMA SendKeeps ==
    ASSUME ClientsInv, NEW c \in Clients, NEW r \in Request, r.key = c,
           \/ Start(c, r)
           \/ Retry(c) /\ r = request[c]
    PROVE  ClientsInv'
<1>1. /\ told \in [Clients -> Knowledge] /\ attempts \in [Clients -> 0..MaxAttempts]
      /\ request \in [Clients -> Request \cup {Absent}] /\ inflight \subseteq Command
      /\ owner \in Seq(Clients \cup {Absent}) /\ MaxAttempts \in Nat \ {0} /\ MaxSends \in Nat \ {0}
  BY ClientFacts
<1>2. ClientInv(c) /\ told[c] \in {"idle", "unknown", "rejected"} /\ attempts[c] < MaxAttempts
      /\ (told[c] = "idle" => attempts[c] = 0)
  BY <1>1 DEF ClientsInv, ClientInv, Start, Retry
<1>3. /\ UNCHANGED <<vars, owner>> /\ SendAttempt(c)
      /\ request' = [request EXCEPT ![c] = r]
  BY <1>1 DEF Start, Retry
<1>4. [ClientNext]_allVars
  BY DEF ClientNext, Start, Retry
<1>5. UNCHANGED scoreVars
  BY <1>3 DEF vars
<1>6. [client |-> c, attempt |-> attempts[c] + 1, sends |-> 1] \in Command
  BY <1>1, <1>2 DEF Command
<1>7. ClientTypeOK'
  BY <1>1, <1>2, <1>3, <1>4, <1>6, ClientScore DEF ClientTypeOK, SendAttempt, Knowledge
<1>8. ClientInv(c)'
  <2>1. told'[c] = "waiting" /\ request'[c] = r
    BY <1>1, <1>3 DEF SendAttempt
  <2>2. InLedger(c)' <=> InLedger(c)
    BY <1>3 DEF InLedger
  <2>3. CASE told[c] = "idle"
    <3>1. ~InLedger(c)
      BY <1>2, <2>3 DEF ClientInv
    <3> QED
      BY <1>3, <2>1, <2>2, <3>1 DEF ClientInv, InLedger
  <2>4. CASE told[c] \in {"unknown", "rejected"}
    <3>1. request'[c] = request[c]
      BY <2>1, <2>4 DEF Start
    <3>2. ~Settled(c)
      BY <1>1, <1>2, <2>4 DEF Settled
    <3> QED
      BY <1>2, <1>3, <1>5, <2>1, <2>2, <3>1, <3>2 DEF ClientInv, scoreVars
  <2> QED
    BY <1>2, <2>3, <2>4
<1>9. ASSUME NEW d \in Clients, d # c PROVE ClientInv(d)'
  <2>1. /\ told'[d] = told[d] /\ attempts'[d] = attempts[d] /\ request'[d] = request[d]
        /\ \A n \in inflight' : n.client = d => n \in inflight
    BY <1>1, <1>3, <1>9 DEF SendAttempt
  <2> QED
    BY <1>3, <1>5, <2>1, ClientFrame DEF scoreVars
<1> QED
  BY <1>3, <1>4, <1>5, <1>7, <1>8, <1>9, QuietClientStep

LEMMA RunKeeps ==
    ASSUME ClientsInv, NEW m \in inflight, RunCommand(m)
    PROVE  ClientsInv'
<1>1. PICK c, r : c = m.client /\ r = request[c]
  OBVIOUS
<1>2. /\ c \in Clients /\ r \in Request /\ r.key = c
      /\ ApplyScoreEvent(r) /\ UNCHANGED <<request, attempts>>
      /\ \/ Code(r) = "applied" /\ ~InLedger(c) /\ owner' = Append(owner, c)
            /\ Answers(m, "ok")
         \/ Code(r) = "deduped" /\ InLedger(c) /\ UNCHANGED <<scoreVars, owner>>
            /\ Answers(m, "ok")
         \/ Code(r) \notin {"applied", "deduped"} /\ ~InLedger(c)
            /\ UNCHANGED <<scoreVars, owner>> /\ Answers(m, "rejected")
  BY <1>1, CommandFacts
<1>3. [ClientNext]_allVars
  BY DEF ClientNext
<1>4. owner \in Seq(Clients \cup {Absent})
  BY ClientFacts
<1>5. ClientTypeOK'
  <2>1. told' \in [Clients -> Knowledge] /\ inflight' \subseteq Command
    BY <1>2 DEF Answers
  <2>2. owner' \in Seq(Clients \cup {Absent})
    BY <1>2, <1>4
  <2> QED
    BY <1>2, <1>3, <2>1, <2>2, ClientScore DEF ClientTypeOK, ClientsInv, Knowledge
<1>6. CASE Code(r) = "applied"
  <2>1. owner' = Append(owner, c) /\ Answers(m, "ok")
    BY <1>2, <1>6
  <2>2. /\ Len(owner') = Len(ledger')
        /\ DOMAIN owner \subseteq DOMAIN owner'
        /\ \A i \in DOMAIN owner : owner'[i] = owner[i] /\ ledger'[i] = ledger[i]
        /\ \A d \in Clients : d # c =>
              \A i \in DOMAIN owner' : owner'[i] = d => i \in DOMAIN owner
        /\ \A d \in Clients : d # c =>
              idempotency'[Field(request[d])] # Absent
                  \/ idempotency[Field(request[d])] = Absent
                  \/ told[d] = "idle"
    BY <1>2, <1>6, <2>1, OthersApply
  <2>3. ClientInv(c)'
    BY <1>1, <1>6, ClientApplies
  <2>4. ASSUME NEW d \in Clients, d # c PROVE ClientInv(d)'
    BY <1>1, <1>2, <2>1, <2>2, <2>4, ClientFrame DEF Answers
  <2>5. RecordsAreOwn'
    <3> SUFFICES ASSUME NEW f \in Fields, idempotency'[f] # Absent, f[3] \in Clients
                 PROVE  owner'[idempotency'[f].entry] = f[3]
      BY DEF RecordsAreOwn
    <3>1. /\ idempotency' = Remember(r) /\ idempotency \in [Fields -> IdempotencyRecord \cup {Absent}]
          /\ Field(r) \in Fields /\ r.key # NoKey /\ Field(r)[3] = c
      BY <1>1, <1>2, <1>6, AppliedFacts, ClientFacts, CommandFacts DEF TypeOK, Field
    <3>2. CASE f = Field(r)
      <4>1. idempotency'[f].entry = Len(ledger) + 1
        BY <3>1, <3>2 DEF Remember
      <4>2. Len(owner) = Len(ledger)
        BY DEF ClientsInv
      <4> QED
        BY <1>4, <2>1, <3>1, <3>2, <4>1, <4>2
    <3>3. CASE f # Field(r)
      <4>1. idempotency'[f] = idempotency[f]
        BY <3>1, <3>3 DEF Remember
      <4>2. idempotency[f].entry \in DOMAIN owner
        BY <4>1, ClientFacts DEF ClientsInv, ScoreInv, RecordsNameTheirEntry
      <4> QED
        BY <2>2, <4>1, <4>2 DEF ClientsInv, RecordsAreOwn
    <3> QED
      BY <3>2, <3>3
  <2> QED
    BY <1>3, <1>5, <2>2, <2>3, <2>4, <2>5, ClientScore DEF ClientsInv
<1>7. CASE Code(r) # "applied"
  <2>1. UNCHANGED <<scoreVars, owner>>
    BY <1>2, <1>7
  <2>2. ASSUME NEW d \in Clients PROVE ClientInv(d)'
    <3>1. CASE Code(r) = "deduped"
      BY <1>1, <1>2, <2>1, <3>1, ClientFrame DEF Answers, scoreVars
    <3>2. CASE Code(r) # "deduped"
      BY <1>1, <1>2, <1>7, <2>1, <3>2, ClientFrame DEF Answers, scoreVars
    <3> QED
      BY <3>1, <3>2
  <2> QED
    BY <1>3, <1>5, <2>1, <2>2, QuietClientStep
<1> QED
  BY <1>6, <1>7

LEMMA OtherWriteKeeps ==
    ASSUME ClientsInv, NEW r \in Request, OtherWrite(r)
    PROVE  ClientsInv'
<1>1. /\ r.key = NoKey /\ ApplyScoreEvent(r) /\ UNCHANGED clientVars
      /\ owner' = IF Code(r) = "applied" THEN Append(owner, Absent) ELSE owner
      /\ \A c \in Clients : c # r.key /\ c # Absent
  BY ClientFacts DEF OtherWrite
<1>2. [ClientNext]_allVars
  BY DEF ClientNext
<1>3. ClientTypeOK'
  <2>1. owner' \in Seq(Clients \cup {Absent})
    BY <1>1, ClientFacts
  <2> QED
    BY <1>1, <1>2, <2>1, ClientScore DEF ClientTypeOK, clientVars, ClientsInv
<1>4. CASE Code(r) = "applied"
  <2>1. owner' = Append(owner, Absent)
    BY <1>1, <1>4
  <2>2. /\ Len(owner') = Len(ledger')
        /\ DOMAIN owner \subseteq DOMAIN owner'
        /\ \A i \in DOMAIN owner : owner'[i] = owner[i] /\ ledger'[i] = ledger[i]
        /\ \A c \in Clients : c # Absent =>
              \A i \in DOMAIN owner' : owner'[i] = c => i \in DOMAIN owner
        /\ \A c \in Clients : c # r.key =>
              idempotency'[Field(request[c])] # Absent
                  \/ idempotency[Field(request[c])] = Absent
                  \/ told[c] = "idle"
    BY <1>1, <1>4, <2>1, OthersApply
  <2>3. ASSUME NEW c \in Clients PROVE ClientInv(c)'
    BY <1>1, <2>2, ClientFrame DEF clientVars
  <2>4. RecordsAreOwn'
    <3>1. idempotency' = idempotency
      BY <1>1, <1>4, AppliedFacts, ClientFacts DEF Remember
    <3>2. \A f \in Fields : idempotency[f] # Absent => idempotency[f].entry \in DOMAIN owner
      BY ClientFacts DEF ClientsInv, ScoreInv, RecordsNameTheirEntry
    <3> QED
      BY <2>2, <3>1, <3>2 DEF ClientsInv, RecordsAreOwn
  <2> QED
    BY <1>2, <1>3, <2>2, <2>3, <2>4, ClientScore DEF ClientsInv
<1>5. CASE Code(r) # "applied"
  <2>1. UNCHANGED <<scoreVars, owner>>
    BY <1>1, <1>5 DEF ApplyScoreEvent
  <2>2. ASSUME NEW c \in Clients PROVE ClientInv(c)'
    BY <1>1, <2>1, ClientFrame DEF scoreVars, clientVars
  <2> QED
    BY <1>2, <1>3, <2>1, <2>2, QuietClientStep
<1> QED
  BY <1>4, <1>5

LEMMA LoseKeeps ==
    ASSUME ClientsInv, NEW m \in inflight, LoseCommand(m)
    PROVE  ClientsInv'
<1>1. Answers(m, "unknown") /\ UNCHANGED <<vars, request, attempts, owner>>
  BY AnswersFacts DEF LoseCommand
<1>2. [ClientNext]_allVars /\ UNCHANGED <<scoreVars, owner>>
  BY <1>1 DEF ClientNext, vars
<1>3. ClientTypeOK'
  BY <1>1, <1>2, ClientScore DEF ClientTypeOK, ClientsInv, Answers, Knowledge
<1>4. \A c \in Clients : ClientInv(c)'
  BY <1>1, <1>2, ClientFrame DEF Answers, scoreVars
<1> QED
  BY <1>2, <1>3, <1>4, QuietClientStep

LEMMA DisconnectKeeps ==
    ASSUME ClientsInv, NEW c \in Clients, Disconnect(c)
    PROVE  ClientsInv'
<1>1. /\ told \in [Clients -> Knowledge] /\ told[c] = "waiting"
      /\ told' = [told EXCEPT ![c] = "unknown"]
      /\ UNCHANGED <<vars, request, attempts, inflight, owner>>
  BY ClientFacts DEF Disconnect
<1>2. [ClientNext]_allVars /\ UNCHANGED <<scoreVars, owner>>
  BY <1>1 DEF ClientNext, vars
<1>3. ClientTypeOK'
  BY <1>1, <1>2, ClientScore DEF ClientTypeOK, ClientsInv, Knowledge
<1>4. ASSUME NEW d \in Clients PROVE ClientInv(d)'
  <2>1. told'[d] = told[d] \/ (told[d] = "waiting" /\ told'[d] = "unknown")
    BY <1>1
  <2> QED
    BY <1>1, <1>2, <2>1, ClientFrame DEF scoreVars
<1> QED
  BY <1>2, <1>3, <1>4, QuietClientStep

\* A key expires only when its client sends no more.
LEMMA ExpiryKeeps ==
    ASSUME ClientsInv, NEW f \in Fields, ExpireClientKey(f)
    PROVE  ClientsInv'
<1>1. /\ f[3] \in Clients => Settled(f[3])
      /\ idempotency' = [idempotency EXCEPT ![f] = Absent]
      /\ UNCHANGED <<projection, ledger, registryVars, clientVars, owner>>
      /\ idempotency \in [Fields -> IdempotencyRecord \cup {Absent}]
  BY ClientFacts DEF ExpireClientKey, ExpireKey, TypeOK
<1>2. [ClientNext]_allVars
  BY DEF ClientNext
<1>3. ClientTypeOK'
  BY <1>1, <1>2, ClientScore DEF ClientTypeOK, ClientsInv, clientVars
<1>4. ASSUME NEW c \in Clients PROVE ClientInv(c)'
  <2>1. ASSUME told[c] # "idle", ~Settled(c)
        PROVE  idempotency'[Field(request[c])] = idempotency[Field(request[c])]
    <3>1. request[c] \in Request /\ request[c].key = c /\ c # NoKey
      BY <2>1, ClientFacts DEF ClientsInv, ClientInv
    <3>2. Field(request[c]) \in Fields /\ Field(request[c])[3] = c
      BY <3>1, RequestFacts DEF Field
    <3> QED
      BY <1>1, <2>1, <3>2
  <2> QED
    BY <1>1, <2>1, ClientFrame DEF clientVars
<1>5. Len(owner') = Len(ledger') /\ RecordsAreOwn'
  BY <1>1 DEF ClientsInv, RecordsAreOwn
<1> QED
  BY <1>2, <1>3, <1>4, <1>5, ClientScore DEF ClientsInv

LEMMA ClientsInvStep ==
    ASSUME ClientsInv, [ClientNext]_allVars
    PROVE  ClientsInv'
<1>1. CASE \/ RegistryNext /\ UNCHANGED <<scoreVars, clientVars, owner>>
           \/ UNCHANGED allVars
  <2>1. UNCHANGED <<scoreVars, clientVars, owner>>
    BY <1>1 DEF allVars, vars
  <2>2. ClientTypeOK'
    BY <2>1, ClientScore DEF ClientTypeOK, clientVars, ClientsInv
  <2>3. \A c \in Clients : ClientInv(c)'
    BY <2>1, ClientFrame DEF scoreVars, clientVars
  <2> QED
    BY <2>1, <2>2, <2>3, QuietClientStep
<1>2. ASSUME NEW c \in Clients, NEW r \in Request, Start(c, r) PROVE ClientsInv'
  BY <1>2, SendKeeps DEF Start
<1>3. ASSUME NEW c \in Clients, Retry(c) PROVE ClientsInv'
  <2>1. request[c] \in Request /\ request[c].key = c
    BY <1>3 DEF Retry, ClientsInv, ClientInv
  <2> QED
    BY <1>3, <2>1, SendKeeps
<1> QED
  BY <1>1, <1>2, <1>3, RunKeeps, LoseKeeps, DisconnectKeeps, OtherWriteKeeps, ExpiryKeeps
     DEF ClientNext

LEMMA ClientsInvAlways == ClientSpec => []ClientsInv
<1>1. ClientInit => ClientsInv
  BY ClientsInvInit
<1>2. ClientsInv /\ [ClientNext]_allVars => ClientsInv'
  BY ClientsInvStep
<1> QED
  BY <1>1, <1>2, PTL DEF ClientSpec

-----------------------------------------------------------------------------
\* A client that is told "ok" finds its own write in the ledger, exactly once,
\* however often the path lost its commands or their replies.
THEOREM OkMeansApplied == ClientSpec => []OkIsInTheLedger
<1>1. ClientsInv => OkIsInTheLedger
  BY DEF ClientsInv, ClientInv, InLedger, OkIsInTheLedger
<1> QED
  BY <1>1, ClientsInvAlways, PTL

\* As long as a client may send its write again, the write that is in the
\* ledger has a record under its key, and the record names that entry.
THEOREM RetriesAreRemembered == ClientSpec => []AppliedIsRemembered
<1>1. ASSUME ClientsInv, NEW c \in Clients, ~Settled(c), \E i \in DOMAIN owner : owner[i] = c
      PROVE  /\ idempotency[Field(request[c])] # Absent
             /\ owner[idempotency[Field(request[c])].entry] = c
  <2>1. told[c] # "idle" /\ idempotency[Field(request[c])] # Absent
    BY <1>1 DEF ClientsInv, ClientInv, InLedger
  <2>2. request[c] \in Request /\ request[c].key = c /\ c # NoKey
    BY <1>1, <2>1, ClientFacts DEF ClientsInv, ClientInv
  <2>3. Field(request[c]) \in Fields /\ Field(request[c])[3] = c
    BY <2>2, RequestFacts DEF Field
  <2> QED
    BY <1>1, <2>1, <2>3 DEF ClientsInv, RecordsAreOwn
<1>2. ClientsInv => AppliedIsRemembered
  BY <1>1 DEF AppliedIsRemembered
<1> QED
  BY <1>2, ClientsInvAlways, PTL

-----------------------------------------------------------------------------
\* What the clients have heard, as WriteOnce sees it.
Heard == [c \in Clients |-> IF told[c] \in {"ok", "rejected"} THEN told[c] ELSE "nothing"]

LEMMA HeardOnce ==
    /\ Once!OnceInit <=> owner = << >> /\ Heard = [c \in Clients |-> "nothing"]
    /\ \A c : Once!Applied(c) <=> InLedger(c)
BY DEF Once!OnceInit, Once!Applied, Heard, InLedger

\* An answer changes what its client has heard, or it is lost.
LEMMA AnswersAreLearnt ==
    ASSUME ClientsInv, NEW m \in inflight, NEW what \in {"ok", "rejected"},
           Answers(m, what) \/ Answers(m, "unknown"), NEW c, c = m.client
    PROVE  Heard' = [Heard EXCEPT ![c] = what] \/ Heard' = Heard
<1>1. \A d \in Clients :
         \/ told'[d] = told[d]
         \/ d = c /\ told[d] = "waiting" /\ told'[d] \in {what, "unknown"}
  BY DEF Answers
<1>2. CASE c \in Clients /\ told[c] = "waiting" /\ told'[c] = what
  <2>1. Heard' = [Heard EXCEPT ![c] = what]
    BY <1>1, <1>2 DEF Heard
  <2> QED
    BY <2>1
<1>3. CASE ~(c \in Clients /\ told[c] = "waiting" /\ told'[c] = what)
  <2>1. \A d \in Clients :
           \/ told'[d] = told[d]
           \/ told[d] = "waiting" /\ told'[d] = "unknown"
    BY <1>1, <1>3
  <2>2. Heard' = Heard
    BY <2>1 DEF Heard
  <2> QED
    BY <2>2
<1> QED
  BY <1>2, <1>3

LEMMA ClientStepIsOnceStep ==
    ASSUME ClientsInv, [ClientNext]_allVars
    PROVE  [Once!OnceNext]_(Once!onceVars)
<1>1. ASSUME UNCHANGED owner, Heard' = Heard PROVE UNCHANGED Once!onceVars
  BY <1>1 DEF Once!onceVars, Heard
<1>2. ASSUME NEW m \in inflight, RunCommand(m)
      PROVE  Once!OnceNext
  <2>1. PICK c, r : c = m.client /\ r = request[c]
    OBVIOUS
  <2>2. /\ c \in Clients
        /\ \/ ~InLedger(c) /\ owner' = Append(owner, c) /\ Answers(m, "ok")
           \/ InLedger(c) /\ owner' = owner /\ Answers(m, "ok")
           \/ ~InLedger(c) /\ owner' = owner /\ Answers(m, "rejected")
    BY <1>2, <2>1, CommandFacts
  <2>3. ASSUME NEW what \in {"ok", "rejected"}, Answers(m, what)
        PROVE  Once!Learn(c, what)
    <3>1. Heard' = [Heard EXCEPT ![c] = what] \/ Heard' = Heard
      BY <2>1, <2>3, AnswersAreLearnt
    <3> QED
      BY <3>1 DEF Once!Learn, Heard
  <2>4. Once!ApplyAndTell(c) \/ Once!Confirm(c) \/ Once!Reject(c)
    BY <2>2, <2>3, HeardOnce DEF Once!ApplyAndTell, Once!Confirm, Once!Reject, Once!Apply
  <2> QED
    BY <2>2, <2>4 DEF Once!OnceNext
<1>3. ASSUME NEW m \in inflight, LoseCommand(m) PROVE UNCHANGED Once!onceVars
  <2>1. Answers(m, "unknown") /\ UNCHANGED owner
    BY <1>3, AnswersFacts DEF LoseCommand
  <2>2. Heard' = Heard
    BY <2>1 DEF Heard, Answers
  <2> QED
    BY <1>1, <2>1, <2>2
<1>4. ASSUME NEW c \in Clients, (\E r \in Request : Start(c, r)) \/ Retry(c) \/ Disconnect(c)
      PROVE  [Once!OnceNext]_(Once!onceVars)
  <2>1. /\ told \in [Clients -> Knowledge] /\ UNCHANGED owner
        /\ told[c] \in {"idle", "unknown", "waiting", "rejected"}
        /\ \E w \in {"waiting", "unknown"} : told' = [told EXCEPT ![c] = w]
    BY <1>4, ClientFacts DEF Start, Retry, Disconnect, SendAttempt
  <2>2. CASE told[c] = "rejected"
    <3>1. Heard[c] = "rejected" /\ Heard' = [Heard EXCEPT ![c] = "nothing"]
      BY <2>1, <2>2 DEF Heard
    <3> QED
      BY <2>1, <3>1 DEF Once!OnceNext, Once!AskAgain, Heard
  <2>3. CASE told[c] # "rejected"
    <3>1. Heard' = Heard
      BY <2>1, <2>3 DEF Heard
    <3> QED
      BY <1>1, <2>1, <3>1
  <2> QED
    BY <2>2, <2>3
<1>5. ASSUME NEW r \in Request, OtherWrite(r) PROVE [Once!OnceNext]_(Once!onceVars)
  <2>1. /\ Heard' = Heard
        /\ owner' = owner \/ owner' = Append(owner, Absent)
    BY <1>5 DEF OtherWrite, clientVars, Heard
  <2>2. CASE owner' = Append(owner, Absent)
    BY <2>1, <2>2 DEF Once!OnceNext, Once!ApplyOther, Heard
  <2> QED
    BY <1>1, <2>1, <2>2
<1>6. ASSUME UNCHANGED <<told, owner>> PROVE UNCHANGED Once!onceVars
  BY <1>1, <1>6 DEF Heard
<1> QED
  BY <1>2, <1>3, <1>4, <1>5, <1>6
     DEF ClientNext, ExpireClientKey, allVars, clientVars

\* The clients, their retries and the lossy path implement WriteOnce: each
\* write is applied at most once, "ok" means applied, and a write that is
\* applied is never rejected to a retry.
THEOREM RetriesApplyOnce == ClientSpec => AppliesOnce
<1>1. ClientInit => Once!OnceInit
  BY HeardOnce DEF ClientInit, Heard
<1>2. ClientsInv /\ [ClientNext]_allVars => [Once!OnceNext]_(Once!onceVars)
  BY ClientStepIsOnceStep
<1> QED
  BY <1>1, <1>2, ClientsInvAlways, PTL DEF ClientSpec, AppliesOnce, Once!OnceSpec
=============================================================================
