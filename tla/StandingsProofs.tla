-------------------------- MODULE StandingsProofs --------------------------
(***************************************************************************)
(* Proofs about rebuild and verify, and about the reads of a leaderboard   *)
(* next to them, for any number of calls, writers, players and boards and  *)
(* any ledger.                                                             *)
(***************************************************************************)
EXTENDS Standings, ScoreWritesProofs

\* Board b's entries after the first k of ledger l.
EntriesAfter(l, b, k) == {i \in DOMAIN l : i > k /\ l[i].board = b}

\* Nothing that the call promises to be immune against has touched its board.
Undisturbed(a) == overlap[a] \subseteq (IF op[a] = "rebuild" THEN {"verify"} ELSE {})

\* Two sorted sets agree, but for some players.
AgreeBut(doubt, y, z) == \A p \in Players \ doubt : y[p] = z[p]

\* Two sets of players do.
AgreeOnBut(doubt, r, s) == \A p \in Players \ doubt : p \in r <=> p \in s

\* What a call that runs is, and what it has got so far: as long as it is
\* undisturbed, the key it folds into is the replay of a prefix of the ledger,
\* but for the players that a command sent again leaves in doubt, and what is
\* left to fold are its board's entries beyond that prefix; a verify then
\* compares the live projection with the whole replay.
CallInv(a) ==
    /\ pc[a] # "idle" => op[a] \in AdminOps /\ target[a] \in Boards
    /\ pc[a] \in {"read_live", "read_scratch", "clean", "quit"} => op[a] = "verify"
    /\ Undisturbed(a) =>
          /\ pc[a] = "drop" => todo[a] = EntriesAfter(ledger, target[a], 0)
          /\ pc[a] = "fold" =>
                \E k \in 0..Len(ledger) :
                    /\ AgreeBut(resent[a], Dest(a), ReplaySteps(ledger, target[a])[k])
                    /\ todo[a] = EntriesAfter(ledger, target[a], k)
          /\ pc[a] \in {"read_live", "read_scratch"} =>
                AgreeBut(resent[a], scratch[target[a]], Replay(ledger, target[a]))
          /\ pc[a] = "read_scratch" => live[a] = projection[target[a]]
          /\ pc[a] = "clean" => AgreeOnBut(resent[a], drift[a], Drift(target[a]))

\* Calls that run on one board know of each other.
OverlapsAreSeen ==
    \A a, c \in Admins :
        a # c /\ pc[a] # "idle" /\ pc[c] # "idle" /\ target[a] = target[c] =>
            op[c] \in overlap[a]

AdminInv ==
    /\ AdminTypeOK
    /\ OverlapsAreSeen
    /\ \A a \in Admins : CallInv(a)

-----------------------------------------------------------------------------
\* A request to the write script extends the ledger by at most one event.
LEMMA ApplyExtends ==
    ASSUME TypeOK, NEW r \in Request, ApplyScoreEvent(r)
    PROVE  \/ UNCHANGED scoreVars /\ Code(r) # "applied"
           \/ /\ Code(r) = "applied"
              /\ EventOf(r) \in Event /\ EventOf(r).board = r.board
              /\ ledger' = Append(ledger, EventOf(r))
              /\ projection' = [projection EXCEPT ![r.board] = Fold(@, r)]
BY RequestFacts DEF ApplyScoreEvent, EventOf

LEMMA DestType ==
    ASSUME AdminTypeOK, NEW a \in Admins, target[a] \in Boards
    PROVE  Dest(a) \in Zset
BY DEF Dest, AdminTypeOK, TypeOK

LEMMA PutDestType ==
    ASSUME AdminTypeOK, NEW a \in Admins, NEW z \in Zset, PutDest(a, z)
    PROVE  projection' \in [Boards -> Zset] /\ scratch' \in [Boards -> Zset]
BY DEF PutDest, AdminTypeOK, TypeOK

LEMMA ForgetType ==
    ASSUME AdminTypeOK, NEW a \in Admins, Forget(a), UNCHANGED ledger
    PROVE  /\ op' \in [Admins -> AdminOps \cup {Absent}]
           /\ target' \in [Admins -> Boards \cup {Absent}]
           /\ todo' \in [Admins -> SUBSET (DOMAIN ledger')]
           /\ live' \in [Admins -> Zset]
           /\ drift' \in [Admins -> SUBSET Players]
           /\ overlap' \in [Admins -> SUBSET Disturbances]
           /\ resent' \in [Admins -> SUBSET Players]
BY DEF Forget, AdminTypeOK, EmptyZset, Zset

LEMMA ProceedType ==
    ASSUME AdminTypeOK, NEW a \in Admins, NEW rest \in SUBSET (DOMAIN ledger),
           NEW doubt \in SUBSET Players, Proceed(a, rest, doubt), UNCHANGED ledger
    PROVE  /\ pc' \in [Admins -> Steps]
           /\ op' \in [Admins -> AdminOps \cup {Absent}]
           /\ target' \in [Admins -> Boards \cup {Absent}]
           /\ todo' \in [Admins -> SUBSET (DOMAIN ledger')]
           /\ live' \in [Admins -> Zset]
           /\ drift' \in [Admins -> SUBSET Players]
           /\ overlap' \in [Admins -> SUBSET Disturbances]
           /\ resent' \in [Admins -> SUBSET Players]
<1>1. CASE rest = {} /\ op[a] = "rebuild"
  <2>1. pc' = [pc EXCEPT ![a] = "idle"] /\ Forget(a)
    BY <1>1 DEF Proceed
  <2> QED
    BY <2>1, ForgetType DEF AdminTypeOK, Steps
<1>2. CASE ~(rest = {} /\ op[a] = "rebuild")
  BY <1>2 DEF Proceed, AdminTypeOK, Steps
<1> QED
  BY <1>1, <1>2

LEMMA AdminTypeInit == ASSUME AdminInit PROVE AdminTypeOK
<1>1. TypeOK
  BY TypeInit DEF AdminInit
<1>2. EmptyZset \in Zset
  BY DEF EmptyZset, Zset
<1> QED
  BY <1>1, <1>2, ProjectionAdminAssumption DEF AdminInit, AdminTypeOK, Steps

LEMMA CallTyped ==
    ASSUME AdminInv, NEW a \in Admins, pc[a] # "idle"
    PROVE  op[a] \in AdminOps /\ target[a] \in Boards
BY DEF AdminInv, CallInv

\* Steps of a call that change no sorted set.
LEMMA AdminTypeQuiet ==
    ASSUME AdminInv, NEW a \in Admins,
           \/ \E o \in AdminOps, b \in Boards : Begin(a, o, b)
           \/ ReadEvents(a) \/ ReadLive(a) \/ ReadScratch(a)
           \/ FailBeforeDiff(a) \/ FailInDiff(a) \/ Die(a)
    PROVE  AdminTypeOK'
<1> USE DEF AdminTypeOK, AdminInv
<1>0. UNCHANGED vars /\ UNCHANGED scratch /\ UNCHANGED resends
  BY DEF Begin, ReadEvents, ReadLive, ReadScratch, FailBeforeDiff, FailInDiff, Die
<1>1. TypeOK' /\ UNCHANGED <<ledger, projection>>
  BY <1>0 DEF vars, registryVars, scoreVars, TypeOK, RegistryTypeOK
<1>2. ASSUME NEW o \in AdminOps, NEW b \in Boards, Begin(a, o, b) PROVE AdminTypeOK'
  <2> DEFINE seen == {op[d] : d \in {d \in Admins : Running(d, b)}}
  <2>1. seen \in SUBSET Disturbances /\ o \in Disturbances
    <3>1. AdminOps \subseteq Disturbances
      BY ProjectionAdminAssumption DEF Disturbances
    <3>2. \A d \in Admins : Running(d, b) => op[d] \in AdminOps
      BY CallTyped DEF Running
    <3> QED
      BY <3>1, <3>2
  <2> HIDE DEF seen
  <2>2. overlap' \in [Admins -> SUBSET Disturbances]
    BY <1>2, <2>1 DEF Begin, seen
  <2> QED
    BY <1>0, <1>1, <1>2, <2>2 DEF Begin, Steps
<1>3. CASE ReadEvents(a)
  BY <1>0, <1>1, <1>3 DEF ReadEvents, Steps
<1>4. CASE ReadLive(a)
  <2>1. pc[a] # "idle" /\ target[a] \in Boards
    BY <1>4 DEF ReadLive, CallInv
  <2> QED
    BY <1>0, <1>1, <1>4, <2>1 DEF ReadLive, Steps, TypeOK
<1>5. CASE ReadScratch(a)
  BY <1>0, <1>1, <1>5 DEF ReadScratch, Steps
<1>6. CASE FailBeforeDiff(a) \/ Die(a)
  <2>1. pc' = [pc EXCEPT ![a] = "idle"] /\ Forget(a)
    BY <1>6 DEF FailBeforeDiff, Die
  <2> QED
    BY <1>0, <1>1, <2>1, ForgetType DEF Steps
<1>7. CASE FailInDiff(a)
  BY <1>0, <1>1, <1>7 DEF FailInDiff, Steps
<1> QED
  BY <1>2, <1>3, <1>4, <1>5, <1>6, <1>7

\* Steps of a call that do.
LEMMA AdminTypeWrites ==
    ASSUME AdminInv, NEW a \in Admins,
           Drop(a) \/ FoldOne(a) \/ ResendCommand(a) \/ Clean(a)
    PROVE  AdminTypeOK'
<1> USE DEF AdminTypeOK, AdminInv
<1>1. UNCHANGED <<registryVars, ledger, idempotency>> /\ resends' \in 0..MaxResends
  <2>1. resends' = resends \/ (resends < MaxResends /\ resends' = resends + 1)
    BY DEF Drop, FoldOne, ResendCommand, Clean
  <2> QED
    BY <2>1, ProjectionAdminAssumption
       DEF Drop, FoldOne, ResendCommand, Clean, vars, scoreVars
<1>2. target[a] \in Boards /\ EmptyZset \in Zset
  BY DEF Drop, FoldOne, ResendCommand, Clean, CallInv, EmptyZset, Zset
<1>3. projection' \in [Boards -> Zset] => TypeOK'
  BY <1>1 DEF registryVars, TypeOK, RegistryTypeOK
<1>4. CASE Drop(a)
  <2>1. PutDest(a, EmptyZset) /\ Proceed(a, todo[a], {})
    BY <1>4 DEF Drop
  <2>2. todo[a] \in SUBSET (DOMAIN ledger) /\ {} \in SUBSET Players
    OBVIOUS
  <2> QED
    BY <1>1, <1>2, <1>3, <2>1, <2>2, PutDestType, ProceedType
<1>5. ASSUME NEW i \in todo[a]
      PROVE  ledger[i] \in Event /\ Fold(Dest(a), ledger[i]) \in Zset
  <2>1. ledger[i] \in Event
    <3>1. todo[a] \in SUBSET (DOMAIN ledger) /\ ledger \in Seq(Event)
      BY DEF TypeOK
    <3> QED
      BY <1>5, <3>1
  <2> QED
    BY <1>2, <2>1, DestType, FoldType
<1>6. CASE FoldOne(a)
  <2>1. PICK i \in todo[a] : /\ PutDest(a, Fold(Dest(a), ledger[i]))
                             /\ Proceed(a, todo[a] \ {i}, InDoubt(a, {i}))
    BY <1>6 DEF FoldOne
  <2>2. todo[a] \ {i} \in SUBSET (DOMAIN ledger) /\ InDoubt(a, {i}) \in SUBSET Players
    BY DEF InDoubt
  <2> QED
    BY <1>1, <1>3, <1>5, <2>1, <2>2, PutDestType, ProceedType
<1>7. CASE Clean(a)
  <2>1. /\ pc' = [pc EXCEPT ![a] = "idle"] /\ Forget(a)
        /\ scratch' = [scratch EXCEPT ![target[a]] = EmptyZset]
        /\ UNCHANGED projection
    BY <1>7 DEF Clean, vars, scoreVars
  <2> QED
    BY <1>1, <1>2, <1>3, <2>1, ForgetType DEF Steps, TypeOK
<1>8. CASE ResendCommand(a)
  <2>1. /\ UNCHANGED <<pc, op, target, todo, live, drift, overlap>>
        /\ \/ PutDest(a, EmptyZset) /\ resent' = resent
           \/ \E i \in todo[a] :
                 /\ PutDest(a, Fold(Dest(a), ledger[i]))
                 /\ resent' = [resent EXCEPT ![a] = @ \cup {ledger[i].player}]
    BY <1>8 DEF ResendCommand
  <2>2. CASE PutDest(a, EmptyZset) /\ resent' = resent
    BY <1>1, <1>2, <1>3, <2>1, <2>2, PutDestType
  <2>3. ASSUME NEW i \in todo[a], PutDest(a, Fold(Dest(a), ledger[i])),
               resent' = [resent EXCEPT ![a] = @ \cup {ledger[i].player}]
        PROVE  AdminTypeOK'
    <3>1. resent' \in [Admins -> SUBSET Players]
      BY <1>5, <2>3 DEF Event
    <3> QED
      BY <1>1, <1>3, <1>5, <2>1, <2>3, <3>1, PutDestType
  <2> QED
    BY <2>1, <2>2, <2>3
<1> QED
  BY <1>4, <1>6, <1>7, <1>8

\* What everyone else does to a call: steps of the registry, score writes and
\* the expiry of keys.
WritersStep ==
    \/ RegistryNext /\ UNCHANGED <<scoreVars, scratch, resends, callVars>>
    \/ \E r \in Request : Write(r)
    \/ \E f \in Fields : ExpireKey(f) /\ UNCHANGED <<scratch, resends, callVars>>

LEMMA WritersType ==
    ASSUME AdminInv, WritersStep
    PROVE  AdminTypeOK'
<1> USE DEF AdminTypeOK, AdminInv
<1>1. Next
  BY DEF WritersStep, Write, Next
<1>2. TypeOK' /\ ledger \in Seq(Event)
  BY <1>1, TypeStep DEF TypeOK
<1>3. /\ UNCHANGED <<scratch, resends, pc, op, target, todo, live, drift, resent>>
      /\ overlap' \in [Admins -> SUBSET Disturbances]
  BY DEF WritersStep, Write, callVars, Disturbances
<1>4. DOMAIN ledger \subseteq DOMAIN ledger'
  <2>1. CASE ledger' = ledger
    BY <2>1
  <2>2. ASSUME NEW r \in Request, Write(r) PROVE DOMAIN ledger \subseteq DOMAIN ledger'
    BY <1>2, <2>2, ApplyExtends DEF Write, scoreVars
  <2> QED
    BY <2>1, <2>2 DEF WritersStep, scoreVars, ExpireKey
<1> QED
  BY <1>2, <1>3, <1>4

-----------------------------------------------------------------------------
\* An event of another board, or none, is appended.
OthersBoard(b) ==
    ledger' = ledger \/ \E e \in Event : e.board # b /\ ledger' = Append(ledger, e)

LEMMA OthersBoardKeeps ==
    ASSUME ledger \in Seq(Event), NEW b, OthersBoard(b)
    PROVE  /\ Len(ledger) \in Nat /\ Len(ledger') \in Nat /\ Len(ledger) <= Len(ledger')
           /\ \A k \in 0..Len(ledger) :
                 /\ ReplaySteps(ledger', b)[k] = ReplaySteps(ledger, b)[k]
                 /\ EntriesAfter(ledger', b, k) = EntriesAfter(ledger, b, k)
           /\ Replay(ledger', b) = Replay(ledger, b)
<1>1. CASE ledger' = ledger
  BY <1>1 DEF EntriesAfter
<1>2. ASSUME NEW e \in Event, e.board # b, ledger' = Append(ledger, e)
      PROVE  /\ Len(ledger) \in Nat /\ Len(ledger') \in Nat /\ Len(ledger) <= Len(ledger')
             /\ \A k \in 0..Len(ledger) :
                   /\ ReplaySteps(ledger', b)[k] = ReplaySteps(ledger, b)[k]
                   /\ EntriesAfter(ledger', b, k) = EntriesAfter(ledger, b, k)
             /\ Replay(ledger', b) = Replay(ledger, b)
  <2>1. /\ Len(ledger) \in Nat /\ Len(ledger') = Len(ledger) + 1
        /\ DOMAIN ledger = 1..Len(ledger) /\ DOMAIN ledger' = 1..(Len(ledger) + 1)
        /\ ledger'[Len(ledger) + 1] = e
        /\ \A i \in 1..Len(ledger) : ledger'[i] = ledger[i]
    BY <1>2
  <2>2. \A k \in 0..Len(ledger) : EntriesAfter(ledger', b, k) = EntriesAfter(ledger, b, k)
    BY <1>2, <2>1 DEF EntriesAfter
  <2> QED
    BY <1>2, <2>1, <2>2, ReplayAppend
<1> QED
  BY <1>1, <1>2 DEF OthersBoard

\* A call to which nothing happens but that others run, and that finds what
\* it depends on as it was, keeps its invariant.
LEMMA Frame ==
    ASSUME AdminInv, NEW a \in Admins,
           /\ pc'[a] = pc[a] /\ op'[a] = op[a] /\ target'[a] = target[a]
           /\ todo'[a] = todo[a] /\ live'[a] = live[a] /\ drift'[a] = drift[a]
           /\ resent'[a] = resent[a] /\ overlap[a] \subseteq overlap'[a],
           pc[a] # "idle" /\ Undisturbed(a)' =>
               /\ OthersBoard(target[a])
               /\ projection'[target[a]] = projection[target[a]]
               /\ op[a] = "verify" => scratch'[target[a]] = scratch[target[a]]
    PROVE  CallInv(a)'
<1>0. CallInv(a) /\ ledger \in Seq(Event)
  BY DEF AdminInv, AdminTypeOK, TypeOK
<1>1. CASE pc[a] = "idle"
  BY <1>1 DEF CallInv
<1>2. CASE pc[a] # "idle" /\ ~Undisturbed(a)'
  BY <1>0, <1>2 DEF CallInv
<1>3. CASE pc[a] # "idle" /\ Undisturbed(a)'
  <2>0. PICK b : target[a] = b /\ target'[a] = b
    OBVIOUS
  <2>1. Undisturbed(a)
    BY <1>3 DEF Undisturbed
  <2>2. /\ Len(ledger) \in Nat /\ Len(ledger') \in Nat /\ Len(ledger) <= Len(ledger')
        /\ \A k \in 0..Len(ledger) :
              /\ ReplaySteps(ledger', b)[k] = ReplaySteps(ledger, b)[k]
              /\ EntriesAfter(ledger', b, k) = EntriesAfter(ledger, b, k)
        /\ Replay(ledger', b) = Replay(ledger, b)
    BY <1>0, <1>3, <2>0, OthersBoardKeeps
  <2>3. /\ projection'[b] = projection[b]
        /\ op[a] = "verify" => scratch'[b] = scratch[b]
        /\ op[a] \in {"rebuild", "verify"}
    BY <1>3, <2>0, CallTyped, ProjectionAdminAssumption
  <2>4. Dest(a)' = Dest(a)
    BY <2>0, <2>3 DEF Dest
  <2>5. Drift(target[a])' = Drift(target[a])
    BY <2>0, <2>2, <2>3 DEF Drift
  <2>6. pc[a] = "drop" => todo'[a] = EntriesAfter(ledger', b, 0)
    BY <1>0, <2>0, <2>1, <2>2 DEF CallInv
  <2>7. ASSUME pc[a] = "fold"
        PROVE  \E k \in 0..Len(ledger') :
                   /\ AgreeBut(resent'[a], Dest(a)', ReplaySteps(ledger', b)[k])
                   /\ todo'[a] = EntriesAfter(ledger', b, k)
    <3>1. PICK k \in 0..Len(ledger) :
              /\ AgreeBut(resent[a], Dest(a), ReplaySteps(ledger, b)[k])
              /\ todo[a] = EntriesAfter(ledger, b, k)
      BY <1>0, <2>0, <2>1, <2>7 DEF CallInv
    <3>2. k \in 0..Len(ledger')
      BY <2>2
    <3> QED
      BY <2>2, <2>4, <3>1, <3>2
  <2>8. pc[a] \in {"read_live", "read_scratch"} =>
           AgreeBut(resent'[a], scratch'[b], Replay(ledger', b))
    BY <1>0, <2>0, <2>1, <2>2, <2>3 DEF CallInv
  <2>9. /\ pc[a] = "read_scratch" => live'[a] = projection'[b]
        /\ pc[a] = "clean" => AgreeOnBut(resent'[a], drift'[a], Drift(target[a])')
    BY <1>0, <2>0, <2>1, <2>3, <2>5 DEF CallInv
  <2>10. /\ pc[a] # "idle" => op[a] \in AdminOps /\ b \in Boards
         /\ pc[a] \in {"read_live", "read_scratch", "clean", "quit"} => op[a] = "verify"
    BY <1>0, <2>0 DEF CallInv
  <2> QED
    BY <2>0, <2>6, <2>7, <2>8, <2>9, <2>10 DEF CallInv
<1> QED
  BY <1>1, <1>2, <1>3

LEMMA WritersKeepCalls ==
    ASSUME AdminInv, WritersStep
    PROVE  /\ \A a \in Admins : CallInv(a)'
           /\ OverlapsAreSeen'
<1>1. ledger \in Seq(Event) /\ TypeOK /\ overlap \in [Admins -> SUBSET Disturbances]
  BY DEF AdminInv, AdminTypeOK, TypeOK
<1>2. CASE UNCHANGED <<projection, ledger, scratch, callVars>>
  <2>1. ASSUME NEW a \in Admins PROVE CallInv(a)'
    BY <1>2, Frame DEF callVars, OthersBoard
  <2> QED
    BY <1>2, <2>1 DEF callVars, AdminInv, OverlapsAreSeen
<1>3. ASSUME NEW r \in Request, Write(r)
      PROVE  (\A a \in Admins : CallInv(a)') /\ OverlapsAreSeen'
  <2>1. /\ UNCHANGED <<scratch, pc, op, target, todo, live, drift, resent>>
        /\ overlap' = [a \in Admins |->
              IF Code(r) = "applied" /\ Running(a, r.board)
              THEN overlap[a] \cup {"write"} ELSE overlap[a]]
    BY <1>3 DEF Write
  <2>2. ASSUME NEW a \in Admins, pc[a] # "idle", Undisturbed(a)'
        PROVE  OthersBoard(target[a]) /\ projection'[target[a]] = projection[target[a]]
    <3>1. "write" \notin overlap'[a]
      BY <2>2 DEF Undisturbed
    <3>2. CASE Code(r) # "applied"
      BY <1>1, <1>3, <3>2, ApplyExtends DEF Write, scoreVars, OthersBoard
    <3>3. CASE Code(r) = "applied"
      <4>1. r.board # target[a]
        BY <2>1, <2>2, <3>1, <3>3 DEF Running
      <4>2. /\ EventOf(r) \in Event /\ EventOf(r).board = r.board
            /\ ledger' = Append(ledger, EventOf(r))
            /\ projection' = [projection EXCEPT ![r.board] = Fold(@, r)]
        BY <1>1, <1>3, <3>3, ApplyExtends DEF Write
      <4>3. target[a] \in Boards /\ projection \in [Boards -> Zset]
        BY <1>1, <2>2, CallTyped DEF TypeOK
      <4> QED
        BY <4>1, <4>2, <4>3 DEF OthersBoard
    <3> QED
      BY <3>2, <3>3
  <2>3. \A a \in Admins : overlap[a] \subseteq overlap'[a]
    BY <2>1
  <2>4. ASSUME NEW a \in Admins PROVE CallInv(a)'
    BY <2>1, <2>2, <2>3, Frame
  <2>5. OverlapsAreSeen'
    BY <2>1, <2>3 DEF AdminInv, OverlapsAreSeen
  <2> QED
    BY <2>4, <2>5
<1> QED
  BY <1>2, <1>3 DEF WritersStep, ExpireKey, scoreVars

-----------------------------------------------------------------------------
\* What a step of call a may change: its own record, what others know of it,
\* and the one key it writes.
Footprint(a) ==
    /\ UNCHANGED <<registryVars, ledger, idempotency>>
    /\ \A c \in Admins \ {a} :
          /\ pc'[c] = pc[c] /\ op'[c] = op[c] /\ target'[c] = target[c]
          /\ todo'[c] = todo[c] /\ live'[c] = live[c] /\ drift'[c] = drift[c]
          /\ resent'[c] = resent[c] /\ overlap[c] \subseteq overlap'[c]
    /\ \A b \in Boards :
          /\ projection'[b] # projection[b] =>
                pc[a] # "idle" /\ target[a] = b /\ op[a] = "rebuild"
          /\ scratch'[b] # scratch[b] =>
                pc[a] # "idle" /\ target[a] = b /\ op[a] = "verify"

LEMMA ForgetOwn ==
    ASSUME AdminTypeOK, NEW a \in Admins, Forget(a)
    PROVE  \A c \in Admins \ {a} :
              /\ op'[c] = op[c] /\ target'[c] = target[c] /\ todo'[c] = todo[c]
              /\ live'[c] = live[c] /\ drift'[c] = drift[c] /\ overlap'[c] = overlap[c]
              /\ resent'[c] = resent[c]
BY DEF Forget, AdminTypeOK

LEMMA ProceedOwn ==
    ASSUME AdminTypeOK, NEW a \in Admins, NEW rest, NEW doubt, Proceed(a, rest, doubt)
    PROVE  \A c \in Admins \ {a} :
              /\ pc'[c] = pc[c] /\ op'[c] = op[c] /\ target'[c] = target[c]
              /\ todo'[c] = todo[c] /\ live'[c] = live[c] /\ drift'[c] = drift[c]
              /\ overlap'[c] = overlap[c] /\ resent'[c] = resent[c]
<1>1. CASE rest = {} /\ op[a] = "rebuild"
  <2>1. pc' = [pc EXCEPT ![a] = "idle"] /\ Forget(a)
    BY <1>1 DEF Proceed
  <2> QED
    BY <2>1, ForgetOwn DEF AdminTypeOK
<1>2. CASE ~(rest = {} /\ op[a] = "rebuild")
  BY <1>2 DEF Proceed, AdminTypeOK
<1> QED
  BY <1>1, <1>2

LEMMA StepFootprint ==
    ASSUME AdminInv, NEW a \in Admins, AdminStep(a)
    PROVE  Footprint(a)
<1> USE DEF AdminInv, AdminTypeOK
<1>1. ASSUME NEW o \in AdminOps, NEW b \in Boards, Begin(a, o, b) PROVE Footprint(a)
  BY <1>1 DEF Begin, Footprint, vars, scoreVars
<1>2. CASE ReadEvents(a) \/ ReadLive(a) \/ ReadScratch(a) \/ FailInDiff(a)
  BY <1>2 DEF ReadEvents, ReadLive, ReadScratch, FailInDiff, Footprint, vars, scoreVars
<1>3. CASE FailBeforeDiff(a) \/ Die(a)
  <2>1. /\ pc' = [pc EXCEPT ![a] = "idle"] /\ Forget(a)
        /\ UNCHANGED <<vars, scratch>>
    BY <1>3 DEF FailBeforeDiff, Die
  <2> QED
    BY <2>1, ForgetOwn DEF Footprint, vars, scoreVars
<1>4. CASE Clean(a)
  <2>1. /\ pc' = [pc EXCEPT ![a] = "idle"] /\ Forget(a)
        /\ scratch' = [scratch EXCEPT ![target[a]] = EmptyZset]
        /\ UNCHANGED vars /\ pc[a] # "idle" /\ op[a] = "verify"
    BY <1>4 DEF Clean, CallInv
  <2> QED
    BY <2>1, ForgetOwn DEF Footprint, vars, scoreVars
<1>5. ASSUME NEW z, pc[a] # "idle", PutDest(a, z)
      PROVE  \A b \in Boards :
                /\ projection'[b] # projection[b] => target[a] = b /\ op[a] = "rebuild"
                /\ scratch'[b] # scratch[b] => target[a] = b /\ op[a] = "verify"
  <2>1. op[a] \in {"rebuild", "verify"}
    BY <1>5, CallTyped, ProjectionAdminAssumption
  <2> QED
    BY <1>5, <2>1 DEF PutDest, TypeOK
<1>6. CASE Drop(a)
  BY <1>5, <1>6, ProceedOwn DEF Drop, Footprint
<1>7. CASE FoldOne(a)
  BY <1>5, <1>7, ProceedOwn DEF FoldOne, Footprint
<1>8. CASE ResendCommand(a)
  <2>1. /\ pc[a] # "idle" /\ \E z : PutDest(a, z)
        /\ UNCHANGED <<registryVars, ledger, idempotency>>
        /\ UNCHANGED <<pc, op, target, todo, live, drift, overlap>>
        /\ \A c \in Admins \ {a} : resent'[c] = resent[c]
    BY <1>8 DEF ResendCommand
  <2> QED
    BY <1>5, <2>1 DEF Footprint
<1> QED
  BY <1>1, <1>2, <1>3, <1>4, <1>6, <1>7, <1>8 DEF AdminStep

\* A step of one call leaves the invariant of the others alone: where it
\* writes to a key that another one uses, the other knows of it.
LEMMA OthersKeepCall ==
    ASSUME AdminInv, NEW a \in Admins, NEW c \in Admins, a # c, AdminStep(a)
    PROVE  CallInv(c)'
<1>1. Footprint(a)
  BY StepFootprint
<1>2. ASSUME pc[c] # "idle", Undisturbed(c)'
      PROVE  /\ projection'[target[c]] = projection[target[c]]
             /\ op[c] = "verify" => scratch'[target[c]] = scratch[target[c]]
  <2>1. /\ overlap[c] \subseteq (IF op[c] = "rebuild" THEN {"verify"} ELSE {})
        /\ op[c] \in {"rebuild", "verify"} /\ target[c] \in Boards
    BY <1>1, <1>2, CallTyped, ProjectionAdminAssumption DEF Footprint, Undisturbed
  <2>2. pc[a] # "idle" /\ target[a] = target[c] => op[a] \in overlap[c]
    BY <1>2 DEF AdminInv, OverlapsAreSeen
  <2> QED
    BY <1>1, <2>1, <2>2 DEF Footprint
<1>3. OthersBoard(target[c])
  BY <1>1 DEF Footprint, OthersBoard
<1> QED
  BY <1>1, <1>2, <1>3, Frame DEF Footprint

-----------------------------------------------------------------------------
\* When a board has no entry beyond a prefix, the prefix's replay is the whole.
LEMMA LastPrefix ==
    ASSUME NEW l \in Seq(Event), NEW b, NEW k \in 0..Len(l), EntriesAfter(l, b, k) = {}
    PROVE  ReplaySteps(l, b)[k] = Replay(l, b)
<1>1. Len(l) \in k..Len(l) /\ DOMAIN l = 1..Len(l) /\ Len(l) \in Nat
  OBVIOUS
<1>2. \A i \in (k+1)..Len(l) : l[i].board # b
  BY <1>1 DEF EntriesAfter
<1> QED
  BY <1>1, <1>2, ReplayGap DEF Replay

\* Folding the oldest entry beyond a prefix makes the replay of a longer one.
LEMMA NextPrefix ==
    ASSUME NEW l \in Seq(Event), NEW b, NEW k \in 0..Len(l),
           NEW i \in EntriesAfter(l, b, k), \A j \in EntriesAfter(l, b, k) : i <= j
    PROVE  /\ i \in 0..Len(l)
           /\ Fold(ReplaySteps(l, b)[k], l[i]) = ReplaySteps(l, b)[i]
           /\ EntriesAfter(l, b, k) \ {i} = EntriesAfter(l, b, i)
<1>1. /\ Len(l) \in Nat /\ DOMAIN l = 1..Len(l)
      /\ i \in 1..Len(l) /\ i > k /\ l[i].board = b
      /\ i - 1 \in k..Len(l)
  BY DEF EntriesAfter
<1>2. \A j \in (k+1)..(i-1) : l[j].board # b
  BY <1>1 DEF EntriesAfter
<1>3. ReplaySteps(l, b)[i-1] = ReplaySteps(l, b)[k]
  BY <1>1, <1>2, ReplayGap
<1>4. ReplaySteps(l, b)[i] = ReplayStep(ReplaySteps(l, b)[i-1], l, b, i)
  BY <1>1, ReplayUnfold
<1>5. EntriesAfter(l, b, k) \ {i} = EntriesAfter(l, b, i)
  BY <1>1 DEF EntriesAfter
<1> QED
  BY <1>1, <1>3, <1>4, <1>5 DEF ReplayStep

\* An event folded into sets that agree leaves them so, and a set makes its
\* player's scores agree; one that only one of them sees puts only its own
\* player in doubt.
LEMMA FoldAgrees ==
    ASSUME NEW y \in Zset, NEW z \in Zset, NEW e \in Event, NEW doubt, AgreeBut(doubt, y, z)
    PROVE  /\ AgreeBut({p \in doubt : e.type # "set" \/ e.player # p}, Fold(y, e), Fold(z, e))
           /\ AgreeBut(doubt \cup {e.player}, Fold(y, e), z)
<1>1. /\ Fold(y, e)[e.player] = NewScore(y, e) /\ Fold(z, e)[e.player] = NewScore(z, e)
      /\ \A p \in Players \ {e.player} : Fold(y, e)[p] = y[p] /\ Fold(z, e)[p] = z[p]
  BY DEF Fold, Zset, Event
<1>2. e.type = "set" \/ y[e.player] = z[e.player] => NewScore(y, e) = NewScore(z, e)
  BY DEF NewScore, ScoreOrZero
<1> QED
  BY <1>1, <1>2 DEF AgreeBut

\* Writing the destination and going on, for Drop and FoldOne alike.
LEMMA FoldProgress ==
    ASSUME AdminInv, NEW a \in Admins, NEW z \in Zset, NEW rest, NEW doubt \in SUBSET Players,
           pc[a] \in {"drop", "fold"}, PutDest(a, z), Proceed(a, rest, doubt), UNCHANGED ledger,
           Undisturbed(a) =>
               \E k \in 0..Len(ledger) :
                   /\ AgreeBut(doubt, z, ReplaySteps(ledger, target[a])[k])
                   /\ rest = EntriesAfter(ledger, target[a], k)
    PROVE  /\ CallInv(a)'
           /\ Undisturbed(a) /\ rest = {} => AgreeBut(doubt, z, Replay(ledger, target[a]))
<1> USE DEF AdminInv, AdminTypeOK
<1>1. PICK b : b = target[a]
  OBVIOUS
<1>2. b \in Boards /\ op[a] \in {"rebuild", "verify"} /\ op[a] \in AdminOps
  BY <1>1, CallTyped, ProjectionAdminAssumption
<1>3. Undisturbed(a) /\ rest = {} => AgreeBut(doubt, z, Replay(ledger, b))
  BY <1>1, LastPrefix DEF TypeOK
<1>4. CASE rest = {} /\ op[a] = "rebuild"
  BY <1>1, <1>3, <1>4 DEF Proceed, CallInv
<1>5. CASE ~(rest = {} /\ op[a] = "rebuild")
  <2>1. /\ pc'[a] = (IF rest = {} THEN "read_live" ELSE "fold") /\ todo'[a] = rest
        /\ op'[a] = op[a] /\ target'[a] = b /\ overlap'[a] = overlap[a] /\ resent'[a] = doubt
    BY <1>1, <1>5 DEF Proceed
  <2>2. Dest(a)' = z /\ (op[a] = "verify" => scratch'[b] = z)
    BY <1>1, <1>2, <2>1 DEF PutDest, Dest, TypeOK
  <2>3. Undisturbed(a)' <=> Undisturbed(a)
    BY <2>1 DEF Undisturbed
  <2>4. CASE rest = {}
    <3>1. pc'[a] = "read_live" /\ op'[a] = "verify"
      BY <1>2, <1>5, <2>1, <2>4
    <3>2. Undisturbed(a)' =>
             AgreeBut(resent'[a], scratch'[target'[a]], Replay(ledger', target'[a]))
      BY <1>3, <2>1, <2>2, <2>3, <2>4, <3>1
    <3> QED
      BY <1>1, <1>2, <1>3, <2>1, <3>1, <3>2 DEF CallInv
  <2>5. CASE rest # {}
    <3>1. pc'[a] = "fold"
      BY <2>1, <2>5
    <3>2. Undisturbed(a)' =>
             \E k \in 0..Len(ledger') :
                 /\ AgreeBut(resent'[a], Dest(a)', ReplaySteps(ledger', target'[a])[k])
                 /\ todo'[a] = EntriesAfter(ledger', target'[a], k)
      BY <1>1, <2>1, <2>2, <2>3
    <3> QED
      BY <1>1, <1>2, <2>1, <2>5, <3>1, <3>2 DEF CallInv
  <2> QED
    BY <2>4, <2>5
<1> QED
  BY <1>4, <1>5

\* What the two steps that fold write, and what they leave to fold.
LEMMA DropFacts ==
    ASSUME AdminInv, NEW a \in Admins, Drop(a)
    PROVE  /\ CallInv(a)'
           /\ Undisturbed(a) /\ todo[a] = {} => AgreeBut({}, EmptyZset, Replay(ledger, target[a]))
<1>1. /\ pc[a] = "drop" /\ PutDest(a, EmptyZset) /\ Proceed(a, todo[a], {})
      /\ UNCHANGED ledger /\ ledger \in Seq(Event)
  BY DEF Drop, AdminInv, AdminTypeOK, TypeOK
<1>2. EmptyZset \in Zset
  BY DEF EmptyZset, Zset
<1>3. 0 \in 0..Len(ledger) /\ AgreeBut({}, EmptyZset, ReplaySteps(ledger, target[a])[0])
  BY <1>1, ReplayUnfold DEF AgreeBut
<1>4. Undisturbed(a) => todo[a] = EntriesAfter(ledger, target[a], 0)
  BY <1>1 DEF AdminInv, CallInv
<1> QED
  BY <1>1, <1>2, <1>3, <1>4, FoldProgress

\* The entry that foldInto sends next, against the prefix that it extends.
LEMMA NextFacts ==
    ASSUME AdminInv, NEW a \in Admins, pc[a] = "fold", NEW i \in todo[a], IsNext(a, i)
    PROVE  /\ ledger[i] \in Event /\ Dest(a) \in Zset /\ Fold(Dest(a), ledger[i]) \in Zset
           /\ Undisturbed(a) =>
                 /\ i \in 0..Len(ledger)
                 /\ AgreeBut(InDoubt(a, {i}), Fold(Dest(a), ledger[i]),
                             ReplaySteps(ledger, target[a])[i])
                 /\ todo[a] \ {i} = EntriesAfter(ledger, target[a], i)
<1>1. ledger \in Seq(Event) /\ todo[a] \subseteq DOMAIN ledger /\ CallInv(a)
  BY DEF AdminInv, AdminTypeOK, TypeOK
<1>2. ledger[i] \in Event /\ Dest(a) \in Zset
  <2>1. ledger[i] \in Event /\ target[a] \in Boards
    BY <1>1, CallTyped
  <2> QED
    BY <2>1, DestType DEF AdminInv
<1>3. Fold(Dest(a), ledger[i]) \in Zset
  BY <1>2, FoldType
<1>4. ASSUME Undisturbed(a)
      PROVE  /\ i \in 0..Len(ledger)
             /\ AgreeBut(InDoubt(a, {i}), Fold(Dest(a), ledger[i]),
                         ReplaySteps(ledger, target[a])[i])
             /\ todo[a] \ {i} = EntriesAfter(ledger, target[a], i)
  <2>1. PICK k \in 0..Len(ledger) :
            /\ AgreeBut(resent[a], Dest(a), ReplaySteps(ledger, target[a])[k])
            /\ todo[a] = EntriesAfter(ledger, target[a], k)
    BY <1>1, <1>4 DEF CallInv
  <2>2. /\ i \in 0..Len(ledger)
        /\ Fold(ReplaySteps(ledger, target[a])[k], ledger[i]) = ReplaySteps(ledger, target[a])[i]
        /\ todo[a] \ {i} = EntriesAfter(ledger, target[a], i)
    BY <1>1, <2>1, NextPrefix DEF IsNext
  <2>3. ReplaySteps(ledger, target[a])[k] \in Zset
    BY <1>1, <2>1, ReplayType
  <2>4. PICK e, y, z : /\ e = ledger[i] /\ y = Dest(a)
                       /\ z = ReplaySteps(ledger, target[a])[k]
    OBVIOUS
  <2>5. AgreeBut({p \in resent[a] : e.type # "set" \/ e.player # p}, Fold(y, e), Fold(z, e))
    BY <1>2, <2>1, <2>3, <2>4, FoldAgrees
  <2>6. InDoubt(a, {i}) = {p \in resent[a] : e.type # "set" \/ e.player # p}
    BY <2>4 DEF InDoubt
  <2> QED
    BY <2>2, <2>4, <2>5, <2>6
<1> QED
  BY <1>2, <1>3, <1>4

LEMMA FoldOneFacts ==
    ASSUME AdminInv, NEW a \in Admins, FoldOne(a)
    PROVE  /\ CallInv(a)'
           /\ \E i \in todo[a] :
                 /\ PutDest(a, Fold(Dest(a), ledger[i]))
                 /\ Undisturbed(a) /\ todo[a] \ {i} = {} =>
                       AgreeBut(InDoubt(a, {i}), Fold(Dest(a), ledger[i]),
                                Replay(ledger, target[a]))
<1>1. PICK i \in todo[a] : /\ IsNext(a, i)
                           /\ PutDest(a, Fold(Dest(a), ledger[i]))
                           /\ Proceed(a, todo[a] \ {i}, InDoubt(a, {i}))
  BY DEF FoldOne
<1>2. /\ pc[a] = "fold" /\ UNCHANGED ledger /\ InDoubt(a, {i}) \in SUBSET Players
  BY DEF FoldOne, AdminInv, AdminTypeOK, InDoubt
<1>3. PICK z, rest, doubt : z = Fold(Dest(a), ledger[i]) /\ rest = todo[a] \ {i}
                            /\ doubt = InDoubt(a, {i})
  OBVIOUS
<1>4. z \in Zset /\ doubt \in SUBSET Players /\ PutDest(a, z) /\ Proceed(a, rest, doubt)
  BY <1>1, <1>2, <1>3, NextFacts
<1>5. Undisturbed(a) =>
         \E k \in 0..Len(ledger) :
             /\ AgreeBut(doubt, z, ReplaySteps(ledger, target[a])[k])
             /\ rest = EntriesAfter(ledger, target[a], k)
  BY <1>1, <1>2, <1>3, NextFacts
<1>6. /\ CallInv(a)'
      /\ Undisturbed(a) /\ rest = {} => AgreeBut(doubt, z, Replay(ledger, target[a]))
  BY <1>2, <1>4, <1>5, FoldProgress
<1> QED
  BY <1>1, <1>3, <1>6

\* A command that runs twice leaves the call where it was; an entry folded once
\* too often puts its player in doubt and nobody else.
LEMMA ResendFacts ==
    ASSUME AdminInv, NEW a \in Admins, ResendCommand(a)
    PROVE  CallInv(a)'
<1> USE DEF AdminInv, AdminTypeOK
<1>1. /\ pc'[a] = pc[a] /\ op'[a] = op[a] /\ target'[a] = target[a] /\ todo'[a] = todo[a]
      /\ live'[a] = live[a] /\ drift'[a] = drift[a] /\ overlap'[a] = overlap[a]
      /\ ledger' = ledger /\ pc[a] \in {"drop", "fold", "clean", "quit"}
      /\ CallInv(a) /\ target[a] \in Boards /\ op[a] \in {"rebuild", "verify"}
  BY CallTyped, ProjectionAdminAssumption DEF ResendCommand
<1>2. Undisturbed(a)' <=> Undisturbed(a)
  BY <1>1 DEF Undisturbed
<1>3. CASE pc[a] \in {"drop", "clean", "quit"}
  <2>1. resent' = resent /\ PutDest(a, EmptyZset)
    BY <1>3 DEF ResendCommand
  <2>2. pc[a] = "clean" => Drift(target[a])' = Drift(target[a])
    BY <1>1, <2>1 DEF PutDest, CallInv, Drift
  <2> QED
    BY <1>1, <1>2, <1>3, <2>1, <2>2 DEF CallInv
<1>4. CASE pc[a] = "fold"
  <2>1. PICK i \in todo[a] : /\ IsNext(a, i)
                             /\ PutDest(a, Fold(Dest(a), ledger[i]))
                             /\ resent'[a] = resent[a] \cup {ledger[i].player}
    BY <1>4 DEF ResendCommand
  <2>2. Dest(a)' = Fold(Dest(a), ledger[i])
    BY <1>1, <2>1 DEF PutDest, Dest, TypeOK
  <2>3. ASSUME Undisturbed(a)
        PROVE  \E k \in 0..Len(ledger) :
                   /\ AgreeBut(resent'[a], Dest(a)', ReplaySteps(ledger, target[a])[k])
                   /\ todo[a] = EntriesAfter(ledger, target[a], k)
    <3>1. PICK k \in 0..Len(ledger) :
              /\ AgreeBut(resent[a], Dest(a), ReplaySteps(ledger, target[a])[k])
              /\ todo[a] = EntriesAfter(ledger, target[a], k)
      BY <1>1, <1>4, <2>3 DEF CallInv
    <3>2. /\ ledger[i] \in Event /\ Dest(a) \in Zset
          /\ ReplaySteps(ledger, target[a])[k] \in Zset
      BY <1>4, <2>1, NextFacts, ReplayType DEF TypeOK
    <3>3. PICK e, y, z : /\ e = ledger[i] /\ y = Dest(a)
                         /\ z = ReplaySteps(ledger, target[a])[k]
      OBVIOUS
    <3>4. AgreeBut(resent[a] \cup {e.player}, Fold(y, e), z)
      BY <3>1, <3>2, <3>3, FoldAgrees
    <3> QED
      BY <2>1, <2>2, <3>1, <3>3, <3>4
  <2> QED
    BY <1>1, <1>2, <1>4, <2>3 DEF CallInv
<1> QED
  BY <1>1, <1>3, <1>4

LEMMA OwnStepKeepsCall ==
    ASSUME AdminInv, NEW a \in Admins, AdminStep(a)
    PROVE  CallInv(a)'
<1> USE DEF AdminInv, AdminTypeOK
<1>1. ASSUME NEW o \in AdminOps, NEW b \in Boards, Begin(a, o, b) PROVE CallInv(a)'
  BY <1>1 DEF Begin, CallInv
<1>2. CASE ReadEvents(a)
  <2>1. /\ pc'[a] = "drop" /\ op'[a] = op[a] /\ target'[a] = target[a]
        /\ todo'[a] = {i \in DOMAIN ledger : ledger[i].board = target[a]}
        /\ ledger' = ledger /\ pc[a] = "read"
    BY <1>2 DEF ReadEvents, vars, scoreVars
  <2>2. todo'[a] = EntriesAfter(ledger', target'[a], 0)
    <3>1. \A i \in DOMAIN ledger : i > 0
      BY DEF TypeOK
    <3> QED
      BY <2>1, <3>1 DEF EntriesAfter
  <2> QED
    BY <2>1, <2>2 DEF CallInv
<1>3. CASE ReadLive(a)
  <2>1. CallInv(a)
    OBVIOUS
  <2>2. /\ pc[a] = "read_live" /\ pc'[a] = "read_scratch" /\ live'[a] = projection[target[a]]
        /\ op'[a] = op[a] /\ target'[a] = target[a] /\ overlap'[a] = overlap[a]
        /\ UNCHANGED <<ledger, projection, scratch, resent>>
    BY <1>3 DEF ReadLive, vars, scoreVars
  <2> QED
    BY <2>1, <2>2 DEF CallInv, Undisturbed
<1>4. CASE ReadScratch(a)
  <2>1. CallInv(a)
    OBVIOUS
  <2>2. /\ pc[a] = "read_scratch" /\ pc'[a] = "clean"
        /\ drift'[a] = {p \in Players : live[a][p] # scratch[target[a]][p]}
        /\ op'[a] = op[a] /\ target'[a] = target[a] /\ overlap'[a] = overlap[a]
        /\ UNCHANGED <<ledger, projection, resent>>
    BY <1>4 DEF ReadScratch, vars, scoreVars
  <2>3. Undisturbed(a)' => AgreeOnBut(resent'[a], drift'[a], Drift(target[a])')
    BY <2>1, <2>2 DEF CallInv, Undisturbed, Drift, AgreeBut, AgreeOnBut
  <2> QED
    BY <2>1, <2>2, <2>3 DEF CallInv
<1>5. CASE Clean(a) \/ FailBeforeDiff(a) \/ FailInDiff(a) \/ Die(a)
  BY <1>5 DEF Clean, FailBeforeDiff, FailInDiff, Die, CallInv
<1> QED
  BY <1>1, <1>2, <1>3, <1>4, <1>5, DropFacts, FoldOneFacts, ResendFacts DEF AdminStep

LEMMA AdminStepSees ==
    ASSUME AdminInv, NEW a \in Admins, AdminStep(a)
    PROVE  OverlapsAreSeen'
<1> USE DEF AdminInv, AdminTypeOK
<1>0. Footprint(a)
  BY StepFootprint
<1>1. ASSUME NEW o \in AdminOps, NEW b \in Boards, Begin(a, o, b) PROVE OverlapsAreSeen'
  <2>1. /\ op'[a] = o /\ target'[a] = b
        /\ overlap'[a] = {op[d] : d \in {d \in Admins : Running(d, b)}}
        /\ \A c \in Admins \ {a} : Running(c, b) => o \in overlap'[c]
    BY <1>1 DEF Begin
  <2> SUFFICES ASSUME NEW c \in Admins, NEW d \in Admins, c # d, pc'[c] # "idle",
                      pc'[d] # "idle", target'[c] = target'[d]
               PROVE  op'[d] \in overlap'[c]
    BY DEF OverlapsAreSeen
  <2>2. CASE c = a
    <3>1. Running(d, b) /\ op'[d] = op[d]
      BY <1>0, <2>1, <2>2 DEF Footprint, Running
    <3> QED
      BY <2>1, <2>2, <3>1
  <2>3. CASE d = a
    BY <1>0, <2>1, <2>3 DEF Footprint, Running
  <2>4. CASE c # a /\ d # a
    BY <1>0, <2>4 DEF Footprint, OverlapsAreSeen
  <2> QED
    BY <2>2, <2>3, <2>4
<1>2. ASSUME pc'[a] # "idle" =>
                 /\ pc[a] # "idle" /\ op'[a] = op[a] /\ target'[a] = target[a]
                 /\ overlap'[a] = overlap[a]
      PROVE  OverlapsAreSeen'
  BY <1>0, <1>2 DEF Footprint, OverlapsAreSeen
<1>3. CASE ReadEvents(a) \/ ReadLive(a) \/ ReadScratch(a)
  BY <1>2, <1>3 DEF ReadEvents, ReadLive, ReadScratch
<1>4. CASE Clean(a) \/ FailBeforeDiff(a) \/ FailInDiff(a) \/ Die(a)
  BY <1>2, <1>4 DEF Clean, FailBeforeDiff, FailInDiff, Die
<1>5. CASE Drop(a) \/ FoldOne(a) \/ ResendCommand(a)
  BY <1>2, <1>5 DEF Drop, FoldOne, ResendCommand, Proceed
<1> QED
  BY <1>1, <1>3, <1>4, <1>5 DEF AdminStep

LEMMA AdminInvInit == ASSUME AdminInit PROVE AdminInv
<1>1. \A a \in Admins : pc[a] = "idle"
  BY DEF AdminInit
<1> QED
  BY <1>1, AdminTypeInit DEF AdminInv, OverlapsAreSeen, CallInv

LEMMA AdminInvNext == ASSUME AdminInv, AdminNext PROVE AdminInv'
<1>1. CASE WritersStep
  BY <1>1, WritersType, WritersKeepCalls DEF AdminInv
<1>2. ASSUME NEW a \in Admins, AdminStep(a) PROVE AdminInv'
  <2>1. AdminTypeOK'
    BY <1>2, AdminTypeQuiet, AdminTypeWrites DEF AdminStep
  <2>2. \A c \in Admins : CallInv(c)'
    BY <1>2, OthersKeepCall, OwnStepKeepsCall
  <2> QED
    BY <1>2, <2>1, <2>2, AdminStepSees DEF AdminInv
<1> QED
  BY <1>1, <1>2 DEF AdminNext, WritersStep

LEMMA AdminInvStutter == ASSUME AdminInv, UNCHANGED adminVars PROVE AdminInv'
<1>1. /\ UNCHANGED <<projection, ledger, scratch, resends>>
      /\ UNCHANGED <<pc, op, target, todo, live, drift, overlap, resent>>
  BY DEF adminVars, vars, scoreVars, callVars
<1>2. AdminTypeOK'
  BY <1>1 DEF AdminInv, AdminTypeOK, TypeOK, RegistryTypeOK, adminVars, vars, registryVars, scoreVars
<1>3. \A a \in Admins : CallInv(a)'
  BY <1>1, Frame DEF OthersBoard
<1> QED
  BY <1>1, <1>2, <1>3 DEF AdminInv, OverlapsAreSeen

LEMMA AdminInvAlways == AdminSpec => []AdminInv
<1>1. AdminInit => AdminInv
  BY AdminInvInit
<1>2. AdminInv /\ [AdminNext]_adminVars => AdminInv'
  BY AdminInvNext, AdminInvStutter
<1> QED
  BY <1>1, <1>2, PTL DEF AdminSpec

-----------------------------------------------------------------------------
\* A verify that nothing overlapped reports exactly the drift there is, for any
\* ledger and any drift, with any number of calls on other boards and over
\* whatever an earlier verify left in the scratch key, but for the players that
\* a ZINCRBY sent again left in doubt.
THEOREM VerifyIsExact == AdminSpec => []VerifyReportsDrift
<1>1. AdminInv => VerifyReportsDrift
  BY DEF AdminInv, CallInv, Undisturbed, AgreeOnBut, VerifyReportsDrift
<1> QED
  BY <1>1, AdminInvAlways, PTL

\* A rebuild that overlapped no write and no other rebuild of its board leaves
\* the replay of the ledger, from whatever there was before and whichever calls
\* failed or died half-way before it, but for the players that a ZINCRBY sent
\* again left in doubt.
THEOREM RebuildIsReplay == AdminSpec => RebuildRestores
<1>1. ASSUME AdminInv, NEW a \in Admins, RebuildReturns(a), overlap[a] \subseteq {"verify"}
      PROVE  AgreeBut(InDoubt(a, todo[a]), projection'[target[a]], Replay(ledger', target[a]))
  <2>1. /\ op[a] = "rebuild" /\ Undisturbed(a) /\ pc[a] # "idle"
        /\ target[a] \in Boards /\ projection \in [Boards -> Zset]
    <3>1. op[a] = "rebuild" /\ pc[a] # "idle"
      BY <1>1 DEF RebuildReturns, Drop, FoldOne
    <3> QED
      BY <1>1, <3>1, CallTyped DEF AdminInv, AdminTypeOK, TypeOK, Undisturbed
  <2>2. CASE Drop(a)
    <3>1. todo[a] = {} /\ ledger' = ledger
      BY <1>1, <2>2 DEF RebuildReturns, Drop
    <3>2. projection'[target[a]] = EmptyZset
      BY <2>1, <2>2 DEF Drop, PutDest
    <3>3. AgreeBut({}, EmptyZset, Replay(ledger, target[a]))
      BY <1>1, <2>1, <2>2, <3>1, DropFacts
    <3> QED
      BY <3>1, <3>2, <3>3 DEF AgreeBut
  <2>3. CASE FoldOne(a)
    <3>1. ledger' = ledger /\ \E i \in todo[a] : todo[a] = {i}
      BY <1>1, <2>3 DEF RebuildReturns, FoldOne
    <3>2. PICK i \in todo[a] :
              /\ PutDest(a, Fold(Dest(a), ledger[i]))
              /\ Undisturbed(a) /\ todo[a] \ {i} = {} =>
                    AgreeBut(InDoubt(a, {i}), Fold(Dest(a), ledger[i]), Replay(ledger, target[a]))
      BY <1>1, <2>3, FoldOneFacts
    <3>3. projection'[target[a]] = Fold(Dest(a), ledger[i]) /\ todo[a] = {i}
      BY <2>1, <3>1, <3>2 DEF PutDest
    <3> QED
      BY <2>1, <3>1, <3>2, <3>3
  <2> QED
    BY <1>1, <2>2, <2>3 DEF RebuildReturns
<1>2. AdminInv /\ [AdminNext]_adminVars =>
         [\A a \in Admins :
             RebuildReturns(a) /\ overlap[a] \subseteq {"verify"} =>
                 \A p \in Players \ InDoubt(a, todo[a]) :
                     projection'[target[a]][p] = Replay(ledger', target[a])[p]]_adminVars
  BY <1>1 DEF AgreeBut
<1> QED
  BY <1>2, AdminInvAlways, PTL DEF AdminSpec, RebuildRestores

-----------------------------------------------------------------------------
(***************************************************************************)
(* Reads.                                                                  *)
(***************************************************************************)

\* How far the followed read is.  As long as no rebuild drops the projection
\* under it, the set only gains members, so what the first command found
\* bounds what the second one finds.
ReadInv ==
    read # Absent =>
        /\ read.kind = "standing" =>
              /\ read.left \in {<<"rank", "card">>, <<"card">>, << >>}
              /\ read.left \in {<<"card">>, << >>} => Len(read.rows) = 1
              /\ read.left = <<"card">> /\ ~read.dropped =>
                    read.rows[1].rank <= Cardinality(Members(projection[read.board]))
              /\ read.left = << >> /\ ~read.dropped => read.rows[1].rank <= read.total
        /\ read.kind = "page" =>
              /\ read.left \in {<<"card", "range">>, <<"range">>, << >>}
              /\ read.left = <<"range">> /\ ~read.dropped =>
                    read.total <= Cardinality(Members(projection[read.board]))
              /\ read.left = << >> /\ ~read.dropped =>
                    Len(read.rows) = read.limit \/ read.offset + Len(read.rows) >= read.total

StandingsInv == AdminInv /\ StandingsTypeOK /\ ReadInv

\* The order of the standings of z, as a set of pairs.
Order(z) == {r \in Players \X Players : SortsBefore(z, r[1], r[2])}

LEMMA OrderFacts ==
    ASSUME NEW z \in Zset
    PROVE  /\ IsFiniteSet(Members(z)) /\ Cardinality(Members(z)) \in Nat
           /\ StrictlyOrders(Order(z), Members(z))
           /\ \A p \in Members(z) : RankOf(z, p) = RankIn(Order(z), Members(z), p)
<1>1. IsFiniteSet(Members(z)) /\ Cardinality(Members(z)) \in Nat
  <2>1. Members(z) \in SUBSET Players
    BY DEF Members
  <2> QED
    BY <2>1, StandingsAssumption, FS_Subset, FS_CardinalityType
<1>2. \A p \in Members(z) : p \in Players /\ p \in Nat /\ z[p] \in Int
  BY StandingsAssumption DEF Members, Zset
<1>3. StrictlyOrders(Order(z), Members(z))
  <2>1. \A p, q \in Members(z) : <<p, q>> \in Order(z) <=> SortsBefore(z, p, q)
    BY <1>2 DEF Order
  <2>2. /\ \A p \in Members(z) : ~SortsBefore(z, p, p)
        /\ \A p, q \in Members(z) : p # q => SortsBefore(z, p, q) \/ SortsBefore(z, q, p)
    BY <1>2 DEF SortsBefore
  <2>3. \A p, q, s \in Members(z) :
            SortsBefore(z, p, q) /\ SortsBefore(z, q, s) => SortsBefore(z, p, s)
    BY <1>2 DEF SortsBefore
  <2> QED
    BY <2>1, <2>2, <2>3 DEF StrictlyOrders
<1>4. ASSUME NEW p \in Members(z) PROVE RankOf(z, p) = RankIn(Order(z), Members(z), p)
  <2>1. \A q \in Members(z) :
            <<q, p>> \in Order(z) <=> z[q] > z[p] \/ (z[q] = z[p] /\ q > p)
    BY <1>2 DEF Order, SortsBefore
  <2>2. Above(z, p) = Before(Order(z), Members(z), p)
    BY <2>1 DEF Above, Before
  <2> QED
    BY <2>2 DEF RankOf, RankIn
<1> QED
  BY <1>1, <1>3, <1>4

\* Every rank of a set is held by one member.
LEMMA RankFacts ==
    ASSUME NEW z \in Zset
    PROVE  /\ Cardinality(Members(z)) \in Nat
           /\ \A p \in Members(z) : RankOf(z, p) \in 1..Cardinality(Members(z))
           /\ \A n \in 1..Cardinality(Members(z)) :
                 /\ AtRank(z, n) \in Members(z) /\ RankOf(z, AtRank(z, n)) = n
                 /\ \A p \in Members(z) : RankOf(z, p) = n => AtRank(z, n) = p
<1>1. /\ IsFiniteSet(Members(z)) /\ StrictlyOrders(Order(z), Members(z))
      /\ \A p \in Members(z) : RankOf(z, p) = RankIn(Order(z), Members(z), p)
  BY OrderFacts
<1>2. /\ Cardinality(Members(z)) \in Nat
      /\ \A p \in Members(z) : RankOf(z, p) \in 1..Cardinality(Members(z))
      /\ \A p, q \in Members(z) : RankOf(z, p) = RankOf(z, q) => p = q
      /\ \A n \in 1..Cardinality(Members(z)) : \E p \in Members(z) : RankOf(z, p) = n
  BY <1>1, RankIsBijection
<1>3. \A n \in 1..Cardinality(Members(z)) :
          AtRank(z, n) \in Members(z) /\ RankOf(z, AtRank(z, n)) = n
  BY <1>2 DEF AtRank
<1> QED
  BY <1>2, <1>3

\* A page of the live projection: how many rows it has, and what they are.
LEMMA LivePageFacts ==
    ASSUME NEW z \in Zset, NEW limit \in Nat \ {0}, NEW offset \in Nat
    PROVE  LET page == LivePage(z, limit, offset)
               size == Cardinality(Members(z))
           IN  /\ page \in Seq(Row)
               /\ Len(page) <= limit
               /\ Len(page) = limit \/ offset + Len(page) >= size
<1> DEFINE size == Cardinality(Members(z))
           n == IF size <= offset THEN 0 ELSE IF size - offset < limit THEN size - offset ELSE limit
           page == LivePage(z, limit, offset)
<1>1. size \in Nat
  BY RankFacts
<1>2. n \in Nat /\ \A i \in 1..n : offset + i \in 1..size
  BY <1>1
<1>3. \A i \in 1..n :
         [player |-> AtRank(z, offset + i), score |-> z[AtRank(z, offset + i)],
          rank |-> offset + i] \in Row
  <2> SUFFICES ASSUME NEW i \in 1..n
               PROVE  /\ AtRank(z, offset + i) \in Players
                      /\ z[AtRank(z, offset + i)] \in Int
                      /\ offset + i \in Nat \ {0}
    BY DEF Row
  <2>1. offset + i \in 1..size
    BY <1>2
  <2> HIDE DEF size, n
  <2>2. AtRank(z, offset + i) \in Members(z)
    BY <2>1, RankFacts DEF size
  <2> QED
    BY <1>1, <2>1, <2>2 DEF Members, Zset
<1>4. page = [i \in 1..n |-> [player |-> AtRank(z, offset + i),
                              score |-> z[AtRank(z, offset + i)], rank |-> offset + i]]
  BY DEF LivePage
<1>5. page \in Seq(Row) /\ Len(page) = n
  <2> HIDE DEF n, page
  <2>1. page \in [1..n -> Row]
    BY <1>3, <1>4
  <2> QED
    BY <1>2, <2>1
<1> QED
  BY <1>1, <1>5

-----------------------------------------------------------------------------
LEMMA StandingsInvInit == ASSUME StandingsInit PROVE StandingsInv
<1>1. AdminInv /\ AdminTypeOK
  BY AdminInvInit DEF StandingsInit, AdminInv
<1>2. stamps \in Seq(Days) /\ Len(stamps) = Len(ledger) /\ redisDay \in Days
  BY StandingsAssumption DEF StandingsInit, AdminInit, Init, Days
<1> QED
  BY <1>1, <1>2 DEF StandingsInv, StandingsTypeOK, ReadInv, StandingsInit

\* What a read and the clock leave alone.
LEMMA QuietKeeps ==
    ASSUME StandingsInv, UNCHANGED <<adminVars, stamps>>,
           redisDay' \in Days, read' \in Read \cup {Absent}, ReadInv'
    PROVE  StandingsInv'
<1>1. AdminInv'
  BY AdminInvStutter DEF StandingsInv
<1>2. ledger' = ledger
  BY DEF adminVars, vars, scoreVars
<1> QED
  BY <1>1, <1>2 DEF StandingsInv, StandingsTypeOK, AdminInv

LEMMA ReadsKeep ==
    ASSUME StandingsInv, BeginRead \/ ReadRank \/ ReadCard \/ ReadRange \/ EndRead
    PROVE  StandingsInv'
<1>1. /\ UNCHANGED <<adminVars, stamps, redisDay>> /\ redisDay' \in Days
      /\ projection' = projection /\ projection \in [Boards -> Zset]
      /\ read \in Read \cup {Absent} /\ ReadInv
  BY DEF StandingsInv, StandingsTypeOK, AdminTypeOK, TypeOK, adminVars, vars, scoreVars,
         BeginRead, ReadRank, ReadCard, ReadRange, EndRead
<1>2. CASE BeginRead
  <2>1. PICK b \in Boards, p \in Players, limit \in Limits, offset \in Offsets,
             kind \in {"standing", "page"} :
             read' = [kind |-> kind, board |-> b, player |-> p,
                      limit |-> limit, offset |-> offset, left |-> Commands(kind),
                      total |-> 0, rows |-> << >>, dropped |-> FALSE]
    BY <1>2 DEF BeginRead
  <2>2. /\ Commands(kind) \in Seq({"rank", "card", "range"})
        /\ kind = "standing" => Commands(kind) = <<"rank", "card">>
        /\ kind = "page" => Commands(kind) = <<"card", "range">>
    <3>1. kind = "standing" => Commands(kind) = <<"rank", "card">>
      BY Zenon DEF Commands
    <3>2. kind = "page" => Commands(kind) = <<"card", "range">>
      BY DEF Commands
    <3>3. /\ <<"rank", "card">> \in Seq({"rank", "card", "range"})
          /\ <<"card", "range">> \in Seq({"rank", "card", "range"})
      OBVIOUS
    <3> QED
      BY <3>1, <3>2, <3>3
  <2>3. read' \in Read
    BY <2>1, <2>2 DEF Read
  <2>4. ReadInv'
    BY <2>1, <2>2 DEF ReadInv
  <2> QED
    BY <1>1, <2>3, <2>4, QuietKeeps
<1>3. CASE EndRead
  BY <1>1, <1>3, QuietKeeps DEF EndRead, ReadInv
<1>4. ASSUME ReadRank \/ ReadCard \/ ReadRange
      PROVE  /\ read \in Read /\ read # Absent /\ ReadInv
             /\ projection[read.board] \in Zset
             /\ Cardinality(Members(projection[read.board])) \in Nat
             /\ read.left # << >> /\ Tail(read.left) \in Seq({"rank", "card", "range"})
  <2>1. read \in Read /\ read # Absent /\ read.left # << >> /\ read.board \in Boards
    BY <1>1, <1>4 DEF ReadRank, ReadCard, ReadRange, Sends, Read
  <2>2. read.left \in Seq({"rank", "card", "range"})
    BY <2>1 DEF Read
  <2> QED
    BY <1>1, <2>1, <2>2, OrderFacts
<1>5. CASE ReadRank
  <2>1. /\ read \in Read /\ read # Absent /\ read.left = <<"rank", "card">>
        /\ read.kind = "standing"
    BY <1>4, <1>5 DEF ReadRank, Sends, ReadInv, Read
  <2> DEFINE z == projection[read.board]
             row == [player |-> read.player, score |-> z[read.player],
                     rank |-> RankOf(z, read.player)]
  <2>2. CASE z[read.player] = Absent
    BY <1>1, <1>5, <2>2, QuietKeeps DEF ReadRank, ReadInv
  <2>3. CASE z[read.player] # Absent
    <3>1. read' = [read EXCEPT !.left = Tail(@), !.rows = <<row>>]
      BY <1>5, <2>3 DEF ReadRank
    <3>2. /\ read.player \in Players /\ z[read.player] \in Int
          /\ RankOf(z, read.player) \in 1..Cardinality(Members(z))
      BY <1>4, <1>5, <2>1, <2>3, RankFacts DEF Read, Members, Zset
    <3>3. row \in Row /\ row.rank <= Cardinality(Members(z))
      BY <1>4, <1>5, <3>2 DEF Row
    <3>4. Tail(read.left) = <<"card">>
      BY <2>1
    <3> HIDE DEF row
    <3>5. /\ <<row>> \in Seq(Row) /\ Len(<<row>>) = 1 /\ <<row>>[1] = row
      BY <3>3
    <3>6. read' \in Read
      BY <1>4, <1>5, <2>1, <3>1, <3>5 DEF Read
    <3>7. /\ read'.kind = "standing" /\ read'.left = <<"card">>
          /\ read'.rows = <<row>> /\ read'.board = read.board
      BY <2>1, <3>1, <3>4 DEF Read
    <3>8. ReadInv'
      BY <1>1, <3>3, <3>5, <3>7 DEF ReadInv
    <3> QED
      BY <1>1, <3>6, <3>8, QuietKeeps
  <2> QED
    BY <2>2, <2>3
<1>6. CASE ReadCard
  <2>1. /\ read \in Read /\ read # Absent
        /\ read.kind = "standing" => read.left = <<"card">>
        /\ read.kind = "page" => read.left = <<"card", "range">>
    BY <1>4, <1>6 DEF ReadCard, Sends, ReadInv, Read
  <2>2. read' = [read EXCEPT !.left = Tail(@),
                             !.total = Cardinality(Members(projection[read.board]))]
    BY <1>6 DEF ReadCard
  <2>3. read' \in Read
    BY <1>4, <1>6, <2>2 DEF Read
  <2>4. /\ read'.kind = read.kind /\ read'.left = Tail(read.left) /\ read'.board = read.board
        /\ read'.rows = read.rows /\ read'.dropped = read.dropped
        /\ read'.total = Cardinality(Members(projection[read.board]))
    BY <2>1, <2>2 DEF Read
  <2>5. /\ read.kind = "standing" => Tail(read.left) = << >>
        /\ read.kind = "page" => Tail(read.left) = <<"range">>
    <3>1. Tail(<<"card">>) = << >> /\ Tail(<<"card", "range">>) = <<"range">>
      OBVIOUS
    <3> QED
      BY <2>1, <3>1
  <2>6. ReadInv'
    BY <1>1, <1>4, <1>6, <2>1, <2>4, <2>5 DEF ReadInv
  <2> QED
    BY <1>1, <2>3, <2>6, QuietKeeps
<1>7. CASE ReadRange
  <2>1. read \in Read /\ read # Absent /\ read.kind = "page" /\ read.left = <<"range">>
    BY <1>4, <1>7 DEF ReadRange, Sends, ReadInv, Read
  <2> DEFINE page == LivePage(projection[read.board], read.limit, read.offset)
  <2>2. read' = [read EXCEPT !.left = Tail(@), !.rows = page]
    BY <1>7 DEF ReadRange
  <2>3. read.limit \in Nat \ {0} /\ read.offset \in Nat /\ read.total \in Nat
    BY <2>1, StandingsAssumption DEF Read
  <2>4. /\ page \in Seq(Row)
        /\ \/ Len(page) = read.limit
           \/ read.offset + Len(page) >= Cardinality(Members(projection[read.board]))
    BY <1>4, <1>7, <2>3, LivePageFacts
  <2> HIDE DEF page
  <2>5. read' \in Read
    BY <1>4, <1>7, <2>2, <2>4 DEF Read
  <2>6. /\ read'.kind = "page" /\ read'.left = << >> /\ read'.board = read.board
        /\ read'.rows = page /\ read'.dropped = read.dropped /\ read'.total = read.total
        /\ read'.limit = read.limit /\ read'.offset = read.offset
    BY <2>1, <2>2 DEF Read
  <2>7. ~read.dropped => read.total <= Cardinality(Members(projection[read.board]))
    BY <1>4, <1>7, <2>1 DEF ReadInv
  <2>8. ReadInv'
    <3>1. Len(page) \in Nat
      BY <2>4
    <3> QED
      BY <1>4, <1>7, <2>3, <2>4, <2>6, <2>7, <3>1 DEF ReadInv
  <2> QED
    BY <1>1, <2>5, <2>8, QuietKeeps
<1> QED
  BY <1>2, <1>3, <1>5, <1>6, <1>7

\* Nothing but a score write changes the ledger, and it appends one event.
LEMMA LedgerGrows ==
    ASSUME AdminInv, AdminNext
    PROVE  ledger' = ledger \/ \E e \in Event : ledger' = Append(ledger, e)
<1>1. ASSUME NEW r \in Request, Write(r)
      PROVE  ledger' = ledger \/ \E e \in Event : ledger' = Append(ledger, e)
  BY <1>1, ApplyExtends DEF Write, scoreVars, AdminInv, AdminTypeOK
<1>2. ASSUME NEW a \in Admins, AdminStep(a) PROVE ledger' = ledger
  BY <1>2, StepFootprint DEF Footprint
<1> QED
  BY <1>1, <1>2 DEF AdminNext, scoreVars, ExpireKey

\* The stamps grow with the ledger, and a new one is no earlier than the last.
LEMMA StampsGrow ==
    ASSUME StandingsInv, OthersStep
    PROVE  \/ ledger' = ledger /\ stamps' = stamps
           \/ /\ \E e \in Event : ledger' = Append(ledger, e)
              /\ \E day \in Days :
                    /\ stamps' = Append(stamps, day)
                    /\ stamps # << >> => day >= stamps[Len(stamps)]
<1>1. ledger \in Seq(Event) /\ stamps \in Seq(Days) /\ redisDay \in Days /\ Days \subseteq Nat
  BY DEF StandingsInv, StandingsTypeOK, AdminTypeOK, TypeOK, Days
<1>2. CASE ledger' = ledger
  BY <1>1, <1>2 DEF OthersStep
<1>3. ASSUME NEW e \in Event, ledger' = Append(ledger, e)
      PROVE  \E day \in Days : /\ stamps' = Append(stamps, day)
                               /\ stamps # << >> => day >= stamps[Len(stamps)]
  <2>1. Len(ledger') > Len(ledger)
    BY <1>1, <1>3
  <2>2. stamps' = Append(stamps, Stamp)
    BY <2>1 DEF OthersStep
  <2>3. stamps # << >> => stamps[Len(stamps)] \in Days
    BY <1>1
  <2>4. Stamp \in Days /\ (stamps # << >> => Stamp >= stamps[Len(stamps)])
    <3>1. CASE stamps = << >>
      BY <1>1, <3>1 DEF Stamp
    <3>2. CASE stamps # << >>
      <4>1. PICK last \in Days : last = stamps[Len(stamps)]
        BY <2>3, <3>2
      <4>2. Stamp = IF last > redisDay THEN last ELSE redisDay
        BY <3>2, <4>1 DEF Stamp
      <4>3. last \in Nat /\ redisDay \in Nat
        BY <1>1
      <4> QED
        BY <1>1, <4>1, <4>2, <4>3
    <3> QED
      BY <3>1, <3>2
  <2> QED
    BY <2>2, <2>4
<1> QED
  BY <1>2, <1>3, LedgerGrows DEF OthersStep, StandingsInv

LEMMA OthersKeepReads ==
    ASSUME StandingsInv, OthersStep
    PROVE  StandingsInv'
<1>1. AdminInv'
  BY AdminInvNext DEF StandingsInv, OthersStep
<1>2. stamps' \in Seq(Days) /\ Len(stamps') = Len(ledger') /\ redisDay' \in Days
  <2>1. /\ stamps \in Seq(Days) /\ ledger \in Seq(Event) /\ Len(stamps) = Len(ledger)
        /\ redisDay' = redisDay /\ redisDay \in Days
    BY DEF StandingsInv, StandingsTypeOK, AdminTypeOK, TypeOK, OthersStep
  <2> QED
    BY <2>1, StampsGrow
<1>3. /\ projection \in [Boards -> Zset] /\ projection' \in [Boards -> Zset]
      /\ read \in Read \cup {Absent} /\ ReadInv
  BY <1>1 DEF StandingsInv, StandingsTypeOK, AdminInv, AdminTypeOK, TypeOK
<1>4. CASE read = Absent
  BY <1>1, <1>2, <1>4 DEF OthersStep, StandingsInv, StandingsTypeOK, AdminInv, ReadInv
<1>5. CASE read # Absent
  <2> DEFINE lost == \E p \in Players : /\ projection[read.board][p] # Absent
                                        /\ projection'[read.board][p] = Absent
  <2>1. read' = IF lost THEN [read EXCEPT !.dropped = TRUE] ELSE read
    BY <1>5 DEF OthersStep
  <2>2. read \in Read /\ read.board \in Boards /\ read.total \in Nat
    BY <1>3, <1>5 DEF Read
  <2>3. read' \in Read
    BY <2>1, <2>2 DEF Read
  <2>4. CASE lost
    <3>1. /\ read'.dropped /\ read'.kind = read.kind /\ read'.left = read.left
          /\ read'.rows = read.rows
      BY <2>1, <2>2, <2>4 DEF Read
    <3>2. ReadInv'
      BY <1>3, <1>5, <3>1 DEF ReadInv
    <3> QED
      BY <1>1, <1>2, <2>3, <3>2 DEF StandingsInv, StandingsTypeOK, AdminInv
  <2>5. CASE ~lost
    <3>1. read' = read
      BY <2>1, <2>5
    <3>2. PICK z \in Zset, w \in Zset : z = projection[read.board] /\ w = projection'[read.board]
      BY <1>3, <2>2
    <3>3. Members(z) \in SUBSET Members(w)
      BY <2>5, <3>2 DEF Members
    <3>4. /\ Cardinality(Members(z)) \in Nat /\ Cardinality(Members(w)) \in Nat
          /\ Cardinality(Members(z)) <= Cardinality(Members(w))
      BY <3>3, OrderFacts, FS_Subset
    <3>5. read.left = <<"card">> /\ read.kind = "standing" => read.rows[1].rank \in Nat
      <4> SUFFICES ASSUME read.left = <<"card">>, read.kind = "standing"
                   PROVE  read.rows[1].rank \in Nat
        OBVIOUS
      <4>1. read.rows \in Seq(Row) /\ Len(read.rows) = 1
        BY <1>3, <1>5, <2>2 DEF Read, ReadInv
      <4>2. read.rows[1] \in Row
        BY <4>1
      <4> QED
        BY <4>2 DEF Row
    <3>6. ReadInv'
      BY <1>3, <1>5, <2>2, <3>1, <3>2, <3>4, <3>5 DEF ReadInv
    <3> QED
      BY <1>1, <1>2, <2>3, <3>6 DEF StandingsInv, StandingsTypeOK, AdminInv
  <2> QED
    BY <2>4, <2>5
<1> QED
  BY <1>4, <1>5

LEMMA StandingsInvNext ==
    ASSUME StandingsInv, [StandingsNext]_standingsVars
    PROVE  StandingsInv'
<1>1. CASE Clock \/ UNCHANGED standingsVars
  <2>1. /\ UNCHANGED <<adminVars, stamps, read>> /\ redisDay' \in Days
        /\ read' \in Read \cup {Absent} /\ projection' = projection
    BY <1>1 DEF StandingsInv, StandingsTypeOK, Clock, standingsVars, adminVars, vars, scoreVars
  <2>2. ReadInv'
    BY <2>1 DEF StandingsInv, ReadInv
  <2> QED
    BY <2>1, <2>2, QuietKeeps
<1> QED
  BY <1>1, ReadsKeep, OthersKeepReads DEF StandingsNext

LEMMA StandingsInvAlways == StandingsSpec => []StandingsInv
<1>1. StandingsInit => StandingsInv
  BY StandingsInvInit
<1>2. StandingsInv /\ [StandingsNext]_standingsVars => StandingsInv'
  BY StandingsInvNext
<1> QED
  BY <1>1, <1>2, PTL DEF StandingsSpec

\* A rank is never beyond the total it is answered with, although the two are
\* read by two commands, unless a rebuild dropped the projection in between.
THEOREM RankStaysWithinTotal == StandingsSpec => []RankWithinTotal
<1>1. StandingsInv => RankWithinTotal
  BY DEF StandingsInv, StandingsTypeOK, ReadInv, RankWithinTotal, Answered
<1> QED
  BY <1>1, StandingsInvAlways, PTL

\* A page is full, or reaches the total that was read ahead of it, whatever is
\* written between the two commands.
THEOREM PagesStayFull == StandingsSpec => []PagesAreFull
<1>1. StandingsInv => PagesAreFull
  BY DEF StandingsInv, StandingsTypeOK, ReadInv, PagesAreFull, Answered
<1> QED
  BY <1>1, StandingsInvAlways, PTL

-----------------------------------------------------------------------------
LEMMA LastStamp ==
    ASSUME NEW s \in Seq(Days), s # << >>
    PROVE  s[Len(s)] \in Days
OBVIOUS

\* The cut-off of a day never lies beyond the ledger.
LEMMA CutoffInLedger ==
    ASSUME StandingsInv, NEW day
    PROVE  Cutoff(day) \in 0..Len(ledger)
<1>1. Len(ledger) \in Nat /\ Len(stamps) = Len(ledger) /\ DOMAIN stamps = 1..Len(stamps)
  BY DEF StandingsInv, StandingsTypeOK, AdminTypeOK, TypeOK
<1>2. {i \in DOMAIN stamps : stamps[i] <= day} \in SUBSET (1..Len(ledger))
  BY <1>1
<1>3. IsFiniteSet(1..Len(ledger)) /\ Cardinality(1..Len(ledger)) = Len(ledger)
  <2>1. PICK n \in Nat : n = Len(ledger)
    BY <1>1
  <2>2. IsFiniteSet(1..n) /\ Cardinality(1..n) = n
    BY FS_Interval
  <2> QED
    BY <2>1, <2>2
<1>4. /\ IsFiniteSet({i \in DOMAIN stamps : stamps[i] <= day})
      /\ Cardinality({i \in DOMAIN stamps : stamps[i] <= day}) <= Len(ledger)
  BY <1>2, <1>3, FS_Subset
<1>5. Cardinality({i \in DOMAIN stamps : stamps[i] <= day}) \in Nat
  BY <1>4, FS_CardinalityType
<1> QED
  BY <1>1, <1>4, <1>5 DEF Cutoff

\* The standings as of a day that the ledger is past are final: no write,
\* rebuild or correction of Redis's clock changes them.
THEOREM PastDayIsFinal == StandingsSpec => AsOfIsFinal
<1>1. ASSUME StandingsInv, [StandingsNext]_standingsVars, NEW b \in Boards, NEW day \in Days,
             stamps # << >>, stamps[Len(stamps)] > day
      PROVE  AsOfScores(b, day)' = AsOfScores(b, day)
  <2>1. CASE UNCHANGED <<ledger, stamps>>
    BY <2>1 DEF AsOfScores, Cutoff
  <2>2. ASSUME NEW e \in Event, NEW d \in Days, ledger' = Append(ledger, e),
               stamps' = Append(stamps, d), d >= stamps[Len(stamps)]
        PROVE  AsOfScores(b, day)' = AsOfScores(b, day)
    <3>1. /\ stamps \in Seq(Days) /\ ledger \in Seq(Event) /\ Len(stamps) = Len(ledger)
          /\ Days \subseteq Nat
      BY <1>1 DEF StandingsInv, StandingsTypeOK, AdminTypeOK, TypeOK, Days
    <3>2. d > day
      <4>1. PICK last \in Days : last = stamps[Len(stamps)]
        BY <1>1, <3>1, LastStamp
      <4>2. last \in Nat /\ d \in Nat /\ day \in Nat
        BY <3>1
      <4> QED
        BY <1>1, <2>2, <4>1, <4>2
    <3>3. {i \in DOMAIN stamps' : stamps'[i] <= day} = {i \in DOMAIN stamps : stamps[i] <= day}
      <4>1. /\ DOMAIN stamps = 1..Len(stamps) /\ DOMAIN stamps' = 1..(Len(stamps) + 1)
            /\ Len(stamps) \in Nat /\ stamps'[Len(stamps) + 1] = d
            /\ \A i \in 1..Len(stamps) : stamps'[i] = stamps[i]
        BY <2>2, <3>1
      <4>2. ~(d <= day)
        BY <3>1, <3>2
      <4> QED
        BY <4>1, <4>2
    <3>4. Cutoff(day)' = Cutoff(day)
      BY <3>3 DEF Cutoff
    <3>5. PICK n \in 0..Len(ledger) : n = Cutoff(day) /\ n = Cutoff(day)'
      BY <1>1, <3>4, CutoffInLedger
    <3>6. SubSeq(ledger', 1, n) = SubSeq(ledger, 1, n)
      BY <2>2, <3>1, <3>5
    <3> QED
      BY <3>5, <3>6 DEF AsOfScores
  <2>3. CASE OthersStep
    BY <1>1, <2>1, <2>2, <2>3, StampsGrow
  <2>4. CASE ~OthersStep
    BY <1>1, <2>1, <2>4 DEF StandingsNext, BeginRead, ReadRank, ReadCard, ReadRange, EndRead,
                          Clock, standingsVars, adminVars, vars, scoreVars
  <2> QED
    BY <2>3, <2>4
<1>2. StandingsInv /\ [StandingsNext]_standingsVars =>
         [\A b \in Boards, day \in Days :
             stamps # << >> /\ stamps[Len(stamps)] > day =>
                 AsOfScores(b, day)' = AsOfScores(b, day)]_standingsVars
  BY <1>1
<1> QED
  BY <1>2, StandingsInvAlways, PTL DEF StandingsSpec, AsOfIsFinal

-----------------------------------------------------------------------------
\* What sort.Slice leaves has each player at the rank that Redis counts.
LEMMA AsOfOrderFacts ==
    ASSUME NEW z \in Zset
    PROVE  /\ DOMAIN AsOfOrder(z) = 1..Cardinality(Members(z))
           /\ \A n \in 1..Cardinality(Members(z)) : AsOfOrder(z)[n] = AtRank(z, n)
<1>1. /\ IsFiniteSet(Members(z)) /\ StrictlyOrders(Order(z), Members(z))
      /\ \A p \in Members(z) : RankOf(z, p) = RankIn(Order(z), Members(z), p)
  BY OrderFacts
<1>2. ASSUME NEW s \in [1..Cardinality(Members(z)) -> Members(z)]
      PROVE  (\A i, j \in DOMAIN s : i < j => SortsBefore(z, s[i], s[j]))
                <=> SortedBy(Order(z), Members(z), s)
  <2>1. \A i \in DOMAIN s : s[i] \in Players
    BY DEF Members
  <2>2. \A i, j \in DOMAIN s : <<s[i], s[j]>> \in Order(z) <=> SortsBefore(z, s[i], s[j])
    BY <2>1 DEF Order
  <2> QED
    BY <2>2 DEF SortedBy
<1>3. SortedBy(Order(z), Members(z), AsOfOrder(z))
  <2>1. PICK s : SortedBy(Order(z), Members(z), s)
    BY <1>1, SortExists
  <2>2. s \in [1..Cardinality(Members(z)) -> Members(z)]
    BY <2>1 DEF SortedBy
  <2>3. \E t \in [1..Cardinality(Members(z)) -> Members(z)] :
            \A i, j \in DOMAIN t : i < j => SortsBefore(z, t[i], t[j])
    BY <1>2, <2>1, <2>2
  <2>4. /\ AsOfOrder(z) \in [1..Cardinality(Members(z)) -> Members(z)]
        /\ \A i, j \in DOMAIN AsOfOrder(z) :
              i < j => SortsBefore(z, AsOfOrder(z)[i], AsOfOrder(z)[j])
    BY <2>3 DEF AsOfOrder
  <2> QED
    BY <1>2, <2>4
<1>4. \A n \in 1..Cardinality(Members(z)) :
          /\ AsOfOrder(z)[n] \in Members(z)
          /\ RankIn(Order(z), Members(z), AsOfOrder(z)[n]) = n
  BY <1>1, <1>3, SortedByRank
<1> QED
  BY <1>1, <1>3, <1>4, RankFacts DEF SortedBy

\* With no entry beyond the day, the as-of read folds the whole ledger.
LEMMA AsOfNowIsReplay ==
    ASSUME StandingsInv, NEW b
    PROVE  AsOfScores(b, LastDay) = Replay(ledger, b)
<1>1. /\ ledger \in Seq(Event) /\ stamps \in Seq(1..LastDay) /\ Len(stamps) = Len(ledger)
      /\ LastDay \in Nat
  BY StandingsAssumption DEF StandingsInv, StandingsTypeOK, AdminTypeOK, TypeOK, Days
<1>2. PICK n \in Nat : n = Len(ledger)
  BY <1>1
<1>3. {i \in DOMAIN stamps : stamps[i] <= LastDay} = 1..n
  <2>1. DOMAIN stamps = 1..n /\ \A i \in 1..n : stamps[i] \in 1..LastDay
    BY <1>1, <1>2
  <2> QED
    BY <1>1, <2>1
<1>4. Cardinality(1..n) = n
  BY FS_Interval
<1>5. Cutoff(LastDay) = Len(ledger)
  BY <1>2, <1>3, <1>4 DEF Cutoff
<1>6. SubSeq(ledger, 1, Len(ledger)) = ledger
  BY <1>1
<1> QED
  BY <1>5, <1>6 DEF AsOfScores

\* Wherever the projection is the replay of the ledger, the page that Redis
\* serves from its sorted set and the page that the as-of read folds, sorts
\* and cuts are one, row for row, ties and ranks included.
THEOREM AsOfAgreesWithLive == StandingsSpec => []AsOfNowIsLive
<1>1. ASSUME StandingsInv, NEW b \in Boards, Drift(b) = {},
             NEW limit \in 1..Cardinality(Players), NEW offset \in 0..Cardinality(Players)
      PROVE  AsOfPage(b, LastDay, limit, offset) = LivePage(projection[b], limit, offset)
  <2>1. ledger \in Seq(Event) /\ projection[b] \in Zset
    BY <1>1 DEF StandingsInv, StandingsTypeOK, AdminTypeOK, TypeOK
  <2>2. PICK z \in Zset : z = projection[b]
    BY <2>1
  <2>3. AsOfScores(b, LastDay) = z
    <3>1. Replay(ledger, b) \in Zset
      BY <2>1, ReplayType
    <3>2. Replay(ledger, b) = z
      BY <1>1, <2>2, <3>1 DEF Drift, Zset
    <3> QED
      BY <1>1, <3>2, AsOfNowIsReplay
  <2>4. PICK size \in Nat : size = Cardinality(Members(z))
    BY RankFacts
  <2> DEFINE row(n) == [player |-> AtRank(z, n), score |-> z[AtRank(z, n)], rank |-> n]
             all == [n \in 1..size |-> row(n)]
             last == IF offset + limit < size THEN offset + limit ELSE size
             rows == IF size <= offset THEN 0
                     ELSE IF size - offset < limit THEN size - offset ELSE limit
  <2>5. limit \in Nat /\ offset \in Nat /\ limit >= 1
    BY FS_CardinalityType, StandingsAssumption
  <2>6. LivePage(z, limit, offset) = [i \in 1..rows |-> row(offset + i)]
    BY <2>4 DEF LivePage
  <2>7. AsOfPage(b, LastDay, limit, offset) = SubSeq(all, offset + 1, last)
    <3>1. DOMAIN AsOfOrder(z) = 1..size /\ \A n \in 1..size : AsOfOrder(z)[n] = AtRank(z, n)
      BY <2>4, AsOfOrderFacts
    <3>2. [i \in DOMAIN AsOfOrder(z) |->
              [player |-> AsOfOrder(z)[i], score |-> z[AsOfOrder(z)[i]], rank |-> i]] = all
      BY <3>1
    <3>3. Len(all) = size
      BY <2>4
    <3> HIDE DEF all
    <3> QED
      BY <2>3, <3>2, <3>3 DEF AsOfPage
  <2>8. SubSeq(all, offset + 1, last) = [i \in 1..rows |-> row(offset + i)]
    <3> HIDE DEF row
    <3>1. last \in Int /\ (last - offset = rows \/ (rows = 0 /\ last <= offset))
      BY <2>4, <2>5
    <3>2. \A i \in 1..rows : offset + i \in 1..size
      BY <2>4, <2>5
    <3> QED
      BY <2>4, <2>5, <3>1, <3>2
  <2> QED
    BY <2>2, <2>6, <2>7, <2>8
<1>2. StandingsInv => AsOfNowIsLive
  BY <1>1 DEF AsOfNowIsLive
<1> QED
  BY <1>2, StandingsInvAlways, PTL
=============================================================================
