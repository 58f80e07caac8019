-------------------------- MODULE ScoreWritesProofs --------------------------
(***************************************************************************)
(* Proofs about the score write path, for any players, boards, keys,       *)
(* amounts and ledger length.  They rest on two things that come first:    *)
(* what Replay computes, as facts that the later proofs cite (Replay is a  *)
(* recursive function over the ledger's length, unfolded once and for all  *)
(* here), and the registry, whose scripts keep profiles, idempotency       *)
(* records, board hashes and board index consistent.                       *)
(***************************************************************************)
EXTENDS ScoreWrites, SortingProofs

\* Induction over the naturals for a set: a set of naturals that holds 0 and
\* the successor of each of its members holds every natural.
LEMMA NatSetInduction ==
    ASSUME NEW T, 0 \in T, \A n \in Nat : n \in T => n + 1 \in T
    PROVE  Nat \subseteq T
<1> DEFINE U == Nat \ T
           R == {ss \in Nat \X Nat : ss[1] < ss[2]}
<1> SUFFICES ASSUME U # {} PROVE FALSE
  OBVIOUS
<1>1. IsWellFoundedOn(R, Nat)
  BY NatLessThanWellFounded DEF OpToRel
<1>2. PICK x \in U : \A y \in U : <<y, x>> \notin R
  <2>1. U \subseteq Nat
    OBVIOUS
  <2> HIDE DEF U, R
  <2> QED
    BY <1>1, <2>1, WFMin
<1>3. x \in Nat /\ x # 0 /\ x \notin T
  OBVIOUS
<1>4. x - 1 \in Nat
  BY <1>3
<1>5. x - 1 \notin T
  BY <1>3, <1>4
<1>6. <<x - 1, x>> \in R
  BY <1>3, <1>4
<1> QED
  BY <1>2, <1>4, <1>5, <1>6

\* One step of the replay: what event n of l makes of board b's set z.
ReplayStep(z, l, b, n) == IF l[n].board = b THEN Fold(z, l[n]) ELSE z

\* f is the replay of the first m events of l for board b.
IsReplayTo(f, l, b, m) ==
    f = [n \in 0..m |-> IF n = 0 THEN EmptyZset ELSE ReplayStep(f[n-1], l, b, n)]

\* A replay exists for every prefix, so the recursive definition is not void.
LEMMA ReplayExists ==
    ASSUME NEW l, NEW b
    PROVE  \A m \in Nat : \E f : IsReplayTo(f, l, b, m)
<1> DEFINE T == {m \in Nat : \E f : IsReplayTo(f, l, b, m)}
<1>1. 0 \in T
  <2> DEFINE f == [n \in 0..0 |-> EmptyZset]
  <2>1. IsReplayTo(f, l, b, 0)
    BY DEF IsReplayTo
  <2> QED
    BY <2>1
<1>2. ASSUME NEW m \in Nat, m \in T PROVE m + 1 \in T
  <2>1. PICK f : IsReplayTo(f, l, b, m)
    BY <1>2
  <2> DEFINE g == [n \in 0..(m+1) |-> IF n <= m THEN f[n] ELSE ReplayStep(f[m], l, b, m+1)]
  <2>2. \A n \in 0..m : f[n] = IF n = 0 THEN EmptyZset ELSE ReplayStep(f[n-1], l, b, n)
    BY <2>1 DEF IsReplayTo
  <2>3. ASSUME NEW n \in 0..(m+1)
        PROVE  g[n] = IF n = 0 THEN EmptyZset ELSE ReplayStep(g[n-1], l, b, n)
    <3>1. CASE n = 0
      BY <3>1, <2>2
    <3>2. CASE n \in 1..m
      <4>1. g[n] = f[n] /\ g[n-1] = f[n-1]
        BY <3>2
      <4> HIDE DEF g
      <4> QED
        BY <3>2, <4>1, <2>2
    <3>3. CASE n = m + 1
      <4>1. g[n] = ReplayStep(f[m], l, b, n) /\ g[n-1] = f[m] /\ n # 0
        BY <3>3
      <4> HIDE DEF g
      <4> QED
        BY <4>1, <3>3
    <3> QED
      BY <3>1, <3>2, <3>3
  <2>4. g = [n \in 0..(m+1) |-> IF n = 0 THEN EmptyZset ELSE ReplayStep(g[n-1], l, b, n)]
    BY <2>3
  <2>5. IsReplayTo(g, l, b, m+1)
    BY <2>4 DEF IsReplayTo
  <2> QED
    BY <2>5
<1> HIDE DEF T
<1>3. Nat \subseteq T
  BY <1>1, <1>2, NatSetInduction
<1> QED
  BY <1>3 DEF T

\* ReplaySteps satisfies its recursion equation.
LEMMA ReplayEquation ==
    ASSUME NEW l, NEW b, Len(l) \in Nat
    PROVE  IsReplayTo(ReplaySteps(l, b), l, b, Len(l))
<1>1. PICK f : IsReplayTo(f, l, b, Len(l))
  BY ReplayExists
<1> QED
  BY <1>1 DEF ReplaySteps, IsReplayTo, ReplayStep

\* Replays of ledgers that agree on their first m events agree that far.
LEMMA ReplayAgrees ==
    ASSUME NEW k, NEW l, NEW b, NEW m \in Nat, NEW x \in Nat, m <= x,
           NEW f, NEW g, IsReplayTo(f, k, b, x), IsReplayTo(g, l, b, m),
           \A i \in 1..m : k[i] = l[i]
    PROVE  \A i \in 0..m : f[i] = g[i]
<1> DEFINE T == {i \in Nat : i <= m => f[i] = g[i]}
<1>1. \A i \in 0..m : f[i] = IF i = 0 THEN EmptyZset ELSE ReplayStep(f[i-1], k, b, i)
  BY DEF IsReplayTo
<1>2. \A i \in 0..m : g[i] = IF i = 0 THEN EmptyZset ELSE ReplayStep(g[i-1], l, b, i)
  BY DEF IsReplayTo
<1>3. 0 \in T
  BY <1>1, <1>2
<1>4. ASSUME NEW i \in Nat, i \in T PROVE i + 1 \in T
  <2> SUFFICES ASSUME i + 1 <= m PROVE f[i+1] = g[i+1]
    OBVIOUS
  <2>1. f[i] = g[i] /\ k[i+1] = l[i+1] /\ i + 1 \in 0..m /\ i + 1 # 0 /\ (i + 1) - 1 = i
    BY <1>4
  <2>2. f[i+1] = ReplayStep(f[i], k, b, i+1) /\ g[i+1] = ReplayStep(g[i], l, b, i+1)
    BY <2>1, <1>1, <1>2
  <2> QED
    BY <2>1, <2>2 DEF ReplayStep
<1> HIDE DEF T
<1>5. Nat \subseteq T
  BY <1>3, <1>4, NatSetInduction
<1> QED
  BY <1>5 DEF T

LEMMA FoldType ==
    ASSUME NEW z \in Zset, NEW e \in Event PROVE Fold(z, e) \in Zset
<1>1. z[e.player] \in Int \cup {Absent} /\ e.amount \in Int
  BY DEF Zset, Event
<1>2. NewScore(z, e) \in Int
  BY <1>1 DEF NewScore, ScoreOrZero
<1> QED
  BY <1>2 DEF Fold, Zset

\* Every step of a replay is a well-formed sorted set.
LEMMA ReplayType ==
    ASSUME NEW l \in Seq(Event), NEW b
    PROVE  /\ \A n \in 0..Len(l) : ReplaySteps(l, b)[n] \in Zset
           /\ Replay(l, b) \in Zset
<1> DEFINE f == ReplaySteps(l, b)
           T == {n \in Nat : n <= Len(l) => f[n] \in Zset}
<1>0. Len(l) \in Nat
  OBVIOUS
<1>1. \A n \in 0..Len(l) : f[n] = IF n = 0 THEN EmptyZset ELSE ReplayStep(f[n-1], l, b, n)
  <2>1. IsReplayTo(f, l, b, Len(l))
    BY <1>0, ReplayEquation
  <2> HIDE DEF f
  <2> QED
    BY <2>1 DEF IsReplayTo
<1> HIDE DEF f
<1>2. 0 \in T
  BY <1>0, <1>1 DEF EmptyZset, Zset
<1>3. ASSUME NEW n \in Nat, n \in T PROVE n + 1 \in T
  <2> SUFFICES ASSUME n + 1 <= Len(l) PROVE f[n+1] \in Zset
    OBVIOUS
  <2>1. f[n] \in Zset /\ n + 1 \in 0..Len(l) /\ n + 1 # 0 /\ (n + 1) - 1 = n
    BY <1>3, <1>0
  <2>2. f[n+1] = ReplayStep(f[n], l, b, n+1)
    BY <2>1, <1>1
  <2>3. l[n+1] \in Event
    BY <2>1
  <2> QED
    BY <2>1, <2>2, <2>3, FoldType DEF ReplayStep
<1> HIDE DEF T
<1>4. Nat \subseteq T
  BY <1>2, <1>3, NatSetInduction
<1>5. \A n \in 0..Len(l) : f[n] \in Zset
  BY <1>4, <1>0 DEF T
<1> QED
  BY <1>5, <1>0 DEF f, Replay

\* An empty ledger replays into an empty board.
LEMMA ReplayEmpty ==
    ASSUME NEW b PROVE Replay(<< >>, b) = EmptyZset
<1>1. IsReplayTo(ReplaySteps(<< >>, b), << >>, b, 0)
  BY ReplayEquation
<1> QED
  BY <1>1 DEF IsReplayTo, Replay

\* A replay starts empty and takes one step for each event.
LEMMA ReplayUnfold ==
    ASSUME NEW l \in Seq(Event), NEW b
    PROVE  /\ ReplaySteps(l, b)[0] = EmptyZset
           /\ \A n \in 1..Len(l) :
                 ReplaySteps(l, b)[n] = ReplayStep(ReplaySteps(l, b)[n-1], l, b, n)
<1> DEFINE f == ReplaySteps(l, b)
           m == Len(l)
<1>1. IsReplayTo(f, l, b, m) /\ m \in Nat
  BY ReplayEquation
<1> HIDE DEF f, m
<1>2. f[0] = EmptyZset
  BY <1>1 DEF IsReplayTo
<1>3. ASSUME NEW n \in 1..m PROVE f[n] = ReplayStep(f[n-1], l, b, n)
  BY <1>1 DEF IsReplayTo
<1> QED
  BY <1>2, <1>3 DEF f, m

\* Events of other boards do not move a board's replay.
LEMMA ReplayGap ==
    ASSUME NEW l \in Seq(Event), NEW b, NEW k \in 0..Len(l), NEW m \in k..Len(l),
           \A i \in (k+1)..m : l[i].board # b
    PROVE  ReplaySteps(l, b)[m] = ReplaySteps(l, b)[k]
<1> DEFINE f == ReplaySteps(l, b)
           T == {n \in Nat : k + n <= m => f[k+n] = f[k]}
<1>1. /\ k \in Nat /\ m \in Nat /\ Len(l) \in Nat /\ k <= m /\ m <= Len(l)
  OBVIOUS
<1>2. \A n \in 1..Len(l) : f[n] = ReplayStep(f[n-1], l, b, n)
  BY ReplayUnfold
<1> HIDE DEF f
<1>3. 0 \in T
  BY <1>1
<1>4. ASSUME NEW n \in Nat, n \in T PROVE n + 1 \in T
  <2> SUFFICES ASSUME k + (n + 1) <= m PROVE f[k + (n + 1)] = f[k]
    OBVIOUS
  <2>1. /\ k + (n + 1) \in 1..Len(l) /\ (k + (n + 1)) - 1 = k + n
        /\ k + (n + 1) \in (k+1)..m /\ k + n <= m
    BY <1>1
  <2>2. f[k + n] = f[k]
    BY <1>4, <2>1
  <2>3. f[k + (n + 1)] = ReplayStep(f[k + n], l, b, k + (n + 1))
    BY <1>2, <2>1
  <2> QED
    BY <2>1, <2>2, <2>3 DEF ReplayStep
<1> HIDE DEF T
<1>5. Nat \subseteq T
  BY <1>3, <1>4, NatSetInduction
<1>6. m - k \in T /\ k + (m - k) = m
  BY <1>1, <1>5
<1> QED
  BY <1>6 DEF T, f

\* Appending an event leaves the replay of every earlier prefix alone and
\* adds one step to the replay of the event's own board.
LEMMA ReplayAppend ==
    ASSUME NEW l \in Seq(Event), NEW e \in Event, NEW b
    PROVE  /\ \A n \in 0..Len(l) :
                 ReplaySteps(Append(l, e), b)[n] = ReplaySteps(l, b)[n]
           /\ Replay(Append(l, e), b) =
                 IF e.board = b THEN Fold(Replay(l, b), e) ELSE Replay(l, b)
<1> DEFINE k == Append(l, e)
           m == Len(l)
<1>1. /\ m \in Nat /\ Len(k) = m + 1 /\ Len(k) \in Nat
      /\ k[m+1] = e
      /\ \A i \in 1..m : k[i] = l[i]
  OBVIOUS
<1> HIDE DEF k, m
<1>2. IsReplayTo(ReplaySteps(l, b), l, b, m) /\ IsReplayTo(ReplaySteps(k, b), k, b, m+1)
  BY <1>1, ReplayEquation DEF m
<1>3. \A n \in 0..m : ReplaySteps(k, b)[n] = ReplaySteps(l, b)[n]
  <2> DEFINE f == ReplaySteps(k, b)
             g == ReplaySteps(l, b)
             x == m + 1
  <2>1. x \in Nat /\ m \in Nat /\ m <= x /\ \A i \in 1..m : k[i] = l[i]
    BY <1>1
  <2>2. IsReplayTo(f, k, b, x) /\ IsReplayTo(g, l, b, m)
    BY <1>2
  <2> HIDE DEF f, g, x
  <2>3. \A n \in 0..m : f[n] = g[n]
    BY <2>1, <2>2, ReplayAgrees
  <2> QED
    BY <2>3 DEF f, g
<1>4. ReplaySteps(k, b)[m+1] = ReplayStep(ReplaySteps(k, b)[m], k, b, m+1)
  BY <1>1, <1>2 DEF IsReplayTo
<1>5. Replay(k, b) = IF e.board = b THEN Fold(Replay(l, b), e) ELSE Replay(l, b)
  BY <1>1, <1>3, <1>4 DEF Replay, ReplayStep, m
<1> QED
  BY <1>3, <1>5 DEF k, m

\* What one event does to one player's score in a replay.
LEMMA StepScore ==
    ASSUME NEW z \in Zset, NEW l \in Seq(Event), NEW b, NEW n \in 1..Len(l),
           NEW p \in Players
    PROVE  ReplayStep(z, l, b, n)[p] =
               IF l[n].board = b /\ l[n].player = p
               THEN IF l[n].type = "set" THEN l[n].amount ELSE ScoreOrZero(z, p) + l[n].amount
               ELSE z[p]
<1>1. l[n].player \in Players
  <2>1. l[n] \in Event
    OBVIOUS
  <2> QED
    BY <2>1 DEF Event
<1> QED
  BY <1>1 DEF ReplayStep, Fold, NewScore, Zset

\* Rule 4, the snapshot barrier: a player's replayed score does not depend on
\* anything before a `set` of that player, so replay "never needs to look
\* past the most recent set" (docs/architecture.md:249).
THEOREM SetIsBarrier ==
    ASSUME NEW k \in Seq(Event), NEW b, NEW p \in Players, NEW m \in 1..Len(k),
           k[m].type = "set", k[m].board = b, k[m].player = p
    PROVE  Replay(k, b)[p] = Replay(SubSeq(k, m, Len(k)), b)[p]
<1> DEFINE l == SubSeq(k, m, Len(k))
           fk == ReplaySteps(k, b)
           fl == ReplaySteps(l, b)
           T == {i \in Nat : i + 1 <= Len(l) => fl[i+1][p] = fk[i+m][p]}
<1>1. /\ m \in Nat /\ m >= 1 /\ m <= Len(k) /\ Len(k) \in Nat
      /\ l \in Seq(Event)
      /\ Len(l) = Len(k) - m + 1 /\ Len(l) \in Nat /\ Len(l) >= 1
      /\ \A i \in 1..Len(l) : l[i] = k[i+m-1]
  OBVIOUS
<1> HIDE DEF l
<1>2. /\ \A n \in 1..Len(k) : fk[n] = ReplayStep(fk[n-1], k, b, n)
      /\ \A n \in 1..Len(l) : fl[n] = ReplayStep(fl[n-1], l, b, n)
  BY <1>1, ReplayEquation DEF IsReplayTo
<1>3. /\ \A n \in 0..Len(k) : fk[n] \in Zset
      /\ \A n \in 0..Len(l) : fl[n] \in Zset
  BY <1>1, ReplayType
<1> HIDE DEF fk, fl
<1>4. 0 \in T
  <2>1. fk[m-1] \in Zset /\ fl[0] \in Zset /\ 1 \in 1..Len(l) /\ l[1] = k[m]
    BY <1>1, <1>3
  <2>2. fk[m] = ReplayStep(fk[m-1], k, b, m) /\ fl[1] = ReplayStep(fl[0], l, b, 1)
    BY <1>1, <1>2
  <2>3. fk[m][p] = k[m].amount
    BY <1>1, <2>1, <2>2, StepScore
  <2>4. fl[1][p] = k[m].amount
    BY <1>1, <2>1, <2>2, StepScore
  <2> QED
    BY <1>1, <2>3, <2>4
<1>5. ASSUME NEW i \in Nat, i \in T PROVE i + 1 \in T
  <2> SUFFICES ASSUME (i + 1) + 1 <= Len(l) PROVE fl[(i+1)+1][p] = fk[(i+1)+m][p]
    OBVIOUS
  <2> DEFINE x == (i + 1) + 1
             y == (i + 1) + m
  <2>1. /\ x \in 1..Len(l) /\ y \in 1..Len(k) /\ x - 1 = i + 1 /\ y - 1 = i + m
        /\ l[x] = k[y]
    <3>1. x \in 1..Len(l) /\ x - 1 = i + 1
      BY <1>1
    <3>2. y \in 1..Len(k) /\ y - 1 = i + m /\ x + m - 1 = y
      BY <1>1
    <3> HIDE DEF x, y
    <3>3. l[x] = k[x + m - 1]
      BY <1>1, <3>1
    <3> QED
      BY <3>1, <3>2, <3>3
  <2>2. fl[i+1][p] = fk[i+m][p]
    BY <1>5
  <2>3. fl[i+1] \in Zset /\ fk[i+m] \in Zset
    <3>1. i + 1 \in 0..Len(l) /\ i + m \in 0..Len(k)
      BY <1>1
    <3> QED
      BY <1>3, <3>1
  <2>4. fl[x] = ReplayStep(fl[i+1], l, b, x) /\ fk[y] = ReplayStep(fk[i+m], k, b, y)
    BY <1>2, <2>1
  <2> HIDE DEF x, y
  <2>5. fl[x][p] = IF l[x].board = b /\ l[x].player = p
                   THEN IF l[x].type = "set" THEN l[x].amount
                        ELSE ScoreOrZero(fl[i+1], p) + l[x].amount
                   ELSE fl[i+1][p]
    BY <1>1, <2>1, <2>3, <2>4, StepScore
  <2>6. fk[y][p] = IF k[y].board = b /\ k[y].player = p
                   THEN IF k[y].type = "set" THEN k[y].amount
                        ELSE ScoreOrZero(fk[i+m], p) + k[y].amount
                   ELSE fk[i+m][p]
    BY <1>1, <2>1, <2>3, <2>4, StepScore
  <2>7. fl[x][p] = fk[y][p]
    BY <2>1, <2>2, <2>5, <2>6 DEF ScoreOrZero
  <2> QED
    BY <2>7 DEF x, y
<1> HIDE DEF T
<1>6. Nat \subseteq T
  BY <1>4, <1>5, NatSetInduction
<1>7. fl[Len(l)][p] = fk[Len(k)][p]
  <2> DEFINE i == Len(l) - 1
  <2>1. i \in Nat /\ i + 1 = Len(l) /\ i + m = Len(k) /\ i + 1 <= Len(l)
    BY <1>1
  <2> HIDE DEF i
  <2>2. fl[i+1][p] = fk[i+m][p]
    BY <1>6, <2>1 DEF T
  <2> QED
    BY <2>1, <2>2
<1> QED
  BY <1>7 DEF Replay, fk, fl, l

-----------------------------------------------------------------------------
\* The registry's variables keep their types.
LEMMA RegistryTypeStep ==
    ASSUME RegistryTypeOK, RegistryNext PROVE RegistryTypeOK'
<1> USE DEF RegistryTypeOK, BoardStates
<1>1. ASSUME NEW name \in Names, NEW id \in Players, NEW key \in PlayerKeys \cup {NoKey},
             CreatePlayerProfile(name, id, key)
      PROVE  RegistryTypeOK'
  BY <1>1 DEF CreatePlayerProfile
<1>2. ASSUME NEW key \in PlayerKeys, ExpirePlayerKey(key) PROVE RegistryTypeOK'
  BY <1>2 DEF ExpirePlayerKey
<1>3. ASSUME NEW b \in Boards, NEW state \in BoardStates, NEW at \in Seconds,
             CreateBoard(b, state, at)
      PROVE  RegistryTypeOK'
  BY <1>3, RegistryAssumption DEF CreateBoard
<1>4. ASSUME NEW b \in Boards, NEW state \in BoardStates, SetBoardState(b, state)
      PROVE  RegistryTypeOK'
  BY <1>4 DEF SetBoardState
<1> QED
  BY <1>1, <1>2, <1>3, <1>4 DEF RegistryNext, PlayerWrites

\* Profiles and boards are created and switched, never removed.
LEMMA RegistryGrows ==
    ASSUME RegistryTypeOK, RegistryNext
    PROVE  /\ \A p \in Players : profiles[p] # Absent => profiles'[p] # Absent
           /\ \A b \in Boards : boardState[b] # Absent => boardState'[b] # Absent
<1> USE DEF RegistryTypeOK, BoardStates
<1>1. ASSUME NEW name \in Names, NEW id \in Players, NEW key \in PlayerKeys \cup {NoKey},
             CreatePlayerProfile(name, id, key)
      PROVE  /\ \A p \in Players : profiles[p] # Absent => profiles'[p] # Absent
             /\ boardState' = boardState
  BY <1>1 DEF CreatePlayerProfile, CreatePlayerCode
<1>2. ASSUME NEW key \in PlayerKeys, ExpirePlayerKey(key)
      PROVE  profiles' = profiles /\ boardState' = boardState
  BY <1>2 DEF ExpirePlayerKey
<1>3. ASSUME NEW b \in Boards, NEW state \in BoardStates, NEW at \in Seconds,
             CreateBoard(b, state, at)
      PROVE  /\ profiles' = profiles
             /\ \A c \in Boards : boardState[c] # Absent => boardState'[c] # Absent
  BY <1>3 DEF CreateBoard, CreateBoardCode
<1>4. ASSUME NEW b \in Boards, NEW state \in BoardStates, SetBoardState(b, state)
      PROVE  /\ profiles' = profiles
             /\ \A c \in Boards : boardState[c] # Absent => boardState'[c] # Absent
  BY <1>4, RegistryAssumption DEF SetBoardState, SetBoardStateCode
<1> QED
  BY <1>1, <1>2, <1>3, <1>4 DEF RegistryNext, PlayerWrites

-----------------------------------------------------------------------------
RegistryInv == RegistryTypeOK /\ KeysNameProfiles /\ IndexNamesBoards

\* create_player.lua keeps KeysNameProfiles.  The record it writes names a
\* profile that did not exist before, so no other record can name it: those
\* name profiles that do.
LEMMA CreatePlayerKeepsKeys ==
    ASSUME RegistryTypeOK, KeysNameProfiles,
           NEW name \in Names, NEW id \in Players, NEW key \in PlayerKeys \cup {NoKey},
           CreatePlayerProfile(name, id, key)
    PROVE  KeysNameProfiles'
<1>1. CASE CreatePlayerCode(name, id, key) # "created"
  BY <1>1 DEF CreatePlayerProfile, KeysNameProfiles
<1>2. CASE CreatePlayerCode(name, id, key) = "created"
  <2>1. /\ profiles[id] = Absent
        /\ profiles' = [profiles EXCEPT ![id] = name]
        /\ key # NoKey => playerKeys' = [playerKeys EXCEPT ![key] = [id |-> id, name |-> name]]
        /\ key = NoKey => playerKeys' = playerKeys
    BY <1>2 DEF CreatePlayerCode, CreatePlayerProfile
  <2>2. ASSUME NEW k \in PlayerKeys, playerKeys[k] # Absent
        PROVE  /\ playerKeys[k].id \in Players /\ playerKeys[k].name \in Names
               /\ profiles[playerKeys[k].id] = playerKeys[k].name
               /\ playerKeys[k].id # id
    BY <2>1, <2>2, RegistryAssumption DEF RegistryTypeOK, KeysNameProfiles
  <2>3. ASSUME NEW k \in PlayerKeys, playerKeys'[k] # Absent
        PROVE  \/ k = key /\ playerKeys'[k] = [id |-> id, name |-> name]
               \/ k # key /\ playerKeys'[k] = playerKeys[k] /\ playerKeys[k] # Absent
               \/ key = NoKey /\ playerKeys'[k] = playerKeys[k] /\ playerKeys[k] # Absent
    BY <2>1, <2>3 DEF RegistryTypeOK
  <2>4. ASSUME NEW k \in PlayerKeys, playerKeys'[k] # Absent
        PROVE  profiles'[playerKeys'[k].id] = playerKeys'[k].name
    BY <2>1, <2>2, <2>3, <2>4 DEF RegistryTypeOK
  <2>5. ASSUME NEW k \in PlayerKeys, playerKeys'[k] # Absent,
               NEW j \in PlayerKeys, playerKeys'[j] # Absent,
               playerKeys'[j].id = playerKeys'[k].id
        PROVE  j = k
    BY <2>2, <2>3, <2>5, RegistryAssumption DEF KeysNameProfiles
  <2> QED
    BY <2>4, <2>5 DEF KeysNameProfiles
<1> QED
  BY <1>1, <1>2

\* A record that has expired answers nothing.
LEMMA ExpiryKeepsKeys ==
    ASSUME RegistryTypeOK, KeysNameProfiles, NEW key \in PlayerKeys, ExpirePlayerKey(key)
    PROVE  KeysNameProfiles'
<1>1. profiles' = profiles /\ \A k \in PlayerKeys :
        playerKeys'[k] # Absent => playerKeys'[k] = playerKeys[k]
  BY DEF ExpirePlayerKey, RegistryTypeOK
<1> QED
  BY <1>1 DEF KeysNameProfiles

LEMMA RegistryInvInit ==
    RegistryInit => RegistryInv
BY DEF RegistryInit, RegistryInv, RegistryTypeOK, KeysNameProfiles, IndexNamesBoards

\* Every script keeps the invariant.
LEMMA RegistryInvStep ==
    ASSUME RegistryInv, RegistryNext PROVE RegistryInv'
<1> USE DEF RegistryInv
<1>1. RegistryTypeOK'
  BY RegistryTypeStep
<1>2. ASSUME NEW name \in Names, NEW id \in Players, NEW key \in PlayerKeys \cup {NoKey},
             CreatePlayerProfile(name, id, key)
      PROVE  KeysNameProfiles' /\ IndexNamesBoards'
  <2>1. KeysNameProfiles'
    BY <1>2, CreatePlayerKeepsKeys
  <2>2. IndexNamesBoards'
    BY <1>2 DEF CreatePlayerProfile, IndexNamesBoards
  <2> QED
    BY <2>1, <2>2
<1>3. ASSUME NEW key \in PlayerKeys, ExpirePlayerKey(key)
      PROVE  KeysNameProfiles' /\ IndexNamesBoards'
  BY <1>3, ExpiryKeepsKeys DEF ExpirePlayerKey, IndexNamesBoards
<1>4. ASSUME NEW b \in Boards, NEW state \in BoardStates, NEW at \in Seconds,
             CreateBoard(b, state, at)
      PROVE  KeysNameProfiles' /\ IndexNamesBoards'
  <2>1. KeysNameProfiles'
    BY <1>4 DEF CreateBoard, KeysNameProfiles
  <2>2. state # Absent /\ at # Absent
    BY RegistryAssumption, LedgerAssumption
  <2>3. IndexNamesBoards'
    BY <1>4, <2>2 DEF CreateBoard, CreateBoardCode, IndexNamesBoards, RegistryTypeOK
  <2> QED
    BY <2>1, <2>3
<1>5. ASSUME NEW b \in Boards, NEW state \in BoardStates, SetBoardState(b, state)
      PROVE  KeysNameProfiles' /\ IndexNamesBoards'
  <2>1. KeysNameProfiles'
    BY <1>5 DEF SetBoardState, KeysNameProfiles
  <2>2. state # Absent
    BY RegistryAssumption
  <2>3. IndexNamesBoards'
    BY <1>5, <2>2 DEF SetBoardState, SetBoardStateCode, IndexNamesBoards, RegistryTypeOK
  <2> QED
    BY <2>1, <2>3
<1> QED
  BY <1>1, <1>2, <1>3, <1>4, <1>5 DEF RegistryNext, PlayerWrites

\* The registry is consistent in every reachable state: retried creations
\* answer with profiles that exist and bear the retried name, and index and
\* hashes name the same boards.
THEOREM RegistryIsConsistent ==
    RegistrySpec => [](RegistryTypeOK /\ KeysNameProfiles /\ IndexNamesBoards)
<1>1. RegistryInit => RegistryInv
  BY RegistryInvInit
<1>2. RegistryInv /\ [RegistryNext]_registryVars => RegistryInv'
  <2>1. CASE UNCHANGED registryVars
    BY <2>1 DEF registryVars, RegistryInv, RegistryTypeOK, KeysNameProfiles, IndexNamesBoards
  <2> QED
    BY <2>1, RegistryInvStep
<1> QED
  BY <1>1, <1>2, PTL DEF RegistrySpec, RegistryInv

-----------------------------------------------------------------------------
\* What the proofs use of the constants' assumptions.
LEMMA ConstantFacts ==
    /\ MaxScore \in Nat /\ Absent \notin Int
    /\ Amounts \subseteq Int /\ MaxEvents \in Nat
    /\ NoKey \notin Keys /\ NoKey \notin PlayerKeys
    /\ Absent \notin IdempotencyRecord
    /\ Seconds \subseteq Int
BY LedgerAssumption, RegistryAssumption, ScoreWritesAssumption

LEMMA RequestFacts ==
    ASSUME NEW r \in Request
    PROVE  /\ r.type \in EventTypes /\ r.player \in Players /\ r.board \in Boards
           /\ r.amount \in Int
           /\ r.key # NoKey => Field(r) \in Fields
           /\ EventOf(r) \in Event
           /\ \A z : Fold(z, r) = Fold(z, EventOf(r))
<1>1. /\ r.type \in EventTypes /\ r.player \in Players /\ r.board \in Boards
      /\ r.amount \in Int /\ r.key \in Keys \cup {NoKey}
  BY ConstantFacts DEF Request
<1>2. r.key # NoKey => Field(r) \in Fields
  BY <1>1 DEF Field, Fields
<1>3. EventOf(r) \in Event
  BY <1>1 DEF EventOf, Event
<1>4. ASSUME NEW z PROVE Fold(z, r) = Fold(z, EventOf(r))
  BY DEF Fold, NewScore, EventOf
<1> QED
  BY <1>1, <1>2, <1>3, <1>4

-----------------------------------------------------------------------------
\* An application keeps the types of the score data.
LEMMA ApplyType ==
    ASSUME TypeOK, NEW r \in Request, Code(r) = "applied",
           projection' = [projection EXCEPT ![r.board] = Fold(@, r)],
           ledger' = Append(ledger, EventOf(r)),
           idempotency' = Remember(r)
    PROVE  /\ projection' \in [Boards -> Zset]
           /\ ledger' \in Seq(Event)
           /\ idempotency' \in [Fields -> IdempotencyRecord \cup {Absent}]
<1>1. projection' \in [Boards -> Zset]
  <2>1. projection[r.board] \in Zset
    BY RequestFacts DEF TypeOK
  <2>2. Fold(projection[r.board], r) \in Zset
    BY <2>1, RequestFacts, FoldType
  <2> QED
    BY <2>2 DEF TypeOK
<1>2. ledger' \in Seq(Event)
  BY RequestFacts DEF TypeOK
<1>3. idempotency' \in [Fields -> IdempotencyRecord \cup {Absent}]
  <2>1. Len(ledger) + 1 \in Nat
    BY DEF TypeOK
  <2>2. [entry |-> Len(ledger) + 1, type |-> r.type, amount |-> r.amount] \in IdempotencyRecord
    BY <2>1, RequestFacts DEF IdempotencyRecord
  <2> QED
    BY <2>2 DEF TypeOK, Remember
<1> QED
  BY <1>1, <1>2, <1>3

LEMMA TypeInit == ASSUME Init PROVE TypeOK
BY DEF Init, RegistryInit, TypeOK, RegistryTypeOK, EmptyZset, Zset

LEMMA TypeStep == ASSUME TypeOK, [Next]_vars PROVE TypeOK'
<1>1. CASE RegistryNext /\ UNCHANGED scoreVars
  BY <1>1, RegistryTypeStep DEF TypeOK, scoreVars
<1>2. ASSUME NEW r \in Request, ApplyScoreEvent(r) PROVE TypeOK'
  <2>1. RegistryTypeOK'
    BY <1>2 DEF ApplyScoreEvent, registryVars, TypeOK, RegistryTypeOK
  <2>2. CASE Code(r) # "applied"
    BY <1>2, <2>1, <2>2 DEF ApplyScoreEvent, scoreVars, TypeOK
  <2>3. CASE Code(r) = "applied"
    BY <1>2, <2>1, <2>3, ApplyType DEF ApplyScoreEvent, TypeOK
  <2> QED
    BY <2>2, <2>3
<1>3. ASSUME NEW f \in Fields, ExpireKey(f) PROVE TypeOK'
  BY <1>3 DEF ExpireKey, registryVars, TypeOK, RegistryTypeOK
<1>4. CASE UNCHANGED vars
  BY <1>4 DEF vars, registryVars, scoreVars, TypeOK, RegistryTypeOK
<1> QED
  BY <1>1, <1>2, <1>3, <1>4 DEF Next

\* Every variable stays in the shape the Redis keys have.
THEOREM TypeCorrect == Spec => []TypeOK
<1>1. Init => TypeOK
  BY TypeInit
<1>2. TypeOK /\ [Next]_vars => TypeOK'
  BY TypeStep
<1> QED
  BY <1>1, <1>2, PTL DEF Spec

-----------------------------------------------------------------------------
\* ProjectionIsReplay alone is inductive only together with the types: the
\* range check reads the projection, so PrefixesInRange needs it as well.
ScoreInv ==
    /\ TypeOK
    /\ ProjectionIsReplay
    /\ PrefixesInRange
    /\ RecordsNameTheirEntry
    /\ EventsHaveOwners

LEMMA ScoreInvInit == ASSUME Init PROVE ScoreInv
<1>1. TypeOK
  BY TypeInit
<1>2. ledger = << >> /\ Len(ledger) = 0 /\ \A b \in Boards : projection[b] = EmptyZset
  BY DEF Init
<1>3. ProjectionIsReplay
  BY <1>2, ReplayEmpty DEF ProjectionIsReplay
<1>4. PrefixesInRange
  <2> SUFFICES ASSUME NEW b \in Boards, NEW n \in 0..Len(ledger), NEW p \in Players
               PROVE  ReplaySteps(ledger, b)[n][p] = Absent
    BY DEF PrefixesInRange
  <2>1. n = Len(ledger)
    BY <1>2
  <2>2. Replay(ledger, b) = EmptyZset
    BY <1>2, ReplayEmpty
  <2> QED
    BY <2>1, <2>2 DEF Replay, EmptyZset
<1>5. RecordsNameTheirEntry
  BY DEF Init, RecordsNameTheirEntry
<1>6. EventsHaveOwners
  BY <1>2 DEF EventsHaveOwners
<1> QED
  BY <1>1, <1>3, <1>4, <1>5, <1>6 DEF ScoreInv

\* What an applied request changes, in the terms the invariant speaks of.
LEMMA AppliedFacts ==
    ASSUME TypeOK, NEW r \in Request, ApplyScoreEvent(r), Code(r) = "applied"
    PROVE  /\ ~Seen(r)
           /\ profiles[r.player] # Absent /\ boardState[r.board] = "active"
           /\ InRange(Resulting(r))
           /\ projection' = [projection EXCEPT ![r.board] = Fold(@, r)]
           /\ ledger' = Append(ledger, EventOf(r))
           /\ idempotency' = Remember(r)
           /\ UNCHANGED registryVars
<1>1. boardState[r.board] \in BoardStates \cup {Absent}
  BY RequestFacts DEF TypeOK, RegistryTypeOK
<1> QED
  BY <1>1 DEF ApplyScoreEvent, Code, BoardStates

LEMMA AppliedProjection ==
    ASSUME ScoreInv, NEW r \in Request, ApplyScoreEvent(r), Code(r) = "applied"
    PROVE  ProjectionIsReplay'
<1> USE DEF ScoreInv
<1>1. ledger \in Seq(Event) /\ EventOf(r) \in Event /\ projection \in [Boards -> Zset]
  BY RequestFacts DEF TypeOK
<1>2. ASSUME NEW b \in Boards PROVE projection'[b] = Replay(ledger', b)
  <2>1. projection[b] = Replay(ledger, b)
    BY DEF ProjectionIsReplay
  <2>2. Replay(ledger', b) = IF r.board = b THEN Fold(Replay(ledger, b), EventOf(r))
                             ELSE Replay(ledger, b)
    <3>1. ledger' = Append(ledger, EventOf(r)) /\ EventOf(r).board = r.board
      BY AppliedFacts DEF EventOf
    <3> QED
      BY <1>1, <3>1, ReplayAppend
  <2>3. projection'[b] = IF r.board = b THEN Fold(projection[b], EventOf(r)) ELSE projection[b]
    BY <1>1, AppliedFacts, RequestFacts
  <2> QED
    BY <2>1, <2>2, <2>3
<1> QED
  BY <1>2 DEF ProjectionIsReplay

\* The one new prefix ends in the score the script checked, because what
\* the script read was the replay.
LEMMA AppliedRange ==
    ASSUME ScoreInv, NEW r \in Request, ApplyScoreEvent(r), Code(r) = "applied"
    PROVE  PrefixesInRange'
<1> USE DEF ScoreInv
<1>1. /\ ledger \in Seq(Event) /\ EventOf(r) \in Event
      /\ Len(ledger') = Len(ledger) + 1 /\ Len(ledger) \in Nat
      /\ ledger' = Append(ledger, EventOf(r))
  BY RequestFacts, AppliedFacts DEF TypeOK
<1> SUFFICES ASSUME NEW b \in Boards, NEW n \in 0..Len(ledger'), NEW p \in Players
             PROVE  LET s == ReplaySteps(ledger', b)[n][p] IN s = Absent \/ InRange(s)
  BY DEF PrefixesInRange
<1>2. CASE n \in 0..Len(ledger)
  <2>1. ReplaySteps(ledger', b)[n] = ReplaySteps(ledger, b)[n]
    BY <1>1, <1>2, ReplayAppend
  <2> QED
    BY <1>2, <2>1 DEF PrefixesInRange
<1>3. CASE n = Len(ledger) + 1
  <2>1. ReplaySteps(ledger', b)[n] = Replay(ledger', b)
    BY <1>1, <1>3 DEF Replay
  <2>2. Replay(ledger, b)[p] = Absent \/ InRange(Replay(ledger, b)[p])
    BY <1>1 DEF PrefixesInRange, Replay
  <2>3. CASE r.board # b
    <3>1. Replay(ledger', b) = Replay(ledger, b)
      BY <1>1, <2>3, ReplayAppend DEF EventOf
    <3> QED
      BY <2>1, <2>2, <3>1
  <2>4. CASE r.board = b
    <3>1. Replay(ledger', b) = Fold(projection[b], r)
      BY <1>1, <2>4, ReplayAppend, RequestFacts DEF EventOf, ProjectionIsReplay
    <3>2. projection[b] \in Zset /\ projection[b] = Replay(ledger, b)
      BY DEF TypeOK, ProjectionIsReplay
    <3>3. CASE p = r.player
      <4>1. Fold(projection[b], r)[p] = NewScore(projection[b], r)
        BY <3>2, <3>3 DEF Fold, Zset
      <4>2. NewScore(projection[b], r) = Resulting(r)
        <5>1. ScoreOrZero(projection[b], r.player) \in Int /\ r.amount \in Int
          BY <3>2, <3>3, RequestFacts DEF Zset, ScoreOrZero
        <5> QED
          BY <5>1, <2>4 DEF NewScore, Resulting
      <4> QED
        BY <2>1, <3>1, <4>1, <4>2, AppliedFacts
    <3>4. CASE p # r.player
      <4>1. Fold(projection[b], r)[p] = Replay(ledger, b)[p]
        BY <3>2, <3>4 DEF Fold, Zset
      <4> QED
        BY <2>1, <2>2, <3>1, <4>1
    <3> QED
      BY <3>3, <3>4
  <2> QED
    BY <2>3, <2>4
<1> QED
  BY <1>1, <1>2, <1>3

LEMMA AppliedRecords ==
    ASSUME ScoreInv, NEW r \in Request, ApplyScoreEvent(r), Code(r) = "applied"
    PROVE  RecordsNameTheirEntry'
<1> USE DEF ScoreInv
<1>1. /\ ledger \in Seq(Event) /\ EventOf(r) \in Event
      /\ Len(ledger) \in Nat
      /\ Len(ledger') = Len(ledger) + 1
      /\ ledger'[Len(ledger) + 1] = EventOf(r)
      /\ \A i \in 1..Len(ledger) : ledger'[i] = ledger[i]
  BY RequestFacts, AppliedFacts DEF TypeOK
<1>2. idempotency \in [Fields -> IdempotencyRecord \cup {Absent}]
  BY DEF TypeOK
<1>3. ASSUME NEW f \in Fields, idempotency'[f] # Absent
      PROVE  \/ /\ idempotency'[f] = idempotency[f]
                /\ idempotency[f].entry \in 1..Len(ledger)
             \/ /\ r.key # NoKey /\ f = Field(r)
                /\ idempotency'[f] = [entry |-> Len(ledger) + 1,
                                      type |-> r.type, amount |-> r.amount]
  <2>1. idempotency' = Remember(r)
    BY AppliedFacts
  <2>2. CASE r.key # NoKey /\ f = Field(r)
    BY <1>2, <2>1, <2>2 DEF Remember
  <2>3. CASE ~(r.key # NoKey /\ f = Field(r))
    <3>1. idempotency'[f] = idempotency[f]
      BY <1>2, <2>1, <2>3 DEF Remember
    <3> QED
      BY <1>3, <3>1 DEF RecordsNameTheirEntry
  <2> QED
    BY <2>2, <2>3
<1>4. ASSUME NEW f \in Fields, idempotency'[f] # Absent
      PROVE  /\ idempotency'[f].entry \in 1..Len(ledger')
             /\ ledger'[idempotency'[f].entry] =
                   [type |-> idempotency'[f].type, player |-> f[2],
                    board |-> f[1], amount |-> idempotency'[f].amount]
  <2>1. CASE idempotency'[f] = idempotency[f] /\ idempotency[f].entry \in 1..Len(ledger)
    BY <1>1, <1>4, <2>1 DEF RecordsNameTheirEntry
  <2>2. CASE /\ r.key # NoKey /\ f = Field(r)
             /\ idempotency'[f] = [entry |-> Len(ledger) + 1,
                                   type |-> r.type, amount |-> r.amount]
    BY <1>1, <2>2 DEF EventOf, Field
  <2> QED
    BY <1>3, <1>4, <2>1, <2>2
<1>5. ASSUME NEW f \in Fields, NEW g \in Fields,
             idempotency'[f] # Absent, idempotency'[g] # Absent,
             idempotency'[g].entry = idempotency'[f].entry
      PROVE  g = f
  <2>1. CASE idempotency'[f] = idempotency[f] /\ idempotency'[g] = idempotency[g]
    BY <1>5, <2>1 DEF RecordsNameTheirEntry
  <2>2. CASE f = Field(r) /\ g = Field(r)
    BY <2>2
  <2>3. CASE /\ idempotency'[f].entry = Len(ledger) + 1
             /\ idempotency[g].entry \in 1..Len(ledger) /\ idempotency'[g] = idempotency[g]
    BY <1>1, <1>5, <2>3
  <2>4. CASE /\ idempotency'[g].entry = Len(ledger) + 1
             /\ idempotency[f].entry \in 1..Len(ledger) /\ idempotency'[f] = idempotency[f]
    <3>1. idempotency'[f].entry \in 1..Len(ledger)
      BY <2>4
    <3>2. idempotency'[f].entry = Len(ledger) + 1
      BY <1>5, <2>4
    <3> QED
      BY <1>1, <3>1, <3>2
  <2> QED
    BY <1>3, <1>5, <2>1, <2>2, <2>3, <2>4
<1> QED
  BY <1>4, <1>5 DEF RecordsNameTheirEntry

LEMMA AppliedOwners ==
    ASSUME ScoreInv, NEW r \in Request, ApplyScoreEvent(r), Code(r) = "applied"
    PROVE  EventsHaveOwners'
<1> USE DEF ScoreInv
<1>1. /\ Len(ledger) \in Nat
      /\ Len(ledger') = Len(ledger) + 1
      /\ ledger'[Len(ledger) + 1] = EventOf(r)
      /\ \A i \in 1..Len(ledger) : ledger'[i] = ledger[i]
      /\ profiles' = profiles /\ boardState' = boardState
  BY RequestFacts, AppliedFacts DEF TypeOK, registryVars
<1>2. EventOf(r).player = r.player /\ EventOf(r).board = r.board
  BY DEF EventOf
<1>3. profiles[r.player] # Absent /\ boardState[r.board] # Absent
  <2>1. boardState[r.board] = "active" /\ profiles[r.player] # Absent
    BY AppliedFacts
  <2>2. Absent # "active"
    BY RegistryAssumption DEF BoardStates
  <2> QED
    BY <2>1, <2>2
<1> SUFFICES ASSUME NEW i \in 1..Len(ledger')
             PROVE  /\ profiles'[ledger'[i].player] # Absent
                    /\ boardState'[ledger'[i].board] # Absent
  BY DEF EventsHaveOwners
<1>4. CASE i \in 1..Len(ledger)
  BY <1>1, <1>4 DEF EventsHaveOwners
<1>5. CASE i = Len(ledger) + 1
  BY <1>1, <1>2, <1>3, <1>5
<1> QED
  BY <1>1, <1>4, <1>5

LEMMA ScoreInvStep == ASSUME ScoreInv, [Next]_vars PROVE ScoreInv'
<1> USE DEF ScoreInv
<1>1. TypeOK'
  BY TypeStep
<1>2. CASE RegistryNext /\ UNCHANGED scoreVars
  <2>1. ProjectionIsReplay' /\ PrefixesInRange' /\ RecordsNameTheirEntry'
    BY <1>2 DEF scoreVars, ProjectionIsReplay, PrefixesInRange, RecordsNameTheirEntry
  <2>2. EventsHaveOwners'
    <3>1. ledger' = ledger /\ ledger \in Seq(Event)
      BY <1>2 DEF scoreVars, TypeOK
    <3>2. \A i \in 1..Len(ledger) : ledger[i].player \in Players /\ ledger[i].board \in Boards
      <4> SUFFICES ASSUME NEW i \in 1..Len(ledger)
                   PROVE  ledger[i].player \in Players /\ ledger[i].board \in Boards
        OBVIOUS
      <4>1. ledger[i] \in Event
        BY <3>1
      <4> QED
        BY <4>1 DEF Event
    <3> QED
      BY <1>2, <3>1, <3>2, RegistryGrows DEF TypeOK, EventsHaveOwners
  <2> QED
    BY <1>1, <2>1, <2>2
<1>3. ASSUME NEW r \in Request, ApplyScoreEvent(r) PROVE ScoreInv'
  <2>1. CASE Code(r) = "applied"
    BY <1>1, <1>3, <2>1, AppliedProjection, AppliedRange, AppliedRecords, AppliedOwners
  <2>2. CASE Code(r) # "applied"
    BY <1>1, <1>3, <2>2 DEF ApplyScoreEvent, scoreVars, registryVars,
       ProjectionIsReplay, PrefixesInRange, RecordsNameTheirEntry, EventsHaveOwners
  <2> QED
    BY <2>1, <2>2
<1>4. ASSUME NEW f \in Fields, ExpireKey(f) PROVE ScoreInv'
  <2>1. /\ projection' = projection /\ ledger' = ledger
        /\ profiles' = profiles /\ boardState' = boardState
    BY <1>4 DEF ExpireKey, registryVars
  <2>2. ProjectionIsReplay' /\ PrefixesInRange' /\ EventsHaveOwners'
    BY <2>1 DEF ProjectionIsReplay, PrefixesInRange, EventsHaveOwners
  <2>3. RecordsNameTheirEntry'
    <3>1. \A g \in Fields : idempotency'[g] # Absent => idempotency'[g] = idempotency[g]
      BY <1>4 DEF ExpireKey, TypeOK
    <3> QED
      BY <2>1, <3>1 DEF RecordsNameTheirEntry
  <2> QED
    BY <1>1, <2>2, <2>3
<1>5. CASE UNCHANGED vars
  BY <1>1, <1>5 DEF vars, scoreVars, registryVars,
     ProjectionIsReplay, PrefixesInRange, RecordsNameTheirEntry, EventsHaveOwners
<1> QED
  BY <1>2, <1>3, <1>4, <1>5 DEF Next

LEMMA ScoreInvariant == Spec => []ScoreInv
<1>1. Init => ScoreInv
  BY ScoreInvInit
<1>2. ScoreInv /\ [Next]_vars => ScoreInv'
  BY ScoreInvStep
<1> QED
  BY <1>1, <1>2, PTL DEF Spec

\* Rule 1: as long as only the write script touches projections, deleting a
\* board's projection and replaying the ledger restores it exactly.
THEOREM ProjectionEqualsReplay == Spec => []ProjectionIsReplay
<1>1. ScoreInv => ProjectionIsReplay
  BY DEF ScoreInv
<1> QED
  BY <1>1, ScoreInvariant, PTL

\* No prefix of the ledger replays out of +-score.Max, so the unclamped folds
\* of rebuild and of the as-of read stay in range.
THEOREM PrefixReplaysInRange == Spec => []PrefixesInRange
<1>1. ScoreInv => PrefixesInRange
  BY DEF ScoreInv
<1> QED
  BY <1>1, ScoreInvariant, PTL

\* A live idempotency record names the ledger entry of its own write, and no
\* two records share one.
THEOREM RecordsAreFaithful == Spec => []RecordsNameTheirEntry
<1>1. ScoreInv => RecordsNameTheirEntry
  BY DEF ScoreInv
<1> QED
  BY <1>1, ScoreInvariant, PTL

\* Every event belongs to a registered player and a registered board.
THEOREM NoOrphanEvents == Spec => []EventsHaveOwners
<1>1. ScoreInv => EventsHaveOwners
  BY DEF ScoreInv
<1> QED
  BY <1>1, ScoreInvariant, PTL

-----------------------------------------------------------------------------
\* Partial sums, as replays above, are a recursive function that exists.
IsSumTo(f, a, m) == f = [n \in 0..m |-> IF n = 0 THEN 0 ELSE f[n-1] + a[n]]

LEMMA PartialSumsExist ==
    ASSUME NEW a
    PROVE  \A m \in Nat : \E f : IsSumTo(f, a, m)
<1> DEFINE T == {m \in Nat : \E f : IsSumTo(f, a, m)}
<1>1. 0 \in T
  <2> DEFINE f == [n \in 0..0 |-> 0]
  <2>1. IsSumTo(f, a, 0)
    BY DEF IsSumTo
  <2> QED
    BY <2>1
<1>2. ASSUME NEW m \in Nat, m \in T PROVE m + 1 \in T
  <2>1. PICK f : IsSumTo(f, a, m)
    BY <1>2
  <2> DEFINE g == [n \in 0..(m+1) |-> IF n <= m THEN f[n] ELSE f[m] + a[m+1]]
  <2>2. \A n \in 0..m : f[n] = IF n = 0 THEN 0 ELSE f[n-1] + a[n]
    BY <2>1 DEF IsSumTo
  <2>3. ASSUME NEW n \in 0..(m+1)
        PROVE  g[n] = IF n = 0 THEN 0 ELSE g[n-1] + a[n]
    <3>1. CASE n = 0
      BY <3>1, <2>2
    <3>2. CASE n \in 1..m
      <4>1. g[n] = f[n] /\ g[n-1] = f[n-1]
        BY <3>2
      <4> HIDE DEF g
      <4> QED
        BY <3>2, <4>1, <2>2
    <3>3. CASE n = m + 1
      <4>1. g[n] = f[m] + a[n] /\ g[n-1] = f[m] /\ n # 0
        BY <3>3
      <4> HIDE DEF g
      <4> QED
        BY <4>1, <3>3
    <3> QED
      BY <3>1, <3>2, <3>3
  <2>4. g = [n \in 0..(m+1) |-> IF n = 0 THEN 0 ELSE g[n-1] + a[n]]
    BY <2>3
  <2>5. IsSumTo(g, a, m+1)
    BY <2>4 DEF IsSumTo
  <2> QED
    BY <2>5
<1> HIDE DEF T
<1>3. Nat \subseteq T
  BY <1>1, <1>2, NatSetInduction
<1> QED
  BY <1>3 DEF T

LEMMA PartialSumsEquation ==
    ASSUME NEW a, Len(a) \in Nat
    PROVE  \A n \in 0..Len(a) :
               PartialSums(a)[n] = IF n = 0 THEN 0 ELSE PartialSums(a)[n-1] + a[n]
<1>1. PICK f : IsSumTo(f, a, Len(a))
  BY PartialSumsExist
<1>2. IsSumTo(PartialSums(a), a, Len(a))
  BY <1>1 DEF PartialSums, IsSumTo
<1> QED
  BY <1>2 DEF IsSumTo

\* A nonempty set of naturals up to n has a greatest member.
LEMMA GreatestExists ==
    ASSUME NEW n \in Nat, NEW S, S \subseteq 0..n, S # {}
    PROVE  \E m \in S : \A i \in S : i <= m
<1> DEFINE T == {k \in Nat : \A U \in SUBSET (0..k) :
                                 U # {} => \E m \in U : \A i \in U : i <= m}
<1>1. 0 \in T
  <2> SUFFICES ASSUME NEW U \in SUBSET (0..0), U # {} PROVE \E m \in U : \A i \in U : i <= m
    OBVIOUS
  <2>1. \A i \in U : i = 0
    OBVIOUS
  <2>2. PICK x \in U : x = 0
    BY <2>1
  <2> QED
    BY <2>1, <2>2
<1>2. ASSUME NEW k \in Nat, k \in T PROVE k + 1 \in T
  <2>1. ASSUME NEW U \in SUBSET (0..(k+1)), U # {}
        PROVE  \E m \in U : \A i \in U : i <= m
    <3>1. CASE k + 1 \in U
      <4>1. \A i \in U : i <= k + 1
        OBVIOUS
      <4> QED
        BY <3>1, <4>1
    <3>2. CASE k + 1 \notin U
      <4>1. U \in SUBSET (0..k)
        BY <3>2
      <4> QED
        BY <1>2, <2>1, <4>1
    <3> QED
      BY <3>1, <3>2
  <2> QED
    BY <2>1
<1> HIDE DEF T
<1>3. Nat \subseteq T
  BY <1>1, <1>2, NatSetInduction
<1> QED
  BY <1>3 DEF T

\* Rule 4 of the projection itself: a player's standing is the last value set
\* plus the increments after it.  The replay is followed entry by entry: up to
\* the last set nothing is counted, and from it on the score is the sum so far.
THEOREM StandingIsLastSetPlusRest == Spec => []SnapshotBarrier
<1>1. ScoreInv => SnapshotBarrier
  <2> SUFFICES ASSUME ScoreInv, NEW b \in Boards, NEW p \in Players
               PROVE  projection[b][p] =
                          IF EventsOf(b, p) = {} THEN Absent
                          ELSE PartialSums(Counted(b, p))[Len(ledger)]
    BY DEF SnapshotBarrier
  <2>0. PICK l : l = ledger /\ l \in Seq(Event)
    BY DEF ScoreInv, TypeOK
  <2>1. PICK N \in Nat : N = Len(l) /\ DOMAIN l = 1..N
    BY <2>0
  <2>2. PICK E, L : E = EventsOf(b, p) /\ L = LastSet(b, p)
    OBVIOUS
  <2>3. E = {i \in 1..N : l[i].board = b /\ l[i].player = p}
    BY <2>0, <2>1, <2>2 DEF EventsOf
  <2>4. /\ L \in 0..N /\ \A i \in E : l[i].type = "set" => i <= L
        /\ L # 0 => L \in E /\ l[L].type = "set"
    <3>1. PICK S : S = SetsOf(b, p) /\ S = {i \in E : l[i].type = "set"}
      BY <2>0, <2>1, <2>2 DEF SetsOf
    <3>2. S \cup {0} \subseteq 0..N
      BY <2>3, <3>1
    <3>3. PICK m \in S \cup {0} : \A i \in S \cup {0} : i <= m
      BY <3>2, GreatestExists
    <3>4. L \in S \cup {0} /\ \A i \in S : i <= L
      BY <2>2, <3>1, <3>3 DEF LastSet
    <3> QED
      BY <3>1, <3>2, <3>4
  <2>5. PICK a, s : a = Counted(b, p) /\ s = PartialSums(a)
    OBVIOUS
  <2>6. /\ a = [i \in 1..N |-> IF i \in E /\ i >= L THEN l[i].amount ELSE 0]
        /\ Len(a) = N
    BY <2>0, <2>1, <2>2, <2>5 DEF Counted
  <2>7. \A n \in 0..N : s[n] = IF n = 0 THEN 0 ELSE s[n-1] + a[n]
    BY <2>5, <2>6, PartialSumsEquation
  <2>8. PICK f : f = ReplaySteps(l, b)
    OBVIOUS
  <2>9. /\ \A n \in 0..N : f[n] \in Zset
        /\ \A n \in 0..N : f[n] = IF n = 0 THEN EmptyZset ELSE ReplayStep(f[n-1], l, b, n)
    <3>1. IsReplayTo(f, l, b, N)
      BY <2>0, <2>1, <2>8, ReplayEquation
    <3> QED
      BY <2>0, <2>1, <2>8, <3>1, ReplayType DEF IsReplayTo
  <2>10. \A i \in 1..N : l[i].amount \in Int /\ l[i].type \in EventTypes
    <3>1. \A i \in 1..N : l[i] \in Event
      BY <2>0, <2>1
    <3> QED
      BY <3>1 DEF Event
  <2> DEFINE None(n) == \A i \in 1..n : i \notin E
             Follows(n) ==
                 /\ s[n] \in Int
                 /\ n < L => s[n] = 0
                 /\ n >= L => ScoreOrZero(f[n], p) = s[n]
                 /\ f[n][p] = Absent <=> None(n)
             T == {n \in Nat : n <= N => Follows(n)}
  <2>11. 0 \in T
    <3>1. f[0] = EmptyZset /\ s[0] = 0
      BY <2>7, <2>9
    <3>2. f[0][p] = Absent
      BY <3>1 DEF EmptyZset
    <3> QED
      BY <3>1, <3>2 DEF ScoreOrZero
  <2>12. ASSUME NEW k \in Nat, k \in T PROVE k + 1 \in T
    <3> SUFFICES ASSUME k + 1 <= N PROVE Follows(k + 1)
      OBVIOUS
    <3>1. PICK n \in 1..N : n = k + 1 /\ n - 1 = k
      OBVIOUS
    <3>2. Follows(k)
      BY <2>12
    <3>3. PICK u, v : u = f[k] /\ v = f[n] /\ u \in Zset /\ v = ReplayStep(u, l, b, n)
      BY <2>9, <3>1
    <3>4. v[p] = IF n \in E
                 THEN IF l[n].type = "set" THEN l[n].amount ELSE ScoreOrZero(u, p) + l[n].amount
                 ELSE u[p]
      BY <2>0, <2>1, <2>3, <3>1, <3>3, StepScore
    <3>5. s[n] = s[k] + a[n]
      BY <2>7, <3>1
    <3>6. PICK x \in Int : x = l[n].amount
      BY <2>10
    <3>7. a[n] = IF n \in E /\ n >= L THEN x ELSE 0
      BY <2>6, <3>6
    <3>8. u[p] \in Int \cup {Absent} /\ ScoreOrZero(u, p) \in Int /\ Absent \notin Int
      BY <3>3, ConstantFacts DEF Zset, ScoreOrZero
    <3>9. CASE n \notin E
      <4>1. v[p] = u[p] /\ s[n] = s[k]
        BY <3>2, <3>4, <3>5, <3>7, <3>9
      <4>2. None(n) <=> None(k)
        BY <3>1, <3>9
      <4>3. n >= L => k >= L \/ n = L
        BY <2>4, <3>1
      <4>4. n # L
        BY <2>4, <3>9
      <4>5. ScoreOrZero(v, p) = ScoreOrZero(u, p)
        BY <4>1 DEF ScoreOrZero
      <4>6. Follows(n)
        BY <2>4, <3>1, <3>2, <3>3, <4>1, <4>2, <4>3, <4>4, <4>5
      <4> QED
        BY <3>1, <4>6
    <3>10. CASE n \in E
      <4>1. ~None(n) /\ v[p] \in Int /\ v[p] # Absent /\ ScoreOrZero(v, p) = v[p]
        BY <3>4, <3>6, <3>8, <3>10 DEF ScoreOrZero
      <4>2. CASE n < L
        <5>1. a[n] = 0 /\ s[k] = 0 /\ s[n] = 0
          BY <2>4, <3>1, <3>2, <3>5, <3>7, <4>2
        <5>2. ~(n >= L)
          BY <2>4, <4>2
        <5>3. Follows(n)
          BY <3>3, <4>1, <5>1, <5>2
        <5> QED
          BY <3>1, <5>3
      <4>3. CASE n = L
        <5>1. a[n] = x /\ s[k] = 0 /\ s[n] = x
          BY <2>4, <3>1, <3>2, <3>5, <3>7, <3>10, <4>3
        <5>2. v[p] = x
          BY <2>4, <3>4, <3>6, <3>10, <4>3
        <5>3. ~(n < L)
          BY <2>4, <4>3
        <5>4. Follows(n)
          BY <3>3, <4>1, <5>1, <5>2, <5>3
        <5> QED
          BY <3>1, <5>4
      <4>4. CASE n > L
        <5>1. l[n].type # "set" /\ k >= L /\ ~(n < L)
          BY <2>4, <3>1, <3>10, <4>4
        <5>2. a[n] = x /\ s[k] = ScoreOrZero(u, p)
          BY <2>4, <3>2, <3>3, <3>7, <3>10, <4>4, <5>1
        <5>3. v[p] = ScoreOrZero(u, p) + x
          BY <3>4, <3>6, <3>10, <5>1
        <5>4. s[n] = v[p]
          BY <3>5, <5>2, <5>3
        <5>5. Follows(n)
          BY <3>3, <4>1, <5>1, <5>4
        <5> QED
          BY <3>1, <5>5
      <4> QED
        BY <2>4, <4>2, <4>3, <4>4
    <3> QED
      BY <3>9, <3>10
  <2> HIDE DEF T
  <2>13. Follows(N)
    <3>1. Nat \subseteq T
      BY <2>11, <2>12, NatSetInduction
    <3> QED
      BY <2>0, <2>1, <3>1 DEF T
  <2>14. projection[b][p] = f[N][p]
    BY <2>0, <2>1, <2>8 DEF ScoreInv, ProjectionIsReplay, Replay
  <2>15. E = {} <=> None(N)
    BY <2>3
  <2>16. f[N][p] = IF E = {} THEN Absent ELSE s[N]
    <3>1. N >= L
      BY <2>4
    <3> QED
      BY <2>13, <2>15, <3>1 DEF ScoreOrZero
  <2> QED
    BY <2>0, <2>1, <2>2, <2>5, <2>14, <2>16
<1> QED
  BY <1>1, ScoreInvariant, PTL
==============================================================================
