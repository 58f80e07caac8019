------------------------- MODULE BoardListingProofs -------------------------
(***************************************************************************)
(* Proofs about board creation among overlapping callers: the index orders *)
(* boards as far as their creations do not overlap within a second, and    *)
(* everything proved about the registry holds of it.                       *)
(***************************************************************************)
EXTENDS BoardListing, ScoreWritesProofs

\* The score a board was indexed with is a second its caller read from the
\* clock: not later than the one in which the script ran.
ClockWasRead ==
    /\ RegistryTypeOK
    /\ now \in Seconds
    /\ creations \in [Callers -> Creation \cup {Absent}]
    /\ createdAt \in [Boards -> Seconds \cup {Absent}]
    /\ \A c \in Callers : creations[c] # Absent =>
           creations[c] \in Creation /\ creations[c].at <= now
    /\ \A b \in Boards : boardIndex[b] # Absent =>
           createdAt[b] # Absent /\ boardIndex[b] <= createdAt[b]

\* Every step of overlapping callers is a step of the registry or leaves it alone.
LEMMA ListingStepIsRegistryStep ==
    ASSUME ClockWasRead, ListingNext
    PROVE  RegistryNext \/ UNCHANGED registryVars
<1>1. CASE PlayerWrites
  BY <1>1 DEF RegistryNext
<1>2. ASSUME NEW c \in Callers, RunCreate(c) PROVE RegistryNext
  <2>1. /\ creations[c] \in Creation
        /\ CreateBoard(creations[c].board, creations[c].state, creations[c].at)
    BY <1>2 DEF RunCreate, ClockWasRead
  <2>2. /\ creations[c].board \in Boards /\ creations[c].state \in BoardStates
        /\ creations[c].at \in Seconds
    BY <2>1 DEF Creation
  <2> QED
    BY <2>1, <2>2 DEF RegistryNext
<1>3. ASSUME NEW b \in Boards, NEW state \in BoardStates, SwitchBoard(b, state)
      PROVE  RegistryNext
  BY <1>3 DEF SwitchBoard, RegistryNext
<1>4. ASSUME \/ \E c \in Callers, b \in Boards, state \in BoardStates : BeginCreate(c, b, state)
             \/ Tick \/ ReadIndex \/ ReadBoard \/ EndListing
      PROVE  UNCHANGED registryVars
  BY <1>4 DEF BeginCreate, Tick, ReadIndex, ReadBoard, EndListing
<1> QED
  BY <1>1, <1>2, <1>3, <1>4 DEF ListingNext

\* Steps that touch neither the index nor the two clocks' readings.
LEMMA IndexUntouched ==
    ASSUME ClockWasRead, RegistryTypeOK', UNCHANGED <<boardIndex, now, creations, createdAt>>
    PROVE  ClockWasRead'
BY DEF ClockWasRead

LEMMA ClockWasReadStep ==
    ASSUME ClockWasRead, ListingNext PROVE ClockWasRead'
<1>1. RegistryTypeOK'
  <2>1. RegistryTypeOK
    BY DEF ClockWasRead
  <2>2. CASE UNCHANGED registryVars
    BY <2>1, <2>2 DEF registryVars, RegistryTypeOK
  <2> QED
    BY <2>1, <2>2, ListingStepIsRegistryStep, RegistryTypeStep
<1>2. CASE PlayerWrites /\ UNCHANGED <<now, creations, createdAt, listing>>
  <2>1. boardIndex' = boardIndex
    BY <1>2 DEF PlayerWrites, CreatePlayerProfile, ExpirePlayerKey
  <2> QED
    BY <1>1, <1>2, <2>1, IndexUntouched
<1>3. ASSUME NEW c \in Callers, NEW b \in Boards, NEW state \in BoardStates,
             BeginCreate(c, b, state)
      PROVE  ClockWasRead'
  <2> DEFINE call == [board |-> b, state |-> state, at |-> now]
  <2>1. /\ creations' = [creations EXCEPT ![c] = call]
        /\ UNCHANGED <<boardIndex, now, createdAt>>
    BY <1>3 DEF BeginCreate, registryVars
  <2>2. call \in Creation /\ call.at = now /\ now <= now
    BY BoardListingAssumption DEF ClockWasRead, Creation
  <2> HIDE DEF call
  <2>3. \A d \in Callers : creations'[d] # Absent =>
            creations'[d] \in Creation /\ creations'[d].at <= now
    BY <2>1, <2>2 DEF ClockWasRead
  <2>4. creations' \in [Callers -> Creation \cup {Absent}]
    BY <2>1, <2>2 DEF ClockWasRead
  <2> QED
    BY <1>1, <2>1, <2>3, <2>4 DEF ClockWasRead
<1>4. ASSUME NEW c \in Callers, RunCreate(c) PROVE ClockWasRead'
  <2> DEFINE call == creations[c]
  <2>1. /\ call \in Creation /\ call.at <= now
        /\ creations' = [creations EXCEPT ![c] = Absent]
        /\ now' = now
        /\ CreateBoard(call.board, call.state, call.at)
        /\ createdAt' = IF CreateBoardCode(call.board) = "created"
                        THEN [createdAt EXCEPT ![call.board] = now] ELSE createdAt
    BY <1>4 DEF RunCreate, ClockWasRead
  <2>2. call.board \in Boards /\ call.at \in Seconds /\ call.at # Absent /\ now # Absent
    <3>1. call.board \in Boards /\ call.at \in Seconds
      BY <2>1 DEF Creation
    <3>2. call.at \in Int /\ now \in Int
      BY <3>1, RegistryAssumption DEF ClockWasRead
    <3> QED
      BY <3>1, <3>2, LedgerAssumption
  <2> HIDE DEF call
  <2>3. /\ creations' \in [Callers -> Creation \cup {Absent}]
        /\ \A d \in Callers : creations'[d] # Absent =>
               creations'[d] \in Creation /\ creations'[d].at <= now
    BY <2>1 DEF ClockWasRead
  <2>4. CASE CreateBoardCode(call.board) = "created"
    <3>1. /\ boardIndex' = [boardIndex EXCEPT ![call.board] = call.at]
          /\ createdAt' = [createdAt EXCEPT ![call.board] = now]
      BY <2>1, <2>4 DEF CreateBoard
    <3>2. /\ createdAt' \in [Boards -> Seconds \cup {Absent}]
          /\ \A b \in Boards : boardIndex'[b] # Absent =>
                 createdAt'[b] # Absent /\ boardIndex'[b] <= createdAt'[b]
      BY <2>1, <2>2, <3>1 DEF ClockWasRead, RegistryTypeOK
    <3> QED
      BY <1>1, <2>1, <2>3, <3>2 DEF ClockWasRead
  <2>5. CASE CreateBoardCode(call.board) # "created"
    <3>1. boardIndex' = boardIndex /\ createdAt' = createdAt
      BY <2>1, <2>5 DEF CreateBoard
    <3> QED
      BY <1>1, <2>1, <2>3, <3>1 DEF ClockWasRead
  <2> QED
    BY <2>4, <2>5
<1>5. ASSUME NEW b \in Boards, NEW state \in BoardStates, SwitchBoard(b, state)
      PROVE  ClockWasRead'
  BY <1>1, <1>5, IndexUntouched DEF SwitchBoard, SetBoardState
<1>6. CASE Tick
  <2>1. now \in Nat /\ now' = now + 1 /\ now' \in Seconds
        /\ UNCHANGED <<boardIndex, creations, createdAt>>
    BY <1>6, BoardListingAssumption DEF Tick, registryVars, ClockWasRead
  <2>2. ASSUME NEW c \in Callers, creations[c] # Absent
        PROVE  creations[c] \in Creation /\ creations[c].at <= now + 1
    <3>1. creations[c] \in Creation /\ creations[c].at <= now
      BY <2>2 DEF ClockWasRead
    <3>2. creations[c].at \in Nat
      BY <3>1, BoardListingAssumption DEF Creation
    <3> QED
      BY <2>1, <3>1, <3>2
  <2> QED
    BY <1>1, <2>1, <2>2 DEF ClockWasRead
<1>7. CASE ReadIndex \/ ReadBoard \/ EndListing
  BY <1>1, <1>7, IndexUntouched DEF ReadIndex, ReadBoard, EndListing, registryVars
<1> QED
  BY <1>2, <1>3, <1>4, <1>5, <1>6, <1>7 DEF ListingNext

LEMMA ClockWasReadInit ==
    ListingInit => ClockWasRead
BY DEF ListingInit, RegistryInit, ClockWasRead, RegistryTypeOK

LEMMA ClockWasReadAlways ==
    ListingSpec => []ClockWasRead
<1>1. ClockWasRead /\ [ListingNext]_listingVars => ClockWasRead'
  <2>1. CASE UNCHANGED listingVars
    BY <2>1 DEF listingVars, registryVars, ClockWasRead, RegistryTypeOK
  <2> QED
    BY <2>1, ClockWasReadStep
<1> QED
  BY <1>1, ClockWasReadInit, PTL DEF ListingSpec

-----------------------------------------------------------------------------
\* The list is in creation order up to the second, for any number of callers
\* and boards: the index holds a time the caller read before its script ran, so
\* a board that was there before another's clock read is scored lower.
THEOREM ListIsInCreationOrder ==
    ListingSpec => []OrderFollowsSeconds
<1>1. ClockWasRead => OrderFollowsSeconds
  <2> SUFFICES ASSUME ClockWasRead, NEW b \in Indexed, NEW c \in Indexed,
                      createdAt[b] < boardIndex[c]
               PROVE  boardIndex[b] < boardIndex[c]
    BY DEF OrderFollowsSeconds, ListedBefore
  <2>1. b \in Boards /\ c \in Boards /\ boardIndex[b] # Absent /\ boardIndex[c] # Absent
    BY DEF Indexed
  <2>2. boardIndex[b] \in Int /\ boardIndex[c] \in Int
    BY <2>1 DEF ClockWasRead, RegistryTypeOK
  <2>3. createdAt[b] \in Int /\ boardIndex[b] <= createdAt[b]
    BY <2>1, RegistryAssumption DEF ClockWasRead
  <2> QED
    BY <2>2, <2>3
<1> QED
  BY <1>1, ClockWasReadAlways, PTL

\* Overlapping creations and a listing in progress are invisible to the
\* registry: the detailed specification implements the one of single calls.
THEOREM ListingImplementsRegistry ==
    ListingSpec => RegistrySpec
<1>1. ListingInit => RegistryInit
  BY DEF ListingInit
<1>2. ClockWasRead /\ [ListingNext]_listingVars => [RegistryNext]_registryVars
  <2>1. CASE UNCHANGED listingVars
    BY <2>1 DEF listingVars
  <2> QED
    BY <2>1, ListingStepIsRegistryStep
<1> QED
  BY <1>1, <1>2, ClockWasReadAlways, PTL DEF ListingSpec, RegistrySpec

\* Hence index and hashes name the same boards under overlapping creations,
\* and a retried creation's record names a profile that bears the retried name.
THEOREM ListingIsConsistent ==
    ListingSpec => [](KeysNameProfiles /\ IndexNamesBoards)
BY ListingImplementsRegistry, RegistryIsConsistent, PTL

-----------------------------------------------------------------------------
\* How far the followed listing is: its ids are the registered boards, each
\* once; the rows are those of the ids before `left`, which is what remains of
\* them; and none of these boards can have lost its hash meanwhile.
SoFar(ids, left, rows, known, seen, states) ==
    /\ \A i, j \in DOMAIN ids : ids[i] = ids[j] => i = j
    /\ {ids[i] : i \in DOMAIN ids} = known
    /\ Len(rows) + Len(left) = Len(ids)
    /\ \A i \in 1..Len(left) : left[i] = ids[Len(rows) + i]
    /\ \A i \in DOMAIN rows : rows[i].board = ids[i] /\ rows[i].state \in seen[ids[i]]
    /\ \A b \in known : states[b] # Absent
    /\ \A b \in Boards : states[b] # Absent => states[b] \in seen[b]

ListingSoFar ==
    listing # Absent =>
        /\ listing \in Listing
        /\ SoFar(listing.ids, listing.left, listing.rows, listing.known, listing.seen,
                 boardState)

ListingInv == RegistryInv /\ ClockWasRead /\ ListingSoFar

LEMMA TailFacts ==
    ASSUME NEW S, NEW q \in Seq(S), q # << >>
    PROVE  /\ Head(q) = q[1] /\ Len(q) \in Nat /\ Len(q) >= 1
           /\ Tail(q) \in Seq(S) /\ Len(Tail(q)) = Len(q) - 1
           /\ \A i \in 1..Len(Tail(q)) : Tail(q)[i] = q[i + 1]
  OBVIOUS

\* What ZRANGE returns: every indexed board, once.
LEMMA IndexFacts ==
    ASSUME RegistryTypeOK
    PROVE  /\ Index \in Seq(Boards)
           /\ \A i, j \in DOMAIN Index : Index[i] = Index[j] => i = j
           /\ {Index[i] : i \in DOMAIN Index} = Indexed
<1> DEFINE R == {r \in Boards \X Boards : ListedBefore(r[1], r[2])}
           N == Cardinality(Indexed)
<1>1. IsFiniteSet(Indexed) /\ N \in Nat
  <2>1. Indexed \in SUBSET Boards
    BY DEF Indexed
  <2> QED
    BY <2>1, BoardListingAssumption, FS_Subset, FS_CardinalityType
<1>2. \A b \in Indexed : b \in Boards /\ b \in Nat /\ boardIndex[b] \in Int
  BY BoardListingAssumption DEF Indexed, RegistryTypeOK
<1>3. \A b, c \in Indexed : <<b, c>> \in R <=> ListedBefore(b, c)
  BY <1>2
<1> HIDE DEF R
<1>4. StrictlyOrders(R, Indexed)
  <2>1. /\ \A b \in Indexed : ~ListedBefore(b, b)
        /\ \A b, c \in Indexed : b # c => ListedBefore(b, c) \/ ListedBefore(c, b)
    BY <1>2 DEF ListedBefore
  <2>2. \A b, c, d \in Indexed :
            ListedBefore(b, c) /\ ListedBefore(c, d) => ListedBefore(b, d)
    BY <1>2 DEF ListedBefore
  <2> QED
    BY <1>3, <2>1, <2>2 DEF StrictlyOrders
<1>5. ASSUME NEW s \in [1..N -> Indexed]
      PROVE  (\A i, j \in DOMAIN s : i < j => ListedBefore(s[i], s[j]))
                <=> SortedBy(R, Indexed, s)
  BY <1>3 DEF SortedBy
<1>6. SortedBy(R, Indexed, Index)
  <2>1. PICK s : SortedBy(R, Indexed, s)
    BY <1>1, <1>4, SortExists
  <2>2. s \in [1..N -> Indexed]
    BY <2>1 DEF SortedBy
  <2>3. \E t \in [1..N -> Indexed] :
            \A i, j \in DOMAIN t : i < j => ListedBefore(t[i], t[j])
    BY <1>5, <2>1, <2>2
  <2>4. /\ Index \in [1..N -> Indexed]
        /\ \A i, j \in DOMAIN Index : i < j => ListedBefore(Index[i], Index[j])
    BY <2>3 DEF Index, InOrder
  <2> QED
    BY <1>5, <2>4
<1>7. Index \in [1..N -> Indexed]
  BY <1>6 DEF SortedBy
<1>8. /\ \A n \in 1..N : RankIn(R, Indexed, Index[n]) = n
      /\ \A b \in Indexed : \E n \in 1..N : Index[n] = b
  BY <1>1, <1>4, <1>6, SortedByRank
<1>9. Index \in Seq(Boards)
  BY <1>1, <1>2, <1>7
<1> QED
  BY <1>7, <1>8, <1>9

LEMMA ListingInvInit == ASSUME ListingInit PROVE ListingInv
BY RegistryInvInit, ClockWasReadInit DEF ListingInit, ListingInv, ListingSoFar

\* A step that only adds to what the listing has seen of the boards.
LEMMA WatchKeeps ==
    ASSUME ListingInv, RegistryInv', Watch \/ listing' = listing,
           \A b \in Boards : boardState[b] # Absent => boardState'[b] # Absent,
           Watch \/ boardState' = boardState
    PROVE  ListingSoFar'
<1>1. CASE listing = Absent
  <2>1. listing' = Absent
    BY <1>1 DEF Watch
  <2> QED
    BY <2>1 DEF ListingSoFar
<1>2. CASE listing # Absent /\ listing' = listing /\ boardState' = boardState
  BY <1>2 DEF ListingInv, ListingSoFar
<1>3. CASE listing # Absent /\ Watch
  <2>1. PICK ids, left, rows, known, seen :
            /\ ids = listing.ids /\ left = listing.left /\ rows = listing.rows
            /\ known = listing.known /\ seen = listing.seen
    OBVIOUS
  <2>2. /\ listing \in Listing
        /\ ids \in Seq(Boards) /\ left \in Seq(Boards) /\ known \subseteq Boards
        /\ rows \in Seq([board : Boards, state : BoardStates])
        /\ seen \in [Boards -> SUBSET BoardStates]
        /\ SoFar(ids, left, rows, known, seen, boardState)
    BY <1>3, <2>1 DEF ListingInv, ListingSoFar, Listing
  <2> DEFINE new == [b \in Boards |-> seen[b] \cup ({boardState'[b]} \cap BoardStates)]
  <2>3. listing' = [listing EXCEPT !.seen = new]
    BY <1>3, <2>1 DEF Watch
  <2>4. /\ new \in [Boards -> SUBSET BoardStates]
        /\ \A b \in Boards : seen[b] \subseteq new[b]
        /\ \A b \in Boards : boardState'[b] # Absent => boardState'[b] \in new[b]
    BY <2>2 DEF RegistryInv, RegistryTypeOK
  <2> HIDE DEF new
  <2>5. /\ listing' \in Listing
        /\ listing'.ids = ids /\ listing'.left = left /\ listing'.rows = rows
        /\ listing'.known = known /\ listing'.seen = new
    BY <2>1, <2>2, <2>3, <2>4 DEF Listing
  <2>6. \A i \in DOMAIN rows : ids[i] \in Boards
    <3>1. Len(rows) + Len(left) = Len(ids)
      BY <2>2 DEF SoFar
    <3>2. \A i \in DOMAIN rows : i \in DOMAIN ids
      BY <2>2, <3>1
    <3> QED
      BY <2>2, <3>2
  <2>7. SoFar(ids, left, rows, known, new, boardState')
    BY <2>2, <2>4, <2>6 DEF SoFar
  <2> QED
    BY <2>5, <2>7 DEF ListingSoFar
<1> QED
  BY <1>1, <1>2, <1>3

LEMMA ReadIndexKeeps == ASSUME ListingInv, ReadIndex PROVE ListingSoFar'
<1>1. RegistryTypeOK /\ IndexNamesBoards /\ UNCHANGED registryVars
  BY DEF ListingInv, RegistryInv, ReadIndex
<1> DEFINE known == {b \in Boards : boardState[b] # Absent}
           seen == [b \in Boards |-> {boardState[b]} \cap BoardStates]
<1>2. Indexed = known
  BY <1>1 DEF Indexed, IndexNamesBoards
<1>3. \A b \in Boards : boardState[b] # Absent => boardState[b] \in seen[b]
  BY <1>1 DEF RegistryTypeOK
<1>4. seen \in [Boards -> SUBSET BoardStates] /\ known \subseteq Boards
  OBVIOUS
<1>5. PICK ids \in Seq(Boards) : ids = Index
  BY <1>1, IndexFacts
<1>6. listing' = [ids |-> ids, left |-> ids, rows |-> << >>, known |-> known, seen |-> seen]
  BY <1>5 DEF ReadIndex
<1>7. /\ \A i, j \in DOMAIN ids : ids[i] = ids[j] => i = j
      /\ {ids[i] : i \in DOMAIN ids} = known
  BY <1>1, <1>2, <1>5, IndexFacts
<1>8. \A b \in known : boardState[b] # Absent
  OBVIOUS
<1> HIDE DEF known, seen
<1>9. /\ listing' \in Listing
      /\ listing'.ids = ids /\ listing'.left = ids /\ listing'.rows = << >>
      /\ listing'.known = known /\ listing'.seen = seen
  BY <1>4, <1>6 DEF Listing
<1>10. boardState' = boardState
  BY <1>1 DEF registryVars
<1>11. SoFar(ids, ids, << >>, known, seen, boardState)
  BY <1>3, <1>7, <1>8 DEF SoFar
<1> QED
  BY <1>9, <1>10, <1>11 DEF ListingSoFar

LEMMA ReadBoardKeeps == ASSUME ListingInv, ReadBoard PROVE ListingSoFar'
<1>1. /\ listing \in Listing /\ listing # Absent /\ listing.left # << >>
      /\ UNCHANGED registryVars
  BY DEF ListingInv, ListingSoFar, ReadBoard
<1>2. PICK ids, left, rows, known, seen :
         /\ ids = listing.ids /\ left = listing.left /\ rows = listing.rows
         /\ known = listing.known /\ seen = listing.seen
  OBVIOUS
<1>3. /\ ids \in Seq(Boards) /\ left \in Seq(Boards) /\ left # << >>
      /\ rows \in Seq([board : Boards, state : BoardStates])
      /\ SoFar(ids, left, rows, known, seen, boardState)
  BY <1>1, <1>2 DEF Listing, ListingInv, ListingSoFar
<1>4. PICK n \in Nat : n = Len(rows)
  BY <1>3
<1>5. /\ Head(left) = ids[n + 1] /\ n + 1 \in DOMAIN ids
      /\ Tail(left) \in Seq(Boards) /\ Len(Tail(left)) = Len(left) - 1 /\ Len(left) \in Nat
      /\ \A i \in 1..Len(Tail(left)) : Tail(left)[i] = ids[(n + 1) + i]
  <2>1. /\ Head(left) = left[1] /\ Len(left) \in Nat /\ Len(left) >= 1
        /\ Tail(left) \in Seq(Boards) /\ Len(Tail(left)) = Len(left) - 1
        /\ \A i \in 1..Len(Tail(left)) : Tail(left)[i] = left[i + 1]
    BY <1>3, TailFacts
  <2>2. /\ n + Len(left) = Len(ids) /\ Len(ids) \in Nat /\ DOMAIN ids = 1..Len(ids)
        /\ \A i \in 1..Len(left) : left[i] = ids[n + i]
    BY <1>3, <1>4 DEF SoFar
  <2>3. Head(left) = ids[n + 1] /\ n + 1 \in DOMAIN ids
    BY <1>4, <2>1, <2>2
  <2>4. ASSUME NEW i \in 1..Len(Tail(left)) PROVE Tail(left)[i] = ids[(n + 1) + i]
    <3>1. i + 1 \in 1..Len(left) /\ n + (i + 1) = (n + 1) + i
      BY <1>4, <2>1, <2>4
    <3> QED
      BY <2>1, <2>2, <3>1
  <2> QED
    BY <2>1, <2>3, <2>4
<1>6. PICK b \in Boards : b = Head(left) /\ b = ids[n + 1]
  BY <1>3, <1>5
<1>7. boardState[b] # Absent /\ boardState[b] \in seen[b] /\ boardState[b] \in BoardStates
  <2>1. known = {ids[i] : i \in DOMAIN ids}
    BY <1>3 DEF SoFar
  <2>2. b \in known
    BY <1>5, <1>6, <2>1
  <2> QED
    BY <1>3, <2>2 DEF SoFar, ListingInv, RegistryInv, RegistryTypeOK
<1> DEFINE row == [board |-> b, state |-> boardState[b]]
<1>8. listing' = [listing EXCEPT !.left = Tail(left), !.rows = Append(rows, row)]
  BY <1>1, <1>2, <1>6, <1>7 DEF ReadBoard, Listing
<1>9. row \in [board : Boards, state : BoardStates] /\ row.board = b /\ row.state = boardState[b]
  BY <1>7
<1> HIDE DEF row
<1>10. /\ Append(rows, row) \in Seq([board : Boards, state : BoardStates])
       /\ Len(Append(rows, row)) = n + 1 /\ DOMAIN Append(rows, row) = 1..(n + 1)
       /\ Append(rows, row)[n + 1] = row
       /\ \A i \in 1..n : i \in DOMAIN rows /\ Append(rows, row)[i] = rows[i]
  BY <1>3, <1>4, <1>9
<1>11. /\ listing' \in Listing
       /\ listing'.ids = ids /\ listing'.left = Tail(left) /\ listing'.rows = Append(rows, row)
       /\ listing'.known = known /\ listing'.seen = seen
  BY <1>1, <1>2, <1>5, <1>8, <1>10 DEF Listing
<1>12. \A i \in 1..(n + 1) :
          /\ Append(rows, row)[i].board = ids[i]
          /\ Append(rows, row)[i].state \in seen[ids[i]]
  <2>1. ASSUME NEW i \in 1..n
        PROVE  /\ Append(rows, row)[i].board = ids[i]
               /\ Append(rows, row)[i].state \in seen[ids[i]]
    BY <1>3, <1>10 DEF SoFar
  <2>2. /\ Append(rows, row)[n + 1].board = ids[n + 1]
        /\ Append(rows, row)[n + 1].state \in seen[ids[n + 1]]
    BY <1>6, <1>7, <1>9, <1>10
  <2>3. \A i \in 1..(n + 1) : i \in 1..n \/ i = n + 1
    OBVIOUS
  <2> QED
    BY <2>1, <2>2, <2>3
<1>13. Len(Append(rows, row)) + Len(Tail(left)) = Len(ids)
  BY <1>3, <1>4, <1>5, <1>10 DEF SoFar
<1>14. boardState' = boardState
  BY <1>1 DEF registryVars
<1>15. SoFar(ids, Tail(left), Append(rows, row), known, seen, boardState)
  BY <1>3, <1>5, <1>10, <1>12, <1>13 DEF SoFar
<1> QED
  BY <1>11, <1>14, <1>15 DEF ListingSoFar

LEMMA ListingInvStep ==
    ASSUME ListingInv, [ListingNext]_listingVars
    PROVE  ListingInv'
<1>1. ClockWasRead /\ RegistryInv
  BY DEF ListingInv
<1>2. CASE UNCHANGED listingVars
  <2>1. UNCHANGED <<boardState, listing>>
    BY <1>2 DEF listingVars, registryVars
  <2>2. RegistryInv' /\ ClockWasRead'
    BY <1>1, <1>2 DEF listingVars, registryVars, RegistryInv, RegistryTypeOK, KeysNameProfiles,
                      IndexNamesBoards, ClockWasRead
  <2>3. ListingSoFar'
    BY <2>1 DEF ListingInv, ListingSoFar
  <2> QED
    BY <2>2, <2>3 DEF ListingInv
<1>3. CASE ListingNext
  <2>1. RegistryNext \/ UNCHANGED registryVars
    BY <1>1, <1>3, ListingStepIsRegistryStep
  <2>2. RegistryInv'
    <3>1. CASE UNCHANGED registryVars
      BY <1>1, <3>1 DEF registryVars, RegistryInv, RegistryTypeOK, KeysNameProfiles, IndexNamesBoards
    <3> QED
      BY <1>1, <2>1, <3>1, RegistryInvStep
  <2>3. \A b \in Boards : boardState[b] # Absent => boardState'[b] # Absent
    <3>1. CASE UNCHANGED registryVars
      BY <3>1 DEF registryVars
    <3> QED
      BY <1>1, <2>1, <3>1, RegistryGrows DEF RegistryInv
  <2>4. CASE \/ \E c \in Callers : RunCreate(c)
             \/ \E b \in Boards, state \in BoardStates : SwitchBoard(b, state)
    <3>1. Watch
      BY <2>4 DEF RunCreate, SwitchBoard
    <3> QED
      BY <1>1, <1>3, <2>2, <2>3, <3>1, WatchKeeps, ClockWasReadStep DEF ListingInv
  <2>5. CASE \/ PlayerWrites /\ UNCHANGED <<now, creations, createdAt, listing>>
             \/ \E c \in Callers, b \in Boards, state \in BoardStates : BeginCreate(c, b, state)
             \/ Tick
    <3>1. listing' = listing /\ boardState' = boardState
      BY <2>5 DEF PlayerWrites, CreatePlayerProfile, ExpirePlayerKey, BeginCreate, Tick, registryVars
    <3> QED
      BY <1>1, <1>3, <2>2, <2>3, <3>1, WatchKeeps, ClockWasReadStep DEF ListingInv
  <2>6. CASE EndListing
    <3>1. ListingSoFar'
      BY <2>6 DEF EndListing, ListingSoFar
    <3> QED
      BY <1>1, <1>3, <2>2, <3>1, ClockWasReadStep DEF ListingInv
  <2> QED
    BY <1>1, <1>3, <2>2, <2>4, <2>5, <2>6, ReadIndexKeeps, ReadBoardKeeps, ClockWasReadStep
       DEF ListingNext, ListingInv
<1> QED
  BY <1>2, <1>3

\* A listing holds every board that was registered when it began, once each and
\* in the order of the index, with a state the board had meanwhile, whatever
\* boards are created, opened and closed between its commands: the skip of
\* a board without a hash never happens.
THEOREM ListingsAreWhole == ListingSpec => []ListingIsWhole
<1>1. ListingInv /\ [ListingNext]_listingVars => ListingInv'
  BY ListingInvStep
<1>2. ASSUME ListingInv, Listed PROVE ListingIsWhole
  <2>1. PICK ids, rows : ids = listing.ids /\ rows = listing.rows
    OBVIOUS
  <2>2. /\ listing \in Listing
        /\ \A i, j \in DOMAIN ids : ids[i] = ids[j] => i = j
        /\ {ids[i] : i \in DOMAIN ids} = listing.known
        /\ Len(rows) = Len(ids) /\ DOMAIN rows = DOMAIN ids
        /\ \A i \in DOMAIN rows :
              rows[i].board = ids[i] /\ rows[i].state \in listing.seen[ids[i]]
    <3>1. /\ listing \in Listing /\ listing.left = << >>
          /\ Len(rows) + Len(listing.left) = Len(ids)
      BY <1>2, <2>1 DEF ListingInv, ListingSoFar, SoFar, Listed
    <3>2. ids \in Seq(Boards) /\ rows \in Seq([board : Boards, state : BoardStates])
      BY <2>1, <3>1 DEF Listing
    <3>3. Len(rows) = Len(ids) /\ DOMAIN rows = DOMAIN ids
      BY <3>1, <3>2
    <3> QED
      BY <1>2, <2>1, <3>1, <3>3 DEF ListingInv, ListingSoFar, SoFar, Listed
  <2>3. {rows[i].board : i \in DOMAIN rows} = listing.known
    BY <2>2
  <2>4. \A i \in DOMAIN rows : \A j \in 1..(i - 1) : rows[j].board # rows[i].board
    <3>1. DOMAIN rows = 1..Len(rows) /\ Len(rows) \in Nat
      BY <2>1, <2>2 DEF Listing
    <3>2. \A i \in DOMAIN rows : \A j \in 1..(i - 1) : j \in DOMAIN rows /\ j # i
      BY <3>1
    <3> QED
      BY <2>2, <3>2
  <2> QED
    BY <2>1, <2>2, <2>3, <2>4 DEF ListingIsWhole
<1>3. ListingInv => ListingIsWhole
  BY <1>2 DEF ListingIsWhole
<1> QED
  BY <1>1, <1>3, ListingInvInit, PTL DEF ListingSpec
=============================================================================
