---------------------------- MODULE BoardListing ----------------------------
(***************************************************************************)
(* The list of boards (ListBoards in storage/board_repo.go): the index     *)
(* first, then every board's hash, a command each, while boards are        *)
(* created, opened and closed.  A creation reads the app's clock           *)
(* (board.NewBoard) before its script runs: the second it read orders the  *)
(* list, ties go by board id.                                              *)
(*                                                                         *)
(* Board ids are numbers here, in the bytewise order of Redis.  As reads   *)
(* change nothing, one listing is followed.                                *)
(***************************************************************************)
EXTENDS Registry, Sequences, FiniteSets

CONSTANT Callers    \* concurrent calls of CreateBoard

ASSUME BoardListingAssumption ==
    /\ Boards \subseteq Nat /\ IsFiniteSet(Boards)
    /\ Seconds \subseteq Nat

VARIABLES
    now,        \* the app's clock, in seconds; it never goes back
    creations,  \* by caller: a creation between its clock read and its script
    createdAt,  \* history, by board: the second in which its script ran
    listing     \* the listing that is followed, or Absent

listingVars == <<registryVars, now, creations, createdAt, listing>>

Creation == [board : Boards, state : BoardStates, at : Seconds]

\* `known` is history: the boards that had a hash when the listing began;
\* so is `seen`, the states of each board since then.
Listing == [ids : Seq(Boards), left : Seq(Boards),
            rows : Seq([board : Boards, state : BoardStates]),
            known : SUBSET Boards, seen : [Boards -> SUBSET BoardStates]]

ListingTypeOK ==
    /\ RegistryTypeOK
    /\ now \in Seconds
    /\ creations \in [Callers -> Creation \cup {Absent}]
    /\ createdAt \in [Boards -> Seconds \cup {Absent}]
    /\ listing \in Listing \cup {Absent}

ListingInit ==
    /\ RegistryInit
    /\ now \in {s \in Seconds : \A t \in Seconds : s <= t}
    /\ creations = [c \in Callers |-> Absent]
    /\ createdAt = [b \in Boards |-> Absent]
    /\ listing = Absent

-----------------------------------------------------------------------------
Indexed == {b \in Boards : boardIndex[b] # Absent}

\* The order of ZRANGE: by score, ties by member.
ListedBefore(b, c) ==
    boardIndex[b] < boardIndex[c] \/ (boardIndex[b] = boardIndex[c] /\ b < c)

InOrder(S) ==
    CHOOSE s \in [1..Cardinality(S) -> S] :
        \A i, j \in DOMAIN s : i < j => ListedBefore(s[i], s[j])

\* Mutant of Index: a stop of -2 leaves the last board out.
IndexButLast ==
    LET s == InOrder(Indexed) IN IF s = << >> THEN s ELSE SubSeq(s, 1, Len(s) - 1)

\* ZRANGE 0 -1.
Index == InOrder(Indexed)

\* NewBoard takes the time; the request is validated and under way.
BeginCreate(c, b, state) ==
    /\ creations[c] = Absent
    /\ creations' = [creations EXCEPT ![c] = [board |-> b, state |-> state, at |-> now]]
    /\ UNCHANGED <<registryVars, now, createdAt, listing>>

\* What the followed listing is to know of a step that changes boards.
Watch ==
    listing' = IF listing = Absent THEN Absent
               ELSE [listing EXCEPT
                       !.seen = [b \in Boards |->
                           @[b] \cup ({boardState'[b]} \cap BoardStates)]]

RunCreate(c) ==
    /\ creations[c] # Absent
    /\ LET call == creations[c] IN
       /\ CreateBoard(call.board, call.state, call.at)
       /\ createdAt' = IF CreateBoardCode(call.board) = "created"
                       THEN [createdAt EXCEPT ![call.board] = now] ELSE createdAt
    /\ creations' = [creations EXCEPT ![c] = Absent]
    /\ Watch
    /\ UNCHANGED now

SwitchBoard(b, state) ==
    /\ SetBoardState(b, state)
    /\ Watch
    /\ UNCHANGED <<now, creations, createdAt>>

Tick ==
    /\ now + 1 \in Seconds
    /\ now' = now + 1
    /\ UNCHANGED <<registryVars, creations, createdAt, listing>>

ReadIndex ==
    /\ listing = Absent
    /\ listing' = [ids |-> Index, left |-> Index, rows |-> << >>,
                   known |-> {b \in Boards : boardState[b] # Absent},
                   seen |-> [b \in Boards |-> {boardState[b]} \cap BoardStates]]
    /\ UNCHANGED <<registryVars, now, creations, createdAt>>

\* HGETALL of the next board; a board without its hash is skipped.
ReadBoard ==
    /\ listing # Absent /\ listing.left # << >>
    /\ LET b == Head(listing.left) IN
       listing' = [listing EXCEPT
                     !.left = Tail(@),
                     !.rows = IF boardState[b] = Absent THEN @
                              ELSE Append(@, [board |-> b, state |-> boardState[b]])]
    /\ UNCHANGED <<registryVars, now, creations, createdAt>>

Listed == listing # Absent /\ listing.left = << >>

EndListing ==
    /\ Listed
    /\ listing' = Absent
    /\ UNCHANGED <<registryVars, now, creations, createdAt>>

ListingNext ==
    \/ PlayerWrites /\ UNCHANGED <<now, creations, createdAt, listing>>
    \/ \E c \in Callers, b \in Boards, state \in BoardStates : BeginCreate(c, b, state)
    \/ \E c \in Callers : RunCreate(c)
    \/ \E b \in Boards, state \in BoardStates : SwitchBoard(b, state)
    \/ Tick
    \/ ReadIndex \/ ReadBoard \/ EndListing

ListingSpec == ListingInit /\ [][ListingNext]_listingVars

-----------------------------------------------------------------------------
\* The skip in ListBoards "should not happen at all" (board_repo.go:103): a
\* listing holds every board that was registered when it began, once each, in
\* the order of the index, and gives each a state that it had meanwhile.
ListingIsWhole ==
    Listed =>
        /\ Len(listing.rows) = Len(listing.ids)
        /\ {listing.rows[i].board : i \in DOMAIN listing.rows} = listing.known
        /\ \A i \in DOMAIN listing.rows :
              /\ listing.rows[i].board = listing.ids[i]
              /\ listing.rows[i].state \in listing.seen[listing.rows[i].board]
              /\ \A j \in 1..(i - 1) : listing.rows[j].board # listing.rows[i].board

\* "Boards in creation order" (interface.go:24) as far as a clock in whole
\* seconds goes: a board whose script ran in an earlier second than another
\* board's creation began is listed first, and stays so whatever creations of
\* either id are refused later.
OrderFollowsSeconds ==
    \A b, c \in Indexed :
        createdAt[b] < boardIndex[c] => ListedBefore(b, c)
=============================================================================
