------------------------------ MODULE Registry ------------------------------
(***************************************************************************)
(* Player profiles and boards: the documents a score write looks up before *)
(* it touches a score.  Each write is one Lua script, so each is one       *)
(* atomic action here (storage/scripts/create_player.lua,                  *)
(* create_board.lua, set_board_state.lua).                                 *)
(*                                                                         *)
(* A player id is generated by the server for every attempt; a board id is *)
(* chosen by the client.  Display names of boards and the created_at       *)
(* fields of the hashes are left out: nothing reads them back to decide    *)
(* anything.  A player's name is kept, being the fingerprint of the        *)
(* idempotency record.                                                     *)
(***************************************************************************)
EXTENDS Ledger

CONSTANTS
    Names,        \* player names
    PlayerKeys,   \* Idempotency-Key values of player creation
    NoKey,        \* the header is missing
    Seconds       \* values of the app's clock in whole seconds (CreatedAt.Unix())

BoardStates == {"active", "closed"}

ASSUME RegistryAssumption ==
    /\ Seconds \subseteq Int
    /\ NoKey \notin PlayerKeys
    /\ Absent \notin Names
    /\ Absent \notin [id : Players, name : Names]
    /\ Absent \notin BoardStates

VARIABLES
    profiles,     \* app:player:profile:{id}, by id: the name, or Absent
    playerKeys,   \* app:player:idempotency, by key: "id|name", or Absent
    boardState,   \* app:board:profile:{id}, by id: its state, or Absent
    boardIndex    \* app:board:index, by member: the score, or Absent

registryVars == <<profiles, playerKeys, boardState, boardIndex>>

RegistryTypeOK ==
    /\ profiles \in [Players -> Names \cup {Absent}]
    /\ playerKeys \in [PlayerKeys -> [id : Players, name : Names] \cup {Absent}]
    /\ boardState \in [Boards -> BoardStates \cup {Absent}]
    /\ boardIndex \in [Boards -> Int \cup {Absent}]

RegistryInit ==
    /\ profiles = [p \in Players |-> Absent]
    /\ playerKeys = [k \in PlayerKeys |-> Absent]
    /\ boardState = [b \in Boards |-> Absent]
    /\ boardIndex = [b \in Boards |-> Absent]

-----------------------------------------------------------------------------
\* create_player.lua.  The idempotency record is consulted first, so a
\* replay does not care whether its fresh candidate id is taken.
CreatePlayerCode(name, id, key) ==
    IF key # NoKey /\ playerKeys[key] # Absent
    THEN IF playerKeys[key].name = name THEN "deduped" ELSE "idempotency_conflict"
    ELSE IF profiles[id] # Absent THEN "exists"
    ELSE "created"

\* The id the caller is told: the candidate, or the one a replay remembers.
CreatePlayerId(name, id, key) ==
    CASE CreatePlayerCode(name, id, key) = "created" -> id
      [] CreatePlayerCode(name, id, key) = "deduped" -> playerKeys[key].id
      [] OTHER -> Absent

\* Mutant of CreatePlayerProfile: the key is recorded before the candidate id is
\* found to be taken.
CreatePlayerKeyFirst(name, id, key) ==
    /\ LET code == CreatePlayerCode(name, id, key) IN
       /\ profiles' = IF code = "created" THEN [profiles EXCEPT ![id] = name] ELSE profiles
       /\ playerKeys' = IF key # NoKey /\ code \in {"created", "exists"}
                        THEN [playerKeys EXCEPT ![key] = [id |-> id, name |-> name]]
                        ELSE playerKeys
    /\ UNCHANGED <<boardState, boardIndex>>

CreatePlayerProfile(name, id, key) ==
    /\ IF CreatePlayerCode(name, id, key) = "created"
       THEN /\ profiles' = [profiles EXCEPT ![id] = name]
            /\ playerKeys' = IF key = NoKey THEN playerKeys
                             ELSE [playerKeys EXCEPT ![key] = [id |-> id, name |-> name]]
       ELSE UNCHANGED <<profiles, playerKeys>>
    /\ UNCHANGED <<boardState, boardIndex>>

\* HEXPIRE: Redis drops the field 24 h after it was written.
ExpirePlayerKey(key) ==
    /\ playerKeys[key] # Absent
    /\ playerKeys' = [playerKeys EXCEPT ![key] = Absent]
    /\ UNCHANGED <<profiles, boardState, boardIndex>>

\* create_board.lua.  `at` was read from the app's clock before the script ran.
CreateBoardCode(b) == IF boardState[b] # Absent THEN "exists" ELSE "created"

\* Mutant of CreateBoard: ZADD ahead of the EXISTS check.
CreateBoardIndexFirst(b, state, at) ==
    /\ boardState' = IF CreateBoardCode(b) = "created"
                     THEN [boardState EXCEPT ![b] = state] ELSE boardState
    /\ boardIndex' = [boardIndex EXCEPT ![b] = at]
    /\ UNCHANGED <<profiles, playerKeys>>

CreateBoard(b, state, at) ==
    /\ IF CreateBoardCode(b) = "created"
       THEN /\ boardState' = [boardState EXCEPT ![b] = state]
            /\ boardIndex' = [boardIndex EXCEPT ![b] = at]
       ELSE UNCHANGED <<boardState, boardIndex>>
    /\ UNCHANGED <<profiles, playerKeys>>

\* Mutant of SetBoardStateCode: the script without its EXISTS check.
SetBoardStateUnchecked(b) == "updated"

\* set_board_state.lua: an unknown board must not come into being.
SetBoardStateCode(b) == IF boardState[b] = Absent THEN "board_not_found" ELSE "updated"

SetBoardState(b, state) ==
    /\ boardState' = IF SetBoardStateCode(b) = "updated"
                     THEN [boardState EXCEPT ![b] = state] ELSE boardState
    /\ UNCHANGED <<profiles, playerKeys, boardIndex>>

PlayerWrites ==
    \/ \E name \in Names, id \in Players, key \in PlayerKeys \cup {NoKey} :
            CreatePlayerProfile(name, id, key)
    \/ \E key \in PlayerKeys : ExpirePlayerKey(key)

RegistryNext ==
    \/ PlayerWrites
    \/ \E b \in Boards, state \in BoardStates, at \in Seconds : CreateBoard(b, state, at)
    \/ \E b \in Boards, state \in BoardStates : SetBoardState(b, state)

RegistrySpec == RegistryInit /\ [][RegistryNext]_registryVars

-----------------------------------------------------------------------------
\* A replayed creation answers with a profile that exists and bears the name
\* of the retry, and two live keys never lead to the same player.
KeysNameProfiles ==
    \A k \in PlayerKeys : playerKeys[k] # Absent =>
        /\ profiles[playerKeys[k].id] = playerKeys[k].name
        /\ \A j \in PlayerKeys :
               playerKeys[j] # Absent /\ playerKeys[j].id = playerKeys[k].id => j = k

\* "board is registered but its hash is missing ... should not happen at all"
\* (board_repo.go:103): the index and the hashes name the same boards.
IndexNamesBoards == \A b \in Boards : boardIndex[b] = Absent <=> boardState[b] = Absent
=============================================================================
