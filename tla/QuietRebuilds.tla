---------------------------- MODULE QuietRebuilds ----------------------------
(***************************************************************************)
(* Rebuilds of a board that is closed before the first of them begins and  *)
(* stays closed until the last has returned.  A closed board accepts no    *)
(* write, so the ledger is at rest for it all along; what is left is the   *)
(* rebuilds themselves.  No error, no crash and no resend is needed.       *)
(***************************************************************************)
EXTENDS ProjectionAdmin

VARIABLE opened   \* history: the boards that were not closed at some moment
                  \* since the calls that now run on them began

quietVars == <<adminVars, opened>>

QuietInit == AdminInit /\ opened = Boards

QuietNext ==
    /\ AdminNext
    /\ opened' = {b \in Boards :
            \/ boardState'[b] # "closed"
            \/ b \in opened /\ \E a \in Admins : Running(a, b)}

QuietSpec == QuietInit /\ [][QuietNext]_quietVars

\* "It can be deleted and rebuilt from stream, and the result must be the same"
\* (docs/architecture.md:241): when the last of the rebuilds of a board returns
\* that was closed throughout, so that no write came near any of them, the
\* projection is the replay of the ledger.
QuietRebuildRestores ==
    [][\A a \in Admins :
          (/\ RebuildReturns(a)
           /\ target[a] \notin opened
           /\ \A c \in Admins \ {a} : ~Running(c, target[a]))
              => projection'[target[a]] = Replay(ledger', target[a])]_quietVars
=============================================================================
