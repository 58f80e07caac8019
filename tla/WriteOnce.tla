------------------------------ MODULE WriteOnce ------------------------------
(***************************************************************************)
(* What a client that sends an Idempotency-Key is promised: its write is   *)
(* applied at most once however often it is retried, "ok" means applied,   *)
(* and a rejection is never the answer to a write that has been applied.   *)
(* Writes of clients without a key are applied in between.                 *)
(***************************************************************************)
EXTENDS Sequences

CONSTANTS Clients, Other

VARIABLES
    log,    \* who made each applied write, in order; Other: without a key
    told    \* what each client knows of its write

onceVars == <<log, told>>

Applied(c) == \E i \in DOMAIN log : log[i] = c

OnceInit == log = << >> /\ told = [c \in Clients |-> "nothing"]

Apply(c) == ~Applied(c) /\ log' = Append(log, c)

Learn(c, what) ==
    \/ told' = [told EXCEPT ![c] = what]
    \/ UNCHANGED told          \* the answer is lost on the way

\* The write takes effect; the client may hear of it at once.
ApplyAndTell(c) == Apply(c) /\ Learn(c, "ok")

\* A retry of an applied write.
Confirm(c) == Applied(c) /\ Learn(c, "ok") /\ UNCHANGED log

Reject(c) == ~Applied(c) /\ Learn(c, "rejected") /\ UNCHANGED log

\* A client that does not take no for an answer asks again.
AskAgain(c) ==
    /\ told[c] = "rejected"
    /\ told' = [told EXCEPT ![c] = "nothing"]
    /\ UNCHANGED log

ApplyOther == log' = Append(log, Other) /\ UNCHANGED told

OnceNext ==
    \/ \E c \in Clients : ApplyAndTell(c) \/ Confirm(c) \/ Reject(c) \/ AskAgain(c)
    \/ ApplyOther

OnceSpec == OnceInit /\ [][OnceNext]_onceVars
=============================================================================
