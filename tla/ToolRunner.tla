----------------------------- MODULE ToolRunner -----------------------------
(***************************************************************************)
(* The tool runner (apiscripts/toolrunner/main.go): an HTTP service that   *)
(* runs one of a fixed set of programs for a request, one at a time, for a *)
(* bounded time.  The slot is a channel of capacity one.                   *)
(*                                                                         *)
(* A tool is one of this repository's static binaries and starts nothing   *)
(* itself, so that its output ends when it ends; killing and reaping it    *)
(* takes less than a tick.  Names, arguments and output are left out.      *)
(***************************************************************************)
EXTENDS Integers

CONSTANTS
    Requests,      \* requests that may be open at once
    Timeout,       \* TOOL_TIMEOUT, in ticks
    ReadTimeout,   \* http.Server.ReadTimeout
    WriteSlack     \* by how much http.Server.WriteTimeout exceeds Timeout

ASSUME ToolRunnerAssumption ==
    /\ Timeout \in Nat \ {0} /\ ReadTimeout \in Nat \ {0}
    /\ WriteSlack \in Nat /\ ReadTimeout <= WriteSlack

\* Mutant of WriteTimeout: the tool's own.
WriteTimeoutBare == Timeout

WriteTimeout == Timeout + WriteSlack

NoAnswer == [ran |-> 0, at |-> 0, ok |-> FALSE, timedOut |-> FALSE]
Answers == [ran : Nat, at : Nat, ok : BOOLEAN, timedOut : BOOLEAN]

VARIABLES
    stage,    \* reading the body of a request, or running its tool
    age,      \* ticks since the header was read
    began,    \* its age when the tool was started
    tool,     \* the child process
    ctx,      \* the context the tool runs under
    answer,   \* the last answer that reports a run
    busy      \* tokens in the channel: 0 or 1

vars == <<stage, age, began, tool, ctx, answer, busy>>

TypeOK ==
    /\ stage \in [Requests -> {"idle", "body", "run"}]
    /\ age \in [Requests -> Nat] /\ began \in [Requests -> Nat]
    /\ tool \in [Requests ->
           {"none", "alive", "succeeded", "failed", "killed", "unstarted"}]
    /\ ctx \in [Requests -> {"live", "deadline", "canceled"}]
    /\ answer \in [Requests -> Answers]
    /\ busy \in 0..1

Init ==
    /\ stage = [r \in Requests |-> "idle"]
    /\ age = [r \in Requests |-> 0] /\ began = [r \in Requests |-> 0]
    /\ tool = [r \in Requests |-> "none"]
    /\ ctx = [r \in Requests |-> "live"]
    /\ answer = [r \in Requests |-> NoAnswer]
    /\ busy = 0

Ran(r) == age[r] - began[r]

-----------------------------------------------------------------------------
Arrive(r) ==
    /\ stage[r] = "idle"
    /\ stage' = [stage EXCEPT ![r] = "body"]
    /\ age' = [age EXCEPT ![r] = 0]
    /\ answer' = [answer EXCEPT ![r] = NoAnswer]
    /\ UNCHANGED <<began, tool, ctx, busy>>

\* The request ends before it asks for the slot.
Dismiss(r) ==
    /\ stage[r] = "body"
    /\ stage' = [stage EXCEPT ![r] = "idle"]
    /\ UNCHANGED <<age, began, tool, ctx, answer, busy>>

\* An unknown tool, a body that does not decode, arguments out of bounds.
Refuse(r) == Dismiss(r)

\* The body has not come in time.
BodyTimeout(r) == age[r] >= ReadTimeout /\ Dismiss(r)

\* The slot is taken: "another tool is running".
Conflict(r) == busy = 1 /\ Dismiss(r)

\* The slot is free; the tool starts, or fails to.
Take(r) ==
    /\ stage[r] = "body"
    /\ age[r] < ReadTimeout
    /\ busy = 0
    /\ busy' = 1
    /\ stage' = [stage EXCEPT ![r] = "run"]
    /\ began' = [began EXCEPT ![r] = age[r]]
    /\ ctx' = [ctx EXCEPT ![r] = "live"]
    /\ \E t \in {"alive", "unstarted"} : tool' = [tool EXCEPT ![r] = t]
    /\ UNCHANGED <<age, answer>>

End(r) ==
    /\ tool[r] = "alive"
    /\ \E t \in {"succeeded", "failed"} : tool' = [tool EXCEPT ![r] = t]
    /\ UNCHANGED <<stage, age, began, ctx, answer, busy>>

Done(r, why) ==
    /\ stage[r] = "run" /\ ctx[r] = "live"
    /\ ctx' = [ctx EXCEPT ![r] = why]
    /\ UNCHANGED <<stage, age, began, tool, answer, busy>>

\* net/http cancels the request, as it does when the client hangs up.
HangUp(r) == Done(r, "canceled")

Expire(r) == Ran(r) >= Timeout /\ Done(r, "deadline")

Kill(r) ==
    /\ tool[r] = "alive" /\ ctx[r] # "live"
    /\ tool' = [tool EXCEPT ![r] = "killed"]
    /\ UNCHANGED <<stage, age, began, ctx, answer, busy>>

Report(r) ==
    /\ stage' = [stage EXCEPT ![r] = "idle"]
    /\ answer' = [answer EXCEPT ![r] =
           [ran |-> Ran(r), at |-> age[r], ok |-> tool[r] = "succeeded",
            timedOut |-> ctx[r] = "deadline"]]
    /\ UNCHANGED <<age, began, ctx>>

\* Mutants of Return: the handler does not wait for the process to end; it
\* gives the slot back only if the tool had been started.
ReturnEarly(r) ==
    /\ stage[r] = "run" /\ (tool[r] # "alive" \/ ctx[r] # "live")
    /\ Report(r)
    /\ tool' = [tool EXCEPT ![r] = IF @ = "alive" THEN @ ELSE "none"]
    /\ busy' = 0

ReturnKeepsSlot(r) ==
    /\ stage[r] = "run" /\ tool[r] # "alive"
    /\ Report(r)
    /\ tool' = [tool EXCEPT ![r] = "none"]
    /\ busy' = IF tool[r] = "unstarted" THEN busy ELSE 0

\* cmd.Run returns when the process has ended; the answer is written and the
\* slot given back.
Return(r) ==
    /\ stage[r] = "run" /\ tool[r] # "alive"
    /\ Report(r)
    /\ tool' = [tool EXCEPT ![r] = "none"]
    /\ busy' = 0

\* Time passes, but not beyond a deadline that is due.
Tick ==
    /\ \A r \in Requests :
           /\ stage[r] = "body" => age[r] < ReadTimeout
           /\ stage[r] = "run" => tool[r] = "alive" /\ ctx[r] = "live" /\ Ran(r) < Timeout
    /\ \E r \in Requests : stage[r] # "idle"
    /\ age' = [r \in Requests |-> IF stage[r] = "idle" THEN age[r] ELSE age[r] + 1]
    /\ UNCHANGED <<stage, began, tool, ctx, answer, busy>>

Next ==
    \/ \E r \in Requests :
           \/ Arrive(r) \/ Refuse(r) \/ BodyTimeout(r) \/ Conflict(r) \/ Take(r)
           \/ End(r) \/ HangUp(r) \/ Expire(r) \/ Kill(r) \/ Return(r)
    \/ Tick

Spec == Init /\ [][Next]_vars

\* Time passes, timers fire, a killed process dies, and a handler whose process
\* has ended runs on.  No tool is owed to end by itself, nor a client to leave.
FairSpec ==
    /\ Spec /\ WF_vars(Tick)
    /\ \A r \in Requests :
           /\ WF_vars(BodyTimeout(r)) /\ WF_vars(Expire(r))
           /\ WF_vars(Kill(r)) /\ WF_vars(Return(r))

-----------------------------------------------------------------------------
\* "Allows only one process at a time" (main.go:35): never two child processes,
\* whatever their requests have come to, and the slot is taken exactly while a
\* handler is between taking it and its return.
OneToolAtATime ==
    /\ \A r, s \in Requests : tool[r] = "alive" /\ tool[s] = "alive" => r = s
    /\ busy = 1 <=> \E r \in Requests : stage[r] = "run"

\* The answer of a run comes before the connection's write deadline, which
\* counts from the header while the tool's timeout counts from the slot: the
\* body may take its time, and the client still learns that its tool timed out,
\* which is said only of a tool that had its whole timeout.
AnswersInTime ==
    \A r \in Requests :
        /\ answer[r].at < WriteTimeout
        /\ answer[r].timedOut => answer[r].ran >= Timeout

\* The slot comes back on every path: a tool that never ends, one that does not
\* start, a client that is gone.
SlotComesBack == busy = 1 ~> busy = 0
=============================================================================
