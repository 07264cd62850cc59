------------------------------ MODULE TurnContract ------------------------------
(***************************************************************************)
(* What the Local route promises the App Server about tool calls: the turn  *)
(* diagram of the design (running, waitingForTool, terminated) with the     *)
(* calls the route owes an answer.  A call is owed from the moment it is     *)
(* taken; the calls of a turn are answered all together, or all rejected    *)
(* when the turn ends; a turn that ended owes nothing and stays ended.      *)
(***************************************************************************)
CONSTANTS Turns, Calls

VARIABLES
    phase,  \* [Turns -> {"none", "running", "waiting", "ended"}]
    owed,   \* [Turns -> SUBSET Calls]
    answer  \* [Calls -> {"none", "responded", "rejected"}]

vars == <<phase, owed, answer>>

Init ==
    /\ phase = [t \in Turns |-> "none"]
    /\ owed = [t \in Turns |-> {}]
    /\ answer = [c \in Calls |-> "none"]

-------------------------------------------------------------------------------

Unchanged(C) == \A c \in C : answer'[c] = answer[c]
All(C, outcome) == \A c \in C : answer'[c] = outcome

\* Nothing is decided: the turn may take more calls while it runs or waits.
Goes(t) ==
    /\ phase'[t] = phase[t]
    /\ Unchanged(owed[t])
    /\ IF phase[t] \in {"running", "waiting"} THEN owed[t] \subseteq owed'[t]
                                               ELSE owed'[t] = owed[t]

\* The App Server started the turn, with the calls it asked for already.
Begins(t) == phase[t] = "none" /\ phase'[t] = "running"

\* Copilot has been shown the calls and its response ends.
Pauses(t) ==
    /\ phase[t] = "running" /\ phase'[t] = "waiting"
    /\ owed'[t] = owed[t] /\ owed[t] # {}
    /\ Unchanged(owed[t])

\* A response stream continues the turn before all results are there.
Continues(t) ==
    /\ phase[t] = "waiting" /\ phase'[t] = "running"
    /\ owed'[t] = owed[t]
    /\ Unchanged(owed[t])

\* The results are complete.
Answers(t) ==
    /\ phase[t] \in {"running", "waiting"} /\ phase'[t] = "running"
    /\ owed'[t] = {}
    /\ All(owed[t], "responded")

\* Completion, failure, timeout, cancellation or exit.
Ends(t) ==
    /\ phase[t] # "ended" /\ phase'[t] = "ended"
    /\ owed'[t] = {}
    /\ All(owed[t], "rejected")

\* Any number of turns move in one step (the process may take all of them down); a
\* call that is not owed can only be refused.
Next ==
    /\ phase' \in [Turns -> {"none", "running", "waiting", "ended"}]
    /\ owed' \in [Turns -> SUBSET Calls]
    /\ \A t \in Turns :
         Goes(t) \/ Begins(t) \/ Pauses(t) \/ Continues(t) \/ Answers(t) \/ Ends(t)
    /\ \A c \in Calls :
         \/ \E t \in Turns : c \in owed[t]
         \/ answer'[c] = answer[c]
         \/ answer[c] = "none" /\ answer'[c] = "rejected"

Spec == Init /\ [][Next]_vars

===============================================================================
