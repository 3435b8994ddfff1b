---------------------------- MODULE TaskVerdict ----------------------------
(* What a run_command call promises (D-34): its command ends for one reason*)
(* that never changes afterwards, and that reason is what the model is     *)
(* told.  Several commands may be decided at once (the global stop).       *)
CONSTANTS
    Tasks,      \* run_command calls
    Verdicts    \* the ways a command may end

VARIABLES
    verdict,    \* "unborn", "running", or how the command ended
    told        \* "nothing", or what the tool result said of it

verdictVars == <<verdict, told>>

Init == verdict = [t \in Tasks |-> "unborn"] /\ told = [t \in Tasks |-> "nothing"]

Decided(t) ==
    \/ verdict'[t] = verdict[t]
    \/ verdict[t] = "unborn" /\ verdict'[t] = "running"
    \/ verdict[t] \in {"unborn", "running"} /\ verdict'[t] \in Verdicts

Told(t) ==
    \/ told'[t] = told[t]
    \/ told[t] = "nothing" /\ told'[t] = verdict'[t] /\ verdict'[t] \in Verdicts

Next == \A t \in Tasks : Decided(t) /\ Told(t)

Spec == Init /\ [][Next]_verdictVars
=============================================================================
