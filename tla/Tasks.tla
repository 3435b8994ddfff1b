------------------------------- MODULE Tasks -------------------------------
(* The commands a session runs: the registry (src/src/tools/               *)
(* task-registry.ts), the run_command tool that registers each child       *)
(* process with it (src/src/tools/shell-tool.ts), and the watchdog of the  *)
(* session (src/src/session/session.ts), which asks the model about a      *)
(* command that has run for long.                                          *)
(*                                                                         *)
(* Everything here is a callback: a child exits, its pipes close, a timer  *)
(* fires, an answer of the model arrives, a person presses Kill or Stop.   *)
(* Each runs to its end, listeners of the registry included, so each is    *)
(* one action.                                                             *)
(***************************************************************************)
EXTENDS FiniteSets, Naturals

CONSTANTS
    Tasks,          \* run_command calls
    Overlap,        \* bound: calls that have not returned
    WatchSettings   \* whether watchdogMs is positive, in the configurations a session may adopt

Reasons   == {"user", "stop", "watchdog", "timeout"}
ExitCodes == {"ok", "bad", "null"}      \* null: died of a signal, or never started

ASSUME OverlapAssumption == Overlap \in Nat
ASSUME WatchAssumption == WatchSettings \subseteq BOOLEAN /\ WatchSettings # {}

VARIABLES
    proc,           \* the child: see ProcStates
    status, killReason, exitCode, done,     \* the registry's record of each task
    callTimer,      \* the bound the call set on itself
    watchTimer,     \* watchdogTimers: the task's timer is armed
    asking,         \* the model is being asked to kill or keep it
    result,         \* what run_command returned
    watch           \* watchdogMs > 0

registryVars == <<status, killReason, exitCode, done>>
timerVars    == <<callTimer, watchTimer>>
vars == <<proc, registryVars, timerVars, asking, result, watch>>

(* held: the group is dead, but a process that left it holds the pipes.    *)
(* over: dead, its close event not delivered yet.  failed: never started.  *)
ProcStates == {"none", "alive", "held", "over", "failed", "closed"}
Results    == {"nothing", "ok", "bad", "null"} \cup Reasons

Init ==
    /\ proc = [t \in Tasks |-> "none"]
    /\ status = [t \in Tasks |-> "none"]
    /\ killReason = [t \in Tasks |-> "none"]
    /\ exitCode = [t \in Tasks |-> "none"]
    /\ done = [t \in Tasks |-> FALSE]
    /\ callTimer = [t \in Tasks |-> FALSE]
    /\ watchTimer = [t \in Tasks |-> FALSE]
    /\ asking = [t \in Tasks |-> FALSE]
    /\ result = [t \in Tasks |-> "nothing"]
    /\ watch \in WatchSettings

-----------------------------------------------------------------------------
(* The registry                                                            *)

KillableLate(t) == status[t] # "none" /\ status[t] # "killed"    \* mutant: a finished task is killed
Killable(t) == status[t] # "none" /\ ~done[t] /\ status[t] # "killed"

(* kill, for each of a set of tasks: recorded, then the group is signalled.*)
(* A process that left the group survives and may hold the pipes open.     *)
Kill(S, reason) ==
    LET hit == {t \in S : Killable(t)}
    IN  /\ status' = [t \in Tasks |-> IF t \in hit THEN "killed" ELSE status[t]]
        /\ killReason' = [t \in Tasks |-> IF t \in hit THEN reason ELSE killReason[t]]
        /\ \E left \in SUBSET hit :
             proc' = [t \in Tasks |-> IF t \in hit /\ proc[t] = "alive"
                                      THEN IF t \in left THEN "held" ELSE "over"
                                      ELSE proc[t]]
        /\ UNCHANGED <<exitCode, done>>

(* finish, and the session's listener for task-end                         *)
Disarm(t) == watchTimer' = [watchTimer EXCEPT ![t] = FALSE]
Finish(t, code) ==
    IF done[t] THEN UNCHANGED <<status, exitCode, done, watchTimer>>
    ELSE /\ done' = [done EXCEPT ![t] = TRUE]
         /\ status' = [status EXCEPT ![t] = IF @ # "killed" THEN "exited" ELSE @]
         /\ exitCode' = [exitCode EXCEPT ![t] = IF status[t] # "killed" THEN code ELSE @]
         /\ Disarm(t)

-----------------------------------------------------------------------------
(* run_command                                                             *)

InFlight == {t \in Tasks : status[t] # "none" /\ result[t] = "nothing"}

Start(t) ==
    /\ proc[t] = "none"
    /\ Cardinality(InFlight) < Overlap
    /\ proc' = [proc EXCEPT ![t] = "alive"]
    /\ status' = [status EXCEPT ![t] = "running"]
    /\ \E bounded \in BOOLEAN : callTimer' = [callTimer EXCEPT ![t] = bounded]
    /\ watchTimer' = [watchTimer EXCEPT ![t] = watch]
    /\ UNCHANGED <<killReason, exitCode, done, asking, result, watch>>

(* The error event follows in the same turn of the event loop, before any  *)
(* other callback; close comes later.                                      *)
SpawnFails(t) ==
    /\ proc[t] = "none"
    /\ Cardinality(InFlight) < Overlap
    /\ proc' = [proc EXCEPT ![t] = "failed"]
    /\ Finish(t, "null")
    /\ result' = [result EXCEPT ![t] = "null"]
    /\ UNCHANGED <<killReason, callTimer, asking, watch>>

(* The child exits of itself, or of a signal from outside; what it started *)
(* outside its group may still hold the pipes.                             *)
ChildExits(t) ==
    /\ proc[t] = "alive"
    /\ \E p \in {"held", "over"} : proc' = [proc EXCEPT ![t] = p]
    /\ UNCHANGED <<registryVars, timerVars, asking, result, watch>>

PipesClose(t) ==
    /\ proc[t] = "held"
    /\ proc' = [proc EXCEPT ![t] = "over"]
    /\ UNCHANGED <<registryVars, timerVars, asking, result, watch>>

(* The close event; resolve() does nothing the second time.                *)
Note(t, code) == IF killReason[t] # "none" THEN killReason[t] ELSE code
Closed(t) ==
    /\ proc[t] \in {"over", "failed"}
    /\ proc' = [proc EXCEPT ![t] = "closed"]
    /\ callTimer' = [callTimer EXCEPT ![t] = FALSE]
    /\ \E code \in IF proc[t] = "failed" THEN {"bad"} ELSE ExitCodes :
         /\ Finish(t, code)
         /\ result' = [result EXCEPT ![t] = IF @ = "nothing" THEN Note(t, code) ELSE @]
    /\ UNCHANGED <<killReason, asking, watch>>

CallTimerLapses(t) ==       \* mutant: notes timedOut and kills nothing
    /\ callTimer[t]
    /\ callTimer' = [callTimer EXCEPT ![t] = FALSE]
    /\ UNCHANGED <<proc, registryVars, watchTimer, asking, result, watch>>
CallTimesOut(t) ==
    /\ callTimer[t]
    /\ callTimer' = [callTimer EXCEPT ![t] = FALSE]
    /\ Kill({t}, "timeout")
    /\ UNCHANGED <<watchTimer, asking, result, watch>>

-----------------------------------------------------------------------------
(* The watchdog                                                            *)

WatchdogCheck(t) ==
    /\ watchTimer[t]
    /\ watchTimer' = [watchTimer EXCEPT ![t] = FALSE]
    /\ asking' = [asking EXCEPT ![t] = status[t] = "running"]
    /\ UNCHANGED <<proc, registryVars, callTimer, result, watch>>

(* No decision, and any error, is a "keep".                                *)
EndedMeanwhile(t) == status[t] # "running"

ArmWatchdog(t) == watchTimer' = [watchTimer EXCEPT ![t] = watch]

WatchdogAnswers(t) ==
    /\ asking[t]
    /\ asking' = [asking EXCEPT ![t] = FALSE]
    /\ \/ EndedMeanwhile(t) /\ UNCHANGED <<proc, registryVars, watchTimer>>
       \/ ~EndedMeanwhile(t) /\ Kill({t}, "watchdog") /\ UNCHANGED watchTimer
       \/ /\ ~EndedMeanwhile(t)
          /\ ArmWatchdog(t)
          /\ UNCHANGED <<proc, registryVars>>
    /\ UNCHANGED <<callTimer, result, watch>>

-----------------------------------------------------------------------------
(* The person                                                              *)

KillTask(t) ==
    /\ Killable(t)
    /\ Kill({t}, "user")
    /\ UNCHANGED <<timerVars, asking, result, watch>>

StopHard ==
    /\ Kill(Tasks, "stop")
    /\ UNCHANGED <<timerVars, asking, result, watch>>

AdoptConfig ==
    /\ watch' \in WatchSettings
    /\ UNCHANGED <<proc, registryVars, timerVars, asking, result>>

-----------------------------------------------------------------------------
Next ==
    \/ \E t \in Tasks :
         \/ Start(t) \/ SpawnFails(t) \/ ChildExits(t) \/ PipesClose(t) \/ Closed(t)
         \/ CallTimesOut(t) \/ WatchdogCheck(t) \/ WatchdogAnswers(t) \/ KillTask(t)
    \/ StopHard
    \/ AdoptConfig

Spec == Init /\ [][Next]_vars

(* Timers fire, the model answers or errors, a close event is delivered.   *)
(* A command owes nothing: it may run, or hold its pipes, for ever.        *)
TasksFairness ==
    \A t \in Tasks : /\ WF_vars(CallTimesOut(t)) /\ WF_vars(WatchdogCheck(t))
                     /\ WF_vars(WatchdogAnswers(t)) /\ WF_vars(Closed(t))

-----------------------------------------------------------------------------
(* Properties                                                              *)

TypeOK ==
    /\ proc \in [Tasks -> ProcStates]
    /\ status \in [Tasks -> {"none", "running", "exited", "killed"}]
    /\ killReason \in [Tasks -> {"none"} \cup Reasons]
    /\ exitCode \in [Tasks -> {"none"} \cup ExitCodes]
    /\ done \in [Tasks -> BOOLEAN]
    /\ callTimer \in [Tasks -> BOOLEAN] /\ watchTimer \in [Tasks -> BOOLEAN]
    /\ asking \in [Tasks -> BOOLEAN]
    /\ result \in [Tasks -> Results]
    /\ watch \in BOOLEAN

(* A task has one clock at most: its timer is armed or the model is being  *)
(* asked, never both, and no timer outlives the task (armWatchdog,         *)
(* disarmWatchdog, watchdogCheck; clearTimeout in run_command).            *)
OneClock ==
    \A t \in Tasks : /\ watchTimer[t] => ~asking[t] /\ ~done[t]
                     /\ callTimer[t] => ~done[t]

(* A command under watch leaves it only by ending, or because the watchdog *)
(* is switched off: a "keep", an error, a lost answer never let it slip out*)
(* of the rounds (D-34c, "re-ask after another interval").                 *)
Watched(t) == watchTimer[t] \/ asking[t]
NeverSlipsOut ==
    [][\A t \in Tasks : Watched(t) /\ status'[t] = "running" /\ watch => Watched(t)']_vars

(* The registry and the tool results do what TaskVerdict says: one reason, *)
(* decided once, told as it was decided, whoever kills, stops, times out or*)
(* exits at the same time ("the child's later close is idempotent").       *)
Verdict(t) ==
    CASE status[t] = "none" -> "unborn"
      [] status[t] = "running" -> "running"
      [] status[t] = "killed" -> killReason[t]
      [] status[t] = "exited" -> exitCode[t]
Promise == INSTANCE TaskVerdict WITH Verdicts <- Reasons \cup ExitCodes,
                                     verdict <- [t \in Tasks |-> Verdict(t)], told <- result
ImplementsTaskVerdict == Promise!Spec

(* A call that bounded itself comes back ("you get the output collected so *)
(* far"), and so does one that was killed, unless a process outside the    *)
(* group holds its pipes.                                                  *)
CallReturns ==
    \A t \in Tasks :
        callTimer[t] \/ status[t] = "killed" ~> result[t] # "nothing" \/ proc[t] = "held"
=============================================================================
