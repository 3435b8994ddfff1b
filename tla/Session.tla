------------------------------ MODULE Session ------------------------------
(***************************************************************************)
(* The agent loop of one session (src/src/session/session.ts), driven by   *)
(* the routes of the HTTP server (src/src/server/server.ts).               *)
(*                                                                         *)
(* JavaScript runs a callback to completion, so the unit of interleaving   *)
(* is the stretch of code between two awaits.  An ACTIVATION is one call   *)
(* of a Session method that has not returned yet: act[f].pc says at which  *)
(* await it is parked (AwaitPcs) or which synchronous stretch it is about  *)
(* to execute (StretchPcs).  While some activation is inside a stretch     *)
(* nobody else moves; when all are parked (Quiet) a person may call any    *)
(* method, and any await may complete.                                     *)
(*                                                                         *)
(* Abstractions: an entry of the tree keeps its kind, its parent and what  *)
(* it answers or summarizes; a queued message is a unit; a model call      *)
(* costs one unit; which call is refused by the gate, pauses, or runs is   *)
(* the kind the model gave it; when a title is due is left open.           *)
(***************************************************************************)
EXTENDS Integers, Sequences, FiniteSets

CONSTANTS
    Activations,        \* how many calls of Session methods may overlap
    NoActivation,       \* model value: no AbortController was created yet
    Ops,                \* the operations the person uses in this instance
    CallKinds,          \* kinds of tool calls the model may issue
    ModelErrors,        \* ways a model request may fail
    AutoTitle,          \* SessionOptions.autoTitle
    TriggerModes,       \* compaction trigger modes the session may be in
    Configs,            \* model configurations the server may resolve
    MaxToolIterations,  \* tool rounds granted per user message
    MaxFailures,        \* consecutive failures that trip the breaker
    MaxAutoRetries,     \* automatic re-sends of a transient failure
    Caps,               \* spend caps a person may set
    MaxSpend,           \* bound: spend saturates here, above every cap
    MaxCalls,           \* bound: tool calls in one assistant message
    MaxEntries,         \* bound: a person adds nothing to a conversation this long
    MaxQueue,           \* bound: queued messages
    MaxBudget           \* bound: Continue is offered up to this budget

AllCallKinds == {"run", "throws", "refused", "approval", "approval-throws", "question"}
Throwing     == {"throws", "approval-throws"}    \* the tool's execute rejects
AllErrors    == {"over-window", "transient", "permanent", "length"}   \* length: cut off at max_tokens

ASSUME ActivationsAssumption == NoActivation \notin Activations
ASSUME KindsAssumption == CallKinds \subseteq AllCallKinds /\ ModelErrors \subseteq AllErrors
ASSUME BoundsAssumption ==
    /\ MaxToolIterations \in Nat /\ MaxFailures \in Nat /\ MaxAutoRetries \in Nat
    /\ MaxSpend \in Nat /\ MaxCalls \in Nat /\ MaxEntries \in Nat
    /\ MaxQueue \in Nat /\ MaxBudget \in Nat
    /\ Caps \subseteq 0 .. MaxSpend
ASSUME SettingsAssumption ==
    /\ AutoTitle \in BOOLEAN
    /\ TriggerModes \subseteq {"auto", "cancelable", "hard", "manual"}

VARIABLES
    status, stopScope, pendingToolCalls,
    entries, activeLeaf, turnLeaf,
    pendingApproval, pendingQuestion, pendingCompaction, pendingStall, pendingPersistence,
    queue, pendingNote,
    spendUsd, spendCapUsd, capReached,
    toolRounds, iterationBudget,
    retryable, consecutiveFailures,
    config, triggerMode, needsCompaction,
    restartRequested, streaming, abortController,
    act,        \* the activations of the session's async methods
    stopped     \* history: a stop was accepted and nobody has resumed the turn since

convVars    == <<entries, activeLeaf, turnLeaf>>
cardVars    == <<pendingApproval, pendingQuestion, pendingCompaction, pendingStall, pendingPersistence>>
inputVars   == <<queue, pendingNote>>
spendVars   == <<spendUsd, spendCapUsd, capReached>>
budgetVars  == <<toolRounds, iterationBudget>>
healthVars  == <<retryable, consecutiveFailures>>
settingVars == <<config, triggerMode, needsCompaction>>
requestVars == <<restartRequested, streaming, abortController>>
vars == <<status, stopScope, pendingToolCalls, convVars, cardVars, inputVars, spendVars,
          budgetVars, healthVars, settingVars, requestVars, act, stopped>>

-----------------------------------------------------------------------------
(* Entries, leaves and activations                                         *)

Root     == 0                   \* "null": above the first entry
Unpinned == -1                  \* turnLeaf undefined: no turn is in flight
NoCap    == MaxSpend + 1        \* spendCapUsd undefined

Call == [asst : Nat, idx : Nat, kind : AllCallKinds]
NoCall == [asst |-> 0, idx |-> 0, kind |-> "refused"]

(* of: the assistant entry a tool result answers, the leaf a compaction    *)
(* summarized.  n: calls an assistant entry issues, index of a tool result.*)
Entry == [kind : {"user", "assistant", "tool", "compaction"}, parent : Nat, of : Nat, n : Nat]

Waiting == {"awaiting-approval", "awaiting-input", "awaiting-compaction", "awaiting-continue"}
Statuses == {"idle", "running", "halted", "awaiting-persistence"} \cup Waiting

LoopAwaits  == {"tool", "llm", "backoff", "autoCompact", "forcedCompact", "loopTitle"}
AwaitPcs    == LoopAwaits \cup {"approvedTool", "resolvedCompact", "compactNow", "settleTitle", "retryWrites"}
LoopStretches == {"run", "top", "drain", "boundary", "title", "request", "settled"}
StretchPcs  == LoopStretches \cup {"drainQueue", "exit"}

Activation == [pc : {"free"} \cup AwaitPcs \cup StretchPcs, call : Call, attempt : Nat,
               again : BOOLEAN, leaf : Nat, aborted : BOOLEAN]
Fresh == [pc |-> "free", call |-> NoCall, attempt |-> 0, again |-> FALSE, leaf |-> Root, aborted |-> FALSE]

Goto(f, p) == act' = [act EXCEPT ![f] = [Fresh EXCEPT !.pc = p]]
Quiet == \A f \in Activations : act[f].pc \notin StretchPcs

WorkingLeaf == IF turnLeaf # Unpinned THEN turnLeaf ELSE activeLeaf

(* appendEntry and pushEntry for a chain of k entries built by e(i, parent)*)
Append1(e) ==
    /\ entries' = Append(entries, e)
    /\ activeLeaf' = IF WorkingLeaf = activeLeaf THEN Len(entries) + 1 ELSE activeLeaf
    /\ turnLeaf' = IF turnLeaf # Unpinned THEN Len(entries) + 1 ELSE Unpinned

PushAssistant(n) == Append1([kind |-> "assistant", parent |-> WorkingLeaf, of |-> 0, n |-> n])
PushResult(c)    == Append1([kind |-> "tool", parent |-> WorkingLeaf, of |-> c.asst, n |-> c.idx])
PushCompactionInView(leaf) ==   \* mutant: follows the reader's pointer
    Append1([kind |-> "compaction", parent |-> activeLeaf, of |-> leaf, n |-> 0])
PushCompaction(leaf) == Append1([kind |-> "compaction", parent |-> WorkingLeaf, of |-> leaf, n |-> 0])

PushUsersAt(k, last) ==
    /\ entries' = entries \o [i \in 1 .. k |->
                     [kind |-> "user", of |-> 0, n |-> 0,
                      parent |-> IF i = 1 THEN WorkingLeaf ELSE Len(entries) + i - 1]]
    /\ activeLeaf' = IF k > 0 /\ WorkingLeaf = activeLeaf THEN last ELSE activeLeaf
    /\ turnLeaf' = IF k > 0 /\ turnLeaf # Unpinned THEN last ELSE turnLeaf
PushUsers(k) == PushUsersAt(k, Len(entries) + k)

(* pendingToolCalls.shift() on a possibly emptied array *)
Shift == pendingToolCalls' = IF pendingToolCalls = <<>> THEN <<>> ELSE Tail(pendingToolCalls)

CapBlockedAbove == spendUsd > spendCapUsd       \* mutant: "at" the cap still calls
CapBlocked == spendUsd >= spendCapUsd
Spend == spendUsd' = IF spendUsd < MaxSpend THEN spendUsd + 1 ELSE MaxSpend
Room(k) == Len(entries) + k <= MaxEntries

Settled == IF pendingPersistence THEN "awaiting-persistence" ELSE "idle"
SettleStopped == stopScope' = "none" /\ status' = Settled

SettleKeepingStop == status' = "idle" /\ UNCHANGED stopScope       \* mutant: a stop on the last turn outlives it
SettleStillRunning == stopScope' = "none" /\ UNCHANGED status      \* mutant: the loop returns as it was
SettleNormally == stopScope' = "none" /\ status' = "idle"

(* drainQueue: a turn may be opened from the queue.                        *)
MayDrainUnpinned ==     \* mutant: asks for "no turn in flight" before the pin is released
    status = "idle" /\ stopScope = "none" /\ ~capReached /\ turnLeaf = Unpinned
MayDrain == status = "idle" /\ stopScope = "none" /\ ~capReached

(* advance: the turn is suspended and will be resumed, so its pin stays.   *)
SuspendedUnlessIdle == status # "idle" \/ capReached                  \* mutant: a halted turn keeps its pin
Suspended == status \in Waiting \/ capReached

(* backOff: the wait is cut short.                                         *)
InterruptedByRetry == restartRequested                                 \* mutant: deaf to Stop
Interrupted == stopScope # "none" \/ restartRequested

BreakerTrips == consecutiveFailures + 1 >= MaxFailures

(* A fresh message is a fresh turn: its tool-round budget starts over.     *)
FreshBudgetKeepsStall ==    \* mutant: the Continue card survives
    toolRounds' = 0 /\ iterationBudget' = MaxToolIterations /\ UNCHANGED pendingStall
FreshBudget == toolRounds' = 0 /\ iterationBudget' = MaxToolIterations /\ pendingStall' = 0

HasAnswer == \E i \in 1 .. Len(entries) : entries[i].kind = "assistant"
EndsUnanswered(leaf) == leaf \in 1 .. Len(entries) /\ entries[leaf].kind = "assistant" /\ entries[leaf].n > 0
TitleMayBeAsked == AutoTitle /\ HasAnswer /\ ~CapBlocked /\ ~EndsUnanswered(WorkingLeaf)

-----------------------------------------------------------------------------
(* runLoop: synchronous stretches                                          *)

FlushPendingUser ==
    LET note == IF pendingNote THEN 1 ELSE 0
        held == IF stopScope = "none" THEN queue ELSE 0
    IN  /\ PushUsers(note + held)
        /\ pendingNote' = FALSE
        /\ queue' = IF stopScope = "none" THEN 0 ELSE queue

FlushAtOnce == FlushPendingUser         \* mutant: over an outstanding batch
FlushIfDrained == IF pendingToolCalls = <<>> THEN FlushPendingUser ELSE UNCHANGED <<convVars, inputVars>>

StartLoop(f) ==
    /\ act[f].pc = "run"
    /\ status' = "running"
    /\ Goto(f, "top")
    /\ FlushIfDrained
    /\ UNCHANGED <<stopScope, pendingToolCalls, cardVars, spendVars, budgetVars, healthVars,
                   settingVars, requestVars, stopped>>

ObserveStop(f) ==
    /\ act[f].pc \in {"top", "boundary"}
    /\ stopScope # "none"
    /\ SettleStopped
    /\ Goto(f, "exit")
    /\ UNCHANGED <<pendingToolCalls, convVars, cardVars, inputVars, spendVars, budgetVars,
                   healthVars, settingVars, requestVars, stopped>>

Draining(f) == act[f].pc = "drain" \/ (act[f].pc = "top" /\ stopScope = "none")
HeadIs(f, kind) == Draining(f) /\ pendingToolCalls # <<>> /\ Head(pendingToolCalls).kind = kind

BatchDrained(f) ==
    /\ Draining(f)
    /\ pendingToolCalls = <<>>
    /\ FlushPendingUser
    /\ Goto(f, "boundary")
    /\ UNCHANGED <<status, stopScope, pendingToolCalls, cardVars, spendVars, budgetVars,
                   healthVars, settingVars, requestVars, stopped>>

(* Unparsable arguments, an unknown tool or a gate denial: an error result *)
(* lands at once and the batch goes on.                                    *)
RefuseCall(f) ==
    /\ HeadIs(f, "refused")
    /\ PushResult(Head(pendingToolCalls))
    /\ Shift
    /\ Goto(f, "drain")
    /\ UNCHANGED <<status, stopScope, cardVars, inputVars, spendVars, budgetVars, healthVars,
                   settingVars, requestVars, stopped>>

PauseForApproval(f) ==
    /\ HeadIs(f, "approval") \/ HeadIs(f, "approval-throws")
    /\ pendingApproval' = Head(pendingToolCalls)
    /\ status' = "awaiting-approval"
    /\ Goto(f, "exit")
    /\ UNCHANGED <<stopScope, pendingToolCalls, convVars, pendingQuestion, pendingCompaction,
                   pendingStall, pendingPersistence, inputVars, spendVars, budgetVars, healthVars,
                   settingVars, requestVars, stopped>>

PauseForInput(f) ==
    /\ HeadIs(f, "question")
    /\ pendingQuestion' = Head(pendingToolCalls)
    /\ status' = "awaiting-input"
    /\ Goto(f, "exit")
    /\ UNCHANGED <<stopScope, pendingToolCalls, convVars, pendingApproval, pendingCompaction,
                   pendingStall, pendingPersistence, inputVars, spendVars, budgetVars, healthVars,
                   settingVars, requestVars, stopped>>

StartTool(f) ==
    /\ HeadIs(f, "run") \/ HeadIs(f, "throws")
    /\ act' = [act EXCEPT ![f] = [Fresh EXCEPT !.pc = "tool", !.call = Head(pendingToolCalls)]]
    /\ UNCHANGED <<status, stopScope, pendingToolCalls, convVars, cardVars, inputVars, spendVars,
                   budgetVars, healthVars, settingVars, requestVars, stopped>>

AtBoundary(f) == act[f].pc = "boundary" /\ stopScope = "none"

DeclineAtCap(f) ==
    /\ AtBoundary(f)
    /\ CapBlocked
    /\ capReached' = TRUE
    /\ status' = "idle"
    /\ Goto(f, "exit")
    /\ UNCHANGED <<stopScope, pendingToolCalls, convVars, cardVars, inputVars, spendUsd, spendCapUsd,
                   budgetVars, healthVars, settingVars, requestVars, stopped>>

RaiseStallPause(f) ==
    /\ AtBoundary(f)
    /\ ~CapBlocked
    /\ toolRounds >= iterationBudget
    /\ pendingStall' = 2 * iterationBudget
    /\ status' = "awaiting-continue"
    /\ Goto(f, "exit")
    /\ UNCHANGED <<stopScope, pendingToolCalls, convVars, pendingApproval, pendingQuestion,
                   pendingCompaction, pendingPersistence, inputVars, spendVars, budgetVars,
                   healthVars, settingVars, requestVars, stopped>>

ToSend(f) == AtBoundary(f) /\ ~CapBlocked /\ toolRounds < iterationBudget

RaiseCompactionPause(f) ==
    /\ ToSend(f)
    /\ needsCompaction /\ triggerMode \in {"cancelable", "hard"}
    /\ pendingCompaction' = triggerMode
    /\ status' = "awaiting-compaction"
    /\ Goto(f, "exit")
    /\ UNCHANGED <<stopScope, pendingToolCalls, convVars, pendingApproval, pendingQuestion,
                   pendingStall, pendingPersistence, inputVars, spendVars, budgetVars, healthVars,
                   settingVars, requestVars, stopped>>

StartAutoCompact(f) ==
    /\ ToSend(f)
    /\ needsCompaction /\ triggerMode = "auto"
    /\ act' = [act EXCEPT ![f] = [Fresh EXCEPT !.pc = "autoCompact", !.leaf = WorkingLeaf]]
    /\ abortController' = f
    /\ UNCHANGED <<status, stopScope, pendingToolCalls, convVars, cardVars, inputVars, spendVars,
                   budgetVars, healthVars, settingVars, restartRequested, streaming, stopped>>

ProceedToSend(f) ==
    /\ ToSend(f)
    /\ ~needsCompaction \/ triggerMode = "manual"
    /\ Goto(f, "title")
    /\ UNCHANGED <<status, stopScope, pendingToolCalls, convVars, cardVars, inputVars, spendVars,
                   budgetVars, healthVars, settingVars, requestVars, stopped>>

AskLoopTitle(f) ==
    /\ act[f].pc = "title"
    /\ TitleMayBeAsked
    /\ Goto(f, "loopTitle")
    /\ UNCHANGED <<status, stopScope, pendingToolCalls, convVars, cardVars, inputVars, spendVars,
                   budgetVars, healthVars, settingVars, requestVars, stopped>>

(* buildRequest and driver.streamChat of a first attempt *)
SendRequest(f) ==
    /\ act[f].pc \in {"title", "request"}
    /\ act' = [act EXCEPT ![f] = [Fresh EXCEPT !.pc = "llm", !.attempt = 1]]
    /\ streaming' = TRUE
    /\ abortController' = f
    /\ UNCHANGED <<status, stopScope, pendingToolCalls, convVars, cardVars, inputVars, spendVars,
                   budgetVars, healthVars, settingVars, restartRequested, stopped>>

(* The run ended with a final answer.  maybeAutoTitle may park here, with  *)
(* the session already idle.                                               *)
Settle(f) ==
    /\ act[f].pc = "settled"
    /\ SettleNormally
    /\ \/ TitleMayBeAsked /\ Goto(f, "settleTitle")
       \/ Goto(f, "drainQueue")
    /\ UNCHANGED <<pendingToolCalls, convVars, cardVars, inputVars, spendVars, budgetVars,
                   healthVars, settingVars, requestVars, stopped>>

(* send() after assertCanSend: pin the branch in view, append the message, *)
(* enter the loop.  base is the leaf in view when the turn opens.          *)
OpenTurn(f, base) ==
    LET new == Len(entries) + 1 IN
    /\ stopScope' = "none"
    /\ retryable' = FALSE
    /\ FreshBudget
    /\ entries' = Append(entries, [kind |-> "user", parent |-> base, of |-> 0, n |-> 0])
    /\ activeLeaf' = new /\ turnLeaf' = new
    /\ pendingToolCalls' = <<>>
    /\ Goto(f, "run")
    /\ UNCHANGED <<status, pendingApproval, pendingQuestion, pendingCompaction, pendingPersistence,
                   pendingNote, spendVars, consecutiveFailures, triggerMode, requestVars>>

DrainQueue(f) ==
    /\ act[f].pc = "drainQueue"
    /\ IF MayDrain /\ queue > 0
         THEN OpenTurn(f, activeLeaf) /\ queue' = queue - 1 /\ UNCHANGED <<config, needsCompaction>>
         ELSE /\ Goto(f, "exit")
              /\ UNCHANGED <<status, stopScope, pendingToolCalls, convVars, cardVars, inputVars,
                             spendVars, budgetVars, healthVars, settingVars, requestVars>>
    /\ UNCHANGED stopped

(* The finally of advance(): release the pin unless the turn is suspended. *)
Exit(f) ==
    /\ act[f].pc = "exit"
    /\ turnLeaf' = IF Suspended THEN turnLeaf ELSE Unpinned
    /\ Goto(f, "free")
    /\ UNCHANGED <<status, stopScope, pendingToolCalls, entries, activeLeaf, cardVars, inputVars,
                   spendVars, budgetVars, healthVars, settingVars, requestVars, stopped>>

-----------------------------------------------------------------------------
(* Completions of awaits                                                   *)

ToolReturns(f) ==
    /\ act[f].pc = "tool" /\ act[f].call.kind \notin Throwing
    /\ PushResult(act[f].call)
    /\ IF stopScope = "hard"
         THEN SettleStopped /\ Goto(f, "exit") /\ UNCHANGED pendingToolCalls
         ELSE Shift /\ Goto(f, "drain") /\ UNCHANGED <<status, stopScope>>
    /\ UNCHANGED <<cardVars, inputVars, spendVars, budgetVars, healthVars, settingVars,
                   requestVars, stopped>>

(* tryExecute has no catch: the exception leaves runLoop through advance's *)
(* finally, with status as it was.                                         *)
ToolThrows(f) ==
    /\ act[f].pc = "tool" /\ act[f].call.kind \in Throwing
    /\ Goto(f, "exit")
    /\ UNCHANGED <<status, stopScope, pendingToolCalls, convVars, cardVars, inputVars, spendVars,
                   budgetVars, healthVars, settingVars, requestVars, stopped>>

(* compact() resolves.  ok: a summary came back and its overlay lands on   *)
(* the branch the session works on now.                                    *)
CompactionOutcome(f, ok) ==
    IF ok THEN PushCompaction(act[f].leaf) /\ Spend ELSE UNCHANGED <<convVars, spendUsd>>

AutoCompactEnds(f, ok) ==
    /\ act[f].pc = "autoCompact"
    /\ CompactionOutcome(f, ok)
    /\ IF stopScope # "none"
         THEN /\ SettleStopped /\ Goto(f, "exit")
              /\ needsCompaction' = IF ok THEN FALSE ELSE needsCompaction
         ELSE Goto(f, "title") /\ needsCompaction' = FALSE /\ UNCHANGED <<status, stopScope>>
    /\ UNCHANGED <<pendingToolCalls, cardVars, inputVars, spendCapUsd, capReached, budgetVars,
                   healthVars, config, triggerMode, requestVars, stopped>>

LoopTitleEnds(f, ok) ==
    /\ act[f].pc = "loopTitle"
    /\ IF ok THEN Spend ELSE UNCHANGED spendUsd
    /\ Goto(f, "request")
    /\ UNCHANGED <<status, stopScope, pendingToolCalls, convVars, cardVars, inputVars, spendCapUsd,
                   capReached, budgetVars, healthVars, settingVars, requestVars, stopped>>

SettleTitleEnds(f, ok) ==
    /\ act[f].pc = "settleTitle"
    /\ IF ok THEN Spend ELSE UNCHANGED spendUsd
    /\ Goto(f, "drainQueue")
    /\ UNCHANGED <<status, stopScope, pendingToolCalls, convVars, cardVars, inputVars, spendCapUsd,
                   capReached, budgetVars, healthVars, settingVars, requestVars, stopped>>

(* The attempt produced no result: a pending Retry re-sends it, otherwise  *)
(* the round is spent and the loop returns.  st: status left by the attempt*)
NoResult(f, st) ==
    IF restartRequested
      THEN /\ restartRequested' = FALSE
           /\ status' = st
           /\ Goto(f, "request")
           /\ UNCHANGED <<stopScope, toolRounds>>
      ELSE /\ toolRounds' = toolRounds + 1
           /\ Goto(f, "exit")
           /\ IF stopScope # "none" THEN SettleStopped ELSE status' = st /\ UNCHANGED stopScope
           /\ UNCHANGED restartRequested

(* The stream ended with an answer: kinds is the tool batch it issues.     *)
AnswerLands(f, kinds, truncated) ==
    LET asst == Len(entries) + 1 IN
    /\ act[f].pc = "llm"
    /\ PushAssistant(Len(kinds))
    /\ consecutiveFailures' = 0 /\ retryable' = FALSE
    /\ Spend
    /\ \E over \in BOOLEAN : needsCompaction' = (needsCompaction \/ over)
    /\ streaming' = FALSE /\ restartRequested' = FALSE
    /\ toolRounds' = toolRounds + 1
    /\ IF truncated \/ kinds = <<>>
         THEN Goto(f, "settled") /\ UNCHANGED pendingToolCalls
         ELSE /\ Goto(f, "top")
              /\ pendingToolCalls' = [i \in 1 .. Len(kinds) |-> [asst |-> asst, idx |-> i, kind |-> kinds[i]]]
    /\ UNCHANGED <<status, stopScope, cardVars, inputVars, spendCapUsd, capReached, iterationBudget,
                   config, triggerMode, abortController, stopped>>

(* An error under a pending Retry, a hard stop or an abort is not a failure*)
Discounted(f) == restartRequested \/ stopScope = "hard" \/ act[f].aborted

RequestUnwinds(f) ==
    /\ act[f].pc = "llm"
    /\ Discounted(f)
    /\ streaming' = FALSE
    /\ NoResult(f, status)
    /\ UNCHANGED <<pendingToolCalls, convVars, cardVars, inputVars, spendVars, iterationBudget,
                   healthVars, settingVars, abortController, stopped>>

RequestOverWindow(f) ==
    /\ act[f].pc = "llm" /\ ~Discounted(f) /\ "over-window" \in ModelErrors
    /\ streaming' = FALSE
    /\ IF act[f].again
         THEN NoResult(f, "idle") /\ UNCHANGED <<needsCompaction, abortController>>
         ELSE /\ needsCompaction' = TRUE
              /\ IF stopScope # "none"
                   THEN NoResult(f, status) /\ UNCHANGED abortController
                   ELSE /\ act' = [act EXCEPT ![f] = [Fresh EXCEPT !.pc = "forcedCompact", !.leaf = WorkingLeaf]]
                        /\ abortController' = f
                        /\ UNCHANGED <<status, stopScope, toolRounds, restartRequested>>
    /\ UNCHANGED <<pendingToolCalls, convVars, cardVars, inputVars, spendVars, iterationBudget,
                   healthVars, config, triggerMode, stopped>>

(* The forced compaction of a rejected request, then one more attempt.     *)
ForcedCompactEnds(f, ok) ==
    /\ act[f].pc = "forcedCompact"
    /\ CompactionOutcome(f, ok)
    /\ needsCompaction' = IF ok THEN FALSE ELSE needsCompaction
    /\ IF stopScope # "none" \/ ~ok
         THEN /\ NoResult(f, IF stopScope # "none" THEN status ELSE "idle")
              /\ UNCHANGED <<streaming, abortController>>
         ELSE /\ act' = [act EXCEPT ![f] = [Fresh EXCEPT !.pc = "llm", !.attempt = 1, !.again = TRUE]]
              /\ streaming' = TRUE /\ abortController' = f
              /\ UNCHANGED <<status, stopScope, toolRounds, restartRequested>>
    /\ UNCHANGED <<pendingToolCalls, cardVars, inputVars, spendCapUsd, capReached, iterationBudget,
                   healthVars, config, triggerMode, stopped>>

RequestTransient(f) ==
    /\ act[f].pc = "llm" /\ ~Discounted(f) /\ "transient" \in ModelErrors
    /\ act[f].attempt <= MaxAutoRetries
    /\ act' = [act EXCEPT ![f] = [@ EXCEPT !.pc = "backoff"]]   \* streaming stays set: finally runs after the wait
    /\ UNCHANGED <<status, stopScope, pendingToolCalls, convVars, cardVars, inputVars, spendVars,
                   budgetVars, healthVars, settingVars, requestVars, stopped>>

BackOffEnds(f) ==
    /\ act[f].pc = "backoff"
    /\ IF Interrupted
         THEN NoResult(f, status) /\ streaming' = FALSE /\ UNCHANGED abortController
         ELSE /\ act' = [act EXCEPT ![f] = [Fresh EXCEPT !.pc = "llm", !.attempt = act[f].attempt + 1,
                                                                         !.again = act[f].again]]
              /\ streaming' = TRUE /\ abortController' = f
              /\ UNCHANGED <<status, stopScope, toolRounds, restartRequested>>
    /\ UNCHANGED <<pendingToolCalls, convVars, cardVars, inputVars, spendVars, iterationBudget,
                   healthVars, settingVars, stopped>>

RequestFails(f) ==
    /\ act[f].pc = "llm" /\ ~Discounted(f)
    /\ \/ "permanent" \in ModelErrors
       \/ "transient" \in ModelErrors /\ act[f].attempt > MaxAutoRetries
    /\ consecutiveFailures' = consecutiveFailures + 1
    /\ retryable' = TRUE
    /\ streaming' = FALSE
    /\ NoResult(f, IF BreakerTrips THEN "halted" ELSE "idle")
    /\ UNCHANGED <<pendingToolCalls, convVars, cardVars, inputVars, spendVars, iterationBudget,
                   settingVars, abortController, stopped>>

ApprovedToolReturns(f) ==
    /\ act[f].pc = "approvedTool" /\ act[f].call.kind \notin Throwing
    /\ PushResult(act[f].call)
    /\ Shift
    /\ Goto(f, "run")
    /\ UNCHANGED <<status, stopScope, cardVars, inputVars, spendVars, budgetVars, healthVars,
                   settingVars, requestVars, stopped>>

(* approve() rejects before its shift and advance.                         *)
ApprovedToolThrows(f) ==
    /\ act[f].pc = "approvedTool" /\ act[f].call.kind \in Throwing
    /\ Goto(f, "free")
    /\ UNCHANGED <<status, stopScope, pendingToolCalls, convVars, cardVars, inputVars, spendVars,
                   budgetVars, healthVars, settingVars, requestVars, stopped>>

ResolvedCompactEnds(f, ok) ==
    /\ act[f].pc = "resolvedCompact"
    /\ CompactionOutcome(f, ok)
    /\ IF stopScope # "none"
         THEN /\ SettleStopped /\ Goto(f, "free")
              /\ needsCompaction' = IF ok THEN FALSE ELSE needsCompaction
         ELSE Goto(f, "run") /\ needsCompaction' = FALSE /\ UNCHANGED <<status, stopScope>>
    /\ UNCHANGED <<pendingToolCalls, cardVars, inputVars, spendCapUsd, capReached, budgetVars,
                   healthVars, config, triggerMode, requestVars, stopped>>

CompactNowEnds(f, ok) ==
    /\ act[f].pc = "compactNow"
    /\ CompactionOutcome(f, ok)
    /\ needsCompaction' = IF ok THEN FALSE ELSE needsCompaction
    /\ Goto(f, "free")
    /\ UNCHANGED <<status, stopScope, pendingToolCalls, cardVars, inputVars, spendCapUsd, capReached,
                   budgetVars, healthVars, config, triggerMode, requestVars, stopped>>

RetryWritesForgets(f, ok) ==    \* mutant: the fault is cleared before the outcome is known
    /\ act[f].pc = "retryWrites"
    /\ Goto(f, "free")
    /\ pendingPersistence' = FALSE
    /\ status' = IF ok THEN "idle" ELSE status
    /\ UNCHANGED <<stopScope, pendingToolCalls, convVars, pendingApproval, pendingQuestion,
                   pendingCompaction, pendingStall, inputVars, spendVars, budgetVars, healthVars,
                   settingVars, requestVars, stopped>>

RetryWritesEnds(f, ok) ==
    /\ act[f].pc = "retryWrites"
    /\ Goto(f, "free")
    /\ pendingPersistence' = ~ok
    /\ status' = IF ok THEN "idle" ELSE status
    /\ UNCHANGED <<stopScope, pendingToolCalls, convVars, pendingApproval, pendingQuestion,
                   pendingCompaction, pendingStall, inputVars, spendVars, budgetVars, healthVars,
                   settingVars, requestVars, stopped>>

-----------------------------------------------------------------------------
(* What a person may do.  Each route checks the status it names before it  *)
(* calls the session; Free picks an activation for a call that awaits.     *)

Asked(op) == op \in Ops /\ Quiet
Free(f) == act[f].pc = "free"
CanSendUnlessHalted == status # "halted"                               \* mutant: a busy session takes a turn
CanSend == status \in {"idle", "awaiting-continue"}

(* The browser edits user messages and rewinds to the tip of a sibling     *)
(* branch; the routes themselves take any entry ("anyEntry").              *)
IsTip(leaf) == \A i \in 1 .. Len(entries) : entries[i].parent # leaf

(* adoptLatestConfig on the chat and queue routes: c is what the server    *)
(* resolves now.  adoptConfig declines unless the session is idle.         *)
AdoptAlways(c) ==           \* mutant: adopts mid-turn
    config' = c /\ needsCompaction' = IF c # config THEN FALSE ELSE needsCompaction
AdoptConfig(c) ==
    IF status = "idle" /\ c # config
      THEN config' = c /\ needsCompaction' = FALSE
      ELSE UNCHANGED <<config, needsCompaction>>

Send(f, c) ==
    /\ Asked("send") /\ Free(f) /\ CanSend /\ Room(1)
    /\ AdoptConfig(c)
    /\ OpenTurn(f, activeLeaf)
    /\ stopped' = FALSE
    /\ UNCHANGED queue

EditFork(f, e) ==
    /\ Asked("edit") /\ Free(f) /\ CanSend /\ Room(1)
    /\ entries[e].kind = "user" \/ "anyEntry" \in Ops
    /\ OpenTurn(f, entries[e].parent)
    /\ stopped' = FALSE
    /\ UNCHANGED <<queue, config, needsCompaction>>

SetActiveLeaf(leaf) ==
    /\ Asked("rewind")
    /\ IsTip(leaf) \/ "anyEntry" \in Ops
    /\ activeLeaf' = leaf
    /\ UNCHANGED <<status, stopScope, pendingToolCalls, entries, turnLeaf, cardVars, inputVars,
                   spendVars, budgetVars, healthVars, settingVars, requestVars, act, stopped>>

Enqueue(f, c) ==
    /\ Asked("enqueue") /\ Room(queue + 1)
    /\ AdoptConfig(c)
    /\ IF MayDrain
         THEN Free(f) /\ OpenTurn(f, activeLeaf) /\ stopped' = FALSE /\ UNCHANGED queue
         ELSE /\ queue < MaxQueue
              /\ queue' = queue + 1
              /\ iterationBudget' = IF config' # config THEN MaxToolIterations ELSE iterationBudget
              /\ UNCHANGED <<status, stopScope, pendingToolCalls, convVars, cardVars, pendingNote,
                             spendVars, toolRounds, healthVars, triggerMode, requestVars, act, stopped>>

(* A machine-written notice (todoNotice) is parked: it opens no turn.      *)
ParkNotice ==
    /\ Asked("notice") /\ queue < MaxQueue /\ Room(queue + 1)
    /\ queue' = queue + 1
    /\ UNCHANGED <<status, stopScope, pendingToolCalls, convVars, cardVars, pendingNote, spendVars,
                   budgetVars, healthVars, settingVars, requestVars, act, stopped>>

SetQueue(k) ==
    /\ Asked("setQueue") /\ Room(k)
    /\ queue' = k
    /\ UNCHANGED <<status, stopScope, pendingToolCalls, convVars, cardVars, pendingNote, spendVars,
                   budgetVars, healthVars, settingVars, requestVars, act, stopped>>

Approve(f, runs, note) ==
    /\ Asked("approve") /\ Free(f)
    /\ status = "awaiting-approval" /\ pendingApproval # NoCall
    /\ pendingApproval' = NoCall
    /\ pendingNote' = (pendingNote \/ note)
    /\ IF runs      \* consented and not turned down by the re-check or the root rule
         THEN /\ act' = [act EXCEPT ![f] = [Fresh EXCEPT !.pc = "approvedTool", !.call = pendingApproval]]
              /\ UNCHANGED <<convVars, pendingToolCalls>>
         ELSE PushResult(pendingApproval) /\ Shift /\ Goto(f, "run")
    /\ stopped' = FALSE
    /\ UNCHANGED <<status, stopScope, pendingQuestion, pendingCompaction, pendingStall,
                   pendingPersistence, queue, spendVars, budgetVars, healthVars, settingVars, requestVars>>

Answer(f) ==
    /\ Asked("answer") /\ Free(f)
    /\ status = "awaiting-input" /\ pendingQuestion # NoCall
    /\ pendingQuestion' = NoCall
    /\ PushResult(pendingQuestion)
    /\ Shift
    /\ Goto(f, "run")
    /\ stopped' = FALSE
    /\ UNCHANGED <<status, stopScope, pendingApproval, pendingCompaction, pendingStall,
                   pendingPersistence, inputVars, spendVars, budgetVars, healthVars, settingVars, requestVars>>

ResolveCompaction(f, skip) ==
    /\ Asked("compact") /\ Free(f)
    /\ status = "awaiting-compaction" /\ pendingCompaction # "none"
    /\ pendingCompaction' = "none"
    /\ IF skip /\ pendingCompaction = "cancelable"
         THEN needsCompaction' = FALSE /\ Goto(f, "run") /\ UNCHANGED abortController
         ELSE /\ act' = [act EXCEPT ![f] = [Fresh EXCEPT !.pc = "resolvedCompact", !.leaf = WorkingLeaf]]
              /\ abortController' = f
              /\ UNCHANGED needsCompaction
    /\ stopped' = FALSE
    /\ UNCHANGED <<status, stopScope, pendingToolCalls, convVars, pendingApproval, pendingQuestion,
                   pendingStall, pendingPersistence, inputVars, spendVars, budgetVars, healthVars,
                   config, triggerMode, restartRequested, streaming>>

CompactNow(f) ==
    /\ Asked("compactNow") /\ Free(f)
    /\ status = "idle" /\ WorkingLeaf # Root /\ Room(1)
    /\ act' = [act EXCEPT ![f] = [Fresh EXCEPT !.pc = "compactNow", !.leaf = WorkingLeaf]]
    /\ abortController' = f
    /\ UNCHANGED <<status, stopScope, pendingToolCalls, convVars, cardVars, inputVars, spendVars,
                   budgetVars, healthVars, settingVars, restartRequested, streaming, stopped>>

ContinueRun(f) ==
    /\ Asked("continue") /\ Free(f)
    /\ status = "awaiting-continue" /\ pendingStall > 0
    /\ iterationBudget <= MaxBudget
    /\ iterationBudget' = pendingStall
    /\ pendingStall' = 0
    /\ Goto(f, "run")
    /\ stopped' = FALSE
    /\ UNCHANGED <<status, stopScope, pendingToolCalls, convVars, pendingApproval, pendingQuestion,
                   pendingCompaction, pendingPersistence, inputVars, spendVars, toolRounds,
                   healthVars, settingVars, requestVars>>

SetSpendCap(f, cap) ==
    /\ Asked("cap")
    /\ spendCapUsd' = cap
    /\ IF capReached /\ spendUsd < cap
         THEN Free(f) /\ capReached' = FALSE /\ Goto(f, "run") /\ stopped' = FALSE
         ELSE UNCHANGED <<capReached, act, stopped>>
    /\ UNCHANGED <<status, stopScope, pendingToolCalls, convVars, cardVars, inputVars, spendUsd,
                   budgetVars, healthVars, settingVars, requestVars>>

Retry(f) ==
    /\ Asked("retry")
    /\ \/ /\ status = "running" /\ streaming
          /\ restartRequested' = TRUE
          /\ act' = [g \in Activations |-> [act[g] EXCEPT
                       !.aborted = @ \/ (g = abortController /\ act[g].pc = "llm")]]
          /\ UNCHANGED <<stopScope, turnLeaf, healthVars>>
       \/ /\ Free(f) /\ status \in {"idle", "halted"} /\ retryable
          /\ retryable' = FALSE /\ consecutiveFailures' = 0
          /\ stopScope' = "none"
          /\ turnLeaf' = activeLeaf
          /\ Goto(f, "run")
          /\ UNCHANGED restartRequested
    /\ stopped' = FALSE
    /\ UNCHANGED <<status, pendingToolCalls, entries, activeLeaf, cardVars, inputVars, spendVars,
                   budgetVars, settingVars, streaming, abortController>>

(* stop(): everything but the flag itself happens only under "hard"; a     *)
(* session that is not running settles at once.                            *)
StopEffects(scope, pp) ==
    /\ restartRequested' = FALSE
    /\ IF scope = "hard"
         THEN /\ act' = [g \in Activations |-> [act[g] EXCEPT
                           !.aborted = @ \/ (g = abortController /\ act[g].pc = "llm")]]
              /\ queue' = 0
              /\ pendingToolCalls' = <<>>
              /\ pendingApproval' = NoCall /\ pendingQuestion' = NoCall
              /\ pendingCompaction' = "none" /\ pendingStall' = 0
         ELSE UNCHANGED <<act, queue, pendingToolCalls, pendingApproval, pendingQuestion,
                          pendingCompaction, pendingStall>>
    /\ IF status = "running"
         THEN stopScope' = scope /\ UNCHANGED status
         ELSE stopScope' = "none" /\ status' = IF pp THEN "awaiting-persistence" ELSE "idle"
    /\ stopped' = TRUE
    /\ UNCHANGED <<convVars, pendingNote, spendVars, budgetVars, healthVars, settingVars,
                   streaming, abortController>>

Stop(scope) ==
    /\ Asked(IF scope = "hard" THEN "stopHard" ELSE "stopSoft")
    /\ StopEffects(scope, pendingPersistence)
    /\ UNCHANGED pendingPersistence

RaisePersistenceFault ==
    /\ Asked("fault")
    /\ pendingPersistence' = TRUE
    /\ IF pendingPersistence \/ status # "running"
         THEN /\ status' = IF pendingPersistence THEN status ELSE "awaiting-persistence"
              /\ UNCHANGED <<stopScope, pendingToolCalls, convVars, pendingApproval, pendingQuestion,
                             pendingCompaction, pendingStall, inputVars, spendVars, budgetVars,
                             healthVars, settingVars, requestVars, act, stopped>>
         ELSE StopEffects("hard", TRUE)

RetryPersistence(f) ==
    /\ Asked("retryWrites") /\ Free(f)
    /\ status = "awaiting-persistence" /\ pendingPersistence
    /\ Goto(f, "retryWrites")
    /\ UNCHANGED <<status, stopScope, pendingToolCalls, convVars, cardVars, inputVars, spendVars,
                   budgetVars, healthVars, settingVars, requestVars, stopped>>

DiscardPersistence ==
    /\ Asked("discard")
    /\ status = "awaiting-persistence" /\ pendingPersistence
    /\ pendingPersistence' = FALSE
    /\ status' = "idle"
    /\ UNCHANGED <<stopScope, pendingToolCalls, convVars, pendingApproval, pendingQuestion,
                   pendingCompaction, pendingStall, inputVars, spendVars, budgetVars, healthVars,
                   settingVars, requestVars, act, stopped>>

SetTriggerMode(m) ==
    /\ Asked("triggerMode")
    /\ triggerMode' = m
    /\ UNCHANGED <<status, stopScope, pendingToolCalls, convVars, cardVars, inputVars, spendVars,
                   budgetVars, healthVars, config, needsCompaction, requestVars, act, stopped>>

-----------------------------------------------------------------------------
Init ==
    /\ status = "idle" /\ stopScope = "none" /\ pendingToolCalls = <<>>
    /\ entries = <<>> /\ activeLeaf = Root /\ turnLeaf = Unpinned
    /\ pendingApproval = NoCall /\ pendingQuestion = NoCall /\ pendingCompaction = "none"
    /\ pendingStall = 0 /\ pendingPersistence = FALSE
    /\ queue = 0 /\ pendingNote = FALSE
    /\ spendUsd = 0 /\ spendCapUsd \in Caps \cup {NoCap} /\ capReached = FALSE
    /\ toolRounds = 0 /\ iterationBudget = MaxToolIterations
    /\ retryable = FALSE /\ consecutiveFailures = 0
    /\ config \in Configs /\ triggerMode \in TriggerModes /\ needsCompaction = FALSE
    /\ restartRequested = FALSE /\ streaming = FALSE /\ abortController = NoActivation
    /\ act = [f \in Activations |-> Fresh]
    /\ stopped = FALSE

Stretch(f) ==
    \/ StartLoop(f) \/ ObserveStop(f) \/ BatchDrained(f) \/ RefuseCall(f)
    \/ PauseForApproval(f) \/ PauseForInput(f) \/ StartTool(f) \/ DeclineAtCap(f)
    \/ RaiseStallPause(f) \/ RaiseCompactionPause(f) \/ StartAutoCompact(f)
    \/ ProceedToSend(f) \/ AskLoopTitle(f) \/ SendRequest(f) \/ Settle(f)
    \/ DrainQueue(f) \/ Exit(f)

Batches == UNION {[1 .. k -> CallKinds] : k \in 0 .. MaxCalls}

Completion(f) ==
    \/ ToolReturns(f) \/ ToolThrows(f) \/ ApprovedToolReturns(f) \/ ApprovedToolThrows(f)
    \/ \E kinds \in Batches : AnswerLands(f, kinds, FALSE)
    \/ "length" \in ModelErrors /\ \E kinds \in Batches : AnswerLands(f, kinds, TRUE)
    \/ RequestUnwinds(f) \/ RequestOverWindow(f) \/ RequestTransient(f) \/ BackOffEnds(f)
    \/ RequestFails(f)
    \/ \E ok \in BOOLEAN :
          \/ AutoCompactEnds(f, ok) \/ LoopTitleEnds(f, ok) \/ SettleTitleEnds(f, ok)
          \/ ForcedCompactEnds(f, ok) \/ ResolvedCompactEnds(f, ok) \/ CompactNowEnds(f, ok)
          \/ RetryWritesEnds(f, ok)

(* One activation makes progress: its stretch runs, or, nobody being in a  *)
(* stretch, its await completes.                                           *)
Progress(f) == Stretch(f) \/ (Quiet /\ Completion(f))

Person ==
    \/ \E f \in Activations :
          \/ \E c \in Configs : Send(f, c) \/ Enqueue(f, c)
          \/ \E e \in 1 .. Len(entries) : EditFork(f, e)
          \/ \E runs, note \in BOOLEAN : Approve(f, runs, note)
          \/ Answer(f) \/ CompactNow(f) \/ ContinueRun(f) \/ Retry(f) \/ RetryPersistence(f)
          \/ \E skip \in BOOLEAN : ResolveCompaction(f, skip)
          \/ \E cap \in Caps \cup {NoCap} : SetSpendCap(f, cap)
    \/ \E leaf \in 1 .. Len(entries) : SetActiveLeaf(leaf)
    \/ \E k \in 0 .. MaxQueue : SetQueue(k)
    \/ \E scope \in {"soft", "hard"} : Stop(scope)
    \/ ParkNotice \/ RaisePersistenceFault \/ DiscardPersistence
    \/ \E m \in TriggerModes : SetTriggerMode(m)

Next == Person \/ \E f \in Activations : Progress(f)

Spec == Init /\ [][Next]_vars

(* A stretch always runs on, and every await of the loop completes: the    *)
(* provider answers or errors, a tool returns, a timer fires.  The person  *)
(* owes nothing.                                                           *)
FairSpec == Spec /\ \A f \in Activations : WF_vars(Progress(f))

-----------------------------------------------------------------------------
(* Properties                                                              *)

Leaves == 0 .. Len(entries)

ConversationOK ==
    /\ entries \in Seq(Entry)
    /\ \A i \in 1 .. Len(entries) : entries[i].parent < i
    /\ activeLeaf \in Leaves /\ turnLeaf \in Leaves \cup {Unpinned}

ActivationsOK ==
    /\ act \in [Activations -> Activation]
    /\ \A f \in Activations :
          /\ act[f].attempt <= MaxAutoRetries + 1 /\ act[f].leaf \in Leaves
          /\ act[f].pc = "backoff" => act[f].attempt <= MaxAutoRetries

CallsOK ==
    /\ pendingToolCalls \in Seq(Call)
    /\ pendingApproval \in Call /\ pendingQuestion \in Call

ScalarsOK ==
    /\ status \in Statuses /\ stopScope \in {"none", "soft", "hard"}
    /\ pendingCompaction \in {"none", "cancelable", "hard"}
    /\ pendingStall \in Nat /\ pendingPersistence \in BOOLEAN
    /\ queue \in Nat /\ pendingNote \in BOOLEAN
    /\ spendUsd \in 0 .. MaxSpend /\ spendCapUsd \in Caps \cup {NoCap} /\ capReached \in BOOLEAN
    /\ toolRounds \in Nat /\ iterationBudget \in Nat
    /\ retryable \in BOOLEAN /\ consecutiveFailures \in Nat
    /\ config \in Configs /\ triggerMode \in TriggerModes /\ needsCompaction \in BOOLEAN
    /\ restartRequested \in BOOLEAN /\ streaming \in BOOLEAN
    /\ abortController \in Activations \cup {NoActivation}
    /\ stopped \in BOOLEAN

(* Every variable has its type; parents precede their children; no request *)
(* is re-sent more often than maxAutoRetries allows.                       *)
TypeOK == ConversationOK /\ ActivationsOK /\ CallsOK /\ ScalarsOK

(* The loop of a session is never running twice: a second loop would share *)
(* pendingToolCalls, the pin and the stop flag with the first.             *)
InLoop(f) == act[f].pc \in LoopAwaits \cup LoopStretches \cup {"approvedTool", "resolvedCompact"}
OneLoop == \A f, g \in Activations : InLoop(f) /\ InLoop(g) => f = g

(* Tool results follow the assistant message that called them unbroken and *)
(* in order, and nothing else stands where a result is owed (session.ts    *)
(* flushPendingUser, wire.ts): what a provider requires of every branch.   *)
Owed(p) ==
    IF p = Root THEN <<0, 0>>
    ELSE LET e == entries[p] IN
         IF e.kind = "assistant" /\ e.n > 0 THEN <<p, 1>>
         ELSE IF e.kind = "tool" /\ e.of \in 1 .. p /\ e.n < entries[e.of].n THEN <<e.of, e.n + 1>>
         ELSE <<0, 0>>
ToolResultsUnbroken ==
    \A i \in 1 .. Len(entries) :
        Owed(entries[i].parent) = IF entries[i].kind = "tool" THEN <<entries[i].of, entries[i].n>> ELSE <<0, 0>>

(* A turn in flight, parked or suspended on a card, keeps its branch pinned*)
(* (H-05), so what it appends does not follow the reader's pointer; once no*)
(* turn is in flight the pin is gone (turnLeaf "undefined means no turn is *)
(* in flight"), so that appends follow the reader again.  Only a turn that *)
(* is blocked at the cap keeps it while idle.                              *)
PinFollowsTurn ==
    Quiet =>
      LET looping == \E f \in Activations : InLoop(f)
      IN  /\ looping \/ status \in Waiting => turnLeaf # Unpinned
          /\ ~looping /\ status \in {"idle", "halted"} /\ ~capReached => turnLeaf = Unpinned

(* A compaction overlay stands for exactly the branch above it: the leaf it*)
(* summarized is its parent, so no entry is cut off the replay unread.     *)
CompactionCoversBranch ==
    \A i \in 1 .. Len(entries) :
        entries[i].kind = "compaction" => entries[i].of = entries[i].parent

(* Whoever waits on a person shows the card the person answers, or is at   *)
(* work on the answer already; and no card outlives its pause.             *)
CardMatchesStatus ==
    Quiet =>
      /\ status = "awaiting-approval" =>
           pendingApproval # NoCall \/ \E f \in Activations : act[f].pc = "approvedTool"
      /\ status = "awaiting-compaction" =>
           pendingCompaction # "none" \/ \E f \in Activations : act[f].pc = "resolvedCompact"
      /\ status = "awaiting-input" <=> pendingQuestion # NoCall
      /\ status = "awaiting-continue" <=> pendingStall > 0
      /\ pendingApproval # NoCall => status = "awaiting-approval" /\ pendingToolCalls # <<>>
                                       /\ Head(pendingToolCalls) = pendingApproval

SendsToModel == \E f \in Activations : act[f].pc \in StretchPcs \cup {"backoff", "forcedCompact"} /\ act'[f].pc = "llm"

(* After a stop the session takes no further model turn until a person     *)
(* sends, answers, retries or otherwise resumes it.                        *)
NoTurnAfterStop == [][SendsToModel => ~stopped]_vars

(* What a turn takes has been granted when it is asked for: it stays below *)
(* the spend cap (D-33), within the rounds that a message or a Continue    *)
(* buys, and within N failures in a row (SPEC 24).  (An attempt that is    *)
(* repeated, after an error or on Retry, is not weighed again.)            *)
AsksForTurn == \E f \in Activations : act[f].pc = "title" /\ act'[f].pc = "llm"
CallsAreGranted ==
    [][AsksForTurn => /\ spendUsd < spendCapUsd
                      /\ toolRounds < iterationBudget
                      /\ consecutiveFailures < MaxFailures]_vars

(* The persistence pause always has the fault its two routes out resolve:  *)
(* retryPersistence and discardPersistence throw without one.              *)
FaultIsAnswerable == status = "awaiting-persistence" => pendingPersistence

(* A configuration is adopted only at a turn boundary (D-82a).             *)
AdoptsAtBoundary == [][config' # config => turnLeaf = Unpinned]_vars

(* A loop that is running ends: settles, pauses on a card or is halted.    *)
TurnEnds == status = "running" ~> status # "running"

(* A stop is observed.                                                     *)
StopSettles == stopScope # "none" ~> stopScope = "none"

(* A queued message enters the conversation, unless it waits behind a card,*)
(* a failed turn that Retry can resume, or a stop.                         *)
QueueLands == queue > 0 ~> queue = 0 \/ status \in Waiting \/ stopped \/ retryable
=============================================================================
