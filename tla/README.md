# JLCode: verification project

TLA+ models of JLCode, a coding agent whose server holds several conversations
with a language model, runs the tools the model asks for, and writes every
conversation to an append-only log. Paths are relative to the repository;
`session.ts` is `src/session/session.ts`.

## 1. The system

JLCode is one Node process. Nothing runs in parallel: a callback runs to its
end, so two activities interleave only where code awaits. All the difficulty of
the program lies in what happens *between* two awaits: a person presses Stop, a
write fails, a reader switches branch, a second request arrives.

| Component | Code | State | Operations | What must hold |
|---|---|---|---|---|
| Session loop | `session/session.ts` | status, stop flag, pending tool calls, four cards, queue, note, budgets, breaker, spend, cap, configuration, branch pin | send, editFork, approve, answer, resolveCompaction, compactNow, continueRun, setSpendCap, retry, stop, enqueue, setQueue, setActiveLeaf, adoptConfig, persistence pause | one loop; tool results unbroken; a turn stays on its branch; Stop stops; cap and budget respected; every pause has its card |
| Conversation tree | `conversation/tree.ts`, `wire.ts` | entries, active leaf | append, move the leaf, path to leaf | parents precede children; the reader's pointer is not dragged along |
| Append log | `persist/append-log.ts` | queue, draining, fault, file | append, drain, retry, discard, flush | acknowledged means readable; order kept; nothing written behind a failed record |
| Conversation store | `persist/conversation-store.ts` | one log per conversation, the index | create, entry, activeLeaf, title, load, list, retry, discard | load() rebuilds what the session showed |
| Debug journal | `persist/debug-journal.ts` | one log per conversation | record | diagnostic only |
| Todo list | `conversation/todos.ts`, `tools/todo-tools.ts` | operations in the tree, last list the agent saw | todo_read, todo_write, setTodos | the agent never overwrites what it has not read, nor a draft what the person has not seen |
| Background tasks | `tools/task-registry.ts`, `shell-tool.ts` | running processes, the record of each task, the call's and the watchdog's timers | start, exit, close, kill, killAll, timeout, watchdog question and answer | a task ends once, for one reason, which the model is told; none slips out of the watchdog's rounds |
| Gate | `tools/mode-gate.ts`, `sandbox.ts`, `mcp/bridge.ts`, `path-fields.ts`, `tool-class.ts` | mode, approval policy, learned answers, roots, one-shot grants | check, approve, learn | nothing runs that the mode forbids, or beyond the fence without consent; the latest answer counts |
| Wire and cache | `conversation/wire.ts`, `llm/cache-breakpoints.ts` | none; a function of the branch | build a request of a turn, a fold, a title | any request can be sent; it repeats a prefix an earlier one wrote |
| Files | `tools/edit-tools.ts`, `file-tools.ts` | the workspace | apply_edits, write_file, delete_file; read_file, grep | a batch is whole; what is not reported is not there |
| Server | `server/server.ts` | routes, event stream | chat, approve, close, ... | one live session per conversation |
| Manager, shutdown | `session/manager.ts`, `server/shutdown.ts`, `serve-command.ts`, `node-adapter.ts` | sessions, listeners, port, exit code | add, remove, subscribe, listen, shutdown | teardown once, after the flush; exit 0 means flushed |
| Configuration | `config/*` | config.json: rows, bindings, recents | use, add, set, clone, remove, model | a saved file names nothing that is gone; switching converges |
| LLM client | `llm/client.ts`, `stream.ts`, `caching-driver.ts` | the cache | streamChat, errors | an answer is put together whole; a part of one is never kept |
| Model catalog | `llm/models.ts`, `session/compaction.ts` | windows, their cache on disk | refresh, look up, budget | the budget of a thread is real: it can fire, below the window |
| MCP | `mcp/*` | servers, tools, what was learned, two settings files | start, list, remember, import, close | starting ends; no child is left; a question is asked once |
| Web client | `web/src/session-state.ts`, `App.tsx`, `attention.ts` | slices per session, focus, peek, promotion | frames, replies, renders | the screen comes to what the server has |
| Speech | `web/src/tts.ts` | generation, key being read, timers | speak, stop, the engine's events, watchdogs | what is heard is what is shown; each read ends, whatever the engine says |

Interactions. The routes of the server check the status of a session and call
one of its methods, and answer when the method returns (`/chat` returns when
the turn has settled or paused). The session appends to its tree and emits
events; `startSession` (server.ts) writes each entry to the store without
waiting, and turns a failed write into `raisePersistenceFault`, from outside
the turn loop. The browser follows the event stream.

### What is hard to test here

1. A stop, a fault or a send that lands while a method is parked at an await
   under a status that does not say "running" (an approved tool, *Compact now*,
   the title call after the settle).
2. State read before an await and used after: the leaf a compaction summarized,
   the pin a finishing call releases, the cap checked before a compaction.
3. Pauses: four cards and a persistence banner, each with its own way out, and
   Stop, Retry and Continue from each of them.
4. The log: a process that dies between write and fsync, a failed fsync that is
   retried, two retries at once.
5. Everything that must happen eventually: a turn ends, a stop is observed, a
   queued message is taken, an append settles, a call, a read, a start and a
   shutdown come back.
6. Two writers of one document: the agent and the person (todo list), two
   commands (config.json), a person's editor and an answer (settings files), an
   editor and an approved edit (the workspace).
7. The browser: frames, replies and renders in any order, over a stream that
   breaks and comes back with a snapshot.

PROJECT.json lists the hazards one by one, each at its line, with the property
that covers it.

## 2. Plan

Ordered by how much of the program's correctness rests on each part.

| # | Module | Subject | State |
|---|---|---|---|
| 1 | `Session` | the turn loop and every operation on it | done |
| 2 | `AppendLog`, `DurableLog` | the log of one file, and what it promises | done |
| 3 | `ConversationStore` | the records a session writes, load(), restarts, revival | done but for the index and titles |
| 4 | `Tasks` | task registry and watchdog: kill, exit, timeout and the question asked about them; implements `TaskVerdict` | done |
| 5 | `TodoList` | the todo barrier and its fold: the agent never overwrites what it has not read; the panel's draft | done |
| 6 | `Speech` | the one voice of the browser, over an engine that may lose or replay anything | done |
| 7 | `Gate` | mode x policy x fence x consent, the second look on approve, answers shared by sessions | done |
| 8 | `Browser` | the web client over the bus of the server: slices, focus, promotion, hand-backs | done |
| 9 | `Config` | config.json under the commands that read, ask and save it | done |
| 10 | `Transcript` | the requests made of a conversation: replay, signatures, breakpoints, folds, titles | done |
| 11 | `Edits`, `Reading` | the tools that change files, and those that look at them | done but for glob, listings and media |
| 12 | `Stream`, `Windows` | one streamed answer and its cache; the catalog, windows and budgets | done |
| 13 | `McpServers`, `Serving` | the life of MCP servers and what is learned of them; port and shutdown | done |

`MCDocuments` composes 5 with 9, 10 and 11 (what is read, kept and written back),
`MCOutside` composes 4 and 6 with 12 and 13 (what answers late, in pieces or
never). The parts share no state, so exploring them one at a time loses nothing;
the composition is there so that one run asks one kind of question.

Abstract specifications: `DurableLog` (the log), `TaskVerdict` (a task ends once,
for one reason).

Not begun: auto-read's choice of what to say (it would be composed with `Browser`
and `Speech`), the price arithmetic of `spend.ts`, instructions and prompts.
Every safety property of a run is a theorem. Proofs worth having next: that the log
`ConversationStore` assumes is `DurableLog`, and that the branch `Transcript` replays
is one that `Session` makes.

## 3. The modules

### Session

`session.ts`, with the status checks of the routes in `server.ts`. An
*activation* is one call of a Session method that has not returned;
`act[f].pc` is the await at which it is parked (`AwaitPcs`) or the synchronous
stretch of code it executes next (`StretchPcs`). While one is in a stretch
nobody else moves, which is what a single-threaded program does: `Quiet`. A
stretch between two awaits may be several actions (a tool refused, then the
next), each of which ends at a program point of `runLoop`.

| Code | Model |
|---|---|
| `advance`, `runLoop` | `StartLoop` ... `Settle`, `DrainQueue`, `Exit` (the `finally`) |
| `tryExecute`, `doExecute`, `pauseForApproval` | `RefuseCall`, `PauseForApproval`, `PauseForInput`, `StartTool`, `ToolReturns`, `ToolThrows` |
| `oneAssistantTurn` and its two wrappers | `SendRequest`, `AnswerLands`, `Request*`, `BackOffEnds`, `ForcedCompactEnds`, `NoResult` |
| `compact` | `CompactionOutcome`, at the four places that await it |
| `maybeAutoTitle` | `AskLoopTitle`, `LoopTitleEnds`, `SettleTitleEnds` |
| `send`, `enqueue`, `drainQueue` | `Send`, `Enqueue`, `DrainQueue`, all through `OpenTurn` |
| `approve`, `answer`, `resolveCompaction`, `continueRun`, `setSpendCap`, `retry`, `stop` | actions of the same name |
| `raisePersistenceFault`, `retryPersistence`, `discardPersistence` | actions of the same name |

Abstractions: an entry is its kind, its parent and what it answers or
summarizes. Each tool call is of a *kind*, which says what the gate and the
tool will do with it; `Gate` is how it comes by that kind. A model call
costs one unit. Whether an answer crosses the compaction threshold, and whether
a title is due, are left open. The browser only edits user messages and rewinds
to tips; the routes take any entry, and runs with `"anyEntry"` use that.
`stopped` is a history variable: a stop was accepted and nobody has asked for
another turn since.

### AppendLog and DurableLog

`append-log.ts`, one file. `writing` is where the write of the head of the
queue stands; the draining flag is `writing # "none"`, because `drain` is at an
await exactly while a write is in progress. The file is a sequence of chunks
(record, whether it is whole, torn, or lacks its newline) of which the first
`synced` survive any crash. `Failures` and `Tears` say what the file system may
do: a write that rejects, one that stores fewer bytes than it was given, an
fsync that rejects; a crash that loses the unsynced tail or tears it.
`Loaded` is what `parseLines` (conversation-store.ts) finds in such a file.

`DurableLog` is what the log promises to whoever appends: records are stored
one at a time in submission order, an acknowledged record stays stored, only a
discard or a crash drops a waiting one. `ImplementsDurableLog` maps the code's
state to it: `stored` is the part of the file that has been written whole.
Whether a stored record can also be *read* is another question, and the answer
is no (v_torn).

### ConversationStore

One conversation over its whole life: the session object that is open on it,
the records the listener of `startSession` (server.ts) submits, the log, the
death of the process, and `/chat` loading the conversation again, possibly
while the session closed before it is still unwinding. The log is reduced to
what `DurableLog` says of it.

| Code | Model |
|---|---|
| `pushEntry`, `appendEntry`, the `entry` event | `Push`, with the header in front for a new conversation (`Lead`, `ensureCreated`) |
| `send`, `editFork`, the appends of a turn, `compact` and the todo route outside it | `Send`, `EditFork`, `TurnAppends`, `AppendAside` |
| `setActiveLeaf` and the `active-leaf` event | `SetActiveLeaf` |
| the pin released, taken again | `TurnEnds`, `Repin` |
| one turn of the loop of `load()` | `Replay`; `loaded` is the fold of the file so far |
| `drain`, a failed write, a failed fsync, `retry`, `discardPending` | `Write`, `WriteFails`, `SyncFails`, `RetryWrites`, `DiscardPending` |
| `/session/:id/close`, the revival in `/chat` | `Close`, `Unwinds`, `Revive` |

The session applies the rule of H-05 (an append by a turn pinned elsewhere does
not drag the reader's pointer) when it appends; `load()` applies it again to
records, with nothing but an `activeLeaf` record and the parents to go by. That
the two agree is `LogMatchesLive`. `views` is a history variable, what load()
would make of the file as far as each queued record; `lived` is every
conversation that was on screen. `intact` says that nothing was given up
(`DiscardPending`) and that no session was revived beside one that could still
append: after either, the code promises nothing, and the properties claim
nothing. Entries are numbered in the order they are made; load() keeps them in
an array where a record written twice stands twice, here they are a set. Titles
and the index are left out. A send is not guarded by the pin: which statuses
allow it is Session's subject.

### Tasks and TaskVerdict

`task-registry.ts`, the `run_command` tool of `shell-tool.ts`, and the watchdog
of `session.ts`. Each callback of a child process, a timer or the model runs to
its end, the registry's listeners included, so each is one action.

| Code | Model |
|---|---|
| `spawn`, `tasks.start`, the call's `setTimeout` | `Start`, `SpawnFails` (the `error` event follows at once) |
| the process group dies, its pipes close, the `close` event | `ChildExits`, `PipesClose`, `Closed` |
| the call's bound | `CallTimesOut` |
| `TaskRegistry.kill`, `killAll`, `finish` | `Kill`, `Finish` |
| `armWatchdog`, `watchdogCheck`, `disarmWatchdog` | `ArmWatchdog`, `WatchdogCheck`, `WatchdogAnswers`, `Disarm` |
| Kill button, global stop, a new `watchdogMs` | `KillTask`, `StopHard`, `AdoptConfig` |

`proc` is the child as the operating system sees it. A signal reaches the
process group; a descendant that left the group keeps the pipes open (`"held"`)
and with them the call. `TaskVerdict` is what the tool promises: a command ends
for one reason that never changes, and that reason is what the model is told.

### TodoOps and TodoList

`TodoOps` is `todos.ts` as operators over a list of items: the fold
(`FoldTodos`), what an agent's write becomes (`PlanTodoWrite`: add, edit,
strike, unstrike, all or nothing) and what the person's rows become
(`SnapshotItems`). `TodoList` puts them on a branching conversation: the agent
that reads and writes through the barrier, the panel in the browser with its
draft, the route that commits it, forks, rewinds, and a restart, which loses
`todoSeen` and nothing else.

| Code | Model |
|---|---|
| `todosOn`, `todoTip` | `ListAt`, `TodoTip` |
| `todo_read` | `AgentReads` |
| `writeTodos` | `BarrierRefuses`, `AgentWrites` |
| `setTodos`, `planTodoSnapshot` | `Save` |
| `TodoPanel` | `StartEdit`, `Cancel`, `Drafts` |
| `send`, `editFork`, `setActiveLeaf`, the end of a turn | `Send`, `EditFork`, `SetActiveLeaf`, `TurnEnds` |
| `resync` of App.tsx | `Resync` |

Of the dialogue only user messages are entries. `panel` follows the `todos`
event at once; its warning that the list changed underneath is left out. `shown` and `disturbed` are history variables: the list the agent
was last shown, and whether somebody came between since.

### Speech

`createSpeaker` of `tts.ts`, with those who call it. Each callback carries the
generation it was made under and does nothing when another read has begun
since; each timer is in `timers` with that generation.

| Code | Model |
|---|---|
| `toggleSpeak` of App.tsx, the click that arms the voice | `Toggle`, `Arm` |
| auto-read's `speak` | `ReadAloud` |
| `cancel` from typing, a card, a change of pane | `Hush` |
| `speak`, `stop` | `Speak`, `StopsAndCancels`, `PutBack` |
| `speakWhenDrained` | `StillBusy`, `HandsOver`, `EngineThrows` |
| the start and progress watchdogs, `keepalive` | `NeverBegan`, `BeganInTime`, `NeverEnded`, `KeepAlive` |
| `onstart`, `onend`, `onerror` | `Begins`, `Terminal` |

The engine belongs to the browser: it says what it likes about being busy, may
lose an utterance (`Drops`), pause its queue, or report on one that was
replaced (`owing`). Left out: an engine that reports while `speak` is being
called, and a browser without one.

### Gate

What a call of a tool needs before it runs, in `session.ts` (`tryExecute`,
`approve`, `applyLearned`, `fenceEscapes`) and the modules it asks. Several
sessions share what was learned about the tools of MCP servers, and the roots
a new session starts with.

| Code | Model |
|---|---|
| `classifyTool`, `bridgeTool` | `Verdict`, `Kind`, `Guessed`; looked up anew at each use, as the getters do |
| `classifyArgs` | `Fenced`, `Unanswered` |
| `rememberTool`, `rememberField`, `applyLearned` | `Moves`, `Learn` |
| `ModeApprovalGate.check` | `ModeAllows`, `PolicyAllows`, `Denies`, `Allows` |
| `Sandbox`, `fenceEscapes` | `roots`, `once`, `Within`, `Escapes` |
| `tryExecute` | `PauseOnGuess`, `PauseForConsent`, `RunByGate` |
| `approve` | `RunByConsent`, with what it grants (`Grants`, `RunGranted`); `CardDeclined` for each way it ends without running |
| the rest of `approve`, `doExecute` | `Returns`, `Throws`, `StrayReturns` when a stop came between |
| `stop`, `setModeApproval`, `createSessionFactory` | `Stop`, `SetModeApproval`, `Start` |

Abstractions: one MCP server. A call has the arguments that hold paths, or
would be asked about (they contain a slash), each with one path. A path has its
ancestors; symlinks are resolved before. A person may edit the arguments into
those of any other call of the tool. A call that is refused changes nothing and
is not an action. Of `stop`, the hard one; one stray call of a session is
followed at a time. A request that approves may grant the paths outside the fence just this once, with
the directory each is in, or with one directory it names, whichever that is.
`mcp_settings.json`, to which the answers are also written,
and an unwritable one, are left out: the lists in memory are what counts while
the process lives. `said`, `consented`, `threw` and the directories `named` of a
running call are history variables.

### Browser

`App.tsx`, `session-state.ts` and `attention.ts` on the bus of `server.ts` and
`manager.ts`. The server adds frames to `wire`; the browser handles them one at a
time; replies to its requests (`posts`) arrive when they like. React renders
several state changes at once: `stale` says that something changed since the last
render, `seen` is what the refs held then, and a person acts on what is rendered.

| Code | Model |
|---|---|
| `add`, `broadcast`, the loop's events, `/chat`, `/session`, close | `Added`, `ModelCallEnds`, `TurnLands`, `Opens`, `Chat`, `ChatAnswers`, `Serve` |
| the event stream, its roster on connecting | `Breaks`, `Connects` |
| `onFrame`, `slicesReducer`, `reduceEvent` | `HandleRoster`, `HandleAdded`, `HandleRemoved`, `HandleEvent`, `Roster`, `ReduceEvent` |
| the fallback effect, `nextFocus`, `stepAttention` | `Render`, `Fallback`, `Edge`, `Fired` |
| `focus`, `openPeek`, `promotePeek`, `submit`, `newSession`, `closeOne`, `submitAnswer` | actions of the same names; `Promoted`, `Landed`, `Failed` are their replies |
| `loadTree` | `TreeArrives`, a reply that may be late and names the conversation, or none where the session is gone |
| the server dies and is started again, the tab stays | `Restarts` |

A slice is its level, whether it settled, whether it shows a card, and the
conversation it believes in, which rosters, announcements and trees tell it and
`submit` sends along. `/chat` goes by the session, else by a session that is live
on that conversation (`Attached`), else loads its log (`Loaded`, `logged`), else
refuses. `claim`, `due`, `conjured` and `given`, the conversation each id was given
out for, are history variables. One server at a time; each goes on giving out ids
that no server gave out before (they are random).

### Config

`config.json` and the commands that change it, each a process that reads the
file, asks, and writes the whole file back: `LoadConfig`, then one of `UseConfig`,
`AddConfig`, `SetUpUnboundFolder`, `CloneModelConfig`, `UpdateModelConfig`,
`RemoveConfig`, `ConfigModel`, or `QuitsConfig`. A row is its key, its model and
the models of which something was said in fields that hold for one model only;
rows get ids that were never used. The cascade of folders is `NearestBinding`.

### Transcript

`wire.ts`, `cache-breakpoints.ts`, the inputs of a fold (`compaction.ts`) and of a
title (`title.ts`). The loop is cut down to what decides which entries follow each
other (`SendUser`, `SendTurn`, `AnswerLands`, `ToolAnswers`, `TurnFails`, `Stop`,
`Compact`, `AskTitle`, `EditUser`); `BuildWireMessages`, `PinnedProvider`,
`BuildCrossModelSummaryInput` and `Marks` are the code's functions over the
branch. `written` is a history variable: the prefixes the provider's cache holds;
so are `left`, the answers whose calls nobody will answer any more, and `retitles`,
which counts the titles that followed one another and starts again with a fold.

### Edits and Reading

`Edits`: the planning of a batch (`PlanFileEdits`, `PlanAll`), the card it shows
(`Preview`), the plan made again when it is approved (`Execute`), and one write
per file, each of which may fail (`WriteOne`, `WriteFails`), while somebody else
writes (`SomebodyWrites`). write_file and delete_file are batches of one. A file is
a sequence of `Tokens`, or `NoFile`.

`Reading`: a model that pages through a file by the offsets the replies name
(`OpenFile`, `ReadWhole`, `ReadPage`), and a search over what a walk meets
(`Grep`), with its budgets and its notes. Lines are their lengths.

### Stream and Windows

`Stream`: the provider cuts an answer into fragments and sends them interleaved
(`Chunk`, `LastChunk`), may fail, break, garble a chunk or be left (`Fails`,
`Refused`, `Breaks`, `Garbled`, `Leaves`); `Accumulate` folds the events as
`stream.ts` does (`AddBlock` merges the fragments of one index, `Merged`; `AddCall`
those of one call); `Hit`, `Miss`, `Closes` are the cache in front. How an answer is
cut is the provider's, hence external: `BlockFragment`, `CallFragment`, `Piece`. Texts
are sequences of `Letters`; ids, names, signatures and backends are `Words`, with one
for what is absent.

`Windows`: the catalog and its file (`ParseModels`, `Refreshed`, `EnsureKnown`),
what a session resolves (`ResolveWindow`, `Open`, `AdoptSettings`), and the budget
it folds by (`ComputeBudget`, `ApplyCompactorFit`, `Measure`, `Folds`), while the
provider releases models, days pass and other processes write the cache.

### McpServers and Serving

`McpServers`: the two settings files, their merge and what is written back
(`LoadSettings`, `UpdateServerEntry`, `Remember`, `Import`), the children started
side by side (`Spawns`, `Initializes`, `ListsTools` and how each fails, with the
time-out as one of the ways), and a person who edits the files (`EditEntry`,
`BreakFile`). `settled` and `byHand` are history variables.

`Serving`: the walk over the ports (`Listens`, `InUse`, `WalksOn`), `/shutdown` and
the signals, the flushes (`Flushed`, `FlushRejects`, `GoesRed`), the sockets and
the exit code.

## 4. The runs

Every cfg sets CHECK_DEADLOCK FALSE: a session at rest with nobody asking
anything of it, or a log with nothing to write, is a legitimate final state.
`Ops` in a cfg is the set of operations the person uses; a run leaves out those
that its question does not need, or that reach a finding of section 6.

| Run | Question |
|---|---|
| turns | Tool batches, approvals, questions, edits, rewinds, queued messages, Continue, Retry and a spend cap in any order: is the tree always sendable, do cards and statuses agree, was every model turn within cap, rounds and failures when it was asked for? |
| branches | Automatic, paused and forced compactions, the queue and a configuration switched underneath while the reader changes branches: does each summary cover the branch it lands on, is the pin the turn's and does it go with it? |
| stop | Hard and soft stops, Retry and automatic re-sends: one loop, and no model turn after a stop? |
| faults | Persistence faults retried and discarded while turns run, pause, are capped, compact or end in a tool that throws: is there a way out of every persistence pause? |
| live | Under fairness: does a turn end, is a queued message taken, is a stop observed? |
| log | A disk that fills up, short writes, failing fsyncs, retries, discards, flushes, a crash: flush does not lie; the log implements `DurableLog`; appends settle or the log says it is stalled |
| store | Turns, forks, rewinds, faults, crashes, close and revival on one conversation: is the log the conversation on screen, and is every restart a conversation that was on screen? |
| gate | Two sessions raise calls of native and server tools, switch between Ask and Code, answer, edit, approve, decline, stop, fail: does nothing start beyond the fence without consent, or in Ask mode on a guess? |
| documents | Is each agent write of the todo list made against the list it was last shown, and does every id name one item? Is every saved config.json closed, and does switching converge? Can every request be sent, and does it find its cache? Is a batch of edits whole, on the files as they are? Do pages and searches say what they left out? |
| browser | Two sessions on one past conversation, a stream that breaks once: does the screen come to what the server has, is no conversation opened twice, does a promoted peek keep the pane, is every hand-back told? |
| outside | Do commands end for one reason, told as decided, and do bounded and killed calls come back? Does every read of the voice end? Is a streamed answer put together whole, and only a whole one kept? Can every budget fire? Is an answer about a server asked once, do servers settle without children left? Does exit 0 mean flushed, and does a shutdown end? |
| v_torn | violated; see section 6 |

Bounds of Session. Two activations overlap: every hazard above is a pair (the
loop and one other call). Conversations of 2 to 4 entries hold a user message,
an answer with tool calls, a result and a second turn, which is where two turns
meet; `branches` needs 4 for a summary, a fork beside it and a later turn.
`MaxEntries` bounds what a *person* adds, the loop is never cut off by it. One
or two tool rounds reach the budget, two failures the breaker, a cap of 1 or 2
calls the cap.

Bounds of AppendLog. Three records are a stalled one, one behind it and one
acknowledged; `Capacity` 3 is a disk that becomes full, which also bounds the
duplicates a failing fsync and a retry can write; one crash.

Bounds of ConversationStore. Three entries and six records are a header, a fork
or a rewind, and a duplicate; two session objects are one and its revival. The
state constraint `WhileIntact` stops where `intact` is lost: such a state is
checked, what follows it is not explored, since nothing is claimed of it.

Bounds of Tasks. Two commands, both running: the registry treats tasks
independently but for `killAll`, and two let one be killed while another exits.

Bounds of TodoList. Four entries are a message, a list, a fork and what is
written there; four ids are two items on each branch. `MCRequests` has each
field alone, with targets by text and by id, misses, repeated texts, a reword
onto a text that is there, and all fields in one call.

Bounds of Speech. Two keys are a read and the one that replaces it; generations
up to `MaxGen` 6 are three reads, so that a report can be two reads late; two
looks at a busy engine are one that waits and one that has waited enough.

Bounds of Browser. Two sessions are the one being read and the one that comes or
goes; one conversation of the past is what two requests can meet on. One frame
under way and one request beside it already give each order of two; two messages
under way, of a peek and a slice or of one slice twice, meet on one thread; one break
or restart is the loss of anything and a snapshot. The constraint `MayGoOn` keeps
the long stories apart: two messages race where no other request, card, late tree
or hand-back is about; a late tree makes a slice before the break and not after;
one slice at a time is left of a session that is gone, and one session at a time
has a card or a hand-back to be told. What a step reaches beyond
it is checked and not gone on from. `SessionSymmetry` exchanges the ids.

Bounds of the documents. Config: two folders, one in the other, three rows, two
models under one key, recents of 2. One terminal: a command saves the file as it
made it from one reading, so a command that was overtaken leaves what it alone
would leave of an earlier file, and two terminals reach no file that one does
not. Transcript: six entries and two calls to an answer are two turns with a run
of results, a fold between them, and an edit of the first. Edits: anchors found
once, twice, never, only after an earlier edit, or overlapping; two files in both
orders, and two spellings of one; one write by somebody else. Reading: files of up
to four lines that are empty, short, as long as the cap and between; up to three
files to search, large, unreadable, noisy or linked, with budgets one file over
the edge. The constraint `MayGoOn` checks a document at its bound and does not
continue it.

Bounds of the rest. Stream: an answer with two calls out of order, an indexed
block of reasoning in fragments and one without an index; two attempts. Windows: a
model, its online variant and another, thresholds below, at and above a window,
two changes of the world. McpServers: two servers, two files, two instances, one
edit by hand. Serving: three ports of which two are scanned, two posts.

Bounds of Gate. Two sessions, because answers are shared; they raise cards and
answer them in any order, and the constraint `OneActs` lets calls of only one of
them run at a time, since a running call touches nothing of another session; it
also lets one of the two approve calls with paths and one see an approved call
throw. `NamesBelow` goes no further once a person has named the root of the file
system, which encloses nothing. A path outside the workspace; a tool that reads, one
that runs commands, and a server tool with and without that path (a native tool that
classifies its paths, `Classifies`, is left to the proofs); a setting where nothing may write and one where all may.

The type invariants of `Session`, `AppendLog`, `ConversationStore`, `Tasks`,
`Speech` and `Gate`, and the invariants and action properties of section 5 that
name no run, are proved and not run again.

Symmetry is used over activations and sessions, in safety runs only.

Fairness. `FairSpec` of Session is weak fairness of each activation's progress:
a synchronous stretch always runs on (the event loop), and every await completes
(the provider answers or errors, a tool returns, a timer fires). That is what
the code assumes too: it sets no timeout on a provider or a tool, and a person
can always press Stop. The person owes nothing. Strong fairness is not needed.
`FairSpec` of AppendLog: every file operation ends, well or badly.
`TasksFairness`: timers fire, the model answers or errors, a close event is
delivered. A command owes nothing: it may run, or hold its pipes, for ever.
`SpeechFairness`: timers fire. The engine owes nothing, not even an event.
`McpFairness`: a connection comes to an end, if only by the time-out the client
sets (CONNECT_TIMEOUT_MS). `ServingFairness`: each flush resolves or rejects, and
the timer before a posted shutdown fires.

## 5. What is proved

By TLAPS, for every value of the constants.

`SessionProofs.tla`:

* `TypeCorrect`: `Spec => []TypeOK`. The invariant is inductive as it stands;
  the proof has one step per action, grouped by what they write, and lemmas on
  how an appended entry keeps the tree well formed (`Append1Type` and those
  after it).
* `FaultAlwaysAnswerable`: `Spec => []FaultIsAnswerable`. Inductive as it stands,
  because every place that writes `awaiting-persistence` does so under
  `pendingPersistence`, and the two places that clear the fault also leave the
  pause. One lemma per kind of step.

Also there, the other properties of Session. None of them holds of
every instance: each meets one of the findings of section 6. So each theorem
says for which operations it holds; its hypotheses are about the constants, and
the run that checks the property satisfies them.

| Theorem | Property | Where | What that keeps out |
|---|---|---|---|
| `LoopIsOne` | `OneLoop` | `StopsFindTheLoop`: no stop and no fault, or no approval, compaction card and retried write | a stop that settles the session under an approved tool, a discard under a retry of the writes |
| `PinIsTheTurns` | `PinFollowsTurn` | `Unstopped` (neither stop nor fault), no titles | a pin kept through a stop at the card, a send during the title call |
| `ConfigurationWaits` | `AdoptsAtBoundary` | the same, no cap | a configuration adopted under a capped turn |
| `SummariesCoverTheirBranch` | `CompactionCoversBranch` | `StopsFindTheLoop`, `BranchStays`: no *Compact now*, and no titles where the reader rewinds | *Compact now* under "idle", a send during the title call |
| `TurnsAreGranted` | `CallsAreGranted` | `Unstopped`, `CheckedSpend`: no automatic compaction or no cap; a breaker of one failure or more | a compaction that crosses the cap after the check, a halt that a discard forgets |
| `StopEndsTheTurn` | `NoTurnAfterStop` | `StopSticks`: nothing a person started outlasts the stop | an approved tool, a compaction, a title call or a queued message under a stop |
| `CardsFollowTheStatus` | `CardMatchesStatus` | `Unstopped`, `ConsentAnswers`: no consented tool throws, a message buys a round | a tool that throws, a soft stop at a card |
| `ResultsFollowTheirCalls` | `ToolResultsUnbroken` | `WireKept`: `Unstopped`, `BranchStays`, `ConsentAnswers`, no answer cut off, no tool that throws, edits as the browser makes them | an answer cut off with tool calls, a batch that a stop abandons |

They rest on one another. `LoopOK` is what each program point of the loop relies
on (`PointOK`: the status under which it runs, the flags that are down there)
and what the session relies on at any time (`SessionOK`); that one activation is
in the loop follows because whoever enters it comes from a status in which
nobody is in it. `PinOK` adds to it where the branch is pinned: in the loop, at a
card and at the cap, and nowhere else. `CoverOK` says that a summary under way is
of the branch the session works on, `GrantsOK` what the check before each point
has granted, `StopOK` that while a stop stands whoever is still in the loop finds
the flag it left, `CardsOK` that the batch, the card and the status name the same
call (its calls are of one message, in order, the first of them on the card).
`WireOK` speaks of the tree: every entry follows its parent as the protocol asks
(`FollowsOK`), and what a branch still owes is the batch that the session holds
(`Tree`). Most steps are then reduced to a few lemmas by who moves: the owner of
the loop, somebody beside it, nobody.

`AppendLogProofs.tla`: `LogTypeCorrect`, `AckedStaysOnDisk`, `NothingDangles`, `OrderKept`
(`SubmissionOrder`, which the refinement also checks),
`BacklogNeverForgotten`, `FlushNeverLies` and the refinement
`LogImplementsDurableLog`. None of these is inductive alone. `LogInv` adds what
ties the parts of the log together: the queue is the run of the latest records
(`QueueIsTail`), which are exactly the pending ones (`PendingAreQueued`); the
file holds nothing beyond the head of the queue (`DiskBehindQueue`), and while a
sync is under way the head is what was written last (`HeadIsLast`); a flush or
retry waits only for records submitted before it (`CallsLookBack`).

`ConversationProofs.tla`: the requests made of a conversation (Transcript), and the
log it is kept in (ConversationStore).

Transcript: `RequestsAreSendable` (`Sendable`) and `CacheIsReadBack`
(`RequestsStayCheap`), for any number of calls to an answer and any order of
answers, cut-offs, stops, edits, queued messages, folds and titles. Both speak of
what a fold over the branch returns; `TranscriptInv` speaks of the branch:

* `CallsOK`: of each answer with calls either all the results follow it unbroken
  (`Settled`), or it is one of those left behind; while the tools run, the batch
  under way is the one exception (`Batch`). What the replay makes of such a branch
  is by induction along it, entry by entry (`Folding`): each message with calls is
  followed by its results, because what holds them up, the images of a run, is
  flushed after the run.
* `PinsHold`: each answer came from the backend to which the branch up to it is
  pinned, so that the signatures of a request are of one backend, the one it names; a
  fold drops both from the branch.
* `CacheOK`: what the last served request wrote is carried by what the branch
  replays now (`Carries`), and for every user message with an answer after it the
  request up to it was written to the cache (`Served`). An anchor is the end of one.
* `SentOK`: the request that is out is the one the branch makes; `TitlesOK`: at the
  n-th title in a row the mark is at least `GrownBy(n - 1)` turns, which is
  (1 + MinTurns) times Growth to the n - 1.

ConversationStore: `StoreTypeCorrect`, `LogIsTheConversation`
(`LogMatchesLive`) and `RestartIsAPast` (`RestartShowsAPast`), for any number of
sessions, entries and records. What the session shows and what load() would
make of the log are equal only because of a fact neither states: *where load()
would follow any append (no activeLeaf record in force), the session appends at
its own pointer* (`Agree`). With that, an append keeps the two equal by cases on
whether it continues the reader's branch. `ViewsReplay` says the history variable
`views` is what it is meant to be; `ReplayTwice`, that a record a failed fsync
left in the file twice counts once, is why a retry is harmless. `AllPast` makes
each prefix of the log a conversation that was shown, also between the two
records of a fork and between the header and the first entry.

`ToolsProofs.tla`: the gate, and the tools behind it that read and write the
workspace's files.

Gate: `GateTypeCorrect`, `AnswersReplace` (`LatestAnswerWins`),
`OnceIsOnce` (`GrantsAreSpent`) and the three action properties
`ConsentToEveryPath` (`StartsWithConsent`), `ServersNeedRoots`
(`ServersStayInside`) and `GuessNeedsAnswer` (`GuessIsNoConsent`), for any
tools, file system, calls, settings and number of sessions. `GateInv` adds what
they rest on: a one-shot grant is for a path the person has seen
(`OnceWasShown`), a card raised where nothing may write, for a tool that may,
says that it is blocked (`BlockedIsMarked`), so that `approve` takes its second
look. `StartsTwoWays` reduces each action property to the two ways a call
starts; in both, what is fenced is all that nobody has called prose
(`PathsAreFencedThen`), because the lists are the latest answers.

Reading: `SilenceMeansAbsence` (`SilenceIsAbsence`), for files, corpora, windows
and caps of any size. `ReadingInv` (`Pages`) says that what a reader has got is the
lines up to the offset the last reply named, whatever cap cut the page; it holds
because the lines kept of a window (`KeptIs`: a fold with a cap inside a CHOOSE) are
none only where the first of them alone is above the cap. For the search,
`Counts` is carried through three nested folds (`MatchCounts`, `FileCounts`,
`WalksCount`): a scan that has noted nothing was not ended, and has counted all it
met.

Edits: `BatchesAreWhole` (`BatchIsWhole`), for calls with any number of files and
edits, on files of any length. `EditInv` says how far a batch has come: after k
writes the files the first k plans name are as planned and the rest are as they
were at the approval (`WrittenTo`), and what is left to write is the rest of the
plan *as made at the approval*; that no file is planned for twice is
`SpelledOnce`. That the sites changed are as many as were announced is the
arithmetic of split and join: `JoinCounts`, by induction backwards through the file,
ties the length of what join returns to the number of occurrences that `FindsExists`
and `JoinsExists` find along it, and `EditsStand` adds it up over the edits of one
file.

`BrowserProofs.tla`: all four properties of the run, for any sessions, past
conversations, requests under way and breaks of the stream.

* `MessagesReachTheirThread` (`MessagesFindTheirThread`) rests on `BornInv`: what
  the wire, the requests, the slices and the refs speak of is a session that was
  given out, and the next id is none of those; and on `ThreadInv`, which follows a
  conversation from the server to the slice and back: a live session has the one
  its id was given out for (`LiveAsGiven`), every frame about a session names that
  one (`WireTells`), so a slice has it or none (`SlicesTell`), and so has a message
  sent from the slice (`PostsTell`). A message without a conversation, for a session
  that is gone, is refused.
* `PromotionsKeepTheFocus` (`PromotionKeepsFocus`) rests on `Claimed`: a session
  that the pane is claimed for has its slice once a frame has described it, and
  until then the hold is on it, both now and at the last render; either way the
  fallback finds no reason to look elsewhere.
* `HandBacksAreTold` (`HandBackIsTold`) rests on `Counted`: what is due has a
  slice that counts the settle, and a place in the memory of the last render, to
  which `stepAttention` compares it.
* `ScreenCatchesUp` (`ScreenIsTheServer`) rests on `ScreenInv`, an account of what
  is under way: on the wire a roster comes first and stands alone for what was
  before it, the frame that adds a session comes before every other about it and
  the one that removes it after (`WireInv`); what the browser lacks is about to be
  added, what it still shows about to be removed (`Present`); a session that waits
  for an answer has its card, or the event or roster that brings it is coming, or its
  answer is under way (`Cards`). With nothing on the wire only the property is
  left.

`DocumentsProofs.tla`: two of the components of `MCDocuments`.

TodoList: `ListsStayAddressable` (`ListStaysAddressable`) and `WritesSee`
(`WritesWhatItSaw`), for conversations, lists, requests and rows of any size.
`TodoInv` has four parts. `ListsHold`: every list of the tree is `RowsKnown` (its
rows apart, each id one of those minted so far, so that the next ids are new to
it), and the list of an agent's entry `Follows` its parent's (no row dropped or
moved, texts apart if they were). `LeavesHold`, `RowsHold`: the pointers are in
the tree, the panel and the draft are lists. `SeenHolds`: what the agent was shown
is the list *at the entry the barrier remembers*, and while nobody has come
between, that entry is the tip of the branch in play. The property follows because
the list of a branch is the list at its tip (`TipsTell`). The lemmas go from
the operators up: `DraftsHold` (each edit of a call is resolved on the
list the edits before it left, and the one operation they are recorded as replays
to that same list), `PlanGrows` (all four fields of a request), `SnapshotApart`
(rows sent twice), `BranchesStay` (an appended entry leaves every list and tip
where it was).

Config: `FileStaysClosed` (`FileIsClosed`) and `SwitchingConverges`
(`SwitchConverges`), for any folders, keys, models, terminals and length of the
recents. `ConfigInv` says that the file and every copy a command holds are sound: their
recents are live, distinct and within the limit, a binding is the first of its
recents, derived rows are one per key and model and carry nothing foreign. The recents
are built by a recursive function over a list; `AmongKeeps`, what such a fold
returns for lists of every length, is proved by induction (see below). That
a bare `config model` answered with 1 goes back to the row before is
`SecondIsFirstChoice`: of the other rows of the key, the second of the recents
ranks first.

`OutsideProofs.tla`: the components of `MCOutside`.

Stream: `AnswersComeWhole` (`AnswerIsKept`), for any answers, in fragments
interleaved in any order, with lines that are lost, failures, departures and hits of
the cache. `StreamInv` says what is put together *before* the answer is whole
(`TogetherOK`): as long as no line was lost, of each part just the pieces that were
sent, in the order of that part (`TextIn`, `BlocksIn`, `CallsIn`). A piece adds to
one part and leaves the others (`BlocksGrow`, `CallsGrow` and `BlocksStay`,
`CallsStay`), because the index of its block or call is that part's alone; when all
was sent, nothing but the answer is left (`TextDone`, `BlocksDone`, `CallsDone`).
`Gathered` and `KeptOK` say the weaker thing that is true even of what was damaged:
it can be replayed. That a hit gives back what was put in the cache is then the fold
of `Accumulate` over `Replay`, block by block and call by call: blocks with indices
apart are not merged again, and the calls, renumbered, come back in their order.

Tasks: `TasksTypeCorrect`, `ClocksInStep` (`OneClock`),
`WatchKeepsUp` (`NeverSlipsOut`) and the refinement `TasksImplementVerdict`, for
any number of commands. `Life` is the strengthening: where a task's child stands
decides what its record, its clocks and its result may be; that a killed task
still has no result until its `close` is what makes the told reason the decided
one. For the refinement, `EveryStepMoves` lists the only things a step may do to
one task's record.

Speech: `SpeechTypeCorrect`, `ReadIsAttended` (`Attended`) and
`OnlyTheShownIsHeard` (`HeardIsLit`), for any keys, any number of looks and
reads. `ReadInv` says that the speaker is in one of three situations: `Silent`,
with nothing armed and nothing in the engine; `Settling`, with the one timer
that will speak and the engine still empty; `UnderWay`, with its watchdogs and
no utterance in the engine but its own.

Windows: `BudgetFires` (`BudgetIsReal`), for any models, windows,
settings and measures. `WindowsInv` says that no catalog, on disk or held, has a
window of zero; that the open session is what its settings derive from the
catalog its process holds *now* (`ThreadOK`: that catalog is never replaced while
a session is open); and that a measured prefix past the threshold is to be
folded. The rest is arithmetic: `BudgetFits` for the threshold below the window,
`CompactorLeavesRoom` for the model that summarises.

Serving: `CleanExitVouches` (`ExitVouches`), for any ports, any block
of candidates and any number of posts and signals. `ServingInv` adds that the scan
stays inside its candidates (`CandidatesAre` says what they are), that nothing is
flushed before a shutdown, that a loss has already turned the exit code, and that
the sockets are closed only when the flush is over.

McpServers: `AnswersAreKept` (`AskedOnce`), for any servers, questions and
instances. `McpInv` says that what was answered is in the file an instance would
load (`Kept`) and what people wrote is where they left it (`Left`); each write is
followed through the merge of the two files (`HandsKeep`, `RememberKeeps`,
`BreakKeeps`, `ImportKeeps`).

Induction. The induction theorems of the library take an operator and cannot be
used with the provers here; induction over a *set* of naturals can. `Least`
(a set of naturals has a least element, from `NatLessThanWellFounded` and
`WFMin`) and `UpTo` (a set with 0 and, below k, the next number of each of its
members contains 0..k) are all that the proofs about recursive functions use:
the set is that of the lengths for which the claim holds.

`Folding.tla` does this once for `FoldLeft`, with the step as its CONSTANT:
`FoldNone`, `FoldMore` (one more element is one more step), `FoldSame`,
`FoldSteps` (the fold as a trail of its intermediate values), `FoldJoin` (the fold of
two sequences joined), and for functions
defined along the parents of a tree (`ClimbExists`, `ClimbSame`, `ClimbAt`). A
proof instantiates it for each fold of the model (`INSTANCE Folding WITH Step <-
ApplyOp`).

Assumptions: the named ASSUMEs of the modules (bounds are naturals, ports and
buffers are not zero, kinds and operations are known ones; of TodoList, that None
is no entry, that the ids newId mints are a sequence without repeats, and that the
rows and edits of a request are sequences; of Reading, that a file has a line and a
limit is not below one; of Edits, that files and edits are of tokens, and that no
sequence of tokens stands for a file that is not there; of Transcript, that an
answer has finitely many calls and the two constants of the titles are naturals; of
Stream, that an answer is of letters and words and that its blocks, and its calls, bear
indices of their own, which is what the protocol means by an index), which TLC evaluates
in every run.

Of these, `AckedIsOnDisk`, `BacklogAttended`, `SubmissionOrder`, `NoDangling`,
`OneClock`, `NeverSlipsOut`, `Attended`, `HeardIsLit`, `LatestAnswerWins`,
`GrantsAreSpent` and `ServersStayInside` are not in a run any more: the theorem
says more.

Model-checked only: what holds under fairness (TurnEnds, QueueLands,
StopSettles, AppendSettles, CallReturns, ReadEnds, ServersSettle, ShutdownEnds),
which this prover cannot reach.

## 6. Findings

A run that TLC must find violated; PROJECT.json quotes the line it contradicts.

| Run | What happens |
|---|---|
| v_torn | the record after a torn line is appended to that line: acknowledged, and dropped by every later load |

While the models were written TLC showed more of the same two shapes, *a status
that is not "running" while work is awaited* and *a flag looked at before an
await or spent after one*. They are outside the runs, which exclude them by
their `Ops`, and are worth a look by whoever changes this code:

* *Compact now* awaits its summary under "idle" (session.ts:869): a message sent
  in between is answered nowhere, the summary cuts it off unread;
* `approve` awaits its tool under "awaiting-approval": a stop clears its own flag
  at once (session.ts:911) and the loop takes another model turn;
* an answer cut off at max_tokens with tool calls leaves them unanswered
  (session.ts:1549), and the next user message stands where results are owed;
* records given up after a failed write stay in the session's tree: the next
  entry is written below a parent the file does not have, or into a file
  without a header, which load() refuses (append-log.ts:164);
* a discard pressed while a retry of the writes is under way: the retry's end
  sets "idle" under a turn begun meanwhile (`retryPersistence`), so that a second
  loop can run beside it (`OneLoop` fails with "fault", "retryWrites" and
  "discard" among the `Ops` of the stop run), and the cap is not weighed;
* a discard on a session halted by the breaker sets "idle": the halt is
  forgotten and a message is accepted with N failures in a row; a request that
  Retry sends again is not weighed against a cap set meanwhile;
* two queued messages drained together make the anchor of the cache a point
  nothing was written up to; *Compact now* and a title over a half-answered run
  are not guarded (`endsWithUnansweredToolCall` looks at the last entry only);
* a stop during the title call of the loop is not looked at before the next
  model call; a soft stop at the last turn is spent, and a queued message then
  opens another;
* a send during the title call after the settle: when that call ends, the first
  turn releases the pin of the second;
* a configuration is adopted while a capped turn still holds its pin;
* a persistence fault during the last model call of a turn is skipped by the
  settle (session.ts:1555-1557), which makes the session idle;
* the cap is checked before a compaction, whose own spend may cross it;
* a paused or capped turn keeps its pin through a stop at the card;
* a tool that throws leaves the session "running" with nobody in the loop;
* a short write is acknowledged (append-log.ts:144 does not read the count);
* `retry()` of a log may resolve with the fault of another caller's drain;
* a conversation can be revived while the session closed before it still
  appends (server.ts:672-683, 795-809), against "Attach, don't duplicate";
* a killed command whose descendant left the group holds its pipes: the call
  does not return, and cannot be killed again (task-registry.ts:98);
* a child that had exited before the kill is reported killed;
* turning the watchdog on does not arm the tasks that already run
  (session.ts:570);
* the watchdog asks even at the spend cap, and with the command's own tool call
  unanswered on the wire (session.ts:1031);
* shutdown kills no tasks;
* auto-read remembers 64 keys (MEMORY_KEYS, tts.ts): after as many distinct
  notices an old reply may be read again; so is the old reply of a sibling
  branch when the reader switches to it;
* a message is edited or the branch switched: the todo panel still shows the
  list of the branch that was left (App.tsx:826 loads the tree and leaves the
  slice's list alone), and a draft saved from it replaces the new branch's list
  with `changedUnderneath` false, against App.tsx:2219;
* a one-shot grant survives an approved tool that throws (no `finally` at
  session.ts:1374-1375), and a stop during an approved tool leaves it to the
  next turn until that tool returns;
* a card that was not blocked when it was raised is not looked at again on
  approval: after a switch to Ask mode, or another session's answer that the
  tool writes, it runs (session.ts:1331);
* an approval may name any directory as the root to add (`addRoot` is passed on
  as it is, server.ts:1032-1033), and the call then runs on its paths whether or
  not that directory holds them (session.ts:1364-1374): it is the one way a server
  is given a path that is in no root, which H-08 is about. `ServersStayInside` says
  so, and that the person approved that path;
* "remember" names the directory of the first path beyond the fence
  (`suggestedRoot`), while the directory of each is remembered;
* a root "/" encloses nothing, because `within` compares with "//"
  (sandbox.ts:41): remembering it is asked again each time;
* a soft stop at a card leaves the card;
* browser: two promotions lose the pane, found when the invariant of
  `PromotionKeepsFocus` would not close. The roster of the first connection may be
  older than the session a request has just promoted, and `focus(pick)`
  (App.tsx:270-280) then moves the pane to another; and a promotion that
  overtakes an earlier one has its hold released by a frame about the other
  (one `promotingRef` for both). The property claims nothing in these two cases
  (`claim`);
* browser: the hold of a promotion stays for ever when its frame lands between
  the reply and the next render, or the session came and went while the stream
  was down; the reply comes when the turn has settled, and `focus` then pulls the
  person back, against App.tsx:248-249; `newSession` focuses without a hold;
  closing the session that is read aloud leaves the voice on, against App.tsx:223;
  a late tree reply conjures the slice of a session that is gone, and one that is
  refused puts null for the conversation of a slice (api.ts:413, App.tsx:151), so
  that a stale tab is not healed but told "no such session"; a resync can
  overwrite newer events; the card of an approval whose reply fails
  (`resolveApproval`) is not put back;
* server: the `onFault` listener of a session is never removed from the store;
* config.json: a command saves the whole file as it read it, and undoes what
  another saved meanwhile; `config set --model` keeps the price of the old model
  and does not look at the threshold; `config model` in a subfolder rebinds the
  folder above it while `serve` and `chat` go by the exact path;
  `persistDefaults` (serve-command.ts:211-235) finds its row by name;
* files: two spellings of one path in a batch: the second plan undoes the first,
  and the reply says that the whole batch was applied; a line as long as the cap
  is answered with the offset of itself; grep does not count .git and symlinks
  among what it left out, against file-tools.ts:628-629; a card of write_file may
  say "create" and overwrite a file made since;
* a stream that ends without a finish reason is taken as finished, and cached;
* `adoptConfig` says "Re-evaluate from what we know" (session.ts:582-584) and only
  clears the flag; a model newer than the catalog of the process runs under the
  fallback window after a live switch;
* mcp_settings.json: an answer replaces a file that does not parse by an entry
  without a command, writes an empty command over an entry that became unusable,
  and brings back one that was removed by hand; two instances overwrite each
  other's lists in the global file; `mcp import` drops what it does not know;
* shutdown: the first flush that is rejected ends the wait for the others (the
  exit code is 1), and exit 0 says nothing of records appended after the flush;
* the first write on a branch forked from a point with the same tip is not
  refused, against session.ts:444-447; a change of a note is left out of the
  notice when the text changed too (`renderTodoDiff`).

## 7. Not modelled

The text of prompts, summaries, titles and messages; price arithmetic; token
estimates; glob, listings and media of the file tools (functions of one call);
the conversion of MCP schemas and a single call of a tool; authentication, logging,
the argument parser; the debug journal (a second log whose failures are logged);
workspace instructions (read once); the markup of the browser, its search and
settings, and what auto-read chooses to say. Of the routes, those that only read.
