------------------------------ MODULE TodoList ------------------------------
(* The todo list a session shares with the person (X-31, D-74, D-77): todo *)
(* entries on a branching conversation, the agent's read barrier           *)
(* (src/src/session/session.ts), the panel that holds the person's draft   *)
(* (src/web/src/App.tsx) and the route that commits it.                    *)
(*                                                                         *)
(* Entry n of `entries` is [parent, by, ops]; 0 is above the root.  An     *)
(* entry of the dialogue (a user message) has no ops.                      *)
(***************************************************************************)
EXTENDS TodoOps

CONSTANTS
    None,           \* undefined, and null for what is not a leaf
    IdNames,        \* the ids newId() will mint, in order
    Requests,       \* what the agent asks of todo_write
    TypedTexts,     \* what a person types into a row, Blank included
    TypedNotes,     \* what a person leaves in a note, Blank included
    MaxEntries      \* bound: entries of the conversation

ASSUME NoneAssumption == None \notin Nat
ASSUME IdsAssumption ==
    /\ IdNames \in Seq(Range(IdNames)) /\ IsInjective(IdNames)
    /\ \A n \in DOMAIN IdNames : IdNames[n] # NoMatch
ASSUME RequestsAssumption ==
    \A asked \in Requests : asked.add \in Seq(Range(asked.add)) /\ asked.edit \in Seq(Range(asked.edit))
ASSUME EntriesAssumption == MaxEntries \in Nat

VARIABLES
    entries,
    minted,         \* ids minted so far
    activeLeaf,     \* the reader's
    turnLeaf,       \* the turn's, or None
    todoSeen,       \* the todo entry the agent has seen, 0 for an empty list, or None
    shown,          \* history: the list the agent was last shown, or None
    panel,          \* the list in the browser
    draft,          \* the rows the person began to edit, or None
    disturbed       \* history: somebody came between the agent and the list it was shown

vars == <<entries, minted, activeLeaf, turnLeaf, todoSeen, shown, panel, draft, disturbed>>

-----------------------------------------------------------------------------
(* The list of a branch                                                    *)

ListAt(leaf) ==
    LET list[e \in 0..Len(entries)] ==
            IF e = 0 THEN <<>> ELSE FoldTodos(list[entries[e].parent], entries[e].ops)
    IN  list[leaf]

TodoTip(leaf) ==
    LET tip[e \in 0..Len(entries)] ==
            CASE e = 0 -> 0
              [] e # 0 /\ entries[e].ops # <<>> -> e
              [] OTHER -> tip[entries[e].parent]
    IN  tip[leaf]

WorkingLeaf == IF turnLeaf # None THEN turnLeaf ELSE activeLeaf
Todos == ListAt(WorkingLeaf)

MayAppend == Len(entries) < MaxEntries
NextIds == SubSeq(IdNames, minted + 1, Len(IdNames))
MayMint(n) == n <= Len(NextIds)

(* pushEntry, appendEntry                                                  *)
PushEntry(by, ops) ==
    LET new == Len(entries) + 1
    IN  /\ entries' = Append(entries, [parent |-> WorkingLeaf, by |-> by, ops |-> ops])
        /\ activeLeaf' = IF WorkingLeaf = activeLeaf THEN new ELSE activeLeaf
        /\ turnLeaf' = IF turnLeaf # None THEN new ELSE None

Init ==
    /\ entries = <<>> /\ minted = 0
    /\ activeLeaf = 0 /\ turnLeaf = None
    /\ todoSeen = None /\ shown = None
    /\ panel = <<>> /\ draft = None
    /\ disturbed = TRUE

-----------------------------------------------------------------------------
(* The turn                                                                *)

(* The user message, to which the turn is then pinned: below the leaf, or  *)
(* beside a message that is edited (send, editFork).                       *)
OpenTurnAt(leaf) ==
    /\ turnLeaf = None /\ MayAppend
    /\ entries' = Append(entries, [parent |-> leaf, by |-> "dialogue", ops |-> <<>>])
    /\ activeLeaf' = Len(entries')
    /\ turnLeaf' = Len(entries')
    /\ disturbed' = (disturbed \/ leaf # activeLeaf)
    /\ UNCHANGED <<minted, todoSeen, shown, panel, draft>>

Send == OpenTurnAt(activeLeaf)
EditFork == \E e \in DOMAIN entries : entries[e].by = "dialogue" /\ OpenTurnAt(entries[e].parent)

TurnEnds ==
    /\ turnLeaf # None
    /\ turnLeaf' = None
    /\ disturbed' = (disturbed \/ activeLeaf # turnLeaf)
    /\ UNCHANGED <<entries, minted, activeLeaf, todoSeen, shown, panel, draft>>

AgentReads ==
    /\ turnLeaf # None
    /\ todoSeen' = TodoTip(WorkingLeaf)
    /\ shown' = Todos /\ disturbed' = FALSE
    /\ UNCHANGED <<entries, minted, activeLeaf, turnLeaf, panel, draft>>

(* writeTodos: the barrier, whose refusal is the look that was missing     *)
NeverRead == todoSeen = None               \* mutant: one read is enough
Stale == todoSeen # TodoTip(WorkingLeaf)

Looks == todoSeen' = TodoTip(WorkingLeaf)

BarrierRefuses ==
    /\ turnLeaf # None
    /\ Stale
    /\ Looks
    /\ shown' = Todos /\ disturbed' = FALSE
    /\ UNCHANGED <<entries, minted, activeLeaf, turnLeaf, panel, draft>>

(* A plan that is refused changes nothing, and shows the same list again.  *)
AgentWrites ==
    /\ turnLeaf # None /\ MayAppend
    /\ ~Stale
    /\ \E input \in {asked \in Requests : MayMint(Len(asked.add))} :
         LET plan == PlanTodoWrite(Todos, input, NextIds)
         IN  /\ plan.ok
             /\ PushEntry("agent", plan.ops)
             /\ minted' = minted + Len(input.add)
             /\ todoSeen' = Len(entries')
             /\ shown' = plan.items
             /\ panel' = plan.items
             /\ disturbed' = FALSE
    /\ UNCHANGED <<draft>>

-----------------------------------------------------------------------------
(* The person                                                              *)

SetActiveLeaf ==
    /\ activeLeaf' \in DOMAIN entries \ {activeLeaf}
    /\ disturbed' = (disturbed \/ turnLeaf = None)
    /\ UNCHANGED <<entries, minted, turnLeaf, todoSeen, shown, panel, draft>>

(* The browser asks for the settled state: a reconnect, a lost reply.      *)
Resync ==
    /\ panel' = Todos
    /\ UNCHANGED <<entries, minted, activeLeaf, turnLeaf, todoSeen, shown, draft, disturbed>>

(* "edit", or "start a list" when it is empty.                             *)
StartEdit ==
    /\ draft = None /\ draft' = panel
    /\ UNCHANGED <<entries, minted, activeLeaf, turnLeaf, todoSeen, shown, panel, disturbed>>

Cancel ==
    /\ draft # None /\ draft' = None
    /\ UNCHANGED <<entries, minted, activeLeaf, turnLeaf, todoSeen, shown, panel, disturbed>>

(* What a person may have made of the rows by the time of Save: a row is   *)
(* removed, typed over, ticked, noted or added.  Another client may also   *)
(* move rows, leave out notes or send a row twice.                         *)
Retouched(row) ==
    {[row EXCEPT !.text = text] : text \in TypedTexts}
    \cup {[row EXCEPT !.note = note] : note \in TypedNotes}
    \cup {[row EXCEPT !.done = ~@]}
Typed(text) == [id |-> None, text |-> text, done |-> FALSE, note |-> Absent]
Drafts(rows) ==
    {rows}
    \cup {RemoveAt(rows, n) : n \in DOMAIN rows}
    \cup (UNION {{[rows EXCEPT ![n] = row] : row \in Retouched(rows[n])} : n \in DOMAIN rows})
    \cup {Reverse(rows), [n \in DOMAIN rows |-> [rows[n] EXCEPT !.note = Absent]]}
    \cup {Append(rows, Typed(text)) : text \in TypedTexts}
    \cup {Append(rows, rows[n]) : n \in DOMAIN rows}

(* Save, the route and setTodos.  Ids are minted for rows that keep none.  *)
Save ==
    /\ draft # None /\ draft' = None
    /\ \E desired \in Drafts(draft) :
         LET rows == Filled(desired)
             new == Cardinality(NewRows(Todos, rows))
             items == SnapshotItems(Todos, rows, NextIds)
         IN  /\ MayMint(new)
             /\ IF items = Todos
                THEN UNCHANGED <<entries, minted, activeLeaf, turnLeaf, panel, disturbed>>
                ELSE /\ MayAppend
                     /\ PushEntry("user", <<[op |-> "set", items |-> items]>>)
                     /\ minted' = minted + new
                     /\ panel' = items /\ disturbed' = TRUE
    /\ UNCHANGED <<todoSeen, shown>>

(* The process ends; the conversation is loaded again.                     *)
Restart ==
    /\ turnLeaf' = None
    /\ todoSeen' = None /\ shown' = None
    /\ panel' = ListAt(activeLeaf) /\ disturbed' = TRUE
    /\ UNCHANGED <<entries, minted, activeLeaf, draft>>

-----------------------------------------------------------------------------
Next ==
    \/ Send \/ EditFork \/ TurnEnds \/ AgentReads \/ BarrierRefuses \/ AgentWrites
    \/ SetActiveLeaf \/ Resync \/ StartEdit \/ Cancel \/ Save \/ Restart

Spec == Init /\ [][Next]_vars

-----------------------------------------------------------------------------
(* Properties                                                              *)

Wrote(by) == Len(entries') = Len(entries) + 1 /\ entries'[Len(entries')].by = by

(* "The agent never overwrites what it has not read" (D-74): each write it *)
(* gets through is made against exactly the list it was last shown, and    *)
(* what a write hands back is what the log folds to, over forks, rewinds,  *)
(* the person's commits and restarts (writeTodos, todoTip, foldTodos).  And*)
(* the barrier is "causal, not temporal": once the agent has been shown the*)
(* list it may write, until a person commits, the branch in play changes,  *)
(* or the process restarts.  Neither a new turn nor a reader who looks     *)
(* elsewhere during one costs it a call (H-05).                            *)
WritesWhatItSaw ==
    /\ [][Wrote("agent") => shown = Todos]_vars
    /\ [](~disturbed => ~Stale)

Texts(list) == [n \in DOMAIN list |-> list[n].text]
Listed(list) == [n \in DOMAIN list |-> list[n].id]

(* What a row or a write names is one item: ids stay unique, whatever rows *)
(* a browser sends (planTodoSnapshot's `used`), and texts stay distinct    *)
(* where they were ("Text must stay unique, or a later strike-by-text is   *)
(* ambiguous by construction", planTodoWrite).  An agent's write drops no  *)
(* item and moves none.                                                    *)
ListStaysAddressable ==
    \A e \in DOMAIN entries :
        /\ IsInjective(Listed(ListAt(e)))
        /\ entries[e].by = "agent" =>
              LET before == ListAt(entries[e].parent)
                  after  == ListAt(e)
              IN  /\ IsPrefix(Listed(before), Listed(after))
                  /\ IsInjective(Texts(before)) => IsInjective(Texts(after))
=============================================================================
