------------------------- MODULE ConversationStore -------------------------
(* One conversation and the session objects that hold it over time: the    *)
(* records a session submits (startSession in src/src/server/server.ts, the*)
(* pushEntry and setActiveLeaf of src/src/session/session.ts), the log they*)
(* go to, and what load() (src/src/persist/conversation-store.ts) makes of *)
(* the file after a restart or a revival.                                  *)
(*                                                                         *)
(* The log is what DurableLog promises: records reach the file one at a    *)
(* time in order, and a failed one stalls the rest.  Entries are numbered  *)
(* in the order they are made; parent[e] is the entry e hangs from.        *)
(***************************************************************************)
EXTENDS Integers, Sequences

CONSTANTS
    Sessions,       \* session objects, one per opening of the conversation
    Ops,            \* what may happen: "rewind", "edit", "aside", "fault", "discard", "crash", "close"
    MaxEntries,     \* bound: entries
    MaxRecords      \* bound: records submitted

ASSUME OpsAssumption == Ops \subseteq {"rewind", "edit", "aside", "fault", "discard", "crash", "close"}
ASSUME StoreBounds == MaxEntries \in Nat /\ MaxRecords \in Nat

VARIABLES
    parent,     \* of each entry ever made
    file,       \* records in the file
    queue,      \* records submitted and not yet written
    stalled,    \* a write failed and nobody has decided what to do
    loaded,     \* what load() makes of the file (it grows at its end only)
    live,       \* the session objects
    views,      \* history: what load() will make of the file as far as each record of queue
    lived,      \* history: the conversations a session has shown
    intact      \* history: nothing was discarded, and no two sessions wrote to the log

vars == <<parent, file, queue, stalled, loaded, live, views, lived, intact>>

Root     == 0
Unpinned == -1

Nothing == [header |-> FALSE, entries |-> {}, leaf |-> Root, pinned |-> FALSE]
Blank(st) == [st |-> st, created |-> FALSE, entries |-> {}, leaf |-> Root, turnLeaf |-> Unpinned]

ReplayFollowsAll(v, r) ==   \* mutant: the rule before H-05
    CASE r.kind = "header" -> [v EXCEPT !.header = TRUE]
      [] r.kind = "activeLeaf" -> [v EXCEPT !.leaf = r.id]
      [] r.kind = "entry" -> [v EXCEPT !.entries = @ \cup {r.id}, !.leaf = r.id]
(* One turn of the loop of load(): an activeLeaf record is in force until  *)
(* an append continues from it.                                            *)
Replay(v, r) ==
    LET follows == r.parent = v.leaf
    IN CASE r.kind = "header" -> [v EXCEPT !.header = TRUE]
         [] r.kind = "activeLeaf" -> [v EXCEPT !.leaf = r.id, !.pinned = TRUE]
         [] r.kind = "entry" ->
              [v EXCEPT !.entries = @ \cup {r.id},
                        !.leaf = IF follows \/ ~v.pinned THEN r.id ELSE @,
                        !.pinned = @ /\ ~follows]

Header       == [kind |-> "header", id |-> Root, parent |-> Root]
Moved(leaf)  == [kind |-> "activeLeaf", id |-> leaf, parent |-> Root]
Made(e, at)  == [kind |-> "entry", id |-> e, parent |-> at]

(* ensureCreated(): the header leads the first entry of a new conversation.*)
Lead(s) == IF live[s].created THEN <<>> ELSE <<Header>>

Promised  == IF views = <<>> THEN loaded ELSE views[Len(views)]
Submitted == Len(file) + Len(queue)

(* One record, or two in a row.                                            *)
Submit(rs) ==
    /\ Submitted + Len(rs) <= MaxRecords
    /\ queue' = queue \o rs
    /\ LET v == Replay(Promised, rs[1])
       IN views' = views \o IF Len(rs) = 1 THEN <<v>> ELSE <<v, Replay(v, rs[2])>>

WorkingLeaf(s) == IF live[s].turnLeaf # Unpinned THEN live[s].turnLeaf ELSE live[s].leaf
Shown(c) == [entries |-> c.entries, leaf |-> c.leaf]

(* appendEntry(): the reader's pointer follows what extends its branch.    *)
AppendEntry(c, e, at, pin) ==
    [st |-> c.st, created |-> TRUE, entries |-> c.entries \cup {e},
     leaf |-> IF at = c.leaf THEN e ELSE c.leaf,
     turnLeaf |-> IF pin = Unpinned THEN c.turnLeaf ELSE e]

-----------------------------------------------------------------------------
(* pushEntry() of session s, its pin being pin, after rs was submitted.    *)
Push(s, c, at, pin, rs) ==
    LET e == Len(parent) + 1
        d == AppendEntry(c, e, at, pin)
    IN /\ e <= MaxEntries
       /\ parent' = Append(parent, at)
       /\ Submit(rs \o Lead(s) \o <<Made(e, at)>>)
       /\ live' = [live EXCEPT ![s] = d]
       /\ lived' = lived \cup {Shown(c), Shown(d)}
       /\ UNCHANGED <<file, stalled, loaded, intact>>

(* A turn opens and is pinned to the branch in view.  Session says when the*)
(* status lets it; a turn left at a card keeps its pin and may be followed *)
(* by another, so the pin is no guard.                                     *)
Send(s) ==
    /\ live[s].st = "open"
    /\ LET c == [live[s] EXCEPT !.turnLeaf = live[s].leaf]
       IN Push(s, c, c.leaf, c.leaf, <<>>)

(* The pointer moves to the parent of the edited entry first.              *)
EditFork(s) ==
    /\ "edit" \in Ops /\ live[s].st = "open"
    /\ \E e \in live[s].entries :
          LET c == [live[s] EXCEPT !.leaf = parent[e], !.turnLeaf = parent[e]]
          IN Push(s, c, c.leaf, c.leaf, <<Moved(parent[e])>>)

(* The turn's answers and results.  A closed session goes on until its loop*)
(* sees the stop.                                                          *)
TurnAppends(s) ==
    /\ live[s].st \in {"open", "closed"} /\ live[s].turnLeaf # Unpinned
    /\ Push(s, live[s], live[s].turnLeaf, live[s].turnLeaf, <<>>)

(* compactNow() and the todo route append whether or not a turn is running.*)
AppendAside(s) ==
    /\ "aside" \in Ops /\ live[s].st \in {"open", "closed"}
    /\ Push(s, live[s], WorkingLeaf(s), live[s].turnLeaf, <<>>)

TurnEnds(s) ==
    /\ live[s].turnLeaf # Unpinned
    /\ live' = [live EXCEPT ![s].turnLeaf = Unpinned]
    /\ UNCHANGED <<parent, file, queue, stalled, loaded, views, lived, intact>>

(* retry(): the turn is taken up again on the branch in view.              *)
Repin(s) ==
    /\ live[s].st = "open"
    /\ live' = [live EXCEPT ![s].turnLeaf = live[s].leaf]
    /\ UNCHANGED <<parent, file, queue, stalled, loaded, views, lived, intact>>

SetActiveLeaf(s) ==
    /\ "rewind" \in Ops /\ live[s].st = "open"
    /\ \E e \in live[s].entries \cup {Root} :
          /\ Submit(<<Moved(e)>>)
          /\ live' = [live EXCEPT ![s].leaf = e]
          /\ lived' = lived \cup {Shown(live'[s])}
    /\ UNCHANGED <<parent, file, stalled, loaded, intact>>

-----------------------------------------------------------------------------
(* The log.                                                                *)

Land ==
    /\ file' = Append(file, Head(queue))
    /\ loaded' = Replay(loaded, Head(queue))

Write ==
    /\ ~stalled /\ queue # <<>>
    /\ Land
    /\ queue' = Tail(queue) /\ views' = Tail(views)
    /\ UNCHANGED <<parent, stalled, live, lived, intact>>

WriteSkips ==       \* mutant: the log drains past a failure
    /\ "fault" \in Ops /\ ~stalled /\ queue # <<>>
    /\ queue' = Tail(queue) /\ views' = Tail(views)
    /\ UNCHANGED <<parent, file, loaded, stalled, live, lived, intact>>
WriteFails ==
    /\ "fault" \in Ops /\ ~stalled /\ queue # <<>>
    /\ stalled' = TRUE
    /\ UNCHANGED <<parent, file, queue, loaded, live, views, lived, intact>>

(* The record is in the file but its fsync failed: a retry writes it again.*)
SyncFails ==
    /\ "fault" \in Ops /\ ~stalled /\ queue # <<>> /\ Submitted < MaxRecords
    /\ stalled' = TRUE
    /\ Land
    /\ UNCHANGED <<parent, queue, live, views, lived, intact>>

RetryWrites ==
    /\ stalled /\ stalled' = FALSE
    /\ UNCHANGED <<parent, file, queue, loaded, live, views, lived, intact>>

DiscardPending ==
    /\ "discard" \in Ops /\ stalled
    /\ stalled' = FALSE /\ queue' = <<>> /\ views' = <<>> /\ intact' = FALSE
    /\ UNCHANGED <<parent, file, loaded, live, lived>>

-----------------------------------------------------------------------------
(* The route stops the session and drops it from the manager; its loop and *)
(* its listener on the store are still there.                              *)
Close(s) ==
    /\ "close" \in Ops /\ live[s].st = "open"
    /\ live' = [live EXCEPT ![s].st = "closed"]
    /\ UNCHANGED <<parent, file, queue, stalled, loaded, views, lived, intact>>

(* Every call into the closed session has returned.                        *)
Unwinds(s) ==
    /\ live[s].st = "closed" /\ live[s].turnLeaf = Unpinned
    /\ live' = [live EXCEPT ![s] = Blank("gone")]
    /\ UNCHANGED <<parent, file, queue, stalled, loaded, views, lived, intact>>

(* The process dies: what was not in the file is gone, and so is everybody.*)
Crash ==
    /\ "crash" \in Ops
    /\ queue' = <<>> /\ views' = <<>> /\ stalled' = FALSE
    /\ live' = [s \in Sessions |-> IF live[s].st = "none" THEN live[s] ELSE Blank("gone")]
    /\ UNCHANGED <<parent, file, loaded, lived, intact>>

(* /chat by conversation id: attach to the one that is listed, else load.  *)
Revive(s) ==
    /\ live[s].st = "none" /\ \A t \in Sessions : live[t].st # "open"
    /\ loaded.header
    /\ live' = [live EXCEPT ![s] =
          [st |-> "open", created |-> TRUE, entries |-> loaded.entries, leaf |-> loaded.leaf, turnLeaf |-> Unpinned]]
    /\ lived' = lived \cup {Shown(live'[s])}
    /\ intact' = (intact /\ queue = <<>> /\ \A t \in Sessions : live[t].st # "closed")
    /\ UNCHANGED <<parent, file, queue, stalled, loaded, views>>

Init ==
    /\ parent = <<>> /\ file = <<>> /\ queue = <<>> /\ stalled = FALSE
    /\ loaded = Nothing /\ views = <<>>
    /\ \E s \in Sessions : live = [t \in Sessions |-> IF t = s THEN Blank("open") ELSE Blank("none")]
    /\ lived = {Shown(Blank("open"))} /\ intact = TRUE

SessionStep(s) ==
    \/ Send(s) \/ EditFork(s) \/ TurnAppends(s) \/ AppendAside(s) \/ TurnEnds(s) \/ Repin(s)
    \/ SetActiveLeaf(s) \/ Close(s) \/ Unwinds(s) \/ Revive(s)

Next ==
    \/ \E s \in Sessions : SessionStep(s)
    \/ Write \/ WriteFails \/ SyncFails \/ RetryWrites \/ DiscardPending \/ Crash

Spec == Init /\ [][Next]_vars

-----------------------------------------------------------------------------
(* Properties                                                              *)

Record(n) ==    \* of a conversation with n entries
    {r \in [kind : {"header", "activeLeaf", "entry"}, id : 0 .. n, parent : 0 .. n] :
        r.kind = "entry" => r.parent < r.id}
View(n)   == [header : BOOLEAN, entries : SUBSET (1 .. n), leaf : 0 .. n, pinned : BOOLEAN]
Object(n) == [st : {"none", "open", "closed", "gone"}, created : BOOLEAN,
              entries : SUBSET (1 .. n), leaf : 0 .. n, turnLeaf : 0 .. n \cup {Unpinned}]

(* Every variable has its type, and no entry hangs from a later one.       *)
TypeOK ==
    /\ parent \in Seq(Nat) /\ \A e \in 1 .. Len(parent) : parent[e] < e
    /\ file \in Seq(Record(Len(parent))) /\ queue \in Seq(Record(Len(parent))) /\ stalled \in BOOLEAN
    /\ loaded \in View(Len(parent)) /\ views \in Seq(View(Len(parent))) /\ Len(views) = Len(queue)
    /\ live \in [Sessions -> Object(Len(parent))]
    /\ lived \subseteq [entries : SUBSET Nat, leaf : Nat] /\ intact \in BOOLEAN

(* The log is the conversation on screen: once it is written out, load()   *)
(* rebuilds the tree and the pointer of the session that wrote it, though  *)
(* the session and load() each apply the rule of H-05 on their own.        *)
LogMatchesLive ==
    intact => \A s \in Sessions : live[s].st = "open" /\ live[s].created =>
                  Promised.header /\ Shown(Promised) = Shown(live[s])

(* Whenever the process dies, the restart opens the conversation, as it was*)
(* at some moment: never a mixture, never a branch nobody was on.          *)
RestartShowsAPast ==
    intact => Shown(loaded) \in lived /\ (loaded.entries # {} => loaded.header)
=============================================================================
