------------------------------ MODULE Browser -------------------------------
(* The web client (App.tsx, session-state.ts, attention.ts) on the bus of   *)
(* the server (server.ts, manager.ts): sessions come and go, their events   *)
(* stream down one connection that may break, replies to requests arrive    *)
(* when they like, and React renders several of these at once.              *)
(***************************************************************************)
EXTENDS Naturals, Sequences, FiniteSets, SequencesExt

CONSTANTS
    Sessions,       \* ids the server may give to sessions
    Threads,        \* conversations of the past, on disk when all begins
    None,
    Ops,            \* what the person does in this instance
    MaxWire,        \* bound: frames under way when the server adds more
    MaxPosts,       \* bound: requests under way when the person makes another
    Drops           \* bound: how often the connection breaks or the server dies

ASSUME NoneAssumption == None \notin Sessions \cup Threads
ASSUME ThreadsAssumption == Sessions \cap Threads = {}

VARIABLES
    live,           \* the manager's bag: each session's conversation
    born,           \* ids given out so far; none is given twice
    doing,          \* what each session is at
    logged,         \* conversations that have a log on disk
    given,          \* history: the conversation each id was given out for
    wire,           \* frames on their way to the browser
    connected,      \* the stream is open
    drops,          \* how often it has broken, or the server has died
    posts,          \* requests of the browser, until their reply is handled
    slices,         \* what the client knows of each session
    focusedId,      \* the session on screen, as last set
    promoting,      \* the session a peek was promoted to, not described yet
    peek,           \* the thread of the past that is open above the pane
    seen,           \* focusedRef and promotingRef: the two as of the last render
    stale,          \* something is to be rendered
    describedRef,   \* ids whose descriptor has arrived
    initialized,    \* the first roster has been handled
    memory,         \* attention: the reason last seen for each session
    due,            \* history: settles folded and neither told nor watched yet
    conjured,       \* history: slices a late tree reply made after the removal
    claim           \* history: the session a promotion handed the pane to

server == <<live, born, doing, logged, given>>
bus    == <<wire, connected, drops>>
pane   == <<focusedId, peek>>
screen == <<slices, pane, promoting>>
refs   == <<seen, stale, describedRef, initialized, memory>>
ghosts == <<due, conjured, claim>>
vars   == <<server, bus, posts, screen, refs, ghosts>>

Ids == DOMAIN slices
LiveIds == DOMAIN live

-----------------------------------------------------------------------------
(* The server: every frame is queued for whoever is subscribed             *)

Sends(frames) == wire' = IF connected THEN wire \o frames ELSE wire

(* A descriptor: what the session is at, and its conversation.             *)
Descriptor(d, c) == [doing |-> d, conv |-> c]

Added(s, is) == [t |-> "added", id |-> s, is |-> is]
Removed(s)  == [t |-> "removed", id |-> s]
Event(s, e) == [t |-> "event", id |-> s, e |-> e]

HasRoom == Len(wire) < MaxWire
ServerMoves == UNCHANGED <<connected, drops, screen, refs, ghosts>>

(* A turn: the model is asked, answers, asks the person, is done.          *)
ModelCallEnds(s) ==
    /\ HasRoom /\ s \in LiveIds /\ doing[s] = "turn"
    /\ Sends(<<Event(s, "assistant-end"), Event(s, "assistant-start")>>)
    /\ ServerMoves /\ UNCHANGED <<server, posts>>

TurnLands(s) ==
    /\ HasRoom /\ s \in LiveIds /\ doing[s] = "turn"
    /\ \E next \in {"idle", "awaiting"} :
          /\ doing' = [doing EXCEPT ![s] = next]
          /\ Sends(<<Event(s, IF next = "idle" THEN "assistant-end" ELSE "awaiting-input")>>)
    /\ ServerMoves /\ UNCHANGED <<live, born, logged, given, posts>>

(* startSession, with manager.add: registered, wired and announced at once.*)
Announced(s, conv, frames) == <<Added(s, Descriptor("idle", conv))>> \o frames

Opens(s, conv, d, frames) ==
    /\ s \in Sessions \ born
    /\ live' = [x \in LiveIds \cup {s} |-> IF x = s THEN conv ELSE live[x]]
    /\ born' = born \cup {s} /\ given' = [given EXCEPT ![s] = conv]
    /\ doing' = [doing EXCEPT ![s] = d]
    /\ Sends(Announced(s, conv, frames)) /\ UNCHANGED logged

(* The session of a conversation, if it is live: attach, don't duplicate.  *)
SessionOf(p) ==                \* mutant: the conversation is not looked for
    IF p.from \in LiveIds THEN {p.from} ELSE {}
Attached(p) ==
    IF p.from \in LiveIds THEN {p.from} ELSE {s \in LiveIds : live[s] = p.conv}

(* What is on disk of the conversation that rode along. A session id that  *)
(* misses, with none, is refused: it starts no thread.                     *)
OrFresh(p) ==                  \* mutant: it does
    ({p.conv} \cap logged) \cup (IF p.conv = None THEN Sessions \ born ELSE {})
Loaded(p) == {p.conv} \cap logged

Moved(p, st, s) == posts' = (posts \ {p}) \cup {[p EXCEPT !.st = st, !.sid = s]}

(* POST /chat reaches the server: it attaches, or loads the conversation   *)
(* and revives it, and sends. A session that is busy refuses, and so does  *)
(* the server where there is nothing to load. A first message has the log  *)
(* of its conversation made.                                               *)
Chat(p) ==
    /\ p.op \in {"promote", "submit"} /\ p.st = "sent" /\ HasRoom
    /\ \/ \E s \in Attached(p) :
             \/ /\ doing[s] = "idle"
                /\ doing' = [doing EXCEPT ![s] = "turn"]
                /\ Sends(<<Event(s, "assistant-start")>>)
                /\ logged' = logged \cup {live[s]}
                /\ Moved(p, "turn", s) /\ UNCHANGED <<live, born, given>>
             \/ doing[s] # "idle" /\ Moved(p, "failed", s) /\ UNCHANGED <<server, wire>>
       \/ /\ Attached(p) = {}
          /\ \E s \in Sessions, c \in Loaded(p) :
                /\ Opens(s, c, "turn", <<Event(s, "assistant-start")>>)
                /\ Moved(p, "turn", s)
       \/ /\ Attached(p) = {} /\ Loaded(p) = {}
          /\ Moved(p, "failed", p.from) /\ UNCHANGED <<server, wire>>
    /\ ServerMoves

(* It answers when the turn has settled, paused, or been stopped.          *)
ChatAnswers(p) ==
    /\ p.st = "turn"
    /\ p.sid \in LiveIds => doing[p.sid] # "turn"
    /\ Moved(p, "done", p.sid)
    /\ ServerMoves /\ UNCHANGED <<server, wire>>

(* POST /session, /session/:id/answer and /session/:id/close.              *)
Serve(p) ==
    /\ p.st = "sent" /\ HasRoom
    /\ \/ /\ p.op \in {"new", "first"}
          /\ \E s \in Sessions : Opens(s, s, "idle", <<>>) /\ Moved(p, "done", s)
       \/ /\ p.op = "answer"
          /\ \/ /\ p.from \in LiveIds /\ doing[p.from] = "awaiting"
                /\ doing' = [doing EXCEPT ![p.from] = "turn"]
                /\ Sends(<<Event(p.from, "assistant-start")>>)
                /\ Moved(p, "turn", p.from) /\ UNCHANGED <<live, born, logged, given>>
             \/ /\ p.from \in LiveIds => doing[p.from] # "awaiting"
                /\ Moved(p, "failed", p.from) /\ UNCHANGED <<server, wire>>
       \/ /\ p.op = "close" /\ p.from \in LiveIds
          /\ live' = [s \in LiveIds \ {p.from} |-> live[s]]
          /\ doing' = [doing EXCEPT ![p.from] = "idle"]
          /\ Sends(<<Event(p.from, "stopped"), Removed(p.from)>>)
          /\ Moved(p, "done", p.from) /\ UNCHANGED <<born, logged, given>>
       \/ /\ p.op = "close" /\ p.from \notin LiveIds
          /\ Moved(p, "failed", p.from) /\ UNCHANGED <<server, wire>>
    /\ ServerMoves

-----------------------------------------------------------------------------
(* The connection                                                          *)

Breaks ==
    /\ connected /\ drops < Drops
    /\ connected' = FALSE /\ wire' = <<>> /\ drops' = drops + 1
    /\ UNCHANGED <<server, posts, screen, refs, ghosts>>

(* GET /events: subscribed, then the snapshot, in one go.                  *)
Connects ==
    /\ ~connected /\ connected' = TRUE
    /\ wire' = <<[t |-> "roster", of |-> [s \in LiveIds |-> Descriptor(doing[s], live[s])]]>>
    /\ UNCHANGED <<server, drops, posts, screen, refs, ghosts>>

(* The server process dies and another one is started: the bag is empty,   *)
(* what was streaming is lost, and a request it was at comes back with     *)
(* nothing. The tab stays as it is. (A log that was not written yet is a   *)
(* conversation that cannot be loaded: Failed.)                            *)
Restarts ==
    /\ drops < Drops /\ drops' = drops + 1
    /\ live' = <<>> /\ doing' = [s \in Sessions |-> "idle"]
    /\ connected' = FALSE /\ wire' = <<>>
    /\ posts' = {[p EXCEPT !.st = IF @ = "turn" THEN "failed" ELSE @] : p \in posts}
    /\ UNCHANGED <<born, logged, given, screen, refs, ghosts>>

-----------------------------------------------------------------------------
(* The slice of a session                                                  *)

NewSlice == [working |-> FALSE, ask |-> FALSE, moved |-> FALSE, conv |-> None]

ApplyState(slice, is) ==
    [slice EXCEPT !.working = is.doing = "turn", !.ask = is.doing = "awaiting", !.conv = is.conv]

Settles == {"assistant-end", "awaiting-input"}

ReduceEvent(slice, e) ==
    [slice EXCEPT !.working = e = "assistant-start",
                  !.ask     = @ \/ e = "awaiting-input",
                  !.moved   = @ \/ e \in Settles]

SliceOf(s) == IF s \in Ids THEN slices[s] ELSE NewSlice

Put(s, slice) == slices' = [x \in Ids \cup {s} |-> IF x = s THEN slice ELSE slices[x]]

(* The roster replaces the map; what is known of its sessions stays known. *)
MergedRoster(of) ==            \* mutant: what the roster lacks is kept
    [s \in Ids \cup DOMAIN of |-> IF s \in DOMAIN of THEN ApplyState(SliceOf(s), of[s]) ELSE slices[s]]
Roster(of) == [s \in DOMAIN of |-> ApplyState(SliceOf(s), of[s])]

-----------------------------------------------------------------------------
(* onFrame                                                                 *)

FocusOn(s) == focusedId' = s /\ peek' = None

(* described: if one of these is the session a promotion waits for, the    *)
(* pane is handed over, unless the person has gone elsewhere.              *)
Describes(ids) ==
    /\ describedRef' = describedRef \cup ids
    /\ IF seen.promoting \in describedRef'
       THEN /\ promoting' = None
            /\ IF seen.focusedId = seen.promoting THEN FocusOn(seen.promoting)
               ELSE UNCHANGED pane
       ELSE UNCHANGED <<pane, promoting>>

(* The same where the pane goes to s whoever was waited for.               *)
DescribesFor(ids, s) ==
    /\ describedRef' = describedRef \cup ids
    /\ promoting' = IF seen.promoting \in describedRef' THEN None ELSE promoting
    /\ FocusOn(s)

(* The session the address names, or the first: a focus sets the address,  *)
(* and a page may be opened with any in it.                                *)
FirstFocus(ids) == \E s \in ids : (focusedId \in ids => s = focusedId) /\ DescribesFor(ids, s)

Took == /\ wire # <<>> /\ wire' = Tail(wire) /\ stale' = TRUE
        /\ UNCHANGED <<server, connected, drops, seen, memory>>

(* The thread a promotion had taken is closed: nothing is claimed of it.   *)
Unclaimed(ids) == claim' = IF claim \in ids \/ claim \notin describedRef THEN claim ELSE None

HandleRoster == Took /\ LET f == Head(wire) IN
    /\ f.t = "roster"
    /\ slices' = Roster(f.of)
    /\ initialized' = TRUE
    /\ IF initialized \/ f.of = <<>>
       THEN Describes(DOMAIN f.of) ELSE FirstFocus(DOMAIN f.of)
    /\ posts' = posts \cup
          (IF initialized \/ f.of # <<>> THEN {}
           ELSE {[op |-> "first", from |-> None, conv |-> None, st |-> "sent", sid |-> None]})
    /\ conjured' = {} /\ due' = due \cap DOMAIN f.of
    /\ IF initialized \/ f.of = <<>> THEN Unclaimed(DOMAIN f.of)
       ELSE claim' = IF claim \in DOMAIN f.of THEN claim ELSE None

HandleAdded == Took /\ LET f == Head(wire) IN
    /\ f.t = "added"
    /\ Put(f.id, ApplyState(SliceOf(f.id), f.is))
    /\ IF seen.focusedId = None THEN DescribesFor({f.id}, f.id) ELSE Describes({f.id})
    /\ UNCHANGED <<initialized, posts, ghosts>>

HandleRemoved == Took /\ LET f == Head(wire) IN
    /\ f.t = "removed"
    /\ slices' = [s \in Ids \ {f.id} |-> slices[s]]
    /\ due' = due \ {f.id} /\ conjured' = conjured \ {f.id} /\ Unclaimed(Ids \ {f.id})
    /\ UNCHANGED <<initialized, posts, pane, promoting, describedRef>>

HandleEvent == Took /\ LET f == Head(wire) IN
    /\ f.t = "event"
    /\ Put(f.id, ReduceEvent(SliceOf(f.id), f.e))
    /\ due' = IF f.e \in Settles /\ f.id \in DOMAIN memory THEN due \cup {f.id} ELSE due
    /\ UNCHANGED <<initialized, posts, pane, promoting, describedRef, conjured, claim>>

-----------------------------------------------------------------------------
(* A render, and the effects that follow it                                *)

Reason(s) == IF slices[s].ask THEN "input" ELSE IF slices[s].working THEN "busy" ELSE "idle"
Watched(s, hidden) == ~hidden /\ s = focusedId

(* stepAttention: the level, and the count of settles beside it.           *)
LevelChanged(s) == Reason(s) # memory[s]     \* mutant: the count is not looked at
Edge(s) == slices[s].moved \/ Reason(s) # memory[s]
Fired(hidden) ==
    {s \in Ids \cap DOMAIN memory : Reason(s) # "busy" /\ Edge(s) /\ ~Watched(s, hidden)}

(* nextFocus: gone, or not here yet?                                       *)
Gone(pending) == focusedId # None /\ focusedId \notin Ids     \* mutant: nothing is waited for
Fallback(pending) == focusedId \notin Ids \cup {None, pending}

Render ==
    /\ stale
    /\ seen' = [focusedId |-> focusedId, promoting |-> promoting]
    /\ memory' = [s \in Ids |-> Reason(s)]
    /\ slices' = [s \in Ids |-> [slices[s] EXCEPT !.moved = FALSE]]
    /\ \E hidden \in BOOLEAN :     \* whether the tab is in the background by then
          due' = {s \in due : ~(s \in Fired(hidden) \/ Watched(s, hidden) \/ Reason(s) = "busy")}
    /\ IF Fallback(promoting)
       THEN /\ \E s \in Ids \cup {None} : (s = None <=> Ids = {}) /\ focusedId' = s
            /\ stale' = TRUE
       ELSE UNCHANGED focusedId /\ stale' = FALSE
    /\ UNCHANGED <<server, bus, posts, promoting, peek, describedRef, initialized, conjured, claim>>

(* A reply of loadTree, asked for when the session was on screen, and it   *)
(* may have taken long: it says which conversation this is, or that there  *)
(* is none where the session was gone when the server looked. One that is  *)
(* not on screen by now gets a slice. (One that says what its slice says   *)
(* changes nothing and is left out.)                                       *)
Told(s) == {given[s]} \cup (IF s \in LiveIds THEN {} ELSE {None})

TreeArrives(s) ==
    /\ s \in describedRef
    /\ \E c \in Told(s) \ {slices[x].conv : x \in Ids \cap {s}} :
          Put(s, [SliceOf(s) EXCEPT !.conv = c])
    /\ conjured' = conjured \cup ({s} \ Ids) /\ stale' = TRUE
    /\ UNCHANGED <<server, bus, posts, pane, promoting, seen, describedRef, initialized,
                   memory, due, claim>>

-----------------------------------------------------------------------------
(* The person, who acts on what is rendered                                *)

Acts(op) == op \in Ops /\ ~stale
            /\ UNCHANGED <<server, bus, seen, describedRef, initialized, memory, due, conjured>>

Posts(op, from, conv) ==
    /\ Cardinality(posts) < MaxPosts
    /\ posts' = posts \cup {[op |-> op, from |-> from, conv |-> conv, st |-> "sent", sid |-> None]}

Focus(s) ==
    /\ Acts("focus") /\ s \in Ids
    /\ FocusOn(s) /\ stale' = TRUE /\ claim' = None
    /\ UNCHANGED <<posts, slices, promoting>>

(* HISTORY is what is on disk and not in the rail.                         *)
OpenPeek(c) ==
    /\ Acts("peek") /\ c \in logged \ {slices[s].conv : s \in Ids}
    /\ peek' = [conv |-> c, sending |-> FALSE] /\ stale' = TRUE
    /\ UNCHANGED <<posts, slices, focusedId, promoting, claim>>

PromotePeek ==
    /\ Acts("peek") /\ peek # None /\ ~peek.sending
    /\ Posts("promote", None, peek.conv)
    /\ peek' = [peek EXCEPT !.sending = TRUE] /\ stale' = TRUE
    /\ UNCHANGED <<slices, focusedId, promoting, claim>>

(* The conversation rides along, as the slice has it.                      *)
Submit(s) ==
    /\ Acts("submit") /\ s = focusedId /\ s \in Ids /\ peek = None
    /\ Posts("submit", s, slices[s].conv)
    /\ UNCHANGED <<screen, stale, claim>>

NewSession ==
    /\ Acts("new") /\ Posts("new", None, None)
    /\ UNCHANGED <<screen, stale, claim>>

CloseOne(s) ==
    /\ Acts("close") /\ s \in Ids /\ Posts("close", s, None)
    /\ UNCHANGED <<screen, stale, claim>>

(* submitAnswer: the card goes at once.                                    *)
Answer(s) ==
    /\ Acts("answer") /\ s = focusedId /\ s \in Ids /\ slices[s].ask /\ peek = None
    /\ Posts("answer", s, None)
    /\ Put(s, [slices[s] EXCEPT !.ask = FALSE, !.working = TRUE]) /\ stale' = TRUE
    /\ UNCHANGED <<pane, promoting, claim>>

-----------------------------------------------------------------------------
(* Replies                                                                 *)

Handled(p) == /\ posts' = posts \ {p} /\ stale' = TRUE
              /\ UNCHANGED <<server, bus, seen, describedRef, initialized, memory, due, conjured>>

(* The pane is handed over only when there is something to hand it to.     *)
Promoted(p) ==
    /\ p.op = "promote" /\ p.st = "done" /\ Handled(p)
    /\ IF p.sid \in describedRef
       THEN FocusOn(p.sid) /\ UNCHANGED promoting
       ELSE promoting' = p.sid /\ focusedId' = p.sid /\ UNCHANGED peek
    /\ claim' = IF \/ p.sid \in Ids \cap describedRef
                    \/ (p.sid \notin describedRef /\ seen.promoting \in {None, p.sid})
                THEN p.sid ELSE None
    /\ UNCHANGED slices

(* createSession by the button, and submit where the session was revived.  *)
Landed(p) ==
    /\ p.op \in {"new", "submit"} /\ p.st = "done" /\ Handled(p)
    /\ IF p.sid = p.from THEN UNCHANGED <<pane, claim>>
       ELSE FocusOn(p.sid) /\ claim' = None
    /\ UNCHANGED <<slices, promoting>>

Quietly(p) ==
    /\ p.op \in {"first", "close", "answer"} /\ p.st = "done" /\ Handled(p)
    /\ UNCHANGED <<screen, claim>>

(* A refusal, or a request that came back with nothing: it may have been   *)
(* applied or not.                                                         *)
CardBack(s) == TRUE

Failed(p) ==
    /\ p.st # "done" /\ Handled(p)
    /\ peek' = IF p.op = "promote" /\ peek # None /\ peek.conv = p.conv
               THEN [peek EXCEPT !.sending = FALSE] ELSE peek
    /\ IF p.op = "answer" /\ p.from \in Ids
       THEN Put(p.from, [slices[p.from] EXCEPT !.working = FALSE, !.ask = CardBack(p.from)])
       ELSE UNCHANGED slices
    /\ UNCHANGED <<focusedId, promoting, claim>>

-----------------------------------------------------------------------------
Init ==
    /\ live = <<>> /\ born = {} /\ doing = [s \in Sessions |-> "idle"]
    /\ logged = Threads /\ given = [s \in Sessions |-> None]
    /\ wire = <<>> /\ connected = FALSE /\ drops = 0 /\ posts = {}
    /\ slices = <<>> /\ focusedId = None /\ promoting = None /\ peek = None
    /\ seen = [focusedId |-> None, promoting |-> None] /\ stale = FALSE
    /\ describedRef = {} /\ initialized = FALSE
    /\ memory = <<>>
    /\ due = {} /\ conjured = {} /\ claim = None

Next ==
    \/ \E s \in Sessions : ModelCallEnds(s) \/ TurnLands(s) \/ TreeArrives(s)
    \/ \E s \in Sessions : Focus(s) \/ Submit(s) \/ CloseOne(s) \/ Answer(s)
    \/ \E p \in posts : Chat(p) \/ ChatAnswers(p) \/ Serve(p)
    \/ \E p \in posts : Promoted(p) \/ Landed(p) \/ Quietly(p) \/ Failed(p)
    \/ Breaks \/ Connects \/ Restarts
    \/ HandleRoster \/ HandleAdded \/ HandleRemoved \/ HandleEvent \/ Render
    \/ \E c \in logged : OpenPeek(c)
    \/ PromotePeek \/ NewSession

Spec == Init /\ [][Next]_vars

-----------------------------------------------------------------------------
(* Properties                                                              *)

Drained == connected /\ wire = <<>>

OneSessionPerThread == \A s, t \in LiveIds : live[s] = live[t] => s = t

(* The thread a message was written under, and the one that took it.       *)
WrittenUnder(p) == IF p.op = "submit" THEN given[p.from] ELSE p.conv
Accepted(p) == p.op \in {"submit", "promote"} /\ p.st \in {"turn", "done"}

(* A thread goes on in one place, and what is typed under it goes there:   *)
(* whatever has been closed, revived or died with its server meanwhile,    *)
(* whatever late trees and rosters have told the slice, and with other     *)
(* messages on their way to the same thread, no two live sessions are on   *)
(* one conversation ("attach, don't duplicate"), and a message that was    *)
(* taken was taken by the conversation it was written under. It may be     *)
(* refused; it never opens a thread of its own or ends up in another.      *)
MessagesFindTheirThread ==
    /\ OneSessionPerThread
    /\ \A p \in posts : Accepted(p) => given[p.sid] = WrittenUnder(p)

(* Once a peek has been promoted and that is rendered, the pane is its     *)
(* session's until the person goes elsewhere or the session is closed: no  *)
(* frame, whether it is late or lost, moves it to another thread (X-50).   *)
(* Two cases make no claim (see claim): the thread that the first roster   *)
(* does not know yet, and a promotion that overtakes another one.          *)
PromotionKeepsFocus == claim # None /\ seen.focusedId = claim => focusedId = claim

(* A turn that came back while nobody was looking is told, however many    *)
(* events one render takes in.                                             *)
HandBackIsTold == ~stale => due = {}

(* With the connection up and every frame handled, over breaks and         *)
(* reconnects, the screen is what the server has: the rail shows the live  *)
(* sessions (the one exception is a slice that a tree reply made after its *)
(* session had been removed), and one that waits for an answer shows its   *)
(* card, also after an answer that was refused or lost.                    *)
ScreenIsTheServer ==
    Drained =>
        /\ Ids = LiveIds \cup conjured
        /\ \A s \in LiveIds : doing[s] = "awaiting" =>
              SliceOf(s).ask \/ \E p \in posts : p.op = "answer" /\ p.from = s
=============================================================================
