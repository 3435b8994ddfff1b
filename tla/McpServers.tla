----------------------------- MODULE McpServers -----------------------------
(* The MCP servers of an instance (mcp/client.ts, config.ts, commands.ts): *)
(* children started side by side from two settings files under time-outs,  *)
(* closed at the end; and what the person teaches about them, which is     *)
(* written into the files the person edits by hand.  A call of a tool      *)
(* changes nothing here and is left out.                                   *)
(***************************************************************************)
EXTENDS Naturals

CONSTANTS
    McpNames,       \* servers
    Questions,      \* "is this field a path", "does this tool write"
    NoEntry,        \* a server that a file does not mention
    MaxStarts,      \* bound: instances, one after the other
    MaxEdits        \* bound: edits by hand, and imports

VARIABLES
    settingsFile,   \* for each scope: whether it parses, and its entries
    phase,          \* of the instance: "off", "starting", "up"
    servers,        \* the entries it holds, merged, with the scope they are from
    conn,           \* "none", "disabled", "connecting", "listing", "connected", "failed"
    child,          \* the process of a server is alive
    settled,        \* history: <<server, question>> answered and kept, and not edited since
    byHand,         \* history: <<scope, server, disabled>> of the usable entries, as people wrote them
    starts, edits

mcpVars == <<settingsFile, phase, servers, conn, child, settled, byHand, starts, edits>>
instance == <<phase, servers, conn, child, starts>>

-----------------------------------------------------------------------------
(* The settings files                                                      *)

Scopes == {"global", "workspace"}
Unasked == [q \in Questions |-> "none"]
Entries == [command : BOOLEAN, wellFormed : BOOLEAN, disabled : BOOLEAN, learned : [Questions -> {"none", "yes", "no"}]]
Entry(command, wellFormed, disabled) ==
    [command |-> command, wellFormed |-> wellFormed, disabled |-> disabled, learned |-> Unasked]
Blank == Entry(FALSE, TRUE, FALSE)
Plain == Entry(TRUE, TRUE, FALSE)

ASSUME NoEntryAssumption == NoEntry \notin Entries

(* entryProblem                                                            *)
Usable(e) == IF e = NoEntry THEN FALSE ELSE e.command /\ e.wellFormed

ReadSettingsFile(f) == [s \in McpNames |-> IF f.parses /\ Usable(f.entry[s]) THEN f.entry[s] ELSE NoEntry]

(* loadSettings: an entry of the workspace replaces the global one; one    *)
(* that cannot be used does not.                                           *)
LoadSettings(s) ==
    LET w == ReadSettingsFile(settingsFile["workspace"])[s]
    IN  IF w # NoEntry THEN [config |-> w, scope |-> "workspace"]
        ELSE [config |-> ReadSettingsFile(settingsFile["global"])[s], scope |-> "global"]

(* updateServerEntry: the lists that were learned, over what the file says *)
(* now; an entry that cannot be used loses its command, and a file that    *)
(* does not parse everything else.                                         *)
WritesWhatItHolds(f, s, q, answer) ==    \* mutant: the entry as it was when the instance started
    [f EXCEPT !.entry[s] = [servers[s].config EXCEPT !.learned[q] = answer]]
UpdateServerEntry(f, s, q, answer) ==
    LET there == IF f.parses /\ f.entry[s] # NoEntry THEN f.entry[s] ELSE Blank
        put   == [there EXCEPT !.command = ReadSettingsFile(f)[s] # NoEntry, !.learned[q] = answer]
    IN  [parses |-> TRUE,
         entry |-> [t \in McpNames |-> IF t = s THEN put ELSE IF f.parses THEN f.entry[t] ELSE NoEntry]]

McpInit ==
    /\ settingsFile = [c \in Scopes |-> [parses |-> TRUE,
                        entry |-> [s \in McpNames |-> IF c = "global" THEN Plain ELSE NoEntry]]]
    /\ phase = "off" /\ servers = [s \in McpNames |-> LoadSettings(s)]
    /\ conn = [s \in McpNames |-> "none"]
    /\ child = [s \in McpNames |-> FALSE]
    /\ settled = {} /\ byHand = {<<"global", s, FALSE>> : s \in McpNames}
    /\ starts = 0 /\ edits = 0

-----------------------------------------------------------------------------
(* McpManager                                                              *)

Files == <<settingsFile, settled, byHand, edits>>

StartServers ==
    /\ phase = "off" /\ starts < MaxStarts
    /\ phase' = "starting" /\ starts' = starts + 1
    /\ servers' = [s \in McpNames |-> LoadSettings(s)]
    /\ conn' = [s \in McpNames |->
                  CASE servers'[s].config = NoEntry -> "none"
                    [] servers'[s].config # NoEntry -> IF servers'[s].config.disabled THEN "disabled" ELSE "connecting"]
    /\ UNCHANGED <<child, Files>>

Becomes(s, state, alive) ==
    /\ conn' = [conn EXCEPT ![s] = state] /\ child' = [child EXCEPT ![s] = alive]
    /\ UNCHANGED <<phase, servers, starts, Files>>

(* connect.  When the initialisation fails the client closes its transport *)
(* itself; when listing the tools fails, the manager does.                 *)
Spawns(s) == conn[s] = "connecting" /\ ~child[s] /\ Becomes(s, "connecting", TRUE)
Initializes(s) == conn[s] = "connecting" /\ child[s] /\ Becomes(s, "listing", TRUE)
InitializeFails(s) == conn[s] = "connecting" /\ Becomes(s, "failed", FALSE)
ListsTools(s) == conn[s] = "listing" /\ child[s] /\ Becomes(s, "connected", TRUE)
CleanedUp(s) == FALSE
ListToolsFails(s) == conn[s] = "listing" /\ Becomes(s, "failed", CleanedUp(s))

ChildDies(s) ==
    /\ child[s] /\ child' = [child EXCEPT ![s] = FALSE]
    /\ UNCHANGED <<phase, servers, conn, starts, Files>>

AllConnected == \A s \in McpNames : conn[s] \in {"none", "disabled", "connected"}  \* mutant: a failure is fatal
AllSettled == \A s \in McpNames : conn[s] \notin {"connecting", "listing"}
Started ==
    /\ phase = "starting" /\ AllSettled
    /\ phase' = "up"
    /\ UNCHANGED <<servers, conn, child, starts, Files>>

(* remember, rememberWrite: live at once, and in the file if it can be     *)
(* written.                                                                *)
Remember(s, q, answer) == \E written \in BOOLEAN :
    LET c == servers[s].scope
    IN  /\ phase = "up" /\ conn[s] = "connected"
        /\ servers[s].config.learned[q] # answer
        /\ servers' = [servers EXCEPT ![s].config.learned[q] = answer]
        /\ IF written
           THEN /\ settingsFile' = [settingsFile EXCEPT ![c] = UpdateServerEntry(@, s, q, answer)]
                /\ settled' = IF LoadSettings(s).config # NoEntry /\ LoadSettings(s).scope = c
                              THEN settled \cup {<<s, q>>} ELSE settled
           ELSE settingsFile' = settingsFile /\ settled' = settled \ {<<s, q>>}
        /\ UNCHANGED <<phase, conn, child, byHand, starts, edits>>

Close ==
    /\ phase = "up" /\ phase' = "off"
    /\ conn' = [s \in McpNames |-> "none"]
    /\ child' = [s \in McpNames |-> FALSE]
    /\ UNCHANGED <<servers, starts, Files>>

-----------------------------------------------------------------------------
(* Other hands on the files                                                *)

Edited(c, f) == edits < MaxEdits /\ edits' = edits + 1 /\ settingsFile' = [settingsFile EXCEPT ![c] = f]

(* The person, in an editor: an entry is switched off, broken, taken out or*)
(* put in; or the whole file is.                                           *)
EditEntry(c, s, e) ==
    /\ settingsFile[c].parses /\ settingsFile[c].entry[s] # e
    /\ Edited(c, [settingsFile[c] EXCEPT !.entry[s] = e])
    /\ settled' = settled \ ({s} \X Questions)
    /\ byHand' = (byHand \ ({c} \X {s} \X BOOLEAN)) \cup (IF Usable(e) THEN {<<c, s, e.disabled>>} ELSE {})
    /\ UNCHANGED instance
BreakFile(c) ==
    /\ settingsFile[c].parses
    /\ Edited(c, [settingsFile[c] EXCEPT !.parses = FALSE])
    /\ settled' = {} /\ byHand' = byHand \ ({c} \X McpNames \X BOOLEAN)
    /\ UNCHANGED instance

(* `mcp import`: what the global file has that can be used, and what the   *)
(* source adds; without --force a server that is there is not replaced.    *)
Import(source, force) ==
    LET there == ReadSettingsFile(settingsFile["global"])
        added == {s \in source : force \/ there[s] = NoEntry}
    IN  /\ Edited("global", [parses |-> TRUE, entry |-> [s \in McpNames |-> IF s \in added THEN Plain ELSE there[s]]])
        /\ settled' = settled \ (added \X Questions)
        /\ byHand' = (byHand \ ({"global"} \X added \X BOOLEAN)) \cup ({"global"} \X added \X {FALSE})
        /\ UNCHANGED instance

McpNext ==
    \/ StartServers \/ Started \/ Close
    \/ \E s \in McpNames :
          \/ Spawns(s) \/ Initializes(s) \/ InitializeFails(s) \/ ListsTools(s) \/ ListToolsFails(s) \/ ChildDies(s)
          \/ \E q \in Questions, answer \in {"yes", "no"} : Remember(s, q, answer)
          \/ \E c \in Scopes, e \in {NoEntry, Plain, Entry(TRUE, FALSE, FALSE), Entry(TRUE, TRUE, TRUE)} : EditEntry(c, s, e)
    \/ \E c \in Scopes : BreakFile(c)
    \/ \E source \in SUBSET McpNames, force \in BOOLEAN : Import(source, force)

McpSpec == McpInit /\ [][McpNext]_mcpVars

(* What the time-outs of connect and listTools see to.                     *)
Settles(s) == InitializeFails(s) \/ Initializes(s) \/ ListsTools(s) \/ ListToolsFails(s)
McpFairness == \A s \in McpNames : WF_mcpVars(Settles(s)) /\ WF_mcpVars(Started)

-----------------------------------------------------------------------------
(* Properties                                                              *)

(* "The session asks the user once and persists the answer": an answer that*)
(* could be written is known to the next instance too, unless people edited*)
(* that server since; and writing it disturbs nothing that people wrote: an*)
(* entry that could be used can be used still, and what was switched off or*)
(* on meanwhile stays so.  (A file that does not parse, or an entry that   *)
(* cannot be used, does not survive an answer.)                            *)
AskedOnce ==
    /\ \A a \in settled : LET e == LoadSettings(a[1]).config
                         IN  IF e = NoEntry THEN FALSE ELSE e.learned[a[2]] # "none"
    /\ \A h \in byHand : LET e == settingsFile[h[1]].entry[h[2]] IN Usable(e) /\ e.disabled = h[3]

(* "Reported, not fatal": starting comes to its end whatever the servers   *)
(* do; and a server that failed, or an instance that was closed, leaves no *)
(* child running.                                                          *)
ServersSettle ==
    /\ (phase = "starting") ~> (phase # "starting")
    /\ [](\A s \in McpNames : child[s] => phase # "off" /\ conn[s] # "failed")
=============================================================================
