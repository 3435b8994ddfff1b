-------------------------------- MODULE Gate --------------------------------
(* What a tool call needs before it runs: the mode and the approval policy *)
(* (tools/mode-gate.ts), the fence around the workspace (sandbox.ts), the  *)
(* card, the grants of the person who answers it (approve, session.ts) and *)
(* what was learned from earlier answers about the tools of MCP servers    *)
(* (mcp/tool-class.ts, path-fields.ts), which all sessions share.          *)
(***************************************************************************)
EXTENDS Naturals

CONSTANTS
    Sessions, None,
    Native,         \* tools of JLCode itself
    NativeKind,     \* kind of each: "read", "write" or "command"
    Classifies,     \* those whose paths are nested, found by classifyPaths
    Bridged,        \* tools of an MCP server
    Hinted,         \* those whose server says readOnlyHint
    AlwaysAllow,    \* those the configuration approves beforehand
    Fields,         \* the arguments that hold paths, or look as if they did
    Paths, Dirs, Above, Dir,    \* the file system: proper ancestors, dirname
    FsRoot, Workspace,
    Calls,          \* tool, paths by field, whether plan mode takes it, allowlisted
    Settings        \* the modes and policies the person chooses from

Tools == Native \cup Bridged

ASSUME ToolsAssumption ==
    /\ Native \cap Bridged = {} /\ Hinted \subseteq Bridged /\ Tools \cap Fields = {}
    /\ Classifies \subseteq Native
    /\ NativeKind \in [Native -> {"read", "write", "command"}]
ASSUME FilesAssumption ==
    /\ Above \in [Paths -> SUBSET Dirs] /\ Dir \in [Paths -> Dirs]
    /\ \A p \in Paths : Dir[p] \in Above[p]
    /\ {FsRoot, Workspace} \subseteq Dirs
ASSUME CallsAssumption == \A c \in Calls :
    /\ c.tool \in Tools /\ {c.fits, c.safe} \subseteq BOOLEAN
    /\ DOMAIN c.at \subseteq Fields /\ \A f \in DOMAIN c.at : c.at[f] \in Paths
ASSUME SettingsAssumption == Settings \subseteq
    [mode : {"ask", "plan", "code"}, policy : {"manual", "auto-safe", "full-auto", "read-only"}]

Kinds == {"read", "write", "command"}
Cards == [call : Calls, kind : Kinds, blocked : BOOLEAN, askWrite : BOOLEAN,
          asks : SUBSET Fields, under : Settings]
Runs  == [call : Calls, byCard : BOOLEAN, named : SUBSET Dirs]
ASSUME NoneAssumption == None \notin Settings \cup Calls \cup Cards \cup Runs

VARIABLES
    setting,        \* mode and policy of a session, None before it is started
    roots, once,    \* its fence: allowed roots, one-shot allowances
    card,           \* the approval it waits for
    running,        \* the call its loop awaits; history: directories named for it
    stray,          \* an approved call a stop left behind
    learned,        \* answers about the server's tools and fields, for all sessions
    folderRoots,    \* roots the next session starts with
    said,           \* history: the latest answer about each tool and field
    consented,      \* history: paths in calls the person approved
    threw           \* history: an approved tool threw

vars == <<setting, roots, once, card, running, stray, learned, folderRoots,
          said, consented, threw>>
shared == <<learned, folderRoots, said>>

Init ==
    /\ setting = [s \in Sessions |-> None]
    /\ roots = [s \in Sessions |-> {}] /\ once = [s \in Sessions |-> {}]
    /\ card = [s \in Sessions |-> None]
    /\ running = [s \in Sessions |-> None] /\ stray = [s \in Sessions |-> None]
    /\ learned = [write |-> {}, read |-> {}, path |-> {}, prose |-> {}]
    /\ folderRoots = {}
    /\ said = [x \in Bridged \cup Fields |-> "nothing"]
    /\ consented = [s \in Sessions |-> {}]
    /\ threw = [s \in Sessions |-> FALSE]

-----------------------------------------------------------------------------
(* What is known of a tool and its arguments                               *)

(* classifyTool: unknown counts as a write until somebody says otherwise.  *)
Verdict(l, t) ==
    IF t \in Hinted THEN "read"
    ELSE IF t \in l.write THEN "write"
    ELSE IF t \in l.read THEN "read" ELSE "unknown"

Kind(l, t) ==
    IF t \in Native THEN NativeKind[t]
    ELSE IF Verdict(l, t) = "read" THEN "read" ELSE "command"

Guessed(l, t) == t \in Bridged /\ Verdict(l, t) = "unknown"

(* classifyArgs: what was never answered is fenced.                        *)
FencedWhenKnown(l, c) ==        \* mutant: an unanswered field is no path
    IF c.tool \in Native THEN DOMAIN c.at ELSE DOMAIN c.at \cap l.path
Fenced(l, c) ==
    IF c.tool \in Native THEN DOMAIN c.at
    ELSE {f \in DOMAIN c.at : f \in l.path \/ f \notin l.prose}
Unanswered(l, c) ==
    IF c.tool \in Native THEN {} ELSE DOMAIN c.at \ (l.path \cup l.prose)

(* rememberTool, rememberField: x moves to one list and leaves the other.  *)
Moves(list, yes, no) == (list \ no) \cup yes

Learn(t, a) ==
    [write |-> Moves(learned.write, IF a.writes = "writes" THEN {t} ELSE {},
                                    IF a.writes = "reads" THEN {t} ELSE {}),
     read  |-> Moves(learned.read, IF a.writes = "reads" THEN {t} ELSE {},
                                   IF a.writes = "writes" THEN {t} ELSE {}),
     path  |-> Moves(learned.path, a.path, a.prose),
     prose |-> Moves(learned.prose, a.prose, a.path)]

-----------------------------------------------------------------------------
(* Mode, policy, fence                                                     *)

ModeAllows(mode, l, c) ==
    \/ Kind(l, c.tool) = "read"
    \/ mode = "code"
    \/ mode = "plan" /\ c.fits

PolicyAllows(policy, l, c) ==
    \/ Kind(l, c.tool) = "read"
    \/ policy = "full-auto"
    \/ policy \in {"manual", "auto-safe"} /\ c.tool \in AlwaysAllow
    \/ policy = "auto-safe" /\ Kind(l, c.tool) = "command" /\ c.safe

Denies(s, l, c) ==
    \/ ~ModeAllows(setting[s].mode, l, c)
    \/ setting[s].policy = "read-only" /\ Kind(l, c.tool) # "read"
Allows(s, l, c) == ~Denies(s, l, c) /\ PolicyAllows(setting[s].policy, l, c)

(* Sandbox.within compares with "root/", so the root of the file system    *)
(* encloses nothing but itself.                                            *)
Within(s, p) ==
    \/ p \in once[s]
    \/ \E r \in roots[s] : r = p \/ (r \in Above[p] /\ r # FsRoot)

Escapes(s, l, c) == {p \in {c.at[f] : f \in Fenced(l, c)} : ~Within(s, p)}

-----------------------------------------------------------------------------
(* The loop and its calls (tryExecute)                                     *)

Free(s) == setting[s] # None /\ card[s] = None /\ running[s] = None

Raise(s, c, blocked, asks) ==
    /\ card' = [card EXCEPT ![s] =
         [call |-> c, kind |-> Kind(learned, c.tool), blocked |-> blocked,
          askWrite |-> Guessed(learned, c.tool), asks |-> asks, under |-> setting[s]]]
    /\ UNCHANGED <<setting, roots, once, running, stray, shared, consented, threw>>

(* Denied only because the tool is presumed to write: worth a question.    *)
PauseOnGuess(s, c) ==
    /\ Free(s)
    /\ Denies(s, learned, c) /\ Guessed(learned, c.tool)
    /\ Raise(s, c, TRUE, {})

PauseForConsent(s, c) ==
    /\ Free(s)
    /\ ~Denies(s, learned, c)
    /\ ~Allows(s, learned, c) \/ Escapes(s, learned, c) # {}
    /\ Raise(s, c, FALSE, Unanswered(learned, c))

RunByGate(s, c) ==
    /\ Free(s)
    /\ Allows(s, learned, c) /\ Escapes(s, learned, c) = {}
    /\ running' = [running EXCEPT ![s] = [call |-> c, byCard |-> FALSE, named |-> {}]]
    /\ UNCHANGED <<setting, roots, once, card, stray, shared, consented, threw>>

-----------------------------------------------------------------------------
(* The card (approve)                                                      *)

(* What the card asks, the person may answer or leave.                     *)
AnswersTo(k) ==
    {a \in [writes : {"", "writes", "reads"}, path : SUBSET k.asks, prose : SUBSET k.asks] :
        a.path \cap a.prose = {} /\ (a.writes # "" => k.askWrite)}

Answered(s, a) ==
    /\ card' = [card EXCEPT ![s] = None]
    /\ learned' = Learn(card[s].call.tool, a)
    /\ said' = [x \in DOMAIN said |->
         IF x = card[s].call.tool /\ a.writes # "" THEN a.writes
         ELSE IF x \in a.path THEN "path"
         ELSE IF x \in a.prose THEN "prose" ELSE said[x]]

(* A denial; and an approval that comes to nothing leaves the same behind. *)
CardDeclined(s) ==
    /\ card[s] # None
    /\ \E a \in AnswersTo(card[s]) : Answered(s, a)
    /\ UNCHANGED <<setting, roots, once, running, stray, folderRoots, consented, threw>>

TrustsApproval(s, l) == TRUE        \* mutant: no second look at a blocked call
StillBlocked(s, l) == card[s].blocked /\ Denies(s, l, card[s].call)
MayRun(s, l) == ~StillBlocked(s, l)

(* A server remembers what it is given (H-08). The code asks for the field *)
(* classifyPaths, which a native tool may have, too.                       *)
NeedsRoot(c) == c.tool \in Bridged \cup Classifies

(* What an approval grants the paths outside the fence: nothing but this   *)
(* once, the directory each is in, or one that the request names by hand,  *)
(* which need not hold any of them.                                        *)
OwnDirs(escapes) == {Dir[p] : p \in escapes}
Grants(escapes) ==
    IF escapes = {} THEN {{}} ELSE {{}, OwnDirs(escapes)} \cup {{d} : d \in Dirs}

(* The fence is widened for the arguments as the person left them, then the*)
(* call runs.                                                              *)
RunGranted(s, c, escapes, dirs) ==
    /\ escapes # {} /\ NeedsRoot(c) => dirs # {}
    /\ roots' = [roots EXCEPT ![s] = @ \cup dirs]
    /\ folderRoots' = folderRoots \cup dirs
    /\ once' = [once EXCEPT ![s] = @ \cup (IF dirs = {} THEN escapes ELSE {})]
    /\ running' = [running EXCEPT ![s] =
         [call |-> c, byCard |-> TRUE,
          named |-> IF dirs = OwnDirs(escapes) THEN {} ELSE dirs]]
    /\ consented' = [consented EXCEPT ![s] = @ \cup {c.at[f] : f \in DOMAIN c.at}]
    /\ UNCHANGED <<setting, stray, threw>>

(* Answers first, then the second look, then the fence.                    *)
RunByConsent(s) ==
    /\ card[s] # None
    /\ \E a \in AnswersTo(card[s]), c \in Calls :
         LET l == Learn(card[s].call.tool, a)
             escapes == Escapes(s, l, c)
         IN  /\ c.tool = card[s].call.tool
             /\ Answered(s, a)
             /\ MayRun(s, l)
             /\ \E dirs \in Grants(escapes) : RunGranted(s, c, escapes, dirs)

-----------------------------------------------------------------------------
(* Calls that end, stops, switches, new sessions                           *)

ClearOnce(s) == once' = [once EXCEPT ![s] = {}]

Returns(s) ==
    /\ running[s] # None
    /\ IF running[s].byCard THEN ClearOnce(s) ELSE UNCHANGED once
    /\ running' = [running EXCEPT ![s] = None]
    /\ UNCHANGED <<setting, roots, card, stray, shared, consented, threw>>

StrayReturns(s) ==
    /\ stray[s] # None
    /\ ClearOnce(s)
    /\ stray' = [stray EXCEPT ![s] = None]
    /\ UNCHANGED <<setting, roots, card, running, shared, consented, threw>>

(* approve has no finally around the call.                                 *)
Throws(s) ==
    /\ running[s] # None
    /\ threw' = [threw EXCEPT ![s] = @ \/ running[s].byCard]
    /\ running' = [running EXCEPT ![s] = None]
    /\ UNCHANGED <<setting, roots, once, card, stray, shared, consented>>

(* A stop at the card takes it away; while an approved call runs, it sets  *)
(* the session free at once.  One stray call is followed at a time.        *)
Stop(s) ==
    \/ /\ card[s] # None
       /\ card' = [card EXCEPT ![s] = None]
       /\ UNCHANGED <<setting, roots, once, running, stray, shared, consented, threw>>
    \/ /\ running[s] # None /\ running[s].byCard /\ stray[s] = None
       /\ stray' = [stray EXCEPT ![s] = running[s].call]
       /\ running' = [running EXCEPT ![s] = None]
       /\ UNCHANGED <<setting, roots, once, card, shared, consented, threw>>

(* setModeApproval, at any time.                                           *)
SetModeApproval(s, new) ==
    /\ setting[s] # None
    /\ setting' = [setting EXCEPT ![s] = new]
    /\ UNCHANGED <<roots, once, card, running, stray, shared, consented, threw>>

Start(s, new) ==
    /\ setting[s] = None
    /\ setting' = [setting EXCEPT ![s] = new]
    /\ roots' = [roots EXCEPT ![s] = {Workspace} \cup folderRoots]
    /\ UNCHANGED <<once, card, running, stray, shared, consented, threw>>

Next == \E s \in Sessions :
    \/ \E c \in Calls : PauseOnGuess(s, c) \/ PauseForConsent(s, c) \/ RunByGate(s, c)
    \/ CardDeclined(s) \/ RunByConsent(s)
    \/ Returns(s) \/ StrayReturns(s) \/ Throws(s) \/ Stop(s)
    \/ \E new \in Settings : SetModeApproval(s, new) \/ Start(s, new)

Spec == Init /\ [][Next]_vars

-----------------------------------------------------------------------------
(* Properties                                                              *)

TypeOK ==
    /\ setting \in [Sessions -> Settings \cup {None}]
    /\ roots \in [Sessions -> SUBSET Dirs] /\ once \in [Sessions -> SUBSET Paths]
    /\ card \in [Sessions -> Cards \cup {None}]
    /\ running \in [Sessions -> Runs \cup {None}]
    /\ stray \in [Sessions -> Calls \cup {None}]
    /\ learned \in [write : SUBSET Bridged, read : SUBSET Bridged,
                    path : SUBSET Fields, prose : SUBSET Fields]
    /\ folderRoots \subseteq Dirs
    /\ said \in [Bridged \cup Fields -> {"nothing", "writes", "reads", "path", "prose"}]
    /\ consented \in [Sessions -> SUBSET Paths]
    /\ threw \in [Sessions -> BOOLEAN]

Starts(s) == running[s] = None /\ running'[s] # None
AsPath(c) == {c.at[f] : f \in {g \in DOMAIN c.at : c.tool \in Native \/ said[g] # "prose"}}
Enclosed(s, p) == \E r \in roots[s] : r = p \/ r \in Above[p]

(* No call runs on a path outside the workspace unless the person agreed to*)
(* a call with that path, or to a root above it: an argument nobody has    *)
(* called prose is a path (D-19, D-47d).                                   *)
StartsWithConsent == [][\A s \in Sessions : Starts(s) =>
    \A p \in AsPath(running[s].call)' : p \in consented'[s] \/ Enclosed(s, p)']_vars

(* What goes to an MCP server cannot be allowed just once (H-08): such a   *)
(* call adds no one-shot grant, and each of its paths is inside a root once*)
(* it starts, or let through by a grant an earlier call left behind. The   *)
(* one exception: the person approved this very call, with that path, and  *)
(* named another directory by hand, which is a root from then on.          *)
ServersStayInside == [][\A s \in Sessions :
    Starts(s) /\ running'[s].call.tool \in Bridged \cup Classifies =>
        /\ once'[s] \subseteq once[s]
        /\ \A p \in AsPath(running[s].call)' :
              \/ Enclosed(s, p)' \/ p \in once[s]
              \/ /\ running'[s].named # {} /\ running'[s].named \subseteq roots'[s]
                 /\ p \in consented'[s]]_vars

(* While the session is in Ask mode or the policy is read-only, when the   *)
(* call is raised and when it starts, nothing that may write starts: a     *)
(* guess is settled by an answer, never by the approval alone (D-48).      *)
ReadOnly(set) == set.mode = "ask" \/ set.policy = "read-only"
SaidToRead(t) ==
    IF t \in Native THEN NativeKind[t] = "read" ELSE t \in Hinted \/ said[t] = "reads"
RaisedUnder(s) == IF card[s] # None THEN card[s].under ELSE setting[s]
GuessIsNoConsent == [][\A s \in Sessions :
    Starts(s) /\ ReadOnly(RaisedUnder(s)) /\ ReadOnly(setting[s]) =>
        \/ SaidToRead(running[s].call.tool)'
        \/ card[s] # None /\ card[s].kind = "read"]_vars

(* The latest answer counts, from whichever session's card it came: the    *)
(* lists never hold both.                                                  *)
LatestAnswerWins ==
    /\ \A t \in Bridged :
         /\ t \in learned.write <=> said[t] = "writes"
         /\ t \in learned.read <=> said[t] = "reads"
    /\ \A f \in Fields :
         /\ f \in learned.path <=> said[f] = "path"
         /\ f \in learned.prose <=> said[f] = "prose"

(* A one-shot grant does not outlast the approved call it was given for,   *)
(* unless that call threw.                                                 *)
GrantsAreSpent == \A s \in Sessions : once[s] # {} =>
    \/ running[s] # None /\ running[s].byCard
    \/ stray[s] # None
    \/ threw[s]
=============================================================================
