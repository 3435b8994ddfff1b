------------------------------ MODULE Serving ------------------------------
(* How `serve` gets its port and how it ends (serve-command.ts,            *)
(* node-adapter.ts, shutdown.ts): a taken port may be walked past; a signal*)
(* or POST /shutdown flushes what is written, closes the sockets and exits.*)
(***************************************************************************)
EXTENDS Naturals, Sequences

CONSTANTS
    Ports,              \* there are; none of them is 0
    DefaultPort,
    PortScanCount,      \* PORT_SCAN_COUNT
    MaxPosts            \* bound: how often POST /shutdown is called

ASSUME PortsAssumption == Ports \subseteq Nat \ {0} /\ DefaultPort \in Nat \ {0}
ASSUME ScanAssumption == PortScanCount \in Nat

VARIABLES
    run,            \* "binding", "up", "closing", "gone"
    requestedPort,  \* --port, or 0
    tried,          \* candidates that turned out to be taken
    bound,          \* the port it listens on, or 0
    taken,          \* the ports other programs listen on
    posts,          \* how often /shutdown was called, and the calls that wait for their 100 ms
    flushing,       \* each writer: "open", "pending", "flushed", "lost"
    sockets,        \* "open" with an event stream in it, "quiet", "closed"
    closed,         \* server.close was called
    processExit        \* "unset", "ok", "bad"

servingVars == <<run, requestedPort, tried, bound, taken, posts, flushing, sockets, closed,
                 processExit>>

Writers == {"store", "journal", "mcp"}

ServingInit ==
    /\ run = "binding" /\ requestedPort \in {0} \cup Ports /\ tried = 0 /\ bound = 0
    /\ taken \in SUBSET Ports
    /\ posts = [made |-> 0, waiting |-> 0] /\ flushing = [w \in Writers |-> "open"]
    /\ sockets = "quiet" /\ closed = FALSE /\ processExit = "unset"

-----------------------------------------------------------------------------
(* startNodeServer                                                         *)

Candidates ==
    IF requestedPort # 0 THEN <<requestedPort>>
    ELSE [i \in 1..PortScanCount |-> DefaultPort + i - 1] \o <<0>>
Candidate == Candidates[tried + 1]

Shutting == <<posts, flushing, sockets, closed>>

(* Port 0 is whichever the system has free.                                *)
Listens(p) ==
    /\ run = "binding" /\ p \in Ports \ taken /\ Candidate \in {0, p}
    /\ run' = "up" /\ bound' = p
    /\ UNCHANGED <<requestedPort, tried, taken, processExit, Shutting>>

LastCandidate == tried + 1 = Len(Candidates)
InUse == IF Candidate = 0 THEN taken = Ports ELSE Candidate \in taken

WalksOn ==
    /\ run = "binding" /\ InUse /\ ~LastCandidate
    /\ tried' = tried + 1
    /\ UNCHANGED <<run, requestedPort, bound, taken, processExit, Shutting>>

(* A taken port that was asked for, or any other error.                    *)
CannotListen ==
    /\ run = "binding" /\ run' = "gone" /\ processExit' = "bad"
    /\ UNCHANGED <<requestedPort, tried, bound, taken, Shutting>>

OthersListen(p) ==
    /\ run = "binding" /\ p # bound
    /\ taken' \in {taken \cup {p}, taken \ {p}}
    /\ UNCHANGED <<run, requestedPort, tried, bound, processExit, Shutting>>

-----------------------------------------------------------------------------
(* createShutdown, and who calls it                                        *)

Binding == <<requestedPort, tried, bound, taken>>

Browser(s) ==
    /\ run \in {"up", "closing"} /\ ~closed /\ sockets # s /\ sockets' = s
    /\ UNCHANGED <<run, posts, flushing, closed, processExit, Binding>>

PostShutdown ==
    /\ run \in {"up", "closing"} /\ ~closed /\ posts.made < MaxPosts
    /\ posts' = [made |-> posts.made + 1, waiting |-> posts.waiting + 1]
    /\ UNCHANGED <<run, flushing, sockets, closed, processExit, Binding>>

(* Idempotent: a teardown that is under way is not begun again.            *)
Shutdown ==
    IF run = "up"
    THEN run' = "closing" /\ flushing' = [w \in Writers |-> "pending"]
    ELSE UNCHANGED <<run, flushing>>

TimerFires ==
    /\ run \in {"up", "closing"} /\ posts.waiting > 0
    /\ posts' = [posts EXCEPT !.waiting = @ - 1]
    /\ Shutdown
    /\ UNCHANGED <<sockets, closed, processExit, Binding>>

Signal ==
    /\ run = "up" /\ Shutdown
    /\ UNCHANGED <<posts, sockets, closed, processExit, Binding>>

(* A second one does not wait for the flush.                               *)
SignalAgain ==
    /\ run = "closing" /\ run' = "gone"
    /\ processExit' = IF processExit = "unset" THEN "bad" ELSE processExit
    /\ UNCHANGED <<Shutting, Binding>>

Flushed(w) ==
    /\ run = "closing" /\ flushing[w] = "pending" /\ flushing' = [flushing EXCEPT ![w] = "flushed"]
    /\ UNCHANGED <<run, posts, sockets, closed, processExit, Binding>>

(* flush rejects on a stalled write; the MCP children never do.            *)
GoesGreen == processExit       \* mutant: a lost record is logged, and not told to whoever waits
GoesRed == "bad"
FlushRejects(w) ==
    /\ run = "closing" /\ w # "mcp" /\ flushing[w] = "pending"
    /\ flushing' = [flushing EXCEPT ![w] = "lost"]
    /\ processExit' = GoesRed
    /\ UNCHANGED <<run, posts, sockets, closed, Binding>>

(* Promise.all: everything is flushed, or something is lost.               *)
FlushOver == (\E w \in Writers : flushing[w] = "lost") \/ (\A w \in Writers : flushing[w] = "flushed")

WaitsForThem == sockets     \* mutant: no closeAllConnections
DropsThem == "closed"
CloseSockets ==
    /\ run = "closing" /\ FlushOver /\ ~closed
    /\ closed' = TRUE
    /\ sockets' = DropsThem
    /\ UNCHANGED <<run, posts, flushing, processExit, Binding>>

Exits ==
    /\ run = "closing" /\ closed /\ sockets # "open" /\ run' = "gone"
    /\ processExit' = IF processExit = "unset" THEN "ok" ELSE processExit
    /\ UNCHANGED <<Shutting, Binding>>

ServingNext ==
    \/ \E p \in Ports : Listens(p) \/ OthersListen(p)
    \/ WalksOn \/ CannotListen
    \/ \E s \in {"open", "quiet"} : Browser(s)
    \/ PostShutdown \/ TimerFires \/ Signal \/ SignalAgain
    \/ \E w \in Writers : Flushed(w) \/ FlushRejects(w)
    \/ CloseSockets \/ Exits

(* A flush settles, one way or the other; what follows is ours.            *)
ServingFairness ==
    /\ \A w \in Writers : WF_servingVars(Flushed(w) \/ FlushRejects(w))
    /\ WF_servingVars(CloseSockets) /\ WF_servingVars(Exits) /\ WF_servingVars(TimerFires)

ServingSpec == ServingInit /\ [][ServingNext]_servingVars /\ ServingFairness

-----------------------------------------------------------------------------
(* Properties                                                              *)

(* A shutdown that reports success has flushed everything: the store, the  *)
(* journal and the children, whoever asked for it and how often.  And the  *)
(* port is the one that was asked for, or, where none was, the system's    *)
(* choice only after every port of the block was found taken.              *)
ExitVouches ==
    /\ run = "gone" /\ processExit = "ok" => \A w \in Writers : flushing[w] = "flushed"
    /\ bound # 0 => /\ bound \notin taken
                    /\ requestedPort # 0 => bound = requestedPort
                    /\ requestedPort = 0 /\ tried < PortScanCount => bound = DefaultPort + tried

(* "Ctrl-C appeared dead until you closed the tab" (H-03): a shutdown that *)
(* was asked for ends, with an event stream open or not.                   *)
ShutdownEnds ==
    /\ (run = "closing") ~> (run = "gone")
    /\ (run = "up" /\ posts.waiting > 0) ~> (run = "gone")
=============================================================================
