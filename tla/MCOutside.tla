------------------------------ MODULE MCOutside ------------------------------
(* Instances for TLC of what deals with the world outside: child processes *)
(* (Tasks), the speech engine of the browser (Speech), the provider of the *)
(* model (Stream, Windows), MCP servers (McpServers), the port and the     *)
(* signals (Serving).  They share nothing; the part that moves is chosen at*)
(* the start.                                                              *)
EXTENDS Tasks, Speech, Stream, Windows, McpServers, Serving

VARIABLE part

outside == <<vars, speechVars, streamVars, windowVars, mcpVars, servingVars, part>>

OutsideInit ==
    /\ Init /\ SpeechInit /\ StreamInit /\ WindowsInit /\ McpInit /\ ServingInit
    /\ part \in {"tasks", "speech", "stream", "windows", "mcp", "serving"}
    /\ part # "tasks" => watch
    /\ part # "stream" => asked = CHOOSE r \in Asked : TRUE
    /\ part # "stream" => answer = CHOOSE a \in ModelAnswers : TRUE
    /\ part # "windows" => offered = CHOOSE o \in Offers : TRUE
    /\ part # "windows" => disk = NoCache
    /\ part # "serving" => requestedPort = 0 /\ taken = {}

OutsideNext ==
    /\ part' = part
    /\ \/ part = "tasks" /\ Next /\ UNCHANGED <<speechVars, streamVars, windowVars, mcpVars, servingVars>>
       \/ part = "speech" /\ SpeechNext /\ UNCHANGED <<vars, streamVars, windowVars, mcpVars, servingVars>>
       \/ part = "stream" /\ StreamNext /\ UNCHANGED <<vars, speechVars, windowVars, mcpVars, servingVars>>
       \/ part = "windows" /\ WindowsNext /\ UNCHANGED <<vars, speechVars, streamVars, mcpVars, servingVars>>
       \/ part = "mcp" /\ McpNext /\ UNCHANGED <<vars, speechVars, streamVars, windowVars, servingVars>>
       \/ part = "serving" /\ ServingNext /\ UNCHANGED <<vars, speechVars, streamVars, windowVars, mcpVars>>

(* What is fair in a part that does not move is never enabled there.       *)
OutsideSpec ==
    /\ OutsideInit /\ [][OutsideNext]_outside
    /\ TasksFairness /\ SpeechFairness /\ McpFairness /\ ServingFairness

ToolCall(index, id, name, args) == [index |-> index, id |-> id, name |-> name, args |-> args]
Block(index, text, sign) == [index |-> index, text |-> text, sign |-> sign]

(* Two routings of one request.  An answer with two calls, out of order,   *)
(* and reasoning in fragments and in one piece; and a short one.           *)
MCAsked == {[what |-> "q", routing |-> "r1"], [what |-> "q", routing |-> "r2"]}
MCAnswers ==
    {AnswerOf(<<"a">>, <<Block(0, <<"t", "u">>, "s"), Block(NoIndex, <<"w">>, NoWord)>>,
              <<ToolCall(2, "c2", "f", <<"x">>), ToolCall(0, "c1", "g", <<"y">>)>>, "p"),
     AnswerOf(<<"a">>, <<>>, <<>>, NoWord)}

MCBase == [m1 |-> "m1", on |-> "m1", m2 |-> "m2"]
MCOffers == {[m \in {"m1", "m2"} |-> IF m = "m1" THEN 8 ELSE 4], [m \in {"m1", "on"} |-> IF m = "m1" THEN 8 ELSE 6], [m \in {"m2"} |-> 0]}
MCConfigurations ==
    {Settings("m1", 0, 0, 0, "none"), Settings("on", 0, 0, 7, "m2"), Settings("m2", 0, 0, 4, "m2"),
     Settings("m2", 9, 1, 9, "on"), Settings("on", 0, 1, 3, "m1")}
=============================================================================
