------------------------------- MODULE MCGate -------------------------------
(* Instances of Gate for TLC: a workspace, and a file of a sibling project.*)
EXTENDS Gate, TLC

MCDirs  == {"/", "/work", "/side"}
MCPaths == {"/side/b"}
MCDir   == "/side/b" :> "/side"
MCAbove == [p \in MCPaths |-> {"/", MCDir[p]}]

MCKind == ("read_file" :> "read") @@ ("run_command" :> "command")
NoPath == [f \in {} |-> "/side/b"]
Call(t, at, fits, safe) == [tool |-> t, at |-> at, fits |-> fits, safe |-> safe]
MCCalls ==
    {Call("read_file", "path" :> "/side/b", FALSE, FALSE),
     Call("run_command", NoPath, TRUE, TRUE),
     Call("server__look", NoPath, FALSE, FALSE),
     Call("server__look", "file" :> "/side/b", FALSE, FALSE)}

Set(mode, policy) == [mode |-> mode, policy |-> policy]
MCSettings == {Set("ask", "manual"), Set("code", "auto-safe")}

(* Sessions share what was learned, not their calls: one acts at a time,   *)
(* one approves calls with paths, and one has an approved call that threw. *)
OneActs == \A s, t \in Sessions : s # t =>
    /\ \/ running[s] = None /\ stray[s] = None
       \/ running[t] = None /\ stray[t] = None
    /\ {} \in {consented[s], consented[t]}
    /\ FALSE \in {threw[s], threw[t]}

(* A person may name the root of the file system; TLC does not go on then. *)
NamesBelow == \A s \in Sessions : "/" \notin roots[s]

SessionSymmetry == Permutations(Sessions)
=============================================================================
