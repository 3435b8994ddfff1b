----------------------------- MODULE DurableLog -----------------------------
(* What a log file promises to whoever appends to it (D-37, D-46).  Records*)
(* are numbered in the order they are submitted; they reach the file one   *)
(* at a time in that order, an acknowledged record stays there across a    *)
(* crash, and only giving up a stalled backlog, or a crash, drops one.     *)
EXTENDS Integers, Sequences

VARIABLES
    accepted,   \* records submitted so far
    waiting,    \* submitted and neither acknowledged nor dropped, in order
    stored,     \* records the file holds
    acked       \* records acknowledged to the caller

logVars == <<accepted, waiting, stored, acked>>

Init == accepted = 0 /\ waiting = <<>> /\ stored = {} /\ acked = {}

Submit ==
    /\ accepted' = accepted + 1
    /\ waiting' = Append(waiting, accepted')
    /\ UNCHANGED <<stored, acked>>

Land ==
    /\ waiting # <<>>
    /\ stored' = stored \cup {Head(waiting)}
    /\ UNCHANGED <<accepted, waiting, acked>>

Acknowledge ==
    /\ waiting # <<>> /\ Head(waiting) \in stored
    /\ acked' = acked \cup {Head(waiting)}
    /\ waiting' = Tail(waiting)
    /\ UNCHANGED <<accepted, stored>>

GiveUp == waiting' = <<>> /\ UNCHANGED <<accepted, stored, acked>>

Crash ==
    /\ waiting' = <<>>
    /\ acked \subseteq stored' /\ stored' \subseteq stored
    /\ UNCHANGED <<accepted, acked>>

Next == Submit \/ Land \/ Acknowledge \/ GiveUp \/ Crash

Spec == Init /\ [][Next]_logVars
=============================================================================
