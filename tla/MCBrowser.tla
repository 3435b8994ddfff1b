----------------------------- MODULE MCBrowser ------------------------------
(* Instances of Browser for TLC.                                           *)
EXTENDS Browser, TLC

SessionSymmetry == Permutations(Sessions)

(* Two messages race where nothing else is on its way or to be told, and no*)
(* card is up. A late tree makes a slice, one at most, before the break or *)
(* the restart; one slice at a time is left of a session that is gone, and *)
(* one session at a time has a card or a hand-back to be told.             *)
Carded == {s \in Sessions : doing[s] = "awaiting" \/ SliceOf(s).ask}

MayGoOn ==
    /\ Cardinality(posts) > 1 =>
          /\ \A p \in posts : p.op \in {"submit", "promote"}
          /\ conjured = {} /\ due = {} /\ Carded = {}
    /\ Cardinality(conjured) + drops <= 1 /\ Cardinality(Ids \ LiveIds) <= 1
    /\ Cardinality(Carded \cup due) <= 1
=============================================================================
