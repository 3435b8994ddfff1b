------------------------ MODULE MCConversationStore ------------------------
(* Instances of ConversationStore for TLC.                                 *)
EXTENDS ConversationStore, TLC

SessionSymmetry == Permutations(Sessions)

(* Nothing is claimed of a log that two sessions wrote to or that lost     *)
(* records: such a state is checked, what follows it is not explored.      *)
WhileIntact == intact
=============================================================================
