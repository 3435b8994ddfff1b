---------------------------- MODULE MCAppendLog ----------------------------
(* Instances of AppendLog for TLC.                                         *)
EXTENDS AppendLog
=============================================================================
