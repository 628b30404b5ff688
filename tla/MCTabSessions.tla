---------------------------- MODULE MCTabSessions ----------------------------
(* TabSessions with the bounds given in the configurations.               *)
EXTENDS TabSessions
=============================================================================
