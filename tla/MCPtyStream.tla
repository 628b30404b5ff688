---------------------------- MODULE MCPtyStream -----------------------------
(* A session small enough to explore whole: every size is a handful of     *)
(* bytes, in the proportions of the source (the floor is minus the window, *)
(* a batch is no longer than the window).                                  *)
EXTENDS PtyStream

(* PTY_CREDIT_FLOOR for a window of two bytes. *)
Floor == -2

(* ... and for a window of one byte. *)
FloorOfOne == -1
=============================================================================
