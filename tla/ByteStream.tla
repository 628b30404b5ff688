----------------------------- MODULE ByteStream -----------------------------
(***************************************************************************)
(* What one terminal session promises the pane that shows it: the pane is  *)
(* handed a growing prefix of the bytes the session's processes wrote, and *)
(* the session ends once.  A normal end means that no more bytes can come  *)
(* and that every byte was handed over; the stream is aborted only when    *)
(* the transport to the window refused it.                                 *)
(***************************************************************************)
EXTENDS Naturals

VARIABLES
  out,     \* how many bytes the processes of the session have written
  sealed,  \* no process can write to the session any more
  shown,   \* how many bytes were handed to the window, in order
  status   \* "open", then "ended" or "aborted"

streamVars == <<out, sealed, shown, status>>

TypeOK ==
  /\ out \in Nat
  /\ sealed \in BOOLEAN
  /\ shown \in 0 .. out
  /\ status \in {"open", "ended", "aborted"}

Init ==
  /\ out = 0
  /\ sealed = FALSE
  /\ shown = 0
  /\ status = "open"

Produce ==
  /\ ~sealed
  /\ out' = out + 1
  /\ UNCHANGED <<sealed, shown, status>>

Seal ==
  /\ ~sealed
  /\ sealed' = TRUE
  /\ UNCHANGED <<out, shown, status>>

Forward ==
  /\ status = "open"
  /\ shown' \in (shown + 1) .. out
  /\ UNCHANGED <<out, sealed, status>>

Finish ==
  /\ status = "open"
  /\ sealed
  /\ shown = out
  /\ status' = "ended"
  /\ UNCHANGED <<out, sealed, shown>>

Abort ==
  /\ status = "open"
  /\ status' = "aborted"
  /\ UNCHANGED <<out, sealed, shown>>

Next == Produce \/ Seal \/ Forward \/ Finish \/ Abort

Spec == Init /\ [][Next]_streamVars
=============================================================================
