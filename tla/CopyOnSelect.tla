------------------------------ MODULE CopyOnSelect ------------------------------
(***************************************************************************)
(* Copy on select in one pane (copyOnSelect.ts): a mouse selection reaches *)
(* the clipboard once, on release; a keyboard selection after a debounce.  *)
(* The browser around it is nondeterministic where the code says so:       *)
(* whether the pointer is captured, in which order a release is delivered, *)
(* whether the final selection comes late, what the terminal's output does *)
(* to the selection meanwhile.                                             *)
(***************************************************************************)
EXTENDS Sequences

CONSTANT TEXTS  \* what may be selected

VARIABLES
  machine,   \* the gesture machine, or Detached while terminal.copyOnSelect is off
  fallback,  \* the one-shot document listeners are installed
  captured,  \* the host has the pointer
  button,    \* the mouse button is held
  events,    \* DOM events of the current task still to be delivered
  selection, \* the terminal's selection
  clipboard, \* the last text on the pasteboard
  gesture    \* history: what became of the gesture that began last

vars == <<machine, fallback, captured, button, events, selection, clipboard, gesture>>

Nothing == "-"
Empty == ""
Selections == TEXTS \cup {Empty}
Detached == [on |-> FALSE]
Attached == machine.on
Idle == [on |-> TRUE, dragging |-> FALSE, dirty |-> FALSE, last |-> Nothing,
         debounce |-> FALSE, deferred |-> Nothing, softAbort |-> FALSE]
Delivered == events = <<>>

TypeOK ==
  /\ machine \in {Detached} \cup
       [on : {TRUE}, dragging : BOOLEAN, dirty : BOOLEAN, last : TEXTS \cup {Nothing},
        debounce : BOOLEAN, deferred : Selections \cup {Nothing}, softAbort : BOOLEAN]
  /\ {fallback, captured, button} \subseteq BOOLEAN
  /\ events \in Seq({"up", "cancel", "lost"})
  /\ selection \in Selections /\ clipboard \in TEXTS \cup {Nothing, "other"}
  /\ gesture \in {"none", "held", "changed", "released", "aborted"}

Init ==
  /\ machine \in {Detached, Idle}
  /\ fallback = FALSE /\ captured = FALSE /\ button = FALSE /\ events = <<>>
  /\ selection = Empty /\ clipboard = Nothing /\ gesture = "none"

-----------------------------------------------------------------------------
(* The gesture machine: a handler is a function of its state.              *)

ClearPending(m) == [m EXCEPT !.debounce = FALSE, !.deferred = Nothing, !.softAbort = FALSE]
Aborted(m) == [m EXCEPT !.dragging = FALSE, !.dirty = FALSE, !.softAbort = FALSE]

OnPointerDown(m) == [ClearPending(m) EXCEPT !.dragging = TRUE, !.dirty = FALSE, !.last = Nothing]

OnSelectionChange(m) ==
  IF m.dragging THEN [m EXCEPT !.dirty = TRUE] ELSE [m EXCEPT !.debounce = TRUE]

\* The text at the release is kept for the deferred copy.
OnPointerUp(m) ==
  IF ~m.dragging THEN [m EXCEPT !.softAbort = FALSE]
  ELSE [Aborted(m) EXCEPT !.deferred = IF m.dirty THEN selection ELSE @]

OnCancel(m) == Aborted(m)

\* (mutation) losing the capture aborts at once
AbortOnLoss(m) == OnCancel(m)

OnCaptureLost(m) == IF m.dragging THEN [m EXCEPT !.softAbort = TRUE] ELSE m

On(event, m) ==
  IF ~m.on THEN m
  ELSE CASE event = "up" -> OnPointerUp(m)
         [] event = "cancel" -> OnCancel(m)
         [] event = "lost" -> OnCaptureLost(m)

\* copyIfNew: the live selection, else the text kept; never an empty one, never the last
\* one again while its window is open (expired says that it is not).
CopyIfNew(m, kept, expired) ==
  LET text == IF selection # Empty THEN selection ELSE kept
  IN IF text = Empty \/ (text = m.last /\ ~expired)
     THEN machine' = m /\ UNCHANGED <<clipboard, gesture>>
     ELSE machine' = [m EXCEPT !.last = text] /\ clipboard' = text /\ gesture' = "none"

-----------------------------------------------------------------------------
(* The browser.                                                            *)

\* pointerdown on the host: with the pointer captured, or the document as a fallback.
Press(granted) ==
  /\ Delivered /\ ~button
  /\ button' = TRUE
  /\ captured' = (Attached /\ granted) /\ fallback' = (Attached /\ ~granted)
  /\ machine' = IF Attached THEN OnPointerDown(machine) ELSE machine
  /\ gesture' = IF Attached THEN "held" ELSE "none"
  /\ UNCHANGED <<events, selection, clipboard>>

\* The selection follows the mouse, the keyboard or a command; or it settles late.
Select(text) ==
  /\ Delivered /\ text # selection
  /\ selection' = text
  /\ machine' = IF Attached THEN OnSelectionChange(machine) ELSE machine
  /\ gesture' = CASE gesture \in {"held", "changed"} -> "changed"
                  [] gesture = "aborted" -> "none"
                  [] OTHER -> gesture
  /\ UNCHANGED <<fallback, captured, button, events, clipboard>>

\* Output moves the buffer under the selection and clears it without a word.
Reflow ==
  /\ Delivered /\ ~button /\ selection # Empty
  /\ selection' = Empty
  /\ UNCHANGED <<machine, fallback, captured, button, events, clipboard, gesture>>

\* The release, with the loss of the capture before or after it in the same task; without a
\* capture the host hears it only if it is inside, the document always.
Release(inside) ==
  /\ Delivered /\ button
  /\ button' = FALSE /\ captured' = FALSE
  /\ events' \in IF captured THEN {<<"up", "lost">>, <<"lost", "up">>}
                 ELSE IF inside \/ fallback THEN {<<"up">>} ELSE {<<>>}
  /\ gesture' = CASE gesture = "changed" /\ events' # <<>> /\ selection # Empty -> "released"
                  [] gesture = "aborted" -> gesture
                  [] OTHER -> "none"
  /\ UNCHANGED <<machine, fallback, selection, clipboard>>

Cancel ==
  /\ Delivered /\ button
  /\ button' = FALSE /\ captured' = FALSE
  /\ events' = IF captured THEN <<"cancel", "lost">> ELSE <<"cancel">>
  /\ gesture' = IF gesture \in {"held", "changed", "aborted"} THEN "aborted" ELSE "none"
  /\ UNCHANGED <<machine, fallback, selection, clipboard>>

\* The window loses the focus; the button may still be held.
Blur ==
  /\ Delivered /\ Attached /\ machine.dragging
  /\ machine' = OnCancel(machine)
  /\ gesture' = IF gesture \in {"held", "changed"} THEN "aborted" ELSE gesture
  /\ UNCHANGED <<fallback, captured, button, events, selection, clipboard>>

\* Something else takes the pointer.
Steal ==
  /\ Delivered /\ captured
  /\ captured' = FALSE /\ events' = <<"lost">> /\ gesture' = "none"
  /\ UNCHANGED <<machine, fallback, button, selection, clipboard>>

Deliver ==
  /\ ~Delivered
  /\ machine' = On(Head(events), machine) /\ events' = Tail(events)
  /\ fallback' = (fallback /\ Head(events) = "lost")
  /\ UNCHANGED <<captured, button, selection, clipboard, gesture>>

-----------------------------------------------------------------------------
(* Timers, between tasks.                                                  *)

DebounceFires(expired) ==
  /\ Delivered /\ Attached /\ machine.debounce
  /\ CopyIfNew([machine EXCEPT !.debounce = FALSE], Empty, expired)
  /\ UNCHANGED <<fallback, captured, button, events, selection>>

\* (mutation) the text of the release is not kept for the copy
CopyLiveOnly(expired) ==
  /\ Delivered /\ Attached /\ machine.deferred # Nothing
  /\ CopyIfNew([machine EXCEPT !.deferred = Nothing], Empty, expired)
  /\ UNCHANGED <<fallback, captured, button, events, selection>>

DeferredFires(expired) ==
  /\ Delivered /\ Attached /\ machine.deferred # Nothing
  /\ CopyIfNew([machine EXCEPT !.deferred = Nothing], machine.deferred, expired)
  /\ UNCHANGED <<fallback, captured, button, events, selection>>

SoftAbortFires ==
  /\ Delivered /\ Attached /\ machine.softAbort
  /\ machine' = Aborted(machine)
  /\ UNCHANGED <<fallback, captured, button, events, selection, clipboard, gesture>>

-----------------------------------------------------------------------------
(* The setting, and the other writers of the pasteboard.                   *)

\* syncCopyOnSelect: the listeners go and come without a remount.
Toggle ==
  /\ Delivered
  /\ machine' = IF Attached THEN Detached ELSE Idle
  /\ fallback' = FALSE /\ gesture' = "none"
  /\ UNCHANGED <<captured, button, events, selection, clipboard>>

\* handleCopyEvent: with no selection the pasteboard is left alone.
CopyCommand ==
  /\ Delivered /\ selection # Empty
  /\ clipboard' = selection
  /\ UNCHANGED <<machine, fallback, captured, button, events, selection, gesture>>

\* Another program, or OSC 52.
OtherWrites ==
  /\ Delivered /\ clipboard' = "other"
  /\ UNCHANGED <<machine, fallback, captured, button, events, selection, gesture>>

Next ==
  \/ \E granted \in BOOLEAN : Press(granted)
  \/ \E text \in Selections : Select(text)
  \/ \E inside \in BOOLEAN : Release(inside)
  \/ \E expired \in BOOLEAN : DebounceFires(expired) \/ DeferredFires(expired)
  \/ Reflow \/ Cancel \/ Blur \/ Steal \/ Deliver \/ SoftAbortFires
  \/ Toggle \/ CopyCommand \/ OtherWrites

Spec == Init /\ [][Next]_vars

-----------------------------------------------------------------------------
(* Properties.                                                             *)

(* A gesture that changed the selection and was released has its text kept *)
(* for the pasteboard until it is there, whatever order the release came   *)
(* in and whatever the output did to the selection since; one that was     *)
(* aborted has nothing pending ("the copy survives regardless of the       *)
(* engine's {pointerup, lostpointercapture} order"; "hard abort, never     *)
(* copy, never stick").                                                    *)
GestureOutcome ==
  Attached /\ Delivered =>
    /\ gesture = "released" => machine.deferred \in TEXTS
    /\ gesture = "aborted" => /\ ~machine.dragging /\ ~machine.debounce
                              /\ machine.deferred = Nothing

=============================================================================
