-------------------------------- MODULE TabStrip -------------------------------
(***************************************************************************)
(* The tab strip: the press, drag and release of a tab, the line that      *)
(* shows where it would go, and the inline rename.  Tabs open and close    *)
(* under the pointer.                                                      *)
(*                                                                         *)
(* Tabs are two units wide, so that each has two halves.  A tab that is    *)
(* pressed captures the pointer: the events of it go to that tab until the *)
(* button is up or the tab is gone, then to whatever is under the pointer. *)
(***************************************************************************)
EXTENDS TabState, FiniteSetsExt, FiniteSets

CONSTANTS TABS,      \* bound: the tabs ever opened, 1..TABS
          MAX_EDITS  \* bound: gestures and edits

VARIABLES
  strip,            \* the reducer's state
  place, held,      \* where the pointer is, in units; the button is down
  capture,          \* the tab that has the pointer, or NoTab
  drag,             \* dragRef: <<>> or <<[tab, start, from, dragging, hover]>>
  mark,             \* the slot the indicator is at, or 0
  renaming, done,   \* the tab whose title is an input, or NoTab; doneRef of it
  edits,            \* how many gestures and edits there were
  press,            \* history: <<>> or <<[tabs, tab, far]>>, what was pressed
  ends, wrong,      \* history: how often the edit ended; a gesture that missed
  orphaned          \* history: the tab of the drag is gone

pointing == <<place, held, capture>>
dragging == <<drag, mark>>
naming == <<renaming, done, ends>>
vars == <<strip, pointing, dragging, naming, edits, press, wrong, orphaned>>

NoTab == 0
Length == Len(strip.tabs)
Places == 0..(2 * TABS)
SLOP == 0    \* the units a click may move

-----------------------------------------------------------------------------
\* The tab at a place, if there is one: past the last are the + and the terminal.
Under(x) == IF x \div 2 + 1 \in DOMAIN strip.tabs THEN strip.tabs[x \div 2 + 1].id ELSE NoTab

\* (mutation) the slot under the pointer
SlotUnder(x) == IF x \div 2 + 1 <= Length THEN x \div 2 + 1 ELSE Length

\* hoverSlotFor: the first slot whose midpoint is past the pointer, or the last.
HoverSlot(x) ==
  LET past == {i \in DOMAIN strip.tabs : x < 2 * i - 1} IN
    IF past = {} THEN Length ELSE Min(past)

\* What takes the events of the pointer.
Target(x) == IF capture # NoTab THEN capture ELSE Under(x)

TypeOK ==
  /\ \A i \in DOMAIN strip.tabs : strip.tabs[i].id \in 1..TABS
  /\ strip.active \in TabIds(strip) \cup {NoTab}
  /\ place \in Places /\ {held, done, wrong, orphaned} \subseteq BOOLEAN
  /\ capture \in TabIds(strip) \cup {NoTab} /\ mark \in 0..TABS
  /\ Len(drag) \in 0..1 /\ Len(press) \in 0..1
  /\ renaming \in TabIds(strip) \cup {NoTab} /\ ends \in Nat /\ edits \in 0..MAX_EDITS

Init ==
  /\ strip = OpenTab(OpenTab(InitialTabs))
  /\ place \in Places /\ held = FALSE /\ capture = NoTab
  /\ drag = <<>> /\ mark = 0 /\ renaming = NoTab /\ done = FALSE
  /\ edits = 0 /\ press = <<>> /\ ends = 0 /\ wrong = FALSE /\ orphaned = FALSE

-----------------------------------------------------------------------------
(* The pointer.                                                            *)

\* The primary button, on a tab or elsewhere; an input in the tab keeps it to itself.
PointerDown ==
  /\ ~held /\ held' = TRUE /\ edits < MAX_EDITS /\ edits' = edits + 1
  /\ IF Under(place) \in {NoTab, renaming}
     THEN UNCHANGED <<drag, capture, press>>
     ELSE /\ capture' = Under(place)
          /\ drag' = <<[tab |-> Under(place), start |-> place \div 2 + 1, from |-> place,
                        dragging |-> FALSE, hover |-> place \div 2 + 1]>>
          /\ press' = <<[tabs |-> strip.tabs, tab |-> Under(place), far |-> FALSE]>>
  /\ UNCHANGED <<strip, place, mark, naming, wrong, orphaned>>

Distance(x, y) == IF x > y THEN x - y ELSE y - x
Farther(x) == IF press = <<>> \/ x = place THEN press ELSE <<[press[1] EXCEPT !.far = TRUE]>>

\* (mutation) back home it is no drag
PointerMoveHome(x) ==
  /\ x # place /\ place' = x /\ press' = Farther(x)
  /\ IF drag = <<>> \/ Target(x) = NoTab THEN UNCHANGED <<drag, mark>>
     ELSE IF Distance(x, drag[1].from) <= SLOP
          THEN drag' = <<[drag[1] EXCEPT !.dragging = FALSE]>> /\ UNCHANGED mark
          ELSE /\ drag' = <<[drag[1] EXCEPT !.dragging = TRUE, !.hover = HoverSlot(x)]>>
               /\ mark' = HoverSlot(x)
  /\ UNCHANGED <<strip, held, capture, naming, edits, wrong, orphaned>>

\* A drag once it is one stays one; its record is all that is asked for, not the button.
PointerMove(x) ==
  /\ x # place /\ place' = x /\ press' = Farther(x)
  /\ IF \/ drag = <<>> \/ Target(x) = NoTab
        \/ ~drag[1].dragging /\ Distance(x, drag[1].from) <= SLOP
     THEN UNCHANGED <<drag, mark>>
     ELSE /\ drag' = <<[drag[1] EXCEPT !.dragging = TRUE, !.hover = HoverSlot(x)]>>
          /\ mark' = HoverSlot(x)
  /\ UNCHANGED <<strip, held, capture, naming, edits, wrong, orphaned>>

\* What a gesture over tabs that did not change ought to do.
Intended ==
  IF ~press[1].far THEN ActivateTab(strip, press[1].tab)
  ELSE [strip EXCEPT !.tabs =
          InsertAt(SelectSeq(@, LAMBDA tab : tab.id # press[1].tab),
                   Min({Length, Cardinality({i \in DOMAIN strip.tabs : 2 * i - 1 <= place}) + 1}),
                   TabOf(strip, press[1].tab))]

Undisturbed == press # <<>> /\ press[1].tabs = strip.tabs

\* (mutation) a drag moves the tab that is active
PointerUpActive ==
  /\ held /\ held' = FALSE /\ capture' = NoTab /\ press' = <<>>
  /\ IF drag = <<>> \/ Target(place) = NoTab THEN UNCHANGED <<strip, drag, mark>>
     ELSE /\ drag' = <<>> /\ mark' = 0
          /\ strip' = IF ~drag[1].dragging THEN ActivateTab(strip, drag[1].tab)
                      ELSE LET n == CHOOSE i \in DOMAIN strip.tabs : strip.tabs[i].id = strip.active
                           IN IF n = drag[1].hover THEN strip ELSE MoveTab(strip, n, drag[1].hover)
  /\ wrong' = (wrong \/ (Undisturbed /\ strip' # Intended))
  /\ UNCHANGED <<place, naming, edits, orphaned>>

\* moveTab with its guards: an index past the end is taken for the last one.
Moved(from, to) ==
  IF from > Length THEN strip
  ELSE LET slot == IF to > Length THEN Length ELSE to IN
         IF slot = from THEN strip ELSE MoveTab(strip, from, slot)

\* The slot where the drag started is taken for the tab that is dragged.
PointerUp ==
  /\ held /\ held' = FALSE /\ capture' = NoTab /\ press' = <<>>
  /\ IF drag = <<>> \/ Target(place) = NoTab THEN UNCHANGED <<strip, drag, mark>>
     ELSE /\ drag' = <<>> /\ mark' = 0
          /\ strip' = IF ~drag[1].dragging THEN ActivateTab(strip, drag[1].tab)
                      ELSE IF drag[1].hover = drag[1].start THEN strip
                           ELSE Moved(drag[1].start, drag[1].hover)
  /\ wrong' = (wrong \/ (Undisturbed /\ strip' # Intended))
  /\ UNCHANGED <<place, naming, edits, orphaned>>

\* (mutation) the line stays where it was
PointerCancelKeepsMark ==
  /\ held /\ held' = FALSE /\ capture' = NoTab /\ press' = <<>>
  /\ IF Target(place) = NoTab THEN UNCHANGED drag ELSE drag' = <<>>
  /\ UNCHANGED <<strip, place, mark, naming, edits, wrong, orphaned>>

PointerCancel ==
  /\ held /\ held' = FALSE /\ capture' = NoTab /\ press' = <<>>
  /\ IF Target(place) = NoTab THEN UNCHANGED <<drag, mark>> ELSE drag' = <<>> /\ mark' = 0
  /\ UNCHANGED <<strip, place, naming, edits, wrong, orphaned>>

-----------------------------------------------------------------------------
(* Rename and the tabs.                                                    *)

\* A double click; the same tab again is an edit under way.
RenameStart(t) ==
  /\ t \in TabIds(strip) /\ renaming = NoTab /\ drag = <<>> /\ edits < MAX_EDITS
  /\ edits' = edits + 1 /\ renaming' = t /\ done' = FALSE /\ ends' = 0
  /\ strip' = ActivateTab(strip, t)
  /\ UNCHANGED <<pointing, dragging, press, wrong, orphaned>>

\* (mutation) the input may end any number of times
EndAgain == renaming # NoTab /\ done' = TRUE /\ ends' = ends + 1

\* Enter, Escape or the blur: only the first of them commits or cancels.
End ==
  /\ renaming # NoTab
  /\ done' = TRUE /\ ends' = IF done THEN ends ELSE ends + 1

EndRename ==
  /\ ends < 2 /\ End
  /\ UNCHANGED <<strip, pointing, dragging, renaming, edits, press, wrong, orphaned>>

\* The input goes some time after the edit ended, and its blur may still come before.
RenameGone ==
  /\ renaming # NoTab /\ done /\ renaming' = NoTab
  /\ UNCHANGED <<strip, pointing, dragging, done, ends, edits, press, wrong, orphaned>>

\* Enter or Space on a tab that has the focus
Activate(t) ==
  /\ t \in TabIds(strip) \ {renaming} /\ edits < MAX_EDITS /\ edits' = edits + 1
  /\ strip' = ActivateTab(strip, t)
  /\ UNCHANGED <<pointing, dragging, naming, press, wrong, orphaned>>

New ==
  /\ strip.nextTab <= TABS /\ strip' = OpenTab(strip)
  /\ UNCHANGED <<pointing, dragging, naming, edits, press, wrong, orphaned>>

\* By its button, by a key or by its shell: nothing here forgets the drag of it.
Close(t) ==
  /\ t \in TabIds(strip) /\ Length > 1 /\ strip' = CloseTab(strip, t)
  /\ capture' = IF capture = t THEN NoTab ELSE capture
  /\ renaming' = IF renaming = t THEN NoTab ELSE renaming
  /\ orphaned' = (orphaned \/ (drag # <<>> /\ drag[1].tab = t))
  /\ UNCHANGED <<place, held, dragging, done, ends, edits, press, wrong>>

Next ==
  \/ PointerDown \/ PointerUp \/ PointerCancel \/ \E x \in Places : PointerMove(x)
  \/ EndRename \/ RenameGone \/ New
  \/ \E t \in 1..TABS : RenameStart(t) \/ Activate(t) \/ Close(t)

Spec == Init /\ [][Next]_vars

-----------------------------------------------------------------------------
(* Properties.                                                             *)

(* With the tabs as they were at the press, a release after the pointer    *)
(* never moved activates the tab that was pressed, and one after it did    *)
(* puts that tab, and no other, into the slot whose midpoint the pointer   *)
(* is before; the line is shown for a drag only, at the slot its record    *)
(* has, unless the tab that was dragged was closed; and an edit of a title *)
(* ends at most once.                                                      *)
StripOutcome ==
  /\ ~wrong
  /\ mark # 0 /\ ~orphaned => drag # <<>> /\ drag[1].dragging /\ drag[1].hover = mark
  /\ ends <= 1

=============================================================================
