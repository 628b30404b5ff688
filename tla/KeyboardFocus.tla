---------------------------- MODULE KeyboardFocus ----------------------------
(***************************************************************************)
(* Which element of the main window has the keyboard: the terminals of the *)
(* panes, the inline inputs over them (tab rename, pane badge, find bar)   *)
(* and the overlays (palette, script picker, close dialog).  App.tsx keeps *)
(* who is renaming, badging or searching; one effect hands the keyboard to *)
(* the focused pane whenever that or the focused pane changes, unless an   *)
(* input is thought to own it.                                             *)
(*                                                                         *)
(* An action is one event: what its handler sets, React's commit (inputs   *)
(* that mount take the focus, then the effect runs), and what the blur of  *)
(* the input that lost it sets in turn.  The tree of a tab is abstracted   *)
(* to the set of its panes.                                                *)
(***************************************************************************)
EXTENDS Naturals, FiniteSets

CONSTANTS MAX_TAB, MAX_PANE  \* bounds on the ids that are ever given out

VARIABLES ui,     \* the state App renders
          focus   \* document.activeElement

vars == <<ui, focus>>

None == 0
PaneIds == 1..MAX_PANE
TabIds == 1..MAX_TAB
Nobody == <<"body", None>>
NoQuestion == <<"none", None>>
Terminal(p) == <<"terminal", p>>

TypeOK ==
  /\ ui \in [tabOf : [PaneIds -> TabIds \cup {None}], focused : [TabIds -> PaneIds \cup {None}],
             active : TabIds, renaming : TabIds \cup {None}, badging : PaneIds \cup {None},
             search : SUBSET PaneIds, palette : BOOLEAN, picker : BOOLEAN,
             asked : {"none", "pane", "tab", "quit"} \X (0..MAX_PANE), tabs : TabIds, panes : PaneIds]
  /\ focus \in {"body", "strip", "terminal", "rename", "badge", "find", "palette", "picker", "confirm"}
               \X (0..MAX_PANE)

Init ==
  /\ ui = [tabOf |-> [p \in PaneIds |-> IF p = 1 THEN 1 ELSE None],
           focused |-> [t \in TabIds |-> IF t = 1 THEN 1 ELSE None], active |-> 1,
           renaming |-> None, badging |-> None, search |-> {}, palette |-> FALSE,
           picker |-> FALSE, asked |-> NoQuestion, tabs |-> 1, panes |-> 1]
  /\ focus = Terminal(1)

Members(u, t) == {p \in PaneIds : u.tabOf[p] = t}
Tabs(u) == {t \in TabIds : Members(u, t) # {}}
Current(u) == u.focused[u.active]
Overlays(u) == {<<k, None>> : k \in {x \in {"palette", "picker"} : u[x]}}
               \cup {<<"confirm", None>> : x \in {u.asked} \ {NoQuestion}}
Free == Overlays(ui) = {}

\* The inputs in the document; a hidden tab's panes keep theirs.
Inputs(u) ==
  Overlays(u)
  \cup {<<"rename", t>> : t \in {u.renaming} \cap Tabs(u)}
  \cup {<<"badge", p>> : p \in {q \in PaneIds : q = u.badging /\ u.tabOf[q] # None}}
  \cup {<<"find", p>> : p \in u.search}

\* What may hold the keyboard: of the panes, only the active tab's.
MayHold(u, e) ==
  \/ e \in {Nobody, <<"strip", None>>}
  \/ e[1] = "terminal" /\ u.tabOf[e[2]] = u.active
  \/ e \in Inputs(u) /\ (e[1] \in {"badge", "find"} => u.tabOf[e[2]] = u.active)

-----------------------------------------------------------------------------
(* The commit.                                                             *)

\* (mutation) the effect hears of activation only
ActivationDeps(u) == <<u.active, u.renaming, u.badging, u.search>>

FocusDeps(u) == <<u.active, Current(u), u.renaming, u.badging, u.search>>

FocusFocusedPane(u, holder) ==
  IF u.renaming # None \/ u.badging # None \/ Current(u) \in u.search
  THEN holder
  ELSE Terminal(Current(u))

\* The rename input commits on blur, the badge input cancels; either ends.  An input that React
\* removes hears no blur.
Blurred(u, from, to) ==
  LET lost(kind, id) == from = <<kind, id>> /\ from # to /\ from \in Inputs(u)
  IN [u EXCEPT !.renaming = IF lost("rename", @) THEN None ELSE @,
               !.badging = IF lost("badge", @) THEN None ELSE @]

\* An input that mounts takes the focus; what left the document loses it.
Taken(new, holder) ==
  LET mounted == {e \in Inputs(new) \ Inputs(ui) : MayHold(new, e)}
  IN CASE mounted # {} -> CHOOSE e \in mounted : TRUE
       [] mounted = {} /\ MayHold(new, holder) -> holder
       [] OTHER -> Nobody

\* The effect runs when what it depends on changed.
Handed(old, new, holder) ==
  IF FocusDeps(new) # FocusDeps(old) THEN FocusFocusedPane(new, holder) ELSE holder

\* set is what the handlers set, holder what the event itself gave the focus to.
Commit(set, holder) ==
  \E new \in {set} : \E effect \in {Handed(ui, new, Taken(new, holder))} :
    /\ ui' = Blurred(new, focus, effect)
    /\ focus' = Handed(new, ui', effect)

-----------------------------------------------------------------------------
(* What the commands do to the state: the set of outcomes <<ui, holder>>,  *)
(* empty when the command does nothing.                                    *)

Opened(u) ==
  IF u.tabs = MAX_TAB \/ u.panes = MAX_PANE THEN {} ELSE
  {[u EXCEPT !.tabs = @ + 1, !.panes = @ + 1, !.active = u.tabs + 1,
             !.tabOf[u.panes + 1] = u.tabs + 1, !.focused[u.tabs + 1] = u.panes + 1]}

Split(u) ==
  IF u.panes = MAX_PANE THEN {} ELSE
  {[u EXCEPT !.panes = @ + 1, !.tabOf[u.panes + 1] = u.active, !.focused[u.active] = u.panes + 1]}

Activated(u, t) == [u EXCEPT !.active = t]
Focused(u, p) == [u EXCEPT !.focused[u.tabOf[p]] = p]

\* (mutation) the tab that dies keeps its rename
CloseTabRenaming(u, t) ==
  IF Tabs(u) = {t} THEN {} ELSE
  {[u EXCEPT !.tabOf = [p \in PaneIds |-> IF @[p] = t THEN None ELSE @[p]],
             !.focused[t] = None,
             !.active = IF @ = t THEN next ELSE @,
             !.search = @ \ Members(u, t),
             !.badging = IF @ \in Members(u, t) THEN None ELSE @] : next \in Tabs(u) \ {t}}

\* The last tab closes the window instead; which neighbour becomes active is left open.
CloseTab(u, t) ==
  IF Tabs(u) = {t} THEN {} ELSE
  {[u EXCEPT !.tabOf = [p \in PaneIds |-> IF @[p] = t THEN None ELSE @[p]],
             !.focused[t] = None,
             !.active = IF @ = t THEN next ELSE @,
             !.search = @ \ Members(u, t),
             !.renaming = IF @ = t THEN None ELSE @,
             !.badging = IF @ \in Members(u, t) THEN None ELSE @] : next \in Tabs(u) \ {t}}

ClosePane(u, p) ==
  LET t == u.tabOf[p] IN
  IF Members(u, t) = {p} THEN CloseTab(u, t) ELSE
  {[u EXCEPT !.tabOf[p] = None,
             !.focused[t] = IF @ = p THEN next ELSE @,
             !.search = @ \ {p},
             !.renaming = IF @ = t /\ u.focused[t] = p THEN None ELSE @,
             !.badging = IF @ = p THEN None ELSE @] : next \in Members(u, t) \ {p}}

\* The gate before a user's close: the busy program's question, one at a time.
Gated(u, kind, id, closed, busy) ==
  IF ~busy THEN closed ELSE IF u.asked # NoQuestion THEN {} ELSE {[u EXCEPT !.asked = <<kind, id>>]}

Closing(u, origin) ==
  UNION {Gated(u, "pane", Current(u), ClosePane(u, Current(u)), busy) \cup
         Gated(u, "tab", u.active, CloseTab(u, u.active), busy)
         : busy \in IF origin = "remote" THEN {FALSE} ELSE BOOLEAN}

Moving(u) == {Activated(u, t) : t \in Tabs(u)} \cup {Focused(u, p) : p \in Members(u, u.active)}

\* On the menu; every other command comes by key, palette or control channel only.
MenuCommands(u, origin) ==
  Opened(u) \cup Split(u) \cup Closing(u, origin) \cup Moving(u)
  \cup {[u EXCEPT !.renaming = u.active], [u EXCEPT !.badging = Current(u)],
        [u EXCEPT !.palette = TRUE], [u EXCEPT !.picker = TRUE]}

OpenSearch(u) ==
  IF Current(u) \in u.search THEN <<u, <<"find", Current(u)>>>>
  ELSE <<[u EXCEPT !.search = @ \cup {Current(u)}], focus>>

\* onClose of a bar: the pane's terminal takes the keyboard.
CloseSearch(u, p) == <<[u EXCEPT !.search = @ \ {p}], Terminal(p)>>

Commands(u, origin) ==
  {<<v, focus>> : v \in MenuCommands(u, origin)}
  \cup {OpenSearch(u)} \cup {CloseSearch(u, p) : p \in {Current(u)} \cap u.search}

-----------------------------------------------------------------------------
(* Events.                                                                 *)

\* A menu item or its accelerator: not while the close dialog is up.
Menu ==
  /\ ui.asked = NoQuestion
  /\ \E new \in MenuCommands(ui, "user") : Commit(new, focus)

\* A chord: nor in an input that is not a terminal's.
Key ==
  /\ ui.asked = NoQuestion /\ focus[1] \in {"body", "strip", "terminal"}
  /\ \E out \in Commands(ui, "user") : Commit(out[1], out[2])

Remote == \E out \in Commands(ui, "remote") : Commit(out[1], out[2])

PalettePick ==
  /\ ui.palette /\ ui.asked = NoQuestion
  /\ \/ \E out \in Commands(ui, "user") : Commit([out[1] EXCEPT !.palette = FALSE], out[2])
     \/ Commit([ui EXCEPT !.palette = FALSE], focus)

PickerPick ==
  /\ ui.picker /\ ui.asked = NoQuestion
  /\ \E new \in Opened(ui) \cup Split(ui) \cup {ui} : Commit([new EXCEPT !.picker = FALSE], focus)

\* y, or the button; a target that has died since is left alone.
Confirm ==
  /\ ui.asked[1] \in {"pane", "tab"}
  /\ LET id == ui.asked[2]
         answered == [ui EXCEPT !.asked = NoQuestion]
         closed == CASE ui.asked[1] = "pane" /\ ui.tabOf[id] # None -> ClosePane(answered, id)
                     [] ui.asked[1] = "tab" /\ id \in Tabs(ui) -> CloseTab(answered, id)
                     [] OTHER -> {answered}
     IN \E new \in closed : Commit(new, focus)

CancelQuestion == ui.asked # NoQuestion /\ Commit([ui EXCEPT !.asked = NoQuestion], focus)

\* close:requested with something busy.
AskQuit == ui.asked = NoQuestion /\ Commit([ui EXCEPT !.asked = <<"quit", None>>], focus)

PtyExit(p) == ui.tabOf[p] # None /\ \E new \in ClosePane(ui, p) : Commit(new, focus)

\* deliverServicePaths: the first tab it opened ends up active.
Deliver == \E new \in Opened(ui) : Commit(new, focus)

\* Pointer: the terminal, a bar, the strip.  The press focuses the pane it is in.
ClickPane(p) == Free /\ ui.tabOf[p] = ui.active /\ Commit(Focused(ui, p), Terminal(p))

ClickFind(p) ==
  /\ Free /\ p \in ui.search /\ ui.tabOf[p] = ui.active
  /\ Commit(Focused(ui, p), <<"find", p>>)

ClickTab(t) == Free /\ t \in Tabs(ui) /\ Commit(Activated(ui, t), <<"strip", None>>)

DoubleClickTab(t) ==
  /\ Free /\ t \in Tabs(ui)
  /\ Commit([Activated(ui, t) EXCEPT !.renaming = t], <<"strip", None>>)

ClickClose(t) ==
  /\ Free /\ t \in Tabs(ui)
  /\ \E busy \in BOOLEAN : \E new \in Gated(ui, "tab", t, CloseTab(ui, t), busy) :
       Commit(new, <<"strip", None>>)

\* (mutation) the pane under the pointer is focused, the keyboard stays
HoverWithoutKeyboard(p) ==
  /\ Free /\ ui.renaming = None /\ ui.badging = None /\ ui.search = {}
  /\ ui.tabOf[p] = ui.active /\ p # Current(ui)
  /\ ui' = Focused(ui, p) /\ UNCHANGED focus

\* Focus follows mouse, suspended while any input owns the keyboard.
Hover(p) ==
  /\ Free /\ ui.renaming = None /\ ui.badging = None /\ ui.search = {}
  /\ ui.tabOf[p] = ui.active /\ p # Current(ui)
  /\ Commit(Focused(ui, p), Terminal(p))

\* Enter and Escape in the inputs.
EndRename == focus[1] = "rename" /\ Commit([ui EXCEPT !.renaming = None], focus)
EndBadge == focus[1] = "badge" /\ Commit([ui EXCEPT !.badging = None], focus)
EscapeFind ==
  /\ focus[1] = "find"
  /\ LET out == CloseSearch(ui, focus[2]) IN Commit(out[1], out[2])
CancelOverlay ==
  /\ ui.asked = NoQuestion
  /\ \E k \in {x \in {"palette", "picker"} : ui[x]} : Commit([ui EXCEPT ![k] = FALSE], focus)

\* The window goes to the back: the input that has the focus hears a blur.
WindowBlur ==
  LET new == Blurred(ui, focus, Nobody) IN new # ui /\ Commit(new, focus)

Next ==
  \/ Menu \/ Key \/ Remote \/ PalettePick \/ PickerPick
  \/ Confirm \/ CancelQuestion \/ AskQuit \/ Deliver
  \/ \E p \in PaneIds : PtyExit(p) \/ ClickPane(p) \/ ClickFind(p) \/ Hover(p)
  \/ \E t \in TabIds : ClickTab(t) \/ DoubleClickTab(t) \/ ClickClose(t)
  \/ EndRename \/ EndBadge \/ EscapeFind \/ CancelOverlay \/ WindowBlur

Spec == Init /\ [][Next]_vars

-----------------------------------------------------------------------------
(* Properties.                                                             *)

(* The keyboard is where the window shows it: while a rename or a badge    *)
(* edit is under way its input has it (it would otherwise suppress the     *)
(* hand-over forever), and the terminal that has it is the active tab's    *)
(* focused pane, whatever closed, opened, exited or was clicked; except,   *)
(* for that last part, while the focused pane has a find bar open.         *)
KeyboardOwner ==
  /\ ui.renaming # None => focus = <<"rename", ui.renaming>>
  /\ ui.badging # None => focus = <<"badge", ui.badging>>
  /\ focus[1] = "terminal" /\ Current(ui) \notin ui.search => focus = Terminal(Current(ui))

(* The two statements of the comments that the code does not keep: an open *)
(* bar of the focused pane has the keyboard when its terminal does not     *)
(* ("the input owns the keyboard"), and the close dialog never gives it to *)
(* a terminal ("never leaks keys or focus into it").                       *)
BarOwnsKeyboard == focus[1] = "terminal" => focus = Terminal(Current(ui))
DialogKeepsKeyboard == ui.asked # NoQuestion => focus[1] # "terminal"

=============================================================================
