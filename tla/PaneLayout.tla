------------------------------ MODULE PaneLayout ------------------------------
(***************************************************************************)
(* One tab's panes: the reducer's pane transitions (tabState.ts), the      *)
(* commands that ask for them (usePaneOps.ts, useCommandContext.ts), the   *)
(* divider drag and the command-drag that docks a pane elsewhere           *)
(* (usePaneDrag.ts), with the title the tab derives (tabTitle.ts).         *)
(*                                                                         *)
(* The webview is single-threaded: every handler is one action.  Between   *)
(* two pointer events anything else may come: a key, a session's exit, an  *)
(* animation frame, another size of the window.                            *)
(***************************************************************************)
EXTENDS PaneTree

CONSTANTS BOUNDS,     \* the sizes the content area takes
          MAX_PANE,   \* bound: the largest pane id handed out
          MAX_GESTURES, \* bound: no more gestures and outside events than this
          POSITIONS,  \* where a dragged divider's leading edge is asked to be
          POINTS,     \* where a picked-up pane is held, <<x, y>>
          TITLES      \* the automatic title slots that programs use

VARIABLES
  tree, focus, nextPane,     \* the tab's layout tree and focused pane, the id counter
  bounds,                    \* boundsRef: the measured content area
  gestures,                  \* how many there were (for MAX_GESTURES)
  sources, pin, title,       \* per-pane title slots that are set, manualTitle, Tab.title
  drag, ratio, frame,        \* dragRef, pendingRatioRef, frameCancelRef
  pickup, pointer, hover,    \* pickupRef, pendingPointerRef, paneDragFrameRef
  preview, swallow           \* dropPreview, suppressClickRef

layout == <<tree, focus, nextPane>>
titles == <<sources, pin, title>>
dividerDrag == <<drag, ratio, frame>>
paneDrag == <<pickup, pointer, hover, preview, swallow>>
vars == <<layout, bounds, gestures, titles, dividerDrag, paneDrag>>

Panes == PanesOf(tree)
None == <<>>
Grabbed == drag # None
PickedUp == pickup # None
Dragging == PickedUp /\ pickup.active
Zones == Edges \cup {"center"}

TypeOK ==
  /\ Panes \subseteq 1..MAX_PANE /\ focus \in Panes /\ nextPane \in 2..(MAX_PANE + 1)
  /\ bounds \in BOUNDS /\ gestures \in 0..MAX_GESTURES
  /\ sources \in [Panes -> SUBSET TITLES] /\ pin \in BOOLEAN
  /\ Grabbed => drag.bounds.w >= 0 /\ drag.dir \in Dirs
  /\ ratio # None => Grabbed
  /\ frame \in BOOLEAN /\ hover \in BOOLEAN /\ swallow \in BOOLEAN
  /\ PickedUp => pickup.pane \in 1..MAX_PANE /\ pickup.active \in BOOLEAN
  /\ pointer \in POINTS \cup {None}
  /\ preview # None => preview.zone \in Zones /\ preview.pane \in 1..MAX_PANE

\* effectiveTitle: the program's own title before the foreground process.
EffectiveTitle(s, p) ==
  IF "osc" \in s[p] THEN <<p, "osc">>
  ELSE IF "process" \in s[p] THEN <<p, "process">>
  ELSE <<p, "fallback">>

\* deriveTitle: the manual pin, else the focused pane's title.
DeriveTitle(pinned, s, p) == IF pinned THEN <<"pin">> ELSE EffectiveTitle(s, p)

Init ==
  /\ tree = LeafNode(1) /\ focus = 1 /\ nextPane = 2
  /\ bounds \in BOUNDS /\ gestures = 0
  /\ sources = [p \in {1} |-> {}] /\ pin = FALSE
  /\ title = DeriveTitle(FALSE, [p \in {1} |-> {}], 1)
  /\ drag = None /\ ratio = None /\ frame = FALSE
  /\ pickup = None /\ pointer = None /\ hover = FALSE /\ preview = None /\ swallow = FALSE

\* One more gesture, or event from outside, of those the bound allows.
Gesture == gestures < MAX_GESTURES /\ gestures' = gestures + 1

-----------------------------------------------------------------------------
(* The reducer's pane transitions.                                         *)

Focuses(p) == focus' = p /\ title' = DeriveTitle(pin, sources, p) /\ UNCHANGED <<sources, pin>>

\* splitPane: the new pane is untitled and takes the focus.
SplitPane(dir) ==
  /\ tree' = SplitLeaf(tree, focus, dir, nextPane)
  /\ focus' = nextPane /\ nextPane' = nextPane + 1
  /\ sources' = [p \in Panes \cup {nextPane} |-> IF p = nextPane THEN {} ELSE sources[p]]
  /\ title' = DeriveTitle(pin, sources', nextPane)

\* requestSplit: refused when a half would be too small.
Split(dir) ==
  /\ Gesture
  /\ nextPane <= MAX_PANE
  /\ CanSplit(tree, focus, dir, bounds)
  /\ SplitPane(dir)
  /\ UNCHANGED <<bounds, pin, dividerDrag, paneDrag>>

\* (mutation) the record of a closed pane is kept
KeepPane(p) == sources
WithoutPane(p) == [o \in Panes \ {p} |-> sources[o]]

\* closePane, asked for the focused pane by the user or for any by its session's exit.
\* The last pane is the tab's to close.
ClosePane(p) ==
  /\ Gesture
  /\ Panes # {p}
  /\ tree' = RemoveLeaf(tree, p)
  /\ focus' = IF focus = p THEN FocusNext(tree, p) ELSE focus
  /\ sources' = WithoutPane(p)
  /\ title' = DeriveTitle(pin, sources', focus')
  /\ UNCHANGED <<nextPane, bounds, pin, dividerDrag, paneDrag>>

\* focusPane: a click in a pane, or the pointer entering it.
FocusPane(p) ==
  /\ Gesture
  /\ p # focus
  /\ Focuses(p)
  /\ UNCHANGED <<tree, nextPane, bounds, dividerDrag, paneDrag>>

\* requestPaneNav
Navigate(d) ==
  LET target == PaneInDirection(tree, focus, d, bounds)
  IN target # NoPane /\ FocusPane(target)
Cycle(delta) == FocusPane(NextPane(tree, focus, delta))

\* movePane: the focused pane is docked beyond its neighbour and keeps the focus.
MovePane(d) ==
  /\ Gesture
  /\ tree' = MovePaneDirectional(tree, focus, d, bounds)
  /\ tree' # tree
  /\ Focuses(focus)
  /\ UNCHANGED <<nextPane, bounds, dividerDrag, paneDrag>>

\* setPaneRatio
SetPaneRatio(q, r) ==
  /\ tree' = SetRatio(tree, q, r)
  /\ UNCHANGED <<focus, nextPane>>

\* growPane: refused when any pane would then be too small.
Grow(d) ==
  /\ Gesture
  /\ Grown(tree, focus, d) # tree
  /\ LET grown == Grown(tree, focus, d)
         rects == PaneRects(grown, bounds)
     IN /\ \A p \in Panes : BigEnough(rects[p])
        /\ tree' = grown
  /\ UNCHANGED <<focus, nextPane, bounds, titles, dividerDrag, paneDrag>>

\* setTitleSource, from the program's escape or the process poller.
SetTitleSource(p, slot) ==
  /\ Gesture
  /\ sources' = [sources EXCEPT ![p] = IF slot \in @ THEN @ \ {slot} ELSE @ \cup {slot}]
  /\ title' = DeriveTitle(pin, sources', focus)
  /\ UNCHANGED <<layout, bounds, pin, dividerDrag, paneDrag>>

\* setTabTitle: a rename pins the title, an empty one unpins it.
SetTabTitle ==
  /\ Gesture
  /\ pin' = ~pin
  /\ title' = DeriveTitle(pin', sources, focus)
  /\ UNCHANGED <<layout, bounds, sources, dividerDrag, paneDrag>>

\* observeContentSize
Resize(b) ==
  /\ Gesture
  /\ b # bounds
  /\ bounds' = b
  /\ UNCHANGED <<layout, titles, dividerDrag, paneDrag>>

-----------------------------------------------------------------------------
(* The divider drag.  There is one pointer: it holds a divider or a pane.  *)

PointerFree == ~Grabbed /\ ~PickedUp

\* onDividerPointerDown keeps the split's path and enclosing rectangle of that moment.
DividerDown(q) ==
  /\ Gesture
  /\ PointerFree
  /\ drag' = [path |-> q, dir |-> tree[q].dir, bounds |-> Solve(tree, bounds)[q]]
  /\ UNCHANGED <<layout, bounds, titles, ratio, frame, paneDrag>>

\* onDividerPointerMove: at most one frame is pending.
DividerMove(edge) ==
  /\ Grabbed
  /\ ratio' = RatioForDrag(edge, drag.bounds, drag.dir)
  /\ frame' = TRUE
  /\ UNCHANGED <<gestures, layout, bounds, titles, drag, paneDrag>>

\* What a flush of the pending ratio does to the tree.
Flush == IF Grabbed /\ ratio # None THEN SetPaneRatio(drag.path, ratio) ELSE UNCHANGED layout

DividerFrame ==
  /\ frame
  /\ frame' = FALSE
  /\ Flush
  /\ UNCHANGED <<gestures, bounds, titles, drag, ratio, paneDrag>>

\* (mutation) the pending frame outlives the drag
EndDragKeepFrame == drag' = None /\ ratio' = None /\ UNCHANGED frame

EndDrag == drag' = None /\ ratio' = None /\ frame' = FALSE

\* onDividerPointerUp commits the last position at once; a cancel does not.
DividerUp ==
  /\ Grabbed
  /\ Flush /\ EndDrag
  /\ UNCHANGED <<gestures, bounds, titles, paneDrag>>

DividerCancel ==
  /\ Grabbed
  /\ EndDrag
  /\ UNCHANGED <<gestures, layout, bounds, titles, paneDrag>>

DividerDoubleClick(q) ==
  /\ Gesture
  /\ PointerFree
  /\ SetPaneRatio(q, Half)
  /\ UNCHANGED <<bounds, titles, dividerDrag, paneDrag>>

-----------------------------------------------------------------------------
(* The command-drag of a pane.                                             *)

\* onPanePointerDownCapture: only a candidate until the pointer leaves the slop.
PaneDown(p) ==
  /\ Gesture
  /\ PointerFree
  /\ pickup' = [pane |-> p, active |-> FALSE]
  /\ swallow' = FALSE
  /\ UNCHANGED <<layout, bounds, titles, dividerDrag, pointer, hover, preview>>

PaneMove(at) ==
  /\ PickedUp
  /\ pickup' = [pickup EXCEPT !.active = TRUE]
  /\ swallow' = (swallow \/ ~pickup.active)
  /\ pointer' = at /\ hover' = TRUE
  /\ UNCHANGED <<gestures, layout, bounds, titles, dividerDrag, preview>>

\* computeDropTarget, on the tree and the size of now.
DropTarget(at) ==
  LET p == PaneAt(tree, bounds, at[1], at[2])
      zone == DropZone(PaneRects(tree, bounds)[p], at[1], at[2])
  IN IF p \in {NoPane, pickup.pane} THEN None
     ELSE IF zone # "center" /\ ~CanDropEdge(tree, p, zone, bounds) THEN None
     ELSE [pane |-> p, zone |-> zone]

HoverFrame ==
  /\ hover
  /\ hover' = FALSE
  /\ preview' = IF PickedUp /\ pointer # None THEN DropTarget(pointer) ELSE preview
  /\ UNCHANGED <<gestures, layout, bounds, titles, dividerDrag, pickup, pointer, swallow>>

\* endPaneDrag
EndPaneDrag == pickup' = None /\ pointer' = None /\ hover' = FALSE /\ preview' = None

\* redockPane: the picked-up pane, if it is still there, takes the focus where it lands.
RedockPane(target) ==
  LET moved == IF target.zone = "center"
               THEN SwapLeaves(tree, pickup.pane, target.pane)
               ELSE MoveLeaf(tree, pickup.pane, target.pane, target.zone)
  IN IF moved = tree \/ pickup.pane \notin Panes
     THEN UNCHANGED <<tree, focus, titles>>
     ELSE tree' = moved /\ Focuses(pickup.pane)

\* onPanePointerUpCapture: the target is computed from where the pointer is released.
PaneUp(at) ==
  /\ Dragging
  /\ IF DropTarget(at) = None THEN UNCHANGED <<tree, focus, titles>> ELSE RedockPane(DropTarget(at))
  /\ EndPaneDrag
  /\ UNCHANGED <<gestures, nextPane, bounds, dividerDrag, swallow>>

\* A press that never left the slop goes through as a click.
PaneClick ==
  /\ PickedUp /\ ~pickup.active
  /\ pickup' = None
  /\ UNCHANGED <<gestures, layout, bounds, titles, dividerDrag, pointer, hover, preview, swallow>>

\* pointercancel, lostpointercapture or Escape: no click follows.
PaneCancel ==
  /\ Dragging
  /\ EndPaneDrag /\ swallow' = FALSE
  /\ UNCHANGED <<gestures, layout, bounds, titles, dividerDrag>>

\* onPaneClickCapture: the click that follows a drop is swallowed.
SwallowClick ==
  /\ swallow /\ ~PickedUp
  /\ swallow' = FALSE
  /\ UNCHANGED <<gestures, layout, bounds, titles, dividerDrag, pickup, pointer, hover, preview>>

-----------------------------------------------------------------------------
Keyboard ==
  \/ \E dir \in Dirs : Split(dir)
  \/ \E d \in Directions : Navigate(d) \/ MovePane(d) \/ Grow(d)
  \/ \E delta \in {1, 0 - 1} : Cycle(delta)

Pointer ==
  \/ \E q \in SplitPaths(tree) : DividerDown(q) \/ DividerDoubleClick(q)
  \/ \E edge \in POSITIONS : DividerMove(edge)
  \/ DividerUp \/ DividerCancel
  \/ \E p \in Panes : PaneDown(p) \/ FocusPane(p)
  \/ \E at \in POINTS : PaneMove(at) \/ PaneUp(at)
  \/ PaneClick \/ PaneCancel \/ SwallowClick

Next ==
  \/ Keyboard \/ Pointer
  \/ DividerFrame \/ HoverFrame
  \/ \E p \in Panes : ClosePane(p)
  \/ \E p \in Panes, slot \in TITLES : SetTitleSource(p, slot)
  \/ SetTabTitle
  \/ \E b \in BOUNDS : Resize(b)

Spec == Init /\ [][Next]_vars

-----------------------------------------------------------------------------
(* Properties.                                                             *)

Area(r) == r.w * r.h
Disjoint(r, s) == r.x + r.w <= s.x \/ s.x + s.w <= r.x \/ r.y + r.h <= s.y \/ s.y + s.h <= r.y
Within(r, s) ==
  r.x >= s.x /\ r.y >= s.y /\ r.x + r.w <= s.x + s.w /\ r.y + r.h <= s.y + s.h

(* Panes and dividers tile the content area with neither gap nor overlap,  *)
(* whatever was split, closed, docked, swapped or resized before, at every *)
(* size of the window (walkRects).                                         *)
Tiles ==
  LET rect == Solve(tree, bounds)
      cells == [q \in DOMAIN tree |->
                  IF IsLeaf(tree, q) THEN rect[q] ELSE DividerRect(rect[q], tree[q])]
  IN /\ \A q \in DOMAIN tree : Within(cells[q], bounds)
     /\ \A q, r \in DOMAIN tree : q = r \/ Disjoint(cells[q], cells[r])
     /\ FoldFunction(LAMBDA c, sum : Area(c) + sum, 0, cells) = Area(bounds)

(* The tab's stored title is the pin, or the focused pane's own title: no  *)
(* way of moving the focus or of changing a title leaves a stale one       *)
(* (deriveTitle at every write site).                                      *)
TitleDerived == title = DeriveTitle(pin, sources, focus)

(* What a drag scheduled never outlives it: no pending frame, ratio,       *)
(* pointer or preview is left once the drag has ended, by a release, a     *)
(* cancel or Escape (endDrag, endPaneDrag).                                *)
DragsEndClean ==
  /\ frame \/ ratio # None => Grabbed
  /\ hover \/ pointer # None \/ preview # None => Dragging

Floor(t, b) == \A p \in PanesOf(t) : BigEnough(PaneRects(t, b)[p])

(* Neither a split nor a drop takes a pane below the minimum size in a     *)
(* layout that respected it, although the drop is judged on the layout     *)
(* before the pane leaves it (canSplit, canDropEdge).                      *)
Drops == Dragging /\ pickup' = None /\ tree' # tree
KeepsFloor == (nextPane' # nextPane \/ Drops) /\ Floor(tree, bounds) => Floor(tree', bounds)
FloorKept == [][KeepsFloor]_vars

(* The tab reducer that the session model uses keeps only the set of a     *)
(* tab's panes and its focus.  Every step here is one of that reducer's    *)
(* transitions or changes neither.                                         *)
Tabs == INSTANCE TabState
AsTab(panes, f, next) ==
  [tabs |-> <<[id |-> 1, sess |-> [p \in panes |-> 0], focus |-> f]>>,
   active |-> 1, nextTab |-> 2, nextPane |-> next]
Mapped == AsTab(Panes, focus, nextPane)
IsTabStep ==
  \/ Mapped' = Mapped
  \/ Mapped' = Tabs!SplitPane(Mapped, 1)
  \/ \E p \in Panes : Mapped' = Tabs!FocusPane(Mapped, 1, p)
  \/ \E p \in Panes : Mapped' \in Tabs!ClosePane(Mapped, 1, p)
TabReducer == [][IsTabStep]_vars

=============================================================================
