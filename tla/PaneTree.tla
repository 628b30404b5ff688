------------------------------- MODULE PaneTree -------------------------------
(***************************************************************************)
(* The pure algebra of split panes: the layout tree and its geometry       *)
(* (layoutTree.ts), navigation between panes (paneNav.ts), the pointer     *)
(* mathematics of the two drags (dividerDrag.ts, dropZone.ts) and the      *)
(* keyboard growth of a pane (growPane.ts).                                *)
(*                                                                         *)
(* A tree is a function from its set of paths, closed under prefixes, to   *)
(* nodes: [pane] at a leaf and [dir, ratio] at a split.  Ratios are exact  *)
(* fractions in lowest terms, where the code has the nearest double.       *)
(***************************************************************************)
EXTENDS Integers, Sequences, FiniteSets, SequencesExt

CONSTANTS MIN_WIDTH, MIN_HEIGHT,  \* MIN_PANE_PX
          DIVIDER                 \* DEFAULT_DIVIDER_PX

ASSUME PaneTreeAssumption ==
  MIN_WIDTH \in Nat \ {0} /\ MIN_HEIGHT \in Nat \ {0} /\ DIVIDER \in Nat

Dirs == {"row", "column"}
Edges == {"left", "right", "top", "bottom"}
NoPane == 0

-----------------------------------------------------------------------------
(* Fractions.                                                              *)

GCD[a \in Nat, b \in Nat] == IF b = 0 THEN a ELSE GCD[b, a % b]
Frac(n, d) == LET g == GCD[n, d] IN <<n \div g, d \div g>>
Less(r, s) == r[1] * s[2] < s[1] * r[2]
Greater(r, s) == Less(s, r)

Half == <<1, 2>>
MIN_RATIO == <<1, 20>>
MAX_RATIO == <<19, 20>>
GROW_STEP == <<1, 50>>

Sum2(r, s) == <<r[1] * s[2] + s[1] * r[2], r[2] * s[2]>>
Clamped(r, lo, hi) == IF Less(r, lo) THEN lo ELSE IF Less(hi, r) THEN hi ELSE Frac(r[1], r[2])

\* Math.round(len * ratio)
Share(len, ratio) == (2 * len * ratio[1] + ratio[2]) \div (2 * ratio[2])

-----------------------------------------------------------------------------
(* Trees.                                                                  *)

IsLeaf(t, q) == "pane" \in DOMAIN t[q]
LeafPaths(t) == {q \in DOMAIN t : IsLeaf(t, q)}
SplitPaths(t) == DOMAIN t \ LeafPaths(t)
PanesOf(t) == {t[q].pane : q \in LeafPaths(t)}
PathOf(t, p) == CHOOSE q \in LeafPaths(t) : t[q].pane = p

LeafNode(p) == [q \in {<<>>} |-> [pane |-> p]]

Under(t, q) == {r \in DOMAIN t : IsPrefix(q, r)}
Below(q, r) == SubSeq(r, Len(q) + 1, Len(r))
Subtree(t, q) == [r \in {Below(q, u) : u \in Under(t, q)} |-> t[q \o r]]

\* t with the node at q replaced by the tree s.
Graft(t, q, s) ==
  [r \in (DOMAIN t \ Under(t, q)) \cup {q \o u : u \in DOMAIN s} |->
     IF IsPrefix(q, r) THEN s[Below(q, r)] ELSE t[r]]

SplitNode(dir, first, second) ==
  [r \in {<<>>} \cup {<<"first">> \o u : u \in DOMAIN first}
               \cup {<<"second">> \o u : u \in DOMAIN second} |->
     IF r = <<>> THEN [dir |-> dir, ratio |-> Half]
     ELSE IF r[1] = "first" THEN first[Tail(r)] ELSE second[Tail(r)]]

EdgeDir(edge) == IF edge \in {"left", "right"} THEN "row" ELSE "column"
MovedFirst(edge) == edge \in {"left", "top"}

\* insertBeside: the target's leaf becomes an even split with the pane on the edge's side.
InsertBeside(t, target, p, edge) ==
  Graft(t, PathOf(t, target),
        IF MovedFirst(edge) THEN SplitNode(EdgeDir(edge), LeafNode(p), LeafNode(target))
        ELSE SplitNode(EdgeDir(edge), LeafNode(target), LeafNode(p)))

\* splitLeaf: the new pane comes after.
SplitLeaf(t, p, dir, new) ==
  IF p \in PanesOf(t) THEN InsertBeside(t, p, new, IF dir = "row" THEN "right" ELSE "bottom")
  ELSE t

Other(step) == IF step = "first" THEN "second" ELSE "first"
Sibling(q) == Append(Front(q), Other(Last(q)))

\* The leaf reached from q by first sides only.
FirstLeaf(t, q) ==
  t[CHOOSE r \in LeafPaths(t) :
      IsPrefix(q, r) /\ \A i \in (Len(q) + 1)..Len(r) : r[i] = "first"].pane

\* (mutation) only the sibling's nearest leaf survives
RemoveSplit(t, p) ==
  LET q == PathOf(t, p) IN Graft(t, Front(q), LeafNode(FirstLeaf(t, Sibling(q))))

\* removeLeaf on a tree with another leaf: the sibling takes the parent's place.
RemoveLeaf(t, p) ==
  LET q == PathOf(t, p) IN Graft(t, Front(q), Subtree(t, Sibling(q)))
FocusNext(t, p) == FirstLeaf(t, Sibling(PathOf(t, p)))

\* setRatio: a path that does not land on a split changes nothing.
SetRatio(t, q, ratio) ==
  IF q \in SplitPaths(t) THEN [t EXCEPT ![q].ratio = Clamped(ratio, MIN_RATIO, MAX_RATIO)] ELSE t

Redocked(t, p, target, edge) == InsertBeside(RemoveLeaf(t, p), target, p, edge)

MoveLeaf(t, p, target, edge) ==
  IF p # target /\ {p, target} \subseteq PanesOf(t) THEN Redocked(t, p, target, edge) ELSE t

SwapLeaves(t, a, b) ==
  IF {a, b} \subseteq PanesOf(t)
  THEN [t EXCEPT ![PathOf(t, a)].pane = b, ![PathOf(t, b)].pane = a]
  ELSE t

\* leaves: first before second.
Before(q, r) ==
  \E i \in DOMAIN q : i \in DOMAIN r /\ SubSeq(q, 1, i - 1) = SubSeq(r, 1, i - 1)
                      /\ q[i] = "first" /\ r[i] = "second"
Leaves(t) == LET paths == SetToSortSeq(LeafPaths(t), Before)
             IN [i \in DOMAIN paths |-> t[paths[i]].pane]

-----------------------------------------------------------------------------
(* Geometry.  A rectangle is [x, y, w, h]; "row" lays out along x.          *)

MainStart(r, dir) == IF dir = "row" THEN r.x ELSE r.y
MainLen(r, dir) == IF dir = "row" THEN r.w ELSE r.h
CrossStart(r, dir) == IF dir = "row" THEN r.y ELSE r.x
CrossLen(r, dir) == IF dir = "row" THEN r.h ELSE r.w
Slice(r, dir, start, len) ==
  IF dir = "row" THEN [r EXCEPT !.x = start, !.w = len] ELSE [r EXCEPT !.y = start, !.h = len]

Gap(r, dir) == IF DIVIDER < MainLen(r, dir) THEN DIVIDER ELSE MainLen(r, dir)
Available(r, dir) == MainLen(r, dir) - Gap(r, dir)

\* (mutation) the second side starts under the divider
SideUnderDivider(r, node, step) ==
  LET first == Share(Available(r, node.dir), node.ratio)
      start == MainStart(r, node.dir)
  IN IF step = "first" THEN Slice(r, node.dir, start, first)
     ELSE Slice(r, node.dir, start + first, Available(r, node.dir) - first)

\* The two sides of a split node in r, and the line between them.
SideRect(r, node, step) ==
  LET first == Share(Available(r, node.dir), node.ratio)
      start == MainStart(r, node.dir)
  IN IF step = "first" THEN Slice(r, node.dir, start, first)
     ELSE Slice(r, node.dir, start + first + Gap(r, node.dir), Available(r, node.dir) - first)

DividerRect(r, node) ==
  Slice(r, node.dir, MainStart(r, node.dir) + Share(Available(r, node.dir), node.ratio),
        Gap(r, node.dir))

\* solveRects: the rectangle of every node.
Solve(t, bounds) ==
  LET rect[q \in DOMAIN t] ==
        IF q = <<>> THEN bounds ELSE SideRect(rect[Front(q)], t[Front(q)], Last(q))
  IN rect

PaneRects(t, bounds) ==
  LET rect == Solve(t, bounds) IN [p \in PanesOf(t) |-> rect[PathOf(t, p)]]

BigEnough(r) == r.w >= MIN_WIDTH /\ r.h >= MIN_HEIGHT
MinOf(dir) == IF dir = "row" THEN MIN_WIDTH ELSE MIN_HEIGHT
MinAcross(dir) == IF dir = "row" THEN MIN_HEIGHT ELSE MIN_WIDTH

\* The smaller half of an even split must keep the minimum.
CanSplit(t, p, dir, bounds) ==
  /\ p \in PanesOf(t)
  /\ LET r == PaneRects(t, bounds)[p]
     IN /\ MainLen(r, dir) >= DIVIDER
        /\ (MainLen(r, dir) - DIVIDER) \div 2 >= MinOf(dir)
        /\ CrossLen(r, dir) >= MinAcross(dir)

\* (mutation) the drop guard asks for the other axis
CanDropAcross(t, target, edge, bounds) ==
  CanSplit(t, target, IF EdgeDir(edge) = "row" THEN "column" ELSE "row", bounds)

CanDropEdge(t, target, edge, bounds) == CanSplit(t, target, EdgeDir(edge), bounds)

-----------------------------------------------------------------------------
(* Navigation and growth by keyboard.                                      *)

Directions == {"left", "right", "up", "down"}
AxisOf(d) == IF d \in {"left", "right"} THEN "row" ELSE "column"
Forward(d) == d \in {"right", "down"}
FarEdge(d) == CASE d = "left" -> "left" [] d = "right" -> "right"
                [] d = "up" -> "top" [] d = "down" -> "bottom"

\* How far the near edge of c lies from f in direction d; negative when it does not.
Distance(f, c, d) ==
  LET a == AxisOf(d)
  IN IF Forward(d) THEN MainStart(c, a) - (MainStart(f, a) + MainLen(f, a))
     ELSE MainStart(f, a) - (MainStart(c, a) + MainLen(c, a))

Least(a, b) == IF a < b THEN a ELSE b
Most(a, b) == IF a > b THEN a ELSE b
Overlap(f, c, d) ==
  LET a == AxisOf(d)
  IN Least(CrossStart(f, a) + CrossLen(f, a), CrossStart(c, a) + CrossLen(c, a))
     - Most(CrossStart(f, a), CrossStart(c, a))

\* The rank of a candidate: distance, then overlap (larger first), then top, then left.
Rank(f, c, d) == <<Distance(f, c, d), 0 - Overlap(f, c, d), c.y, c.x>>
RankBefore(r, s) ==
  \E i \in 1..4 : r[i] < s[i] /\ \A j \in 1..(i - 1) : r[j] = s[j]

PaneInDirection(t, p, d, bounds) ==
  LET rects == PaneRects(t, bounds)
      facing == {c \in PanesOf(t) \ {p} :
                   Distance(rects[p], rects[c], d) >= 0 /\ Overlap(rects[p], rects[c], d) > 0}
  IN IF facing = {} THEN NoPane
     ELSE CHOOSE c \in facing : \A o \in facing \ {c} :
            ~RankBefore(Rank(rects[p], rects[o], d), Rank(rects[p], rects[c], d))

NextPane(t, p, delta) ==
  LET order == Leaves(t)
      i == CHOOSE j \in DOMAIN order : order[j] = p
  IN order[((i - 1 + delta + Len(order)) % Len(order)) + 1]

MovePaneDirectional(t, p, d, bounds) ==
  LET target == PaneInDirection(t, p, d, bounds)
  IN IF target = NoPane THEN t ELSE MoveLeaf(t, p, target, FarEdge(d))

\* growTarget: the nearest split above the pane along the axis, with the pane on the side
\* whose divider faces d; none at an edge of the tab.
GrowSide(d) == IF Forward(d) THEN "first" ELSE "second"
Facing(t, p, d) ==
  LET q == PathOf(t, p)
  IN {r \in SplitPaths(t) : /\ IsStrictPrefix(r, q) /\ t[r].dir = AxisOf(d)
                            /\ q[Len(r) + 1] = GrowSide(d)}
GrowPath(t, p, d) == CHOOSE r \in Facing(t, p, d) : \A u \in Facing(t, p, d) : Len(u) <= Len(r)
GrowRatio(ratio, d) ==
  Clamped(Sum2(ratio, <<IF Forward(d) THEN 1 ELSE 0 - 1, 50>>), MIN_RATIO, MAX_RATIO)

\* The grown tree, or the same one at an edge or at the clamp.
Grown(t, p, d) ==
  IF Facing(t, p, d) = {} THEN t
  ELSE LET r == GrowPath(t, p, d) IN [t EXCEPT ![r].ratio = GrowRatio(@, d)]

-----------------------------------------------------------------------------
(* The two drags.                                                          *)

\* ratioForDrag, for the divider's leading edge (the pointer less the grab offset): the
\* minimum in pixels binds where the split can hold two minimums.
RatioForDrag(leadingEdge, bounds, dir) ==
  LET len == Available(bounds, dir)
      raw == <<leadingEdge - MainStart(bounds, dir), len>>
      floor == Frac(MinOf(dir), len)
      twice == len >= 2 * MinOf(dir)
      lo == IF twice /\ Greater(floor, MIN_RATIO) THEN floor ELSE MIN_RATIO
      hi == IF twice /\ Greater(floor, MIN_RATIO) THEN Frac(len - MinOf(dir), len) ELSE MAX_RATIO
  IN IF len <= 0 THEN Half ELSE Clamped(raw, lo, hi)

\* dropZone: within a fifth of the size from the centre is a swap; otherwise the dominant
\* axis picks the edge.  The coordinates are doubled to stay integers.
DropZone(r, x, y) ==
  LET dx == 2 * (x - r.x) - r.w
      dy == 2 * (y - r.y) - r.h
      ax == IF dx < 0 THEN 0 - dx ELSE dx
      ay == IF dy < 0 THEN 0 - dy ELSE dy
  IN IF 5 * ax <= 2 * r.w /\ 5 * ay <= 2 * r.h THEN "center"
     ELSE IF ax * r.h >= ay * r.w THEN IF dx < 0 THEN "left" ELSE "right"
     ELSE IF dy < 0 THEN "top" ELSE "bottom"

PaneAt(t, bounds, x, y) ==
  LET rects == PaneRects(t, bounds)
      hit == {p \in PanesOf(t) : /\ x >= rects[p].x /\ x < rects[p].x + rects[p].w
                                 /\ y >= rects[p].y /\ y < rects[p].y + rects[p].h}
  IN IF hit = {} THEN NoPane ELSE CHOOSE p \in hit : TRUE

=============================================================================
