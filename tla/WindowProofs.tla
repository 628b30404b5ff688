---------------------------- MODULE WindowProofs ----------------------------
(***************************************************************************)
(* What TLAPS proves of the machines of the windows: the owner of the      *)
(* keyboard, the activity line, the updater and its mirror, copy on        *)
(* select, the rows of the settings window and the find bar.  Each has its *)
(* constants' assumption where it needs one, its inductive invariant, that *)
(* the initial states have it and every step keeps it, and a theorem of    *)
(* what follows.                                                           *)
(***************************************************************************)
EXTENDS Integers, FiniteSetTheorems, SequenceTheorems, TLAPS

CONSTANTS
  MAX_TAB, MAX_PANE,                                               \* KeyboardFocus
  SHOW_DELAY, MIN_VISIBLE, ECHO_WINDOW, UNKNOWN_FALLBACK, HOLD,
  WINDOW_CLOSE, FLASH, METAS,                                      \* ActivityLine
  OFFERED, MAX_COMMANDS, MAX_OPENINGS,                             \* Updates
  TEXTS,                                                           \* CopyOnSelect
  LISTED, OTHERS, KIND, MIN_SIZE, MAX_SIZE, TYPED, MAX_CHOICES,
  MAX_MOUNTS,                                                      \* SettingsForm
  QUERIES, MALFORMED, COLORS, MAX_MATCHES                          \* FindBar

VARIABLES
  ui, focus,
  line, timer, rendered, flash, polled, latched, running, foreground, alive,
  up, pending, checks, downloads, autoDone, scheduled, prefs, served, mirror, connected,
  told, toMain, toSettings, clicks, openings,
  watch, fallback, captured, button, events, selection, clipboard, gesture,
  row, onScreen, mount, stored, file, news, hearing, value, custom, listing, draft, focused, asked,
  loads, revision, queries, sort, choices, chosen, surprised, applied,
  find, addon, pressed

Keyboard == INSTANCE KeyboardFocus
Activity == INSTANCE ActivityLine
Updater == INSTANCE Updates WITH VERSIONS <- OFFERED
Copy == INSTANCE CopyOnSelect WITH machine <- watch
Form == INSTANCE SettingsForm WITH shown <- value, mounted <- onScreen, kind <- sort
Find == INSTANCE FindBar

-----------------------------------------------------------------------------
(* The keyboard.                                                           *)

KeyboardConstants == MAX_TAB \in Nat \ {0} /\ MAX_PANE \in Nat \ {0}

\* What the close dialog asks about.
Questions == ({"none", "tab", "quit"} \X Nat) \cup ({"pane"} \X Keyboard!PaneIds)

Screen ==
  [tabOf : [Keyboard!PaneIds -> Keyboard!TabIds \cup {0}],
   focused : [Keyboard!TabIds -> Keyboard!PaneIds \cup {0}],
   active : Keyboard!TabIds, renaming : Keyboard!TabIds \cup {0},
   badging : Keyboard!PaneIds \cup {0}, search : SUBSET Keyboard!PaneIds,
   palette : BOOLEAN, picker : BOOLEAN, asked : Questions,
   tabs : Keyboard!TabIds, panes : Keyboard!PaneIds]

\* Every tab that has panes has its focused one among them, the active tab has some, what is
\* being renamed or badged is there, and ids are given out in order.
Standing(u) ==
  /\ u \in Screen
  /\ u.focused[u.active] # 0 /\ u.tabOf[u.focused[u.active]] = u.active
  /\ \A p \in Keyboard!PaneIds :
       u.tabOf[p] # 0 => /\ u.focused[u.tabOf[p]] # 0
                         /\ u.tabOf[u.focused[u.tabOf[p]]] = u.tabOf[p]
  /\ u.renaming # 0 => \E p \in Keyboard!PaneIds : u.tabOf[p] = u.renaming
  /\ u.badging # 0 => u.tabOf[u.badging] # 0
  /\ \A p \in Keyboard!PaneIds : p > u.panes => u.tabOf[p] = 0

KeyboardInv ==
  /\ Standing(ui) /\ Keyboard!KeyboardOwner
  /\ focus[1] = "find" => focus[2] \in ui.search

\* What a command does to the renaming and the badging: leaves or ends them, ...
LeavesEdits(u, v) == v.renaming \in {u.renaming, 0} /\ v.badging \in {u.badging, 0}
\* ... or starts one, and mounts nothing else.
MountsNoMore(u, v) ==
  /\ v.search \subseteq u.search /\ (v.palette => u.palette) /\ (v.picker => u.picker)
  /\ v.asked \in {u.asked, Keyboard!NoQuestion}
StartsRename(u, v) == MountsNoMore(u, v) /\ v.badging \in {u.badging, 0}
StartsBadge(u, v) ==
  MountsNoMore(u, v) /\ v.renaming \in {u.renaming, 0} /\ v.badging = v.focused[v.active]
Edits(u, v) == LeavesEdits(u, v) \/ StartsRename(u, v) \/ StartsBadge(u, v)

\* What the event itself gives the keyboard to.
Given(u, v, holder) ==
  \/ holder = focus \/ holder[1] \in {"strip", "find"}
  \/ holder = Keyboard!Terminal(v.focused[v.active]) \/ v.search # u.search

LEMMA InputsAre ==
  ASSUME NEW u
  PROVE  /\ \A t : <<"rename", t>> \in Keyboard!Inputs(u) <=> t = u.renaming /\ t \in Keyboard!Tabs(u)
         /\ \A p : <<"badge", p>> \in Keyboard!Inputs(u)
                     <=> p \in Keyboard!PaneIds /\ p = u.badging /\ u.tabOf[p] # 0
         /\ \A e \in Keyboard!Inputs(u) :
              /\ e[1] \in {"palette", "picker", "confirm", "rename", "badge", "find"}
              /\ e[1] = "find" => e[2] \in u.search
              /\ e[1] = "rename" => e = <<"rename", u.renaming>>
              /\ e[1] = "badge" => e = <<"badge", u.badging>>
<1>1. \A t : <<"rename", t>> \in Keyboard!Inputs(u) <=> t = u.renaming /\ t \in Keyboard!Tabs(u)
  BY DEF Keyboard!Inputs, Keyboard!Overlays
<1>2. \A p : <<"badge", p>> \in Keyboard!Inputs(u)
               <=> p \in Keyboard!PaneIds /\ p = u.badging /\ u.tabOf[p] # 0
  BY DEF Keyboard!Inputs, Keyboard!Overlays, Keyboard!None
<1>3. \A e \in Keyboard!Inputs(u) :
        /\ e[1] \in {"palette", "picker", "confirm", "rename", "badge", "find"}
        /\ e[1] = "find" => e[2] \in u.search
        /\ e[1] = "rename" => e = <<"rename", u.renaming>>
        /\ e[1] = "badge" => e = <<"badge", u.badging>>
  BY DEF Keyboard!Inputs, Keyboard!Overlays
<1> QED BY <1>1, <1>2, <1>3

\* The one that a command mounts when it starts an edit.
LEMMA RenameMounts ==
  ASSUME Standing(ui), NEW v, Standing(v), StartsRename(ui, v), v.renaming \notin {ui.renaming, 0}
  PROVE  \A e : e \in Keyboard!Inputs(v) \ Keyboard!Inputs(ui) <=> e = <<"rename", v.renaming>>
<1>1. <<"rename", v.renaming>> \in Keyboard!Inputs(v) \ Keyboard!Inputs(ui)
  <2>1. v.renaming \in Keyboard!Tabs(v)
    BY DEF Standing, Screen, Keyboard!Tabs, Keyboard!Members
  <2> QED BY <2>1, InputsAre
<1>2. ASSUME NEW e \in Keyboard!Inputs(v), e # <<"rename", v.renaming>>
      PROVE  e \in Keyboard!Inputs(ui)
  <2>1. CASE e \in Keyboard!Overlays(v)
    <3>1. e \in Keyboard!Overlays(ui)
      BY <2>1 DEF StartsRename, MountsNoMore, Keyboard!Overlays
    <3> QED BY <3>1 DEF Keyboard!Inputs
  <2>2. CASE e \in {<<"badge", p>> : p \in {q \in Keyboard!PaneIds : q = v.badging /\ v.tabOf[q] # 0}}
    <3>1. e = <<"badge", v.badging>> /\ v.badging \in Keyboard!PaneIds
      BY <2>2
    <3>2. v.badging = ui.badging
      BY <3>1 DEF StartsRename, Keyboard!PaneIds
    <3>3. ui.tabOf[ui.badging] # 0
      BY <3>1, <3>2 DEF Standing, Keyboard!PaneIds
    <3> QED BY <3>1, <3>2, <3>3, InputsAre
  <2>3. CASE e \in {<<"find", p>> : p \in v.search}
    BY <2>3 DEF StartsRename, MountsNoMore, Keyboard!Inputs
  <2>4. CASE e \in {<<"rename", t>> : t \in {v.renaming} \cap Keyboard!Tabs(v)}
    BY <1>2, <2>4
  <2> QED BY <1>2, <2>1, <2>2, <2>3, <2>4 DEF Keyboard!Inputs, Keyboard!None
<1> QED BY <1>1, <1>2

LEMMA BadgeMounts ==
  ASSUME Standing(ui), NEW v, Standing(v), StartsBadge(ui, v), v.badging \notin {ui.badging, 0}
  PROVE  \A e : e \in Keyboard!Inputs(v) \ Keyboard!Inputs(ui) <=> e = <<"badge", v.badging>>
<1>1. <<"badge", v.badging>> \in Keyboard!Inputs(v) \ Keyboard!Inputs(ui)
  <2>1. v.badging \in Keyboard!PaneIds /\ v.tabOf[v.badging] # 0
    BY DEF Standing, Screen
  <2> QED BY <2>1, InputsAre
<1>2. ASSUME NEW e \in Keyboard!Inputs(v), e # <<"badge", v.badging>>
      PROVE  e \in Keyboard!Inputs(ui)
  <2>1. CASE e \in Keyboard!Overlays(v)
    <3>1. e \in Keyboard!Overlays(ui)
      BY <2>1 DEF StartsBadge, MountsNoMore, Keyboard!Overlays
    <3> QED BY <3>1 DEF Keyboard!Inputs
  <2>2. CASE e \in {<<"badge", p>> : p \in {q \in Keyboard!PaneIds : q = v.badging /\ v.tabOf[q] # 0}}
    BY <1>2, <2>2
  <2>3. CASE e \in {<<"find", p>> : p \in v.search}
    BY <2>3 DEF StartsBadge, MountsNoMore, Keyboard!Inputs
  <2>4. CASE e \in {<<"rename", t>> : t \in {v.renaming} \cap Keyboard!Tabs(v)}
    <3>1. e = <<"rename", v.renaming>> /\ v.renaming \in Keyboard!TabIds
      BY <2>4 DEF Keyboard!Tabs
    <3>2. v.renaming = ui.renaming
      BY <3>1 DEF StartsBadge, Keyboard!TabIds
    <3>3. ui.renaming \in Keyboard!Tabs(ui)
      BY <3>1, <3>2 DEF Standing, Keyboard!TabIds, Keyboard!Tabs, Keyboard!Members
    <3> QED BY <3>1, <3>2, <3>3, InputsAre
  <2> QED BY <1>2, <2>1, <2>2, <2>3, <2>4 DEF Keyboard!Inputs, Keyboard!None
<1> QED BY <1>1, <1>2

\* What holds the keyboard once React has mounted: a new input, or who it was given to.
LEMMA TakenIs ==
  ASSUME NEW v, NEW holder
  PROVE  LET mounted == {e \in Keyboard!Inputs(v) \ Keyboard!Inputs(ui) : Keyboard!MayHold(v, e)}
         IN /\ mounted # {} => Keyboard!Taken(v, holder) \in mounted
            /\ mounted = {} => Keyboard!Taken(v, holder)
                 = IF Keyboard!MayHold(v, holder) THEN holder ELSE Keyboard!Nobody
<1> DEFINE mounted == {e \in Keyboard!Inputs(v) \ Keyboard!Inputs(ui) : Keyboard!MayHold(v, e)}
<1>1. CASE mounted # {}
  <2>2. Keyboard!Taken(v, holder) = CHOOSE e \in mounted : TRUE
    BY <1>1 DEF Keyboard!Taken
  <2>3. PICK e \in mounted : TRUE
    BY <1>1
  <2>4. (CHOOSE f \in mounted : TRUE) \in mounted
    BY <2>3
  <2> QED BY <1>1, <2>2, <2>4
<1>2. CASE mounted = {}
  BY <1>2 DEF Keyboard!Taken
<1> QED BY <1>1, <1>2

\* The commit keeps the invariant.
LEMMA CommitKeeps ==
  ASSUME KeyboardInv, NEW v, NEW holder, Standing(v), Edits(ui, v), Given(ui, v, holder),
         Keyboard!Commit(v, holder)
  PROVE  KeyboardInv'
<1> DEFINE T == Keyboard!Taken(v, holder)
           E == Keyboard!Handed(ui, v, T)
           w == ui'
<1>1. w = Keyboard!Blurred(v, focus, E) /\ focus' = Keyboard!Handed(v, w, E)
  BY DEF Keyboard!Commit
<1>2. /\ w.renaming = IF focus = <<"rename", v.renaming>> /\ focus # E /\ focus \in Keyboard!Inputs(v)
                      THEN 0 ELSE v.renaming
      /\ w.badging = IF focus = <<"badge", v.badging>> /\ focus # E /\ focus \in Keyboard!Inputs(v)
                     THEN 0 ELSE v.badging
      /\ w.focused = v.focused /\ w.active = v.active /\ w.search = v.search /\ w.tabOf = v.tabOf
      /\ w.panes = v.panes
  BY <1>1 DEF Keyboard!Blurred, Keyboard!None, Standing, Screen
<1>3. w \in Screen
  BY <1>1 DEF Keyboard!Blurred, Keyboard!None, Standing, Screen
<1>4. Standing(w)
  BY <1>2, <1>3 DEF Standing
<1> HIDE DEF w
<1>5. \A x : Keyboard!FocusFocusedPane(v, x) =
        IF v.renaming # 0 \/ v.badging # 0 \/ v.focused[v.active] \in v.search
        THEN x ELSE Keyboard!Terminal(v.focused[v.active])
  BY DEF Keyboard!FocusFocusedPane, Keyboard!Current, Keyboard!None
<1>6. \A x : Keyboard!FocusFocusedPane(w, x) =
        IF w.renaming # 0 \/ w.badging # 0 \/ v.focused[v.active] \in v.search
        THEN x ELSE Keyboard!Terminal(v.focused[v.active])
  BY <1>2 DEF Keyboard!FocusFocusedPane, Keyboard!Current, Keyboard!None
<1>7. (E = T \/ E = Keyboard!FocusFocusedPane(v, T))
      /\ (focus' = E \/ focus' = Keyboard!FocusFocusedPane(w, E))
  BY <1>1 DEF Keyboard!Handed
<1>8. v.renaming # 0 \/ v.badging # 0 => E = T
  BY <1>5, <1>7
<1>9. w.renaming # 0 \/ w.badging # 0 => focus' = E
  BY <1>6, <1>7
<1>10. /\ ui.renaming # 0 => focus = <<"rename", ui.renaming>>
       /\ ui.badging # 0 => focus = <<"badge", ui.badging>>
  BY DEF KeyboardInv, Keyboard!KeyboardOwner, Keyboard!None
<1>11. w.renaming # 0 => E = <<"rename", w.renaming>>
  <2> SUFFICES ASSUME w.renaming # 0 PROVE E = <<"rename", w.renaming>>
    OBVIOUS
  <2>1. w.renaming = v.renaming /\ v.renaming # 0
    BY <1>2
  <2>2. CASE v.renaming = ui.renaming
    <3>1. focus = <<"rename", v.renaming>>
      BY <1>10, <2>1, <2>2
    <3>2. v.renaming \in Keyboard!Tabs(v)
      BY <2>1 DEF Standing, Screen, Keyboard!Tabs, Keyboard!Members
    <3>3. focus \in Keyboard!Inputs(v)
      BY <3>1, <3>2, InputsAre
    <3> HIDE DEF E
    <3> QED BY <1>2, <2>1, <3>1, <3>3
  <2>3. CASE v.renaming # ui.renaming
    <3>1. StartsRename(ui, v)
      BY <2>1, <2>3 DEF Edits, LeavesEdits, StartsBadge
    <3>2. \A e : e \in Keyboard!Inputs(v) \ Keyboard!Inputs(ui) <=> e = <<"rename", v.renaming>>
      BY <2>1, <2>3, <3>1, RenameMounts DEF KeyboardInv
    <3>3. Keyboard!MayHold(v, <<"rename", v.renaming>>)
      BY <3>2 DEF Keyboard!MayHold
    <3>4. T = <<"rename", v.renaming>>
      BY <3>2, <3>3, TakenIs
    <3> QED BY <1>8, <2>1, <3>4
  <2> QED BY <2>2, <2>3
<1>12. w.badging # 0 => E = <<"badge", w.badging>>
  <2> SUFFICES ASSUME w.badging # 0 PROVE E = <<"badge", w.badging>>
    OBVIOUS
  <2>1. w.badging = v.badging /\ v.badging # 0
    BY <1>2
  <2>2. CASE v.badging = ui.badging
    <3>1. focus = <<"badge", v.badging>>
      BY <1>10, <2>1, <2>2
    <3>2. v.badging \in Keyboard!PaneIds /\ v.tabOf[v.badging] # 0
      BY <2>1 DEF Standing, Screen
    <3>3. focus \in Keyboard!Inputs(v)
      BY <3>1, <3>2, InputsAre
    <3> HIDE DEF E
    <3> QED BY <1>2, <2>1, <3>1, <3>3
  <2>3. CASE v.badging # ui.badging
    <3>1. StartsBadge(ui, v)
      BY <2>1, <2>3 DEF Edits, LeavesEdits, StartsRename
    <3>2. \A e : e \in Keyboard!Inputs(v) \ Keyboard!Inputs(ui) <=> e = <<"badge", v.badging>>
      BY <2>1, <2>3, <3>1, BadgeMounts DEF KeyboardInv
    <3>3. v.tabOf[v.badging] = v.active
      BY <3>1 DEF StartsBadge, Standing
    <3>4. Keyboard!MayHold(v, <<"badge", v.badging>>)
      BY <3>2, <3>3 DEF Keyboard!MayHold
    <3>5. T = <<"badge", v.badging>>
      BY <3>2, <3>4, TakenIs
    <3> QED BY <1>8, <2>1, <3>5
  <2> QED BY <2>2, <2>3
<1>13. \/ T \in Keyboard!Inputs(v)
       \/ T = holder /\ Keyboard!MayHold(v, holder)
       \/ T = Keyboard!Nobody
  BY TakenIs
<1>14. T[1] = "find" => T[2] \in v.search
  <2>1. T = holder /\ Keyboard!MayHold(v, holder) => T \in Keyboard!Inputs(v) \/ T[1] # "find"
    BY DEF Keyboard!MayHold, Keyboard!Nobody
  <2>2. Keyboard!Nobody[1] # "find"
    BY DEF Keyboard!Nobody
  <2> HIDE DEF T
  <2> QED BY <1>13, <2>1, <2>2, InputsAre
<1>15. \A p : Keyboard!Terminal(p)[1] = "terminal"
  BY DEF Keyboard!Terminal
<1> HIDE DEF T, E
<1>16. focus'[1] = "find" => focus'[2] \in w.search
  BY <1>2, <1>5, <1>6, <1>7, <1>14, <1>15
<1>17. ASSUME focus'[1] = "terminal", v.focused[v.active] \notin v.search
       PROVE  focus' = Keyboard!Terminal(v.focused[v.active])
  <2>1. w.renaming = 0 /\ w.badging = 0
    <3>1. w.renaming # 0 => focus' = <<"rename", w.renaming>>
      BY <1>9, <1>11
    <3>2. w.badging # 0 => focus' = <<"badge", w.badging>>
      BY <1>9, <1>12
    <3> QED BY <1>17, <3>1, <3>2
  <2>2. CASE Keyboard!FocusDeps(w) # Keyboard!FocusDeps(v)
    BY <1>1, <1>6, <1>17, <2>1, <2>2 DEF Keyboard!Handed
  <2>3. CASE Keyboard!FocusDeps(w) = Keyboard!FocusDeps(v)
    <3>1. focus' = E
      BY <1>1, <2>3 DEF Keyboard!Handed
    <3>2. v.renaming = 0 /\ v.badging = 0
      BY <2>1, <2>3 DEF Keyboard!FocusDeps
    <3>3. CASE Keyboard!FocusDeps(v) # Keyboard!FocusDeps(ui)
      <4>1. E = Keyboard!FocusFocusedPane(v, T)
        BY <3>3 DEF E, Keyboard!Handed
      <4> QED BY <1>5, <1>17, <3>1, <3>2, <4>1
    <3>4. CASE Keyboard!FocusDeps(v) = Keyboard!FocusDeps(ui)
      <4>1. E = T
        BY <3>4 DEF E, Keyboard!Handed
      <4>2. T = holder
        <5>1. T[1] = "terminal"
          BY <1>17, <3>1, <4>1
        <5>2. T \notin Keyboard!Inputs(v)
          BY <5>1, InputsAre
        <5>3. T # Keyboard!Nobody
          BY <5>1 DEF Keyboard!Nobody
        <5> QED BY <1>13, <5>2, <5>3
      <4>3. /\ v.focused[v.active] = ui.focused[ui.active] /\ v.search = ui.search
        BY <3>4 DEF Keyboard!FocusDeps, Keyboard!Current
      <4>4. holder = focus \/ holder = Keyboard!Terminal(v.focused[v.active])
        BY <1>17, <3>1, <4>1, <4>2, <4>3 DEF Given
      <4>5. CASE holder = focus
        <5>1. focus[1] = "terminal" /\ ui.focused[ui.active] \notin ui.search
          BY <1>17, <3>1, <4>1, <4>2, <4>3, <4>5
        <5>2. focus = Keyboard!Terminal(ui.focused[ui.active])
          BY <5>1 DEF KeyboardInv, Keyboard!KeyboardOwner, Keyboard!Current
        <5> QED BY <3>1, <4>1, <4>2, <4>3, <4>5, <5>2
      <4> QED BY <3>1, <4>1, <4>2, <4>4, <4>5
    <3> QED BY <3>3, <3>4
  <2> QED BY <2>2, <2>3
<1>18. /\ w.renaming # 0 => focus' = <<"rename", w.renaming>>
       /\ w.badging # 0 => focus' = <<"badge", w.badging>>
       /\ focus'[1] = "terminal" /\ w.focused[w.active] \notin w.search
            => focus' = Keyboard!Terminal(w.focused[w.active])
  BY <1>2, <1>9, <1>11, <1>12, <1>17
<1> QED BY <1>4, <1>16, <1>18
        DEF w, KeyboardInv, Standing, Keyboard!KeyboardOwner, Keyboard!Current, Keyboard!Terminal,
            Keyboard!None

\* The commands leave the screen standing, and the edits alone.
LEMMA OpenedStands ==
  ASSUME KeyboardConstants, NEW u, Standing(u), NEW v \in Keyboard!Opened(u)
  PROVE  Standing(v) /\ LeavesEdits(u, v) /\ v.search = u.search
<1> DEFINE n == u.panes + 1
           m == u.tabs + 1
<1>1. /\ v = [u EXCEPT !.tabs = m, !.panes = n, !.active = m, !.tabOf[n] = m, !.focused[m] = n]
      /\ u.tabs # MAX_TAB /\ u.panes # MAX_PANE
  BY DEF Keyboard!Opened
<1>2. u \in Screen
  BY DEF Standing
<1>3. /\ n \in Keyboard!PaneIds /\ m \in Keyboard!TabIds /\ n # 0 /\ m # 0 /\ n > u.panes
      /\ u.tabOf[n] = 0
  BY <1>1, <1>2 DEF Screen, Standing, KeyboardConstants, Keyboard!PaneIds, Keyboard!TabIds
<1> HIDE DEF n, m
<1>4. v \in Screen
  BY <1>1, <1>2, <1>3 DEF Screen
<1>5. /\ v.tabOf = [u.tabOf EXCEPT ![n] = m] /\ v.focused = [u.focused EXCEPT ![m] = n]
      /\ v.active = m /\ v.panes = n /\ v.renaming = u.renaming /\ v.badging = u.badging
      /\ v.search = u.search
  BY <1>1, <1>2 DEF Screen
<1>6. v.focused[v.active] = n /\ v.tabOf[n] = m
  BY <1>2, <1>3, <1>5 DEF Screen
<1>7. ASSUME NEW p \in Keyboard!PaneIds, v.tabOf[p] # 0
      PROVE  v.focused[v.tabOf[p]] # 0 /\ v.tabOf[v.focused[v.tabOf[p]]] = v.tabOf[p]
  <2>1. CASE v.tabOf[p] = m
    BY <1>3, <1>5, <1>6, <2>1
  <2>2. CASE v.tabOf[p] # m
    <3>1. p # n /\ v.tabOf[p] = u.tabOf[p]
      BY <1>2, <1>3, <1>5, <1>6, <1>7, <2>2 DEF Screen
    <3>2. u.focused[u.tabOf[p]] # 0 /\ u.tabOf[u.focused[u.tabOf[p]]] = u.tabOf[p]
      BY <1>7, <3>1 DEF Standing
    <3>3. u.tabOf[p] \in Keyboard!TabIds /\ v.focused[u.tabOf[p]] = u.focused[u.tabOf[p]]
      BY <1>2, <1>5, <1>7, <2>2, <3>1 DEF Screen
    <3>4. u.focused[u.tabOf[p]] \in Keyboard!PaneIds /\ u.focused[u.tabOf[p]] # n
      BY <1>2, <1>3, <1>7, <3>1, <3>2, <3>3 DEF Screen
    <3> QED BY <1>2, <1>5, <3>1, <3>2, <3>3, <3>4 DEF Screen
  <2> QED BY <2>1, <2>2
<1>8. v.renaming # 0 => \E p \in Keyboard!PaneIds : v.tabOf[p] = v.renaming
  <2> SUFFICES ASSUME v.renaming # 0 PROVE \E p \in Keyboard!PaneIds : v.tabOf[p] = v.renaming
    OBVIOUS
  <2>1. PICK p \in Keyboard!PaneIds : u.tabOf[p] = u.renaming
    BY <1>5 DEF Standing
  <2>2. p # n
    BY <1>3, <1>5, <2>1
  <2> QED BY <1>2, <1>5, <2>1, <2>2 DEF Screen
<1>9. v.badging # 0 => v.tabOf[v.badging] # 0
  BY <1>2, <1>3, <1>5 DEF Standing, Screen
<1>10. \A p \in Keyboard!PaneIds : p > v.panes => v.tabOf[p] = 0
  BY <1>2, <1>3, <1>5 DEF Standing, Screen, n, Keyboard!PaneIds
<1>11. v.focused[v.active] # 0 /\ v.tabOf[v.focused[v.active]] = v.active
  BY <1>3, <1>5, <1>6
<1>12. Standing(v)
  BY <1>4, <1>7, <1>8, <1>9, <1>10, <1>11 DEF Standing
<1> QED BY <1>5, <1>12 DEF LeavesEdits

LEMMA SplitStands ==
  ASSUME KeyboardConstants, NEW u, Standing(u), NEW v \in Keyboard!Split(u)
  PROVE  Standing(v) /\ LeavesEdits(u, v) /\ v.search = u.search
<1> DEFINE n == u.panes + 1
           m == u.active
<1>1. /\ v = [u EXCEPT !.panes = n, !.tabOf[n] = m, !.focused[m] = n]
      /\ u.panes # MAX_PANE
  BY DEF Keyboard!Split
<1>2. u \in Screen
  BY DEF Standing
<1>3. /\ n \in Keyboard!PaneIds /\ m \in Keyboard!TabIds /\ n # 0 /\ m # 0 /\ n > u.panes
      /\ u.tabOf[n] = 0
  BY <1>1, <1>2 DEF Screen, Standing, KeyboardConstants, Keyboard!PaneIds, Keyboard!TabIds
<1>4. /\ v.active = m
  BY <1>1, <1>2 DEF Screen
<1> HIDE DEF n, m
<1>5. v \in Screen
  BY <1>1, <1>2, <1>3 DEF Screen
<1>6. /\ v.tabOf = [u.tabOf EXCEPT ![n] = m] /\ v.focused = [u.focused EXCEPT ![m] = n]
      /\ v.panes = n /\ v.renaming = u.renaming /\ v.badging = u.badging /\ v.search = u.search
  BY <1>1, <1>2 DEF Screen
<1>7. v.focused[m] = n /\ v.tabOf[n] = m
  BY <1>2, <1>3, <1>6 DEF Screen
<1>8. ASSUME NEW p \in Keyboard!PaneIds, v.tabOf[p] # 0
      PROVE  v.focused[v.tabOf[p]] # 0 /\ v.tabOf[v.focused[v.tabOf[p]]] = v.tabOf[p]
  <2>1. CASE v.tabOf[p] = m
    BY <1>3, <1>7, <2>1
  <2>2. CASE v.tabOf[p] # m
    <3>1. p # n /\ v.tabOf[p] = u.tabOf[p]
      BY <1>2, <1>3, <1>6, <1>7, <1>8, <2>2 DEF Screen
    <3>2. u.focused[u.tabOf[p]] # 0 /\ u.tabOf[u.focused[u.tabOf[p]]] = u.tabOf[p]
      BY <1>8, <3>1 DEF Standing
    <3>3. u.tabOf[p] \in Keyboard!TabIds /\ v.focused[u.tabOf[p]] = u.focused[u.tabOf[p]]
      BY <1>2, <1>6, <1>8, <2>2, <3>1 DEF Screen
    <3>4. u.focused[u.tabOf[p]] \in Keyboard!PaneIds /\ u.focused[u.tabOf[p]] # n
      BY <1>2, <1>3, <1>8, <3>1, <3>2, <3>3 DEF Screen
    <3> QED BY <1>2, <1>6, <3>1, <3>2, <3>3, <3>4 DEF Screen
  <2> QED BY <2>1, <2>2
<1>9. v.renaming # 0 => \E p \in Keyboard!PaneIds : v.tabOf[p] = v.renaming
  <2> SUFFICES ASSUME v.renaming # 0 PROVE \E p \in Keyboard!PaneIds : v.tabOf[p] = v.renaming
    OBVIOUS
  <2>1. PICK p \in Keyboard!PaneIds : u.tabOf[p] = u.renaming
    BY <1>6 DEF Standing
  <2>2. p # n
    BY <1>3, <1>6, <2>1
  <2> QED BY <1>2, <1>6, <2>1, <2>2 DEF Screen
<1>10. v.badging # 0 => v.tabOf[v.badging] # 0
  BY <1>2, <1>3, <1>6 DEF Standing, Screen
<1>11. \A p \in Keyboard!PaneIds : p > v.panes => v.tabOf[p] = 0
  BY <1>2, <1>3, <1>6 DEF Standing, Screen, n, Keyboard!PaneIds
<1>12. v.focused[v.active] # 0 /\ v.tabOf[v.focused[v.active]] = v.active
  BY <1>3, <1>4, <1>7
<1>13. Standing(v)
  BY <1>5, <1>8, <1>9, <1>10, <1>11, <1>12 DEF Standing
<1> QED BY <1>6, <1>13 DEF LeavesEdits

LEMMA ActivatedStands ==
  ASSUME NEW u, Standing(u), NEW t \in Keyboard!Tabs(u)
  PROVE  LET v == Keyboard!Activated(u, t)
         IN Standing(v) /\ LeavesEdits(u, v) /\ v.search = u.search /\ v.active = t
<1> DEFINE v == Keyboard!Activated(u, t)
<1>1. u \in Screen /\ t \in Keyboard!TabIds /\ t # 0 /\ \E p \in Keyboard!PaneIds : u.tabOf[p] = t
  BY DEF Standing, Keyboard!Tabs, Keyboard!Members, Keyboard!TabIds
<1>2. /\ v \in Screen /\ v.active = t /\ v.tabOf = u.tabOf /\ v.focused = u.focused
      /\ v.panes = u.panes /\ v.renaming = u.renaming /\ v.badging = u.badging
      /\ v.search = u.search
  BY <1>1 DEF Screen, Keyboard!Activated
<1>3. v.focused[v.active] # 0 /\ v.tabOf[v.focused[v.active]] = v.active
  BY <1>1, <1>2 DEF Standing
<1> HIDE DEF v
<1>4. Standing(v)
  BY <1>2, <1>3 DEF Standing
<1> QED BY <1>2, <1>4 DEF LeavesEdits, v

LEMMA FocusedStands ==
  ASSUME NEW u, Standing(u), NEW p \in Keyboard!PaneIds, u.tabOf[p] = u.active
  PROVE  LET v == Keyboard!Focused(u, p)
         IN Standing(v) /\ LeavesEdits(u, v) /\ v.search = u.search /\ v.focused[v.active] = p
<1> DEFINE v == Keyboard!Focused(u, p)
<1>1. u \in Screen /\ u.active \in Keyboard!TabIds /\ u.active # 0 /\ p # 0
  BY DEF Standing, Screen, Keyboard!TabIds, Keyboard!PaneIds
<1>2. /\ v \in Screen /\ v.active = u.active /\ v.tabOf = u.tabOf
      /\ v.focused = [u.focused EXCEPT ![u.active] = p]
      /\ v.panes = u.panes /\ v.renaming = u.renaming /\ v.badging = u.badging
      /\ v.search = u.search
  BY <1>1 DEF Screen, Keyboard!Focused
<1> HIDE DEF v
<1>3. v.focused[u.active] = p /\ \A t \in Keyboard!TabIds \ {u.active} : v.focused[t] = u.focused[t]
  BY <1>1, <1>2 DEF Screen
<1>4. ASSUME NEW q \in Keyboard!PaneIds, v.tabOf[q] # 0
      PROVE  v.focused[v.tabOf[q]] # 0 /\ v.tabOf[v.focused[v.tabOf[q]]] = v.tabOf[q]
  <2>1. v.tabOf[q] \in Keyboard!TabIds
    BY <1>2, <1>4 DEF Screen
  <2> QED BY <1>1, <1>2, <1>3, <1>4, <2>1 DEF Standing
<1>5. Standing(v)
  BY <1>1, <1>2, <1>3, <1>4 DEF Standing
<1> QED BY <1>2, <1>3, <1>5 DEF LeavesEdits, v

LEMMA CloseTabStands ==
  ASSUME NEW u, Standing(u), NEW t \in Keyboard!TabIds, NEW v \in Keyboard!CloseTab(u, t)
  PROVE  Standing(v) /\ LeavesEdits(u, v)
<1>1. PICK next \in Keyboard!Tabs(u) \ {t} :
        v = [u EXCEPT !.tabOf = [p \in Keyboard!PaneIds |-> IF @[p] = t THEN Keyboard!None ELSE @[p]],
             !.focused[t] = Keyboard!None,
             !.active = IF @ = t THEN next ELSE @,
             !.search = @ \ Keyboard!Members(u, t),
             !.renaming = IF @ = t THEN Keyboard!None ELSE @,
             !.badging = IF @ \in Keyboard!Members(u, t) THEN Keyboard!None ELSE @]
  BY DEF Keyboard!CloseTab
<1>2. u \in Screen /\ t # 0
  BY DEF Standing, Keyboard!TabIds
<1>3. next \in Keyboard!TabIds /\ next # t /\ next # 0 /\ \E p \in Keyboard!PaneIds : u.tabOf[p] = next
  BY DEF Keyboard!Tabs, Keyboard!Members, Keyboard!TabIds
<1>4. v \in Screen
  BY <1>1, <1>2, <1>3 DEF Screen, Keyboard!None
<1>5. /\ v.tabOf = [p \in Keyboard!PaneIds |-> IF u.tabOf[p] = t THEN 0 ELSE u.tabOf[p]]
      /\ v.focused = [u.focused EXCEPT ![t] = 0]
      /\ v.active = (IF u.active = t THEN next ELSE u.active)
      /\ v.panes = u.panes
      /\ v.renaming = (IF u.renaming = t THEN 0 ELSE u.renaming)
      /\ v.badging = (IF u.badging \in Keyboard!Members(u, t) THEN 0 ELSE u.badging)
  BY <1>1, <1>2 DEF Screen, Keyboard!None
<1>6. ASSUME NEW p \in Keyboard!PaneIds, u.tabOf[p] # 0, u.tabOf[p] # t
      PROVE  /\ v.tabOf[p] = u.tabOf[p] /\ v.focused[u.tabOf[p]] # 0
             /\ v.tabOf[v.focused[u.tabOf[p]]] = u.tabOf[p]
  <2>1. v.tabOf[p] = u.tabOf[p] /\ u.tabOf[p] \in Keyboard!TabIds
    BY <1>2, <1>5, <1>6 DEF Screen
  <2>2. v.focused[u.tabOf[p]] = u.focused[u.tabOf[p]]
    BY <1>2, <1>5, <1>6, <2>1 DEF Screen
  <2>3. u.focused[u.tabOf[p]] # 0 /\ u.tabOf[u.focused[u.tabOf[p]]] = u.tabOf[p]
    BY <1>6 DEF Standing
  <2>4. u.focused[u.tabOf[p]] \in Keyboard!PaneIds
    BY <1>2, <2>1, <2>3 DEF Screen
  <2> QED BY <1>5, <1>6, <2>1, <2>2, <2>3, <2>4
<1>7. \A p \in Keyboard!PaneIds : v.tabOf[p] # 0 => v.tabOf[p] = u.tabOf[p] /\ u.tabOf[p] # t
  BY <1>5
<1>8. \A p \in Keyboard!PaneIds :
        v.tabOf[p] # 0 => /\ v.focused[v.tabOf[p]] # 0
                          /\ v.tabOf[v.focused[v.tabOf[p]]] = v.tabOf[p]
  BY <1>6, <1>7
<1>9. \E p \in Keyboard!PaneIds : u.tabOf[p] # 0 /\ u.tabOf[p] # t /\ u.tabOf[p] = v.active
  <2>1. CASE u.active = t
    BY <1>3, <1>5, <2>1
  <2>2. CASE u.active # t
    <3>1. u.active \in Keyboard!TabIds /\ u.focused[u.active] # 0
      BY <1>2 DEF Standing, Screen
    <3>2. u.focused[u.active] \in Keyboard!PaneIds \cup {0}
      BY <1>2, <3>1 DEF Screen
    <3>3. u.active # 0
      BY <3>1 DEF Keyboard!TabIds
    <3> QED BY <1>5, <2>2, <3>1, <3>2, <3>3 DEF Standing
  <2> QED BY <2>1, <2>2
<1>10. v.focused[v.active] # 0 /\ v.tabOf[v.focused[v.active]] = v.active
  BY <1>6, <1>9
<1>11. v.renaming # 0 => \E p \in Keyboard!PaneIds : v.tabOf[p] = v.renaming
  <2> SUFFICES ASSUME v.renaming # 0 PROVE \E p \in Keyboard!PaneIds : v.tabOf[p] = v.renaming
    OBVIOUS
  <2>1. v.renaming = u.renaming /\ u.renaming # t
    BY <1>5
  <2>2. PICK p \in Keyboard!PaneIds : u.tabOf[p] = u.renaming
    BY <2>1 DEF Standing
  <2> QED BY <1>5, <2>1, <2>2
<1>12. v.badging # 0 => v.tabOf[v.badging] # 0
  BY <1>2, <1>5 DEF Standing, Screen, Keyboard!Members
<1>13. \A p \in Keyboard!PaneIds : p > v.panes => v.tabOf[p] = 0
  BY <1>5 DEF Standing
<1>14. Standing(v)
  BY <1>4, <1>8, <1>10, <1>11, <1>12, <1>13 DEF Standing
<1> QED BY <1>5, <1>14 DEF LeavesEdits

LEMMA ClosePaneStands ==
  ASSUME NEW u, Standing(u), NEW q \in Keyboard!PaneIds, u.tabOf[q] # 0,
         NEW v \in Keyboard!ClosePane(u, q)
  PROVE  Standing(v) /\ LeavesEdits(u, v)
<1> DEFINE t == u.tabOf[q]
<1>1. u \in Screen /\ t \in Keyboard!TabIds /\ t # 0 /\ q # 0
  <2>1. u \in Screen /\ t \in Keyboard!TabIds \cup {0}
    BY DEF Standing, Screen
  <2> QED BY <2>1 DEF Keyboard!PaneIds
<1>2. CASE Keyboard!Members(u, t) = {q}
  <2>1. v \in Keyboard!CloseTab(u, t)
    BY <1>2 DEF Keyboard!ClosePane
  <2> QED BY <1>1, <2>1, CloseTabStands
<1>3. CASE Keyboard!Members(u, t) # {q}
  <2>1. PICK next \in Keyboard!Members(u, t) \ {q} :
          v = [u EXCEPT !.tabOf[q] = Keyboard!None,
             !.focused[t] = IF @ = q THEN next ELSE @,
             !.search = @ \ {q},
             !.renaming = IF @ = t /\ u.focused[t] = q THEN Keyboard!None ELSE @,
             !.badging = IF @ = q THEN Keyboard!None ELSE @]
    BY <1>3 DEF Keyboard!ClosePane
  <2>2. next \in Keyboard!PaneIds /\ next # q /\ next # 0 /\ u.tabOf[next] = t
    BY DEF Keyboard!Members, Keyboard!PaneIds
  <2> HIDE DEF t
  <2>3. v \in Screen
    <3>1. /\ [u.tabOf EXCEPT ![q] = 0] \in [Keyboard!PaneIds -> Keyboard!TabIds \cup {0}]
          /\ [u.focused EXCEPT ![t] = IF @ = q THEN next ELSE @]
               \in [Keyboard!TabIds -> Keyboard!PaneIds \cup {0}]
          /\ u.search \ {q} \in SUBSET Keyboard!PaneIds
          /\ (IF u.renaming = t /\ u.focused[t] = q THEN 0 ELSE u.renaming) \in Keyboard!TabIds \cup {0}
          /\ (IF u.badging = q THEN 0 ELSE u.badging) \in Keyboard!PaneIds \cup {0}
      BY <1>1, <2>2 DEF Screen
    <3>2. v = [u EXCEPT !.tabOf = [u.tabOf EXCEPT ![q] = 0],
                 !.focused = [u.focused EXCEPT ![t] = IF @ = q THEN next ELSE @],
                 !.search = u.search \ {q},
                 !.renaming = IF u.renaming = t /\ u.focused[t] = q THEN 0 ELSE u.renaming,
                 !.badging = IF u.badging = q THEN 0 ELSE u.badging]
      BY <1>1, <2>1 DEF Screen, Keyboard!None
    <3> QED BY <1>1, <3>1, <3>2 DEF Screen
  <2>4. /\ v.tabOf = [u.tabOf EXCEPT ![q] = 0]
        /\ v.focused = [u.focused EXCEPT ![t] = IF u.focused[t] = q THEN next ELSE u.focused[t]]
        /\ v.active = u.active /\ v.panes = u.panes
        /\ v.renaming = (IF u.renaming = t /\ u.focused[t] = q THEN 0 ELSE u.renaming)
        /\ v.badging = (IF u.badging = q THEN 0 ELSE u.badging)
    BY <1>1, <2>1 DEF Screen, Keyboard!None
  <2>5. v.tabOf[q] = 0 /\ \A p \in Keyboard!PaneIds \ {q} : v.tabOf[p] = u.tabOf[p]
    BY <1>1, <2>4 DEF Screen
  <2>6. /\ v.focused[t] = IF u.focused[t] = q THEN next ELSE u.focused[t]
        /\ \A s \in Keyboard!TabIds \ {t} : v.focused[s] = u.focused[s]
    BY <1>1, <2>4 DEF Screen
  <2>7. ASSUME NEW s \in Keyboard!TabIds, u.focused[s] # 0, u.tabOf[u.focused[s]] = s
        PROVE  v.focused[s] # 0 /\ v.tabOf[v.focused[s]] = s
    <3>1. u.focused[s] \in Keyboard!PaneIds
      BY <1>1, <2>7 DEF Screen
    <3>2. CASE s = t
      BY <2>2, <2>5, <2>6, <2>7, <3>1, <3>2
    <3>3. CASE s # t
      BY <2>5, <2>6, <2>7, <3>1, <3>3 DEF t
    <3> QED BY <3>2, <3>3
  <2>8. ASSUME NEW p \in Keyboard!PaneIds, v.tabOf[p] # 0
        PROVE  v.focused[v.tabOf[p]] # 0 /\ v.tabOf[v.focused[v.tabOf[p]]] = v.tabOf[p]
    <3>1. v.tabOf[p] = u.tabOf[p] /\ u.tabOf[p] \in Keyboard!TabIds /\ u.tabOf[p] # 0
      BY <1>1, <2>5, <2>8 DEF Screen
    <3>2. u.focused[u.tabOf[p]] # 0 /\ u.tabOf[u.focused[u.tabOf[p]]] = u.tabOf[p]
      BY <3>1 DEF Standing
    <3> QED BY <2>7, <3>1, <3>2
  <2>9. v.focused[v.active] # 0 /\ v.tabOf[v.focused[v.active]] = v.active
    <3>1. u.active \in Keyboard!TabIds
      BY <1>1 DEF Screen
    <3> QED BY <2>4, <2>7, <3>1 DEF Standing
  <2>10. v.renaming # 0 => \E p \in Keyboard!PaneIds : v.tabOf[p] = v.renaming
    <3> SUFFICES ASSUME v.renaming # 0 PROVE \E p \in Keyboard!PaneIds : v.tabOf[p] = v.renaming
      OBVIOUS
    <3>1. v.renaming = u.renaming
      BY <2>4
    <3>2. PICK p \in Keyboard!PaneIds : u.tabOf[p] = u.renaming
      BY <3>1 DEF Standing
    <3>3. CASE p = q
      BY <2>2, <2>5, <3>1, <3>2, <3>3 DEF t
    <3>4. CASE p # q
      BY <2>5, <3>1, <3>2, <3>4
    <3> QED BY <3>3, <3>4
  <2>11. v.badging # 0 => v.tabOf[v.badging] # 0
    BY <1>1, <2>4, <2>5 DEF Standing, Screen
  <2>12. \A p \in Keyboard!PaneIds : p > v.panes => v.tabOf[p] = 0
    BY <2>4, <2>5 DEF Standing
  <2>13. Standing(v)
    BY <2>3, <2>8, <2>9, <2>10, <2>11, <2>12 DEF Standing
  <2> QED BY <2>4, <2>13 DEF LeavesEdits
<1> QED BY <1>2, <1>3

\* The fields beside the tree.
LEMMA AskedStands ==
  ASSUME NEW u, Standing(u), NEW q \in Questions
  PROVE  Standing([u EXCEPT !.asked = q]) /\ LeavesEdits(u, [u EXCEPT !.asked = q])
<1> DEFINE v == [u EXCEPT !.asked = q]
<1>1. u \in Screen
  BY DEF Standing
<1>2. /\ v \in Screen /\ v.tabOf = u.tabOf /\ v.focused = u.focused /\ v.active = u.active
      /\ v.panes = u.panes /\ v.renaming = u.renaming /\ v.badging = u.badging
  BY <1>1 DEF Screen
<1> HIDE DEF v
<1>3. Standing(v)
  BY <1>2 DEF Standing
<1> QED BY <1>2, <1>3 DEF LeavesEdits, v

LEMMA OverlayStands ==
  ASSUME NEW u, Standing(u), NEW b \in BOOLEAN, NEW k \in {"palette", "picker"}
  PROVE  /\ Standing([u EXCEPT ![k] = b]) /\ LeavesEdits(u, [u EXCEPT ![k] = b])
         /\ [u EXCEPT ![k] = b].search = u.search
<1> DEFINE v == [u EXCEPT ![k] = b]
<1>1. u \in Screen
  BY DEF Standing
<1>2. /\ v \in Screen /\ v.tabOf = u.tabOf /\ v.focused = u.focused /\ v.active = u.active
      /\ v.panes = u.panes /\ v.renaming = u.renaming /\ v.badging = u.badging
      /\ v.search = u.search
  <2>1. CASE k = "palette"
    BY <1>1, <2>1 DEF Screen
  <2>2. CASE k = "picker"
    BY <1>1, <2>2 DEF Screen
  <2> QED BY <2>1, <2>2
<1> HIDE DEF v
<1>3. Standing(v)
  BY <1>2 DEF Standing
<1> QED BY <1>2, <1>3 DEF LeavesEdits, v

LEMMA SearchStands ==
  ASSUME NEW u, Standing(u), NEW S \in SUBSET Keyboard!PaneIds
  PROVE  /\ Standing([u EXCEPT !.search = S]) /\ LeavesEdits(u, [u EXCEPT !.search = S])
         /\ [u EXCEPT !.search = S].search = S
<1> DEFINE v == [u EXCEPT !.search = S]
<1>1. u \in Screen
  BY DEF Standing
<1>2. /\ v \in Screen /\ v.tabOf = u.tabOf /\ v.focused = u.focused /\ v.active = u.active
      /\ v.panes = u.panes /\ v.renaming = u.renaming /\ v.badging = u.badging /\ v.search = S
  BY <1>1 DEF Screen
<1> HIDE DEF v
<1>3. Standing(v)
  BY <1>2 DEF Standing
<1> QED BY <1>2, <1>3 DEF LeavesEdits, v

\* The edits that start.
LEMMA RenameStands ==
  ASSUME NEW u, Standing(u)
  PROVE  LET v == [u EXCEPT !.renaming = u.active]
         IN /\ Standing(v) /\ StartsRename(u, v)
            /\ v.active = u.active /\ v.tabOf = u.tabOf /\ v.focused = u.focused /\ v.search = u.search
<1> DEFINE v == [u EXCEPT !.renaming = u.active]
<1>1. u \in Screen /\ u.focused[u.active] \in Keyboard!PaneIds
  BY DEF Standing, Screen
<1>2. /\ v \in Screen /\ v.tabOf = u.tabOf /\ v.focused = u.focused /\ v.active = u.active
      /\ v.panes = u.panes /\ v.renaming = u.active /\ v.badging = u.badging
      /\ v.search = u.search /\ v.asked = u.asked
  BY <1>1 DEF Screen
<1>3. (v.palette <=> u.palette) /\ (v.picker <=> u.picker)
  BY <1>1 DEF Screen
<1> HIDE DEF v
<1>4. Standing(v)
  BY <1>1, <1>2 DEF Standing
<1> QED BY <1>2, <1>3, <1>4 DEF StartsRename, MountsNoMore, v

LEMMA BadgeStands ==
  ASSUME NEW u, Standing(u)
  PROVE  LET v == [u EXCEPT !.badging = u.focused[u.active]]
         IN /\ Standing(v) /\ StartsBadge(u, v)
            /\ v.active = u.active /\ v.tabOf = u.tabOf /\ v.focused = u.focused /\ v.search = u.search
<1> DEFINE v == [u EXCEPT !.badging = u.focused[u.active]]
<1>1. u \in Screen /\ u.focused[u.active] \in Keyboard!PaneIds /\ u.active # 0
  <2>1. u \in Screen /\ u.active \in Keyboard!TabIds /\ u.focused[u.active] # 0
    BY DEF Standing, Screen
  <2>2. u.focused[u.active] \in Keyboard!PaneIds \cup {0}
    BY <2>1 DEF Screen
  <2> QED BY <2>1, <2>2 DEF Keyboard!TabIds
<1>2. /\ v \in Screen /\ v.tabOf = u.tabOf /\ v.focused = u.focused /\ v.active = u.active
      /\ v.panes = u.panes /\ v.renaming = u.renaming /\ v.badging = u.focused[u.active]
      /\ v.search = u.search /\ v.asked = u.asked
  BY <1>1 DEF Screen
<1>3. (v.palette <=> u.palette) /\ (v.picker <=> u.picker)
  BY <1>1 DEF Screen
<1> HIDE DEF v
<1>4. Standing(v)
  BY <1>1, <1>2 DEF Standing
<1> QED BY <1>2, <1>3, <1>4 DEF StartsBadge, MountsNoMore, v

LEMMA EndsStand ==
  ASSUME NEW u, Standing(u), NEW r \in {u.renaming, 0}, NEW b \in {u.badging, 0}
  PROVE  LET v == [u EXCEPT !.renaming = r, !.badging = b]
         IN Standing(v) /\ LeavesEdits(u, v) /\ v.search = u.search
<1> DEFINE v == [u EXCEPT !.renaming = r, !.badging = b]
<1>1. u \in Screen
  BY DEF Standing
<1>2. r \in Keyboard!TabIds \cup {0} /\ b \in Keyboard!PaneIds \cup {0}
  BY <1>1 DEF Screen
<1>3. /\ v \in Screen /\ v.tabOf = u.tabOf /\ v.focused = u.focused /\ v.active = u.active
      /\ v.panes = u.panes /\ v.renaming = r /\ v.badging = b /\ v.search = u.search
  BY <1>1, <1>2 DEF Screen
<1> HIDE DEF v
<1>4. Standing(v)
  BY <1>3 DEF Standing
<1> QED BY <1>3, <1>4 DEF LeavesEdits, v

LEMMA CurrentIs ==
  ASSUME NEW u, Standing(u)
  PROVE  /\ Keyboard!Current(u) = u.focused[u.active] /\ Keyboard!Current(u) \in Keyboard!PaneIds
         /\ u.tabOf[Keyboard!Current(u)] = u.active /\ u.active \in Keyboard!TabIds /\ u.active # 0
<1>1. u \in Screen
  BY DEF Standing
<1>2. u.active \in Keyboard!TabIds
  BY <1>1 DEF Screen
<1>3. u.focused[u.active] \in Keyboard!PaneIds \cup {0}
  BY <1>1, <1>2 DEF Screen
<1>4. u.active # 0
  BY <1>2 DEF Keyboard!TabIds
<1> QED BY <1>2, <1>3, <1>4 DEF Standing, Keyboard!Current

LEMMA GatedStands ==
  ASSUME NEW u, Standing(u), NEW kind, NEW id, <<kind, id>> \in Questions, NEW closed, NEW busy,
         \A c \in closed : Standing(c) /\ LeavesEdits(u, c),
         NEW v \in Keyboard!Gated(u, kind, id, closed, busy)
  PROVE  Standing(v) /\ LeavesEdits(u, v)
<1>1. CASE v \in closed
  BY <1>1
<1>2. CASE v = [u EXCEPT !.asked = <<kind, id>>]
  BY <1>2, AskedStands
<1> QED BY <1>1, <1>2 DEF Keyboard!Gated

LEMMA ClosingStands ==
  ASSUME NEW u, Standing(u), NEW origin, NEW v \in Keyboard!Closing(u, origin)
  PROVE  Standing(v) /\ LeavesEdits(u, v)
<1>1. PICK busy \in BOOLEAN :
        \/ v \in Keyboard!Gated(u, "pane", Keyboard!Current(u),
                   Keyboard!ClosePane(u, Keyboard!Current(u)), busy)
        \/ v \in Keyboard!Gated(u, "tab", u.active, Keyboard!CloseTab(u, u.active), busy)
  BY DEF Keyboard!Closing
<1>2. /\ Keyboard!Current(u) \in Keyboard!PaneIds /\ u.active \in Keyboard!TabIds
      /\ u.tabOf[Keyboard!Current(u)] # 0
  BY CurrentIs
<1>3. <<"pane", Keyboard!Current(u)>> \in Questions /\ <<"tab", u.active>> \in Questions
  BY <1>2 DEF Questions, Keyboard!TabIds
<1>4. \A c \in Keyboard!ClosePane(u, Keyboard!Current(u)) : Standing(c) /\ LeavesEdits(u, c)
  BY <1>2, ClosePaneStands
<1>5. \A c \in Keyboard!CloseTab(u, u.active) : Standing(c) /\ LeavesEdits(u, c)
  BY <1>2, CloseTabStands
<1> QED BY <1>1, <1>3, <1>4, <1>5, GatedStands

LEMMA MenuStands ==
  ASSUME KeyboardConstants, NEW u, Standing(u), NEW origin, NEW v \in Keyboard!MenuCommands(u, origin)
  PROVE  Standing(v) /\ Edits(u, v)
<1>1. CASE v \in Keyboard!Opened(u) \cup Keyboard!Split(u)
  BY <1>1, OpenedStands, SplitStands DEF Edits
<1>2. CASE v \in Keyboard!Closing(u, origin)
  BY <1>2, ClosingStands DEF Edits
<1>3. CASE v \in Keyboard!Moving(u)
  <2>1. CASE \E t \in Keyboard!Tabs(u) : v = Keyboard!Activated(u, t)
    BY <2>1, ActivatedStands DEF Edits
  <2>2. CASE \E p \in Keyboard!Members(u, u.active) : v = Keyboard!Focused(u, p)
    <3>1. PICK p \in Keyboard!PaneIds : u.tabOf[p] = u.active /\ v = Keyboard!Focused(u, p)
      BY <2>2 DEF Keyboard!Members
    <3> QED BY <3>1, FocusedStands DEF Edits
  <2> QED BY <1>3, <2>1, <2>2 DEF Keyboard!Moving
<1>4. CASE v = [u EXCEPT !.renaming = u.active]
  BY <1>4, RenameStands DEF Edits
<1>5. CASE v = [u EXCEPT !.badging = Keyboard!Current(u)]
  BY <1>5, BadgeStands DEF Edits, Keyboard!Current
<1>6. CASE v \in {[u EXCEPT !.palette = TRUE], [u EXCEPT !.picker = TRUE]}
  BY <1>6, OverlayStands DEF Edits
<1> QED BY <1>1, <1>2, <1>3, <1>4, <1>5, <1>6 DEF Keyboard!MenuCommands

\* And any command, with who it gives the keyboard to.
LEMMA CommandsStand ==
  ASSUME KeyboardConstants, Standing(ui), NEW origin, NEW out \in Keyboard!Commands(ui, origin)
  PROVE  Standing(out[1]) /\ Edits(ui, out[1]) /\ Given(ui, out[1], out[2])
<1>1. CASE \E v \in Keyboard!MenuCommands(ui, origin) : out = <<v, focus>>
  BY <1>1, MenuStands DEF Given
<1>2. Keyboard!Current(ui) \in Keyboard!PaneIds /\ ui.search \in SUBSET Keyboard!PaneIds
  BY CurrentIs DEF Standing, Screen
<1>3. CASE out = Keyboard!OpenSearch(ui)
  <2>1. CASE Keyboard!Current(ui) \in ui.search
    <3>1. out = <<ui, <<"find", Keyboard!Current(ui)>>>>
      BY <1>3, <2>1 DEF Keyboard!OpenSearch
    <3> QED BY <3>1 DEF Edits, LeavesEdits, Given
  <2>2. CASE Keyboard!Current(ui) \notin ui.search
    <3> DEFINE S == ui.search \cup {Keyboard!Current(ui)}
    <3>1. out = <<[ui EXCEPT !.search = S], focus>>
      BY <1>3, <2>2 DEF Keyboard!OpenSearch
    <3>2. S \in SUBSET Keyboard!PaneIds
      BY <1>2
    <3> HIDE DEF S
    <3> QED BY <3>1, <3>2, SearchStands DEF Edits, Given
  <2> QED BY <2>1, <2>2
<1>4. CASE \E p \in {Keyboard!Current(ui)} \cap ui.search : out = Keyboard!CloseSearch(ui, p)
  <2>1. PICK p \in ui.search : out = Keyboard!CloseSearch(ui, p)
    BY <1>4
  <2> DEFINE S == ui.search \ {p}
  <2>2. out = <<[ui EXCEPT !.search = S], Keyboard!Terminal(p)>>
    BY <2>1 DEF Keyboard!CloseSearch
  <2>3. S \in SUBSET Keyboard!PaneIds /\ S # ui.search
    BY <1>2
  <2> HIDE DEF S
  <2> QED BY <2>2, <2>3, SearchStands DEF Edits, Given
<1> QED BY <1>1, <1>3, <1>4 DEF Keyboard!Commands

\* The overlay that a pick closes.
LEMMA PickStands ==
  ASSUME Standing(ui), NEW v, Standing(v), Edits(ui, v), NEW holder, Given(ui, v, holder),
         NEW k \in {"palette", "picker"}
  PROVE  LET w == [v EXCEPT ![k] = FALSE] IN Standing(w) /\ Edits(ui, w) /\ Given(ui, w, holder)
<1> DEFINE w == [v EXCEPT ![k] = FALSE]
<1>1. v \in Screen /\ ui \in Screen
  BY DEF Standing
<1>2. Standing(w)
  BY OverlayStands
<1>3. /\ w.renaming = v.renaming /\ w.badging = v.badging /\ w.focused = v.focused
      /\ w.active = v.active /\ w.search = v.search /\ w.asked = v.asked
  <2>1. CASE k = "palette"
    BY <1>1, <2>1 DEF Screen
  <2>2. CASE k = "picker"
    BY <1>1, <2>2 DEF Screen
  <2> QED BY <2>1, <2>2
<1>4. (w.palette => v.palette) /\ (w.picker => v.picker)
  <2>1. CASE k = "palette"
    BY <1>1, <2>1 DEF Screen
  <2>2. CASE k = "picker"
    BY <1>1, <2>2 DEF Screen
  <2> QED BY <2>1, <2>2
<1> HIDE DEF w
<1>5. Edits(ui, w)
  BY <1>3, <1>4 DEF Edits, LeavesEdits, StartsRename, StartsBadge, MountsNoMore
<1>6. Given(ui, w, holder)
  BY <1>3 DEF Given
<1> QED BY <1>2, <1>5, <1>6 DEF w

\* Commands: by menu, key, control channel and overlay.
LEMMA KeyboardCommands ==
  ASSUME KeyboardConstants, KeyboardInv,
         \/ Keyboard!Menu \/ Keyboard!Key \/ Keyboard!Remote
         \/ Keyboard!PalettePick \/ Keyboard!PickerPick \/ Keyboard!Deliver
  PROVE  KeyboardInv'
<1>1. Standing(ui)
  BY DEF KeyboardInv
<1>2. ASSUME NEW new \in Keyboard!MenuCommands(ui, "user"), Keyboard!Commit(new, focus)
      PROVE  KeyboardInv'
  BY <1>1, <1>2, MenuStands, CommitKeeps DEF Given
<1>3. ASSUME NEW origin, NEW out \in Keyboard!Commands(ui, origin), Keyboard!Commit(out[1], out[2])
      PROVE  KeyboardInv'
  BY <1>1, <1>3, CommandsStand, CommitKeeps
<1>4. CASE Keyboard!Menu \/ Keyboard!Key \/ Keyboard!Remote
  BY <1>2, <1>3, <1>4 DEF Keyboard!Menu, Keyboard!Key, Keyboard!Remote
<1>5. Edits(ui, ui) /\ \A v : Given(ui, v, focus)
  BY DEF Edits, LeavesEdits, Given
<1>6. CASE Keyboard!PalettePick
  <2>1. CASE Keyboard!Commit([ui EXCEPT !.palette = FALSE], focus)
    <3>1. LET w == [ui EXCEPT !["palette"] = FALSE]
          IN Standing(w) /\ Edits(ui, w) /\ Given(ui, w, focus)
      BY <1>1, <1>5, PickStands
    <3> QED BY <2>1, <3>1, CommitKeeps
  <2>2. CASE \E out \in Keyboard!Commands(ui, "user") :
               Keyboard!Commit([out[1] EXCEPT !.palette = FALSE], out[2])
    <3>1. PICK out \in Keyboard!Commands(ui, "user") :
            Keyboard!Commit([out[1] EXCEPT !.palette = FALSE], out[2])
      BY <2>2
    <3>2. Standing(out[1]) /\ Edits(ui, out[1]) /\ Given(ui, out[1], out[2])
      BY <1>1, CommandsStand
    <3>3. LET w == [out[1] EXCEPT !["palette"] = FALSE]
          IN Standing(w) /\ Edits(ui, w) /\ Given(ui, w, out[2])
      BY <1>1, <3>2, PickStands
    <3> QED BY <3>1, <3>3, CommitKeeps
  <2> QED BY <1>6, <2>1, <2>2 DEF Keyboard!PalettePick
<1>7. CASE Keyboard!PickerPick
  <2>1. PICK new \in Keyboard!Opened(ui) \cup Keyboard!Split(ui) \cup {ui} :
          Keyboard!Commit([new EXCEPT !.picker = FALSE], focus)
    BY <1>7 DEF Keyboard!PickerPick
  <2>2. Standing(new) /\ Edits(ui, new) /\ Given(ui, new, focus)
    BY <1>1, <1>5, OpenedStands, SplitStands DEF Edits
  <2>3. LET w == [new EXCEPT !["picker"] = FALSE]
        IN Standing(w) /\ Edits(ui, w) /\ Given(ui, w, focus)
    BY <1>1, <2>2, PickStands
  <2> QED BY <2>1, <2>3, CommitKeeps
<1>8. CASE Keyboard!Deliver
  <2>1. PICK new \in Keyboard!Opened(ui) : Keyboard!Commit(new, focus)
    BY <1>8 DEF Keyboard!Deliver
  <2>2. Standing(new) /\ Edits(ui, new)
    BY <1>1, OpenedStands DEF Edits
  <2> QED BY <1>5, <2>1, <2>2, CommitKeeps
<1> QED BY <1>4, <1>6, <1>7, <1>8

\* The close dialog, and the programs that end.
LEMMA KeyboardCloses ==
  ASSUME KeyboardConstants, KeyboardInv,
         \/ Keyboard!Confirm \/ Keyboard!CancelQuestion \/ Keyboard!AskQuit
         \/ \E p \in Keyboard!PaneIds : Keyboard!PtyExit(p)
         \/ \E t \in Keyboard!TabIds : Keyboard!ClickClose(t)
  PROVE  KeyboardInv'
<1>1. Standing(ui) /\ ui \in Screen
  BY DEF KeyboardInv, Standing
<1>2. \A v : Given(ui, v, focus) /\ Given(ui, v, <<"strip", Keyboard!None>>)
  BY DEF Given
<1>3. ASSUME NEW q \in Questions,
             Keyboard!Commit([ui EXCEPT !.asked = q], focus)
      PROVE  KeyboardInv'
  <2>1. Standing([ui EXCEPT !.asked = q]) /\ Edits(ui, [ui EXCEPT !.asked = q])
    BY <1>1, AskedStands DEF Edits
  <2> QED BY <1>2, <1>3, <2>1, CommitKeeps
<1>4. Keyboard!NoQuestion \in Questions
  BY DEF Questions, Keyboard!NoQuestion, Keyboard!None
<1>5. <<"quit", Keyboard!None>> \in Questions
  BY DEF Questions, Keyboard!None
<1>6. CASE Keyboard!CancelQuestion \/ Keyboard!AskQuit
  BY <1>3, <1>4, <1>5, <1>6 DEF Keyboard!CancelQuestion, Keyboard!AskQuit
<1>7. CASE Keyboard!Confirm
  <2> DEFINE id == ui.asked[2]
             answered == [ui EXCEPT !.asked = Keyboard!NoQuestion]
  <2>1. /\ Standing(answered) /\ answered.renaming = ui.renaming /\ answered.badging = ui.badging
        /\ answered.tabOf = ui.tabOf
    BY <1>1, <1>4, AskedStands DEF Screen
  <2>2. ASSUME NEW v, Standing(v), LeavesEdits(answered, v), Keyboard!Commit(v, focus)
        PROVE  KeyboardInv'
    <3>1. Edits(ui, v)
      BY <2>1, <2>2 DEF Edits, LeavesEdits
    <3> QED BY <1>2, <2>2, <3>1, CommitKeeps
  <2>3. Standing(answered) /\ LeavesEdits(answered, answered)
    BY <2>1 DEF LeavesEdits
  <2>4. CASE ui.asked[1] = "pane"
    <3>1. CASE ui.tabOf[id] # 0 /\ id \in Keyboard!PaneIds
      <4>1. PICK v \in Keyboard!ClosePane(answered, id) : Keyboard!Commit(v, focus)
        BY <1>7, <2>4, <3>1 DEF Keyboard!Confirm, Keyboard!None
      <4>2. Standing(v) /\ LeavesEdits(answered, v)
        BY <2>1, <3>1, <4>1, ClosePaneStands
      <4> QED BY <2>2, <4>1, <4>2
    <3>2. CASE ~(ui.tabOf[id] # 0 /\ id \in Keyboard!PaneIds)
      <4> id \in Keyboard!PaneIds
        BY <1>1, <2>4 DEF Screen, Questions
      <4>1. Keyboard!Commit(answered, focus)
        BY <1>7, <2>4, <3>2 DEF Keyboard!Confirm, Keyboard!None
      <4> QED BY <2>2, <2>3, <4>1
    <3> QED BY <3>1, <3>2
  <2>5. CASE ui.asked[1] = "tab"
    <3>1. CASE id \in Keyboard!Tabs(ui)
      <4>1. PICK v \in Keyboard!CloseTab(answered, id) : Keyboard!Commit(v, focus)
        BY <1>7, <2>5, <3>1 DEF Keyboard!Confirm
      <4>2. Standing(v) /\ LeavesEdits(answered, v)
        BY <2>1, <3>1, <4>1, CloseTabStands DEF Keyboard!Tabs
      <4> QED BY <2>2, <4>1, <4>2
    <3>2. CASE id \notin Keyboard!Tabs(ui)
      <4>1. Keyboard!Commit(answered, focus)
        BY <1>7, <2>5, <3>2 DEF Keyboard!Confirm
      <4> QED BY <2>2, <2>3, <4>1
    <3> QED BY <3>1, <3>2
  <2> QED BY <1>7, <2>4, <2>5 DEF Keyboard!Confirm
<1>8. CASE \E p \in Keyboard!PaneIds : Keyboard!PtyExit(p)
  <2>1. PICK p \in Keyboard!PaneIds : Keyboard!PtyExit(p)
    BY <1>8
  <2>2. PICK new \in Keyboard!ClosePane(ui, p) : Keyboard!Commit(new, focus)
    BY <2>1 DEF Keyboard!PtyExit
  <2>3. Standing(new) /\ Edits(ui, new)
    BY <1>1, <2>1, <2>2, ClosePaneStands DEF Edits, Keyboard!PtyExit, Keyboard!None
  <2> QED BY <1>2, <2>2, <2>3, CommitKeeps
<1>9. CASE \E t \in Keyboard!TabIds : Keyboard!ClickClose(t)
  <2>1. PICK t \in Keyboard!TabIds : Keyboard!ClickClose(t)
    BY <1>9
  <2>2. PICK busy \in BOOLEAN :
          \E new \in Keyboard!Gated(ui, "tab", t, Keyboard!CloseTab(ui, t), busy) :
            Keyboard!Commit(new, <<"strip", Keyboard!None>>)
    BY <2>1 DEF Keyboard!ClickClose
  <2>3. PICK new \in Keyboard!Gated(ui, "tab", t, Keyboard!CloseTab(ui, t), busy) :
          Keyboard!Commit(new, <<"strip", Keyboard!None>>)
    BY <2>2
  <2>4. <<"tab", t>> \in Questions
    BY DEF Questions, Keyboard!TabIds
  <2>5. \A c \in Keyboard!CloseTab(ui, t) : Standing(c) /\ LeavesEdits(ui, c)
    BY <1>1, CloseTabStands
  <2>6. Standing(new) /\ LeavesEdits(ui, new)
    BY <1>1, <2>3, <2>4, <2>5, GatedStands
  <2>7. Edits(ui, new)
    BY <2>6 DEF Edits
  <2> QED BY <1>2, <2>3, <2>6, <2>7, CommitKeeps
<1> QED BY <1>6, <1>7, <1>8, <1>9

\* The pointer.
LEMMA KeyboardPoints ==
  ASSUME KeyboardConstants, KeyboardInv,
         \/ \E p \in Keyboard!PaneIds :
              Keyboard!ClickPane(p) \/ Keyboard!ClickFind(p) \/ Keyboard!Hover(p)
         \/ \E t \in Keyboard!TabIds : Keyboard!ClickTab(t) \/ Keyboard!DoubleClickTab(t)
  PROVE  KeyboardInv'
<1>1. Standing(ui) /\ ui \in Screen
  BY DEF KeyboardInv, Standing
<1>2. \A v : Given(ui, v, <<"strip", Keyboard!None>>)
  BY DEF Given
<1>3. ASSUME NEW p \in Keyboard!PaneIds,
             Keyboard!ClickPane(p) \/ Keyboard!ClickFind(p) \/ Keyboard!Hover(p)
      PROVE  KeyboardInv'
  <2> DEFINE v == Keyboard!Focused(ui, p)
  <2>1. PICK holder \in {Keyboard!Terminal(p), <<"find", p>>} :
          Keyboard!Commit(v, holder) /\ ui.tabOf[p] = ui.active
    BY <1>3 DEF Keyboard!ClickPane, Keyboard!ClickFind, Keyboard!Hover
  <2>2. Standing(v) /\ LeavesEdits(ui, v) /\ v.focused[v.active] = p
    BY <1>1, <2>1, FocusedStands
  <2> HIDE DEF v
  <2>3. Edits(ui, v) /\ Given(ui, v, holder)
    BY <2>1, <2>2 DEF Edits, Given
  <2> QED BY <2>1, <2>2, <2>3, CommitKeeps
<1>4. ASSUME NEW t \in Keyboard!TabIds, Keyboard!ClickTab(t)
      PROVE  KeyboardInv'
  <2> DEFINE v == Keyboard!Activated(ui, t)
  <2>1. t \in Keyboard!Tabs(ui) /\ Keyboard!Commit(v, <<"strip", Keyboard!None>>)
    BY <1>4 DEF Keyboard!ClickTab
  <2>2. Standing(v) /\ Edits(ui, v)
    BY <1>1, <2>1, ActivatedStands DEF Edits
  <2> HIDE DEF v
  <2> QED BY <1>2, <2>1, <2>2, CommitKeeps
<1>5. ASSUME NEW t \in Keyboard!TabIds, Keyboard!DoubleClickTab(t)
      PROVE  KeyboardInv'
  <2> DEFINE u == Keyboard!Activated(ui, t)
             v == [u EXCEPT !.renaming = t]
  <2>1. t \in Keyboard!Tabs(ui) /\ Keyboard!Commit(v, <<"strip", Keyboard!None>>)
    BY <1>5 DEF Keyboard!DoubleClickTab
  <2>2. /\ Standing(u) /\ u.active = t /\ u.badging = ui.badging /\ u.search = ui.search
        /\ u.asked = ui.asked /\ (u.palette <=> ui.palette) /\ (u.picker <=> ui.picker)
    BY <1>1, <2>1, ActivatedStands DEF Keyboard!Activated, Screen
  <2>3. Standing(v) /\ StartsRename(u, v)
    BY <2>2, RenameStands
  <2> HIDE DEF u, v
  <2>4. Edits(ui, v)
    BY <2>2, <2>3 DEF Edits, StartsRename, MountsNoMore
  <2> QED BY <1>2, <2>1, <2>3, <2>4, CommitKeeps
<1> QED BY <1>3, <1>4, <1>5

\* Enter, Escape and the window that goes to the back.
LEMMA KeyboardEnds ==
  ASSUME KeyboardConstants, KeyboardInv,
         \/ Keyboard!EndRename \/ Keyboard!EndBadge \/ Keyboard!EscapeFind
         \/ Keyboard!CancelOverlay \/ Keyboard!WindowBlur
  PROVE  KeyboardInv'
<1>1. Standing(ui) /\ ui \in Screen
  BY DEF KeyboardInv, Standing
<1>2. \A v : Given(ui, v, focus)
  BY DEF Given
<1>3. ASSUME NEW r \in {ui.renaming, 0}, NEW b \in {ui.badging, 0},
             Keyboard!Commit([ui EXCEPT !.renaming = r, !.badging = b], focus)
      PROVE  KeyboardInv'
  <2> DEFINE v == [ui EXCEPT !.renaming = r, !.badging = b]
  <2>1. Standing(v) /\ Edits(ui, v)
    BY <1>1, EndsStand DEF Edits
  <2> HIDE DEF v
  <2>2. Keyboard!Commit(v, focus)
    BY <1>3 DEF v
  <2> QED BY <1>2, <2>1, <2>2, CommitKeeps
<1>4. CASE Keyboard!EndRename
  <2>1. [ui EXCEPT !.renaming = 0] = [ui EXCEPT !.renaming = 0, !.badging = ui.badging]
    BY <1>1 DEF Screen
  <2> QED BY <1>3, <1>4, <2>1 DEF Keyboard!EndRename, Keyboard!None
<1>5. CASE Keyboard!EndBadge
  <2>1. [ui EXCEPT !.badging = 0] = [ui EXCEPT !.renaming = ui.renaming, !.badging = 0]
    BY <1>1 DEF Screen
  <2> QED BY <1>3, <1>5, <2>1 DEF Keyboard!EndBadge, Keyboard!None
<1>6. CASE Keyboard!WindowBlur
  <2>1. Keyboard!Commit(Keyboard!Blurred(ui, focus, Keyboard!Nobody), focus)
    BY <1>6 DEF Keyboard!WindowBlur
  <2>2. PICK r \in {ui.renaming, 0}, b \in {ui.badging, 0} :
          Keyboard!Blurred(ui, focus, Keyboard!Nobody) = [ui EXCEPT !.renaming = r, !.badging = b]
    BY DEF Keyboard!Blurred, Keyboard!None
  <2> QED BY <1>3, <2>1, <2>2
<1>7. CASE Keyboard!CancelOverlay
  <2>1. PICK k \in {"palette", "picker"} : Keyboard!Commit([ui EXCEPT ![k] = FALSE], focus)
    BY <1>7 DEF Keyboard!CancelOverlay
  <2>2. Standing([ui EXCEPT ![k] = FALSE]) /\ Edits(ui, [ui EXCEPT ![k] = FALSE])
    BY <1>1, OverlayStands DEF Edits
  <2> QED BY <1>2, <2>1, <2>2, CommitKeeps
<1>8. CASE Keyboard!EscapeFind
  <2> DEFINE p == focus[2]
             S == ui.search \ {p}
  <2>1. Keyboard!Commit([ui EXCEPT !.search = S], Keyboard!Terminal(p))
    BY <1>8 DEF Keyboard!EscapeFind, Keyboard!CloseSearch
  <2>2. p \in ui.search
    BY <1>8 DEF Keyboard!EscapeFind, KeyboardInv
  <2>3. S \in SUBSET Keyboard!PaneIds /\ S # ui.search
    BY <1>1, <2>2 DEF Screen
  <2> HIDE DEF S, p
  <2>4. /\ Standing([ui EXCEPT !.search = S]) /\ Edits(ui, [ui EXCEPT !.search = S])
        /\ Given(ui, [ui EXCEPT !.search = S], Keyboard!Terminal(p))
    BY <1>1, <2>3, SearchStands DEF Edits, Given
  <2> QED BY <2>1, <2>4, CommitKeeps
<1> QED BY <1>4, <1>5, <1>6, <1>7, <1>8

LEMMA KeyboardStart ==
  ASSUME KeyboardConstants, Keyboard!Init
  PROVE  KeyboardInv
<1>1. 1 \in Keyboard!TabIds /\ 1 \in Keyboard!PaneIds
  BY DEF KeyboardConstants, Keyboard!TabIds, Keyboard!PaneIds
<1>2. ui \in Screen
  BY <1>1 DEF Keyboard!Init, Screen, Questions, Keyboard!None, Keyboard!NoQuestion
<1>3. /\ ui.active = 1 /\ ui.focused[1] = 1 /\ ui.tabOf[1] = 1 /\ ui.renaming = 0 /\ ui.badging = 0
      /\ ui.panes = 1 /\ \A p \in Keyboard!PaneIds : ui.tabOf[p] = IF p = 1 THEN 1 ELSE 0
  BY <1>1 DEF Keyboard!Init, Keyboard!None
<1>4. Standing(ui)
  BY <1>1, <1>2, <1>3 DEF Standing, Keyboard!PaneIds
<1>5. focus = Keyboard!Terminal(1) /\ focus[1] = "terminal"
  BY DEF Keyboard!Init, Keyboard!Terminal
<1>6. Keyboard!KeyboardOwner
  BY <1>3, <1>5 DEF Keyboard!KeyboardOwner, Keyboard!Current, Keyboard!None
<1> QED BY <1>4, <1>5, <1>6 DEF KeyboardInv

LEMMA KeyboardStep ==
  ASSUME KeyboardConstants, KeyboardInv, [Keyboard!Next]_(Keyboard!vars)
  PROVE  KeyboardInv'
<1>1. CASE Keyboard!Next
  BY <1>1, KeyboardCommands, KeyboardCloses, KeyboardPoints, KeyboardEnds DEF Keyboard!Next
<1>2. CASE UNCHANGED Keyboard!vars
  BY <1>2 DEF Keyboard!vars, KeyboardInv, Standing, Keyboard!KeyboardOwner, Keyboard!Current
<1> QED BY <1>1, <1>2

\* The keyboard is where the window shows it: a rename or a badge edit under way has it, and a
\* terminal that has it is the active tab's focused pane, unless that pane has a find bar open.
THEOREM KeyboardIsOwned ==
  ASSUME KeyboardConstants
  PROVE  Keyboard!Spec => []Keyboard!KeyboardOwner
<1>1. Keyboard!Init => KeyboardInv
  BY KeyboardStart
<1>2. KeyboardInv /\ [Keyboard!Next]_(Keyboard!vars) => KeyboardInv'
  BY KeyboardStep
<1>3. KeyboardInv => Keyboard!KeyboardOwner
  BY DEF KeyboardInv
<1> QED BY <1>1, <1>2, <1>3, PTL DEF Keyboard!Spec

-----------------------------------------------------------------------------
(* The activity line.                                                      *)

ActivityConstants ==
  /\ SHOW_DELAY \in Nat /\ MIN_VISIBLE \in Nat /\ ECHO_WINDOW \in Nat /\ UNKNOWN_FALLBACK \in Nat
  /\ HOLD \in Nat /\ WINDOW_CLOSE \in Nat /\ FLASH \in Nat
  /\ \A m \in METAS : m.name \in Activity!Names

\* The states of the line, and its ages.
SinceAges == 0..SHOW_DELAY
ShownAges == 0..MIN_VISIBLE
UnknownAges == 0..UNKNOWN_FALLBACK
ActiveAges == 0..WINDOW_CLOSE
CountedAges == 0..(HOLD + 1)
TypedAges == 0..(ECHO_WINDOW + 1)
LineState ==
  [phase : Activity!Phases, since : SinceAges, shown : ShownAges,
   klass : {"plain", "interactive", "unknown"}, unknown : UnknownAges,
   name : Activity!Names, submit : BOOLEAN, window : BOOLEAN,
   active : ActiveAges, counted : CountedAges, typed : TypedAges, override : {"none", "on", "off"}]

\* The light is on, and goes out by itself.
Held(a) ==
  /\ a.override = "none" /\ a.phase \in {"visible", "pendingHide"} /\ a.klass = "interactive"
  /\ a.window /\ a.counted <= HOLD

ActivityInv ==
  /\ line \in LineState /\ timer \in Int /\ polled \in BOOLEAN /\ latched \in BOOLEAN
  /\ running \in BOOLEAN /\ alive \in BOOLEAN /\ rendered \in BOOLEAN
  /\ running => latched
  /\ Activity!GuardSeesJob /\ Activity!SessionCounted /\ Activity!LineFresh
  /\ Held(line) => timer \in 0..(HOLD + 1 - line.counted)

\* What a transition returns: a state, and one deadline at most.
Transition(t) ==
  t[1] \in LineState /\ (t[2] = {} \/ \E d \in Nat : t[2] = {d})

\* A transition that is not about the job.
KeepsJob(a, b) ==
  (Activity!Busy(b) <=> Activity!Busy(a)) /\ b.name = a.name /\ b.klass \in {a.klass, "plain"}

LEMMA AgesAre ==
  ASSUME ActivityConstants
  PROVE  /\ 0 \in SinceAges /\ 0 \in ShownAges /\ 0 \in UnknownAges /\ 0 \in ActiveAges
         /\ 0 \in CountedAges /\ 0 \in TypedAges
         /\ WINDOW_CLOSE \in ActiveAges /\ HOLD + 1 \in CountedAges /\ ECHO_WINDOW + 1 \in TypedAges
         /\ \A n \in SinceAges : n \in Nat /\ SHOW_DELAY - n \in Nat
         /\ \A n \in ShownAges : n \in Nat /\ MIN_VISIBLE - n \in Nat
         /\ \A n \in CountedAges : n \in Nat /\ HOLD + 1 - n \in Nat
         /\ \A n \in UnknownAges : n \in Nat /\ UNKNOWN_FALLBACK - n \in Nat
         /\ \A n \in ActiveAges : n \in Nat /\ WINDOW_CLOSE - n \in Nat
BY DEF ActivityConstants, SinceAges, ShownAges, UnknownAges, ActiveAges, CountedAges, TypedAges

LEMMA PhasesAre ==
  {"idle", "pendingShow", "visible", "pendingHide"} = Activity!Phases
BY DEF Activity!Phases

LEMMA EpochBegins ==
  ASSUME ActivityConstants, NEW a \in LineState, NEW m, m.name \in Activity!Names
  PROVE  LET b == [a EXCEPT !.override = "none"]
             f == Activity!FreshEpoch(b, m)
         IN /\ b \in LineState /\ b.phase = a.phase /\ b.since = a.since /\ b.shown = a.shown
            /\ f \in LineState /\ f.name = m.name
            /\ f.klass = "interactive" => m # Activity!NoMeta
            /\ SHOW_DELAY \in Nat /\ SHOW_DELAY - a.since \in Nat /\ MIN_VISIBLE - a.shown \in Nat
            /\ a.phase \in Activity!Phases
<1> DEFINE b == [a EXCEPT !.override = "none"]
           f == Activity!FreshEpoch(b, m)
<1>1. b \in LineState /\ b.phase = a.phase /\ b.since = a.since /\ b.shown = a.shown
  BY AgesAre, PhasesAre DEF LineState
<1>2. /\ f \in LineState /\ f.name = m.name
      /\ f.klass = "interactive" => m # Activity!NoMeta
  BY <1>1, AgesAre DEF LineState, Activity!FreshEpoch, Activity!NoWindow,
     Activity!ClassifyInvocation
<1>3. /\ SHOW_DELAY \in Nat /\ SHOW_DELAY - a.since \in Nat /\ MIN_VISIBLE - a.shown \in Nat
      /\ a.phase \in Activity!Phases
  BY AgesAre, PhasesAre DEF LineState, ActivityConstants
<1> QED BY <1>1, <1>2, <1>3

\* A job begins: an epoch of its own, unless the line is on its way to show one.
LEMMA BusyRises ==
  ASSUME ActivityConstants, NEW a \in LineState, NEW m, m.name \in Activity!Names
  PROVE  LET t == Activity!OnBusyChange(a, TRUE, m)
         IN /\ Transition(t) /\ Activity!Busy(t[1])
            /\ ~Activity!Busy(a) /\ t[1].klass = "interactive"
                 => m # Activity!NoMeta /\ t[1].name = m.name
<1> DEFINE b == [a EXCEPT !.override = "none"]
           f == Activity!FreshEpoch(b, m)
           t == Activity!OnBusyChange(a, TRUE, m)
<1>1. /\ b \in LineState /\ b.phase = a.phase /\ b.since = a.since /\ b.shown = a.shown
      /\ f \in LineState /\ f.name = m.name
      /\ f.klass = "interactive" => m # Activity!NoMeta
      /\ SHOW_DELAY \in Nat /\ SHOW_DELAY - a.since \in Nat /\ MIN_VISIBLE - a.shown \in Nat
      /\ a.phase \in Activity!Phases
  BY EpochBegins
<1>2. /\ a.phase = "idle" => t = <<[f EXCEPT !.phase = "pendingShow", !.since = 0], {SHOW_DELAY}>>
      /\ a.phase = "pendingShow" => t = <<b, {SHOW_DELAY - b.since}>>
      /\ a.phase = "visible" => t = <<b, {}>>
      /\ a.phase = "pendingHide" => t = <<[f EXCEPT !.phase = "visible"], {}>>
  BY DEF Activity!OnBusyChange, Activity!ShowIn
<1> HIDE DEF b, f, t
<1>3. /\ a.phase = "idle"
           => /\ t[1] = [f EXCEPT !.phase = "pendingShow", !.since = 0]
              /\ t[2] = {SHOW_DELAY}
      /\ a.phase = "pendingShow" => t[1] = b /\ t[2] = {SHOW_DELAY - a.since}
      /\ a.phase = "visible" => t[1] = b /\ t[2] = {}
      /\ a.phase = "pendingHide" => t[1] = [f EXCEPT !.phase = "visible"] /\ t[2] = {}
  BY <1>1, <1>2
<1>4. /\ [f EXCEPT !.phase = "pendingShow", !.since = 0] \in LineState
      /\ [f EXCEPT !.phase = "visible"] \in LineState
  BY <1>1, AgesAre, PhasesAre DEF LineState
<1>5. t[2] = {} \/ \E d \in Nat : t[2] = {d}
  BY <1>1, <1>3 DEF Activity!Phases
<1>6. t[1] \in LineState /\ Activity!Busy(t[1])
  BY <1>1, <1>3, <1>4 DEF Activity!Phases, Activity!Busy, LineState
<1>7. ~Activity!Busy(a) => t[1].name = f.name /\ t[1].klass = f.klass
  BY <1>1, <1>3 DEF Activity!Phases, Activity!Busy, LineState
<1> QED BY <1>1, <1>5, <1>6, <1>7 DEF t, Transition

\* A job ends: the line hides, at once or after its shortest time.
LEMMA BusyFalls ==
  ASSUME ActivityConstants, NEW a \in LineState, NEW m, m.name \in Activity!Names
  PROVE  LET t == Activity!OnBusyChange(a, FALSE, m)
         IN Transition(t) /\ ~Activity!Busy(t[1])
<1> DEFINE b == [a EXCEPT !.override = "none"]
           t == Activity!OnBusyChange(a, FALSE, m)
<1>1. /\ b \in LineState /\ b.phase = a.phase /\ b.since = a.since /\ b.shown = a.shown
      /\ MIN_VISIBLE - a.shown \in Nat /\ a.phase \in Activity!Phases
  BY EpochBegins
<1>2. /\ a.phase = "idle" => t = <<b, {}>>
      /\ a.phase = "pendingShow" => t = <<[b EXCEPT !.phase = "idle", !.since = 0], {}>>
      /\ a.phase = "visible" => t = <<[b EXCEPT !.phase = "pendingHide"], {MIN_VISIBLE - b.shown}>>
      /\ a.phase = "pendingHide" => t = <<b, {MIN_VISIBLE - b.shown}>>
  BY DEF Activity!OnBusyChange, Activity!HideIn
<1> HIDE DEF b, t
<1>3. /\ a.phase = "pendingShow" => t[1] = [b EXCEPT !.phase = "idle", !.since = 0] /\ t[2] = {}
      /\ a.phase = "visible" => t[1] = [b EXCEPT !.phase = "pendingHide"] /\ t[2] = {MIN_VISIBLE - a.shown}
      /\ a.phase = "idle" => t[1] = b /\ t[2] = {}
      /\ a.phase = "pendingHide" => t[1] = b /\ t[2] = {MIN_VISIBLE - a.shown}
  BY <1>1, <1>2
<1>4. /\ [b EXCEPT !.phase = "idle", !.since = 0] \in LineState
      /\ [b EXCEPT !.phase = "pendingHide"] \in LineState
  BY <1>1, AgesAre, PhasesAre DEF LineState
<1>5. t[2] = {} \/ \E d \in Nat : t[2] = {d}
  BY <1>1, <1>3 DEF Activity!Phases
<1>6. t[1] \in LineState /\ ~Activity!Busy(t[1])
  BY <1>1, <1>3, <1>4 DEF Activity!Phases, Activity!Busy, LineState
<1> QED BY <1>5, <1>6 DEF t, Transition

LEMMA ClassAdvances ==
  ASSUME ActivityConstants, NEW a \in LineState
  PROVE  LET b == Activity!AdvanceClass(a)
         IN /\ b \in LineState /\ b.phase = a.phase /\ b.name = a.name
            /\ b.klass \in {a.klass, "plain"}
<1> DEFINE falls == a.klass = "unknown" /\ Activity!Busy(a) /\ a.unknown >= UNKNOWN_FALLBACK
           c == IF falls THEN [a EXCEPT !.klass = "plain", !.unknown = 0, !.submit = FALSE] ELSE a
<1>1. /\ c \in LineState /\ c.phase = a.phase /\ c.name = a.name
      /\ c.klass \in {a.klass, "plain"}
  BY AgesAre, PhasesAre DEF LineState
<1>2. Activity!AdvanceClass(a) = IF c.window /\ c.active >= WINDOW_CLOSE THEN Activity!NoWindow(c) ELSE c
  BY DEF Activity!AdvanceClass
<1> HIDE DEF c
<1>3. /\ Activity!NoWindow(c) \in LineState /\ Activity!NoWindow(c).phase = c.phase
      /\ Activity!NoWindow(c).name = c.name /\ Activity!NoWindow(c).klass = c.klass
  BY <1>1, AgesAre DEF LineState, Activity!NoWindow
<1> QED BY <1>1, <1>2, <1>3

LEMMA DeadlinePasses ==
  ASSUME ActivityConstants, NEW a \in LineState
  PROVE  LET t == Activity!OnDeadline(a) IN Transition(t) /\ KeepsJob(a, t[1])
<1> DEFINE b == Activity!AdvanceClass(a)
<1>1. /\ b \in LineState /\ b.phase = a.phase /\ b.name = a.name
      /\ b.klass \in {a.klass, "plain"}
  BY ClassAdvances
<1>2. SHOW_DELAY - a.since \in Nat /\ MIN_VISIBLE - a.shown \in Nat
  BY AgesAre, PhasesAre DEF LineState
<1>3. a.phase \in Activity!Phases /\ a.since \in Int /\ a.shown \in Int
  BY AgesAre, PhasesAre DEF LineState
<1> HIDE DEF b
<1>4. CASE a.phase = "pendingShow" /\ a.since >= SHOW_DELAY
  <2> DEFINE c == [b EXCEPT !.phase = "visible", !.since = 0, !.shown = 0]
  <2>1. /\ c \in LineState /\ c.phase = "visible" /\ c.name = b.name
        /\ c.klass = b.klass
    BY <1>1, AgesAre, PhasesAre DEF LineState
  <2>2. Activity!OnDeadline(a) = <<c, {}>>
      BY <1>3, <1>4 DEF Activity!OnDeadline, ActivityConstants, b
  <2> HIDE DEF c
  <2> QED BY <1>1, <1>4, <2>1, <2>2 DEF Transition, KeepsJob, Activity!Busy
<1>5. CASE a.phase = "pendingHide" /\ a.shown >= MIN_VISIBLE
  <2> DEFINE c == [b EXCEPT !.phase = "idle", !.shown = 0]
  <2>1. /\ c \in LineState /\ c.phase = "idle" /\ c.name = b.name
        /\ c.klass = b.klass
    BY <1>1, AgesAre, PhasesAre DEF LineState
  <2>2. Activity!OnDeadline(a) = <<c, {}>>
    BY <1>3, <1>5 DEF Activity!OnDeadline, ActivityConstants, b
  <2> HIDE DEF c
  <2> QED BY <1>1, <1>5, <2>1, <2>2 DEF Transition, KeepsJob, Activity!Busy
<1>6. CASE a.phase = "pendingShow" /\ a.since < SHOW_DELAY
  <2>1. Activity!OnDeadline(a) = <<b, {SHOW_DELAY - a.since}>>
    BY <1>6 DEF Activity!OnDeadline, Activity!ShowIn, b
  <2> QED BY <1>1, <1>2, <2>1 DEF Transition, KeepsJob, Activity!Busy
<1>7. CASE a.phase = "pendingHide" /\ a.shown < MIN_VISIBLE
  <2>1. Activity!OnDeadline(a) = <<b, {MIN_VISIBLE - a.shown}>>
    BY <1>7 DEF Activity!OnDeadline, Activity!HideIn, b
  <2> QED BY <1>1, <1>2, <2>1 DEF Transition, KeepsJob, Activity!Busy
<1>8. CASE a.phase \in {"idle", "visible"}
  <2>1. Activity!OnDeadline(a) = <<b, {}>>
    BY <1>8 DEF Activity!OnDeadline, b
  <2> QED BY <1>1, <2>1 DEF Transition, KeepsJob, Activity!Busy
<1>9. (a.since >= SHOW_DELAY \/ a.since < SHOW_DELAY) /\ (a.shown >= MIN_VISIBLE \/ a.shown < MIN_VISIBLE)
  BY <1>3 DEF ActivityConstants
<1> QED BY <1>3, <1>4, <1>5, <1>6, <1>7, <1>8, <1>9 DEF Activity!Phases

LEMMA MetadataComes ==
  ASSUME ActivityConstants, NEW a \in LineState, NEW m, m.name \in Activity!Names
  PROVE  LET t == Activity!OnClassifyMetadata(a, m)
         IN /\ Transition(t) /\ (Activity!Busy(t[1]) <=> Activity!Busy(a))
            /\ m = Activity!NoMeta => t[1] = a
            /\ Activity!Busy(a) /\ m # Activity!NoMeta => t[1].name = m.name
<1> DEFINE t == Activity!OnClassifyMetadata(a, m)
           b == [Activity!NoWindow(a) EXCEPT
                   !.klass = Activity!ClassifyInvocation(m), !.name = m.name, !.unknown = 0]
           c == IF b.klass = "interactive" /\ a.submit THEN Activity!OpenWindow(b)
                ELSE [b EXCEPT !.submit = FALSE]
           keeps == ~Activity!Busy(a) \/ m = Activity!NoMeta \/ (a.klass # "unknown" /\ a.name = m.name)
<1>1. t = IF keeps THEN <<a, {}>> ELSE <<c, {}>>
  BY DEF Activity!OnClassifyMetadata
<1>2. Activity!ClassifyInvocation(m) \in {"plain", "interactive"}
  BY DEF Activity!ClassifyInvocation
<1>3. b \in LineState /\ b.phase = a.phase /\ b.name = m.name
  BY <1>2, AgesAre, PhasesAre DEF LineState, Activity!NoWindow
<1> HIDE DEF b
<1>4. /\ Activity!OpenWindow(b) \in LineState /\ Activity!OpenWindow(b).phase = b.phase
      /\ Activity!OpenWindow(b).name = b.name
  BY <1>3, AgesAre, PhasesAre DEF LineState, Activity!OpenWindow
<1>5. /\ [b EXCEPT !.submit = FALSE] \in LineState /\ [b EXCEPT !.submit = FALSE].phase = b.phase
      /\ [b EXCEPT !.submit = FALSE].name = b.name
  BY <1>3 DEF LineState
<1>6. c \in LineState /\ c.phase = a.phase /\ c.name = m.name
  BY <1>3, <1>4, <1>5
<1> HIDE DEF c, t
<1>7. CASE keeps
  <2>1. t[1] = a /\ t[2] = {}
    BY <1>1, <1>7
  <2> QED BY <1>7, <2>1 DEF Transition, t
<1>8. CASE ~keeps
  <2>1. t[1] = c /\ t[2] = {}
    BY <1>1, <1>8
  <2> QED BY <1>6, <1>8, <2>1 DEF Transition, t, Activity!Busy
<1> QED BY <1>7, <1>8

\* Typing, output and the override are not about the job.
LEMMA InputComes ==
  ASSUME ActivityConstants, NEW a \in LineState, NEW submitted \in BOOLEAN
  PROVE  LET t == Activity!OnInput(a, submitted) IN Transition(t) /\ KeepsJob(a, t[1])
<1> DEFINE b == [a EXCEPT !.typed = 0]
           t == Activity!OnInput(a, submitted)
<1>1. /\ b \in LineState /\ b.phase = a.phase /\ b.name = a.name
      /\ b.klass = a.klass
  BY AgesAre DEF LineState
<1>2. t[2] = {} /\ t[1] \in {[Activity!OpenWindow(b) EXCEPT !.override = "none"],
                            [b EXCEPT !.submit = TRUE, !.override = "none"], b}
  BY DEF Activity!OnInput
<1> HIDE DEF b, t
<1>3. LET c == [Activity!OpenWindow(b) EXCEPT !.override = "none"]
      IN c \in LineState /\ c.phase = b.phase /\ c.name = b.name /\ c.klass = b.klass
  BY <1>1, AgesAre, PhasesAre DEF LineState, Activity!OpenWindow
<1>4. LET c == [b EXCEPT !.submit = TRUE, !.override = "none"]
      IN c \in LineState /\ c.phase = b.phase /\ c.name = b.name /\ c.klass = b.klass
  BY <1>1 DEF LineState
<1>5. t[1] \in LineState /\ t[1].phase = a.phase /\ t[1].name = a.name /\ t[1].klass = a.klass
  BY <1>1, <1>2, <1>3, <1>4
<1> QED BY <1>2, <1>5 DEF Transition, KeepsJob, Activity!Busy, t

LEMMA OutputComes ==
  ASSUME ActivityConstants, NEW a \in LineState, NEW large \in BOOLEAN
  PROVE  LET t == Activity!OnOutput(a, large) IN Transition(t) /\ KeepsJob(a, t[1])
<1> DEFINE c == [a EXCEPT !.counted = 0, !.active = 0]
           t == Activity!OnOutput(a, large)
<1>1. t[2] = {} /\ t[1] \in {c, a}
  BY DEF Activity!OnOutput
<1>2. c \in LineState /\ c.phase = a.phase /\ c.name = a.name /\ c.klass = a.klass
  BY AgesAre DEF LineState
<1> HIDE DEF c, t
<1> QED BY <1>1, <1>2 DEF Transition, KeepsJob, Activity!Busy, t

LEMMA ToggleComes ==
  ASSUME ActivityConstants, NEW a \in LineState, NEW force \in {"on", "off"}
  PROVE  LET t == Activity!OnManualToggle(a, force) IN Transition(t) /\ KeepsJob(a, t[1])
<1> DEFINE c == [a EXCEPT !.override = force]
           t == Activity!OnManualToggle(a, force)
<1>1. t[1] = c /\ t[2] \in {{SHOW_DELAY - a.since}, {MIN_VISIBLE - a.shown}, {}}
  BY DEF Activity!OnManualToggle, Activity!ShowIn, Activity!HideIn
<1>2. c \in LineState /\ c.phase = a.phase /\ c.name = a.name /\ c.klass = a.klass
  BY DEF LineState
<1>3. SHOW_DELAY - a.since \in Nat /\ MIN_VISIBLE - a.shown \in Nat
  BY AgesAre DEF LineState
<1> HIDE DEF c, t
<1> QED BY <1>1, <1>2, <1>3 DEF Transition, KeepsJob, Activity!Busy, t

(* Of the deadlines, one is the soonest.                                   *)
OneAtMost(S) == S = {} \/ \E d \in Nat : S = {d}
HasSoonest(S) == S \subseteq Nat /\ (S = {} \/ \E d \in S : \A e \in S : d <= e)

LEMMA SoonestOfMore ==
  ASSUME NEW S, HasSoonest(S), NEW T, OneAtMost(T)
  PROVE  HasSoonest(S \cup T)
<1>1. CASE T = {}
  BY <1>1 DEF HasSoonest
<1>3. CASE T # {} /\ S = {}
  <2>1. PICK x \in Nat : T = {x}
    BY <1>3 DEF OneAtMost
  <2>2. S \cup T = {x} /\ x <= x
    BY <1>3, <2>1
  <2> QED BY <2>2 DEF HasSoonest
<1>2. CASE T # {} /\ S # {}
  <2>1. PICK d \in S : \A e \in S : d <= e
    BY <1>2 DEF HasSoonest
  <2>2. PICK x \in Nat : T = {x}
    BY <1>2 DEF OneAtMost
  <2>3. CASE d <= x
    BY <2>1, <2>2, <2>3 DEF HasSoonest
  <2>4. CASE x <= d
    <3>1. \A e \in S \cup T : x <= e
      BY <2>1, <2>2, <2>4 DEF HasSoonest
    <3> QED BY <2>2, <3>1 DEF HasSoonest
  <2> QED BY <2>1, <2>2, <2>3, <2>4 DEF HasSoonest
<1> QED BY <1>1, <1>2, <1>3

(* What is stored of a transition is drawn, and a light that goes out by   *)
(* itself has its timer (applyActivityTransition).                         *)
LEMMA Applied ==
  ASSUME ActivityConstants, NEW t, Transition(t), Activity!Apply(t)
  PROVE  /\ line' = t[1] /\ line' \in LineState /\ timer' \in Int /\ rendered' \in BOOLEAN
         /\ rendered' <=> Activity!LightActive(t[1])
         /\ Held(t[1]) => timer' \in 0..(HOLD + 1 - t[1].counted)
<1> DEFINE a == t[1]
           due == t[2] \cup Activity!ClassDeadlines(a)
           F == {d \in {UNKNOWN_FALLBACK - a.unknown} : d > 0 /\ a.klass = "unknown" /\ Activity!Busy(a)}
           L == {d \in {HOLD + 1 - a.counted} : d > 0 /\ a.window /\ Activity!LightActive(a)}
           C == {d \in {WINDOW_CLOSE - a.active} : d > 0 /\ a.window}
<1>1. a \in LineState /\ OneAtMost(t[2])
  BY DEF Transition, OneAtMost
<1>2. /\ UNKNOWN_FALLBACK - a.unknown \in Nat /\ HOLD + 1 - a.counted \in Nat
      /\ WINDOW_CLOSE - a.active \in Nat /\ a.counted \in Nat
  BY <1>1, AgesAre DEF LineState
<1>3. Activity!ClassDeadlines(a) = F \cup L \cup C
  BY DEF Activity!ClassDeadlines, Activity!LightOff
<1>4. OneAtMost(F) /\ OneAtMost(L) /\ OneAtMost(C)
  BY <1>2 DEF OneAtMost
<1>5. Activity!Apply(t) => /\ line' = a /\ rendered' = Activity!LightActive(a)
                          /\ timer' = IF due = {} THEN -1 ELSE Activity!Soonest(due)
  BY DEF Activity!Apply, Activity!NoTimer
<1>6. Held(a) => HOLD + 1 - a.counted \in L
  BY <1>1, <1>2 DEF Held, Activity!LightActive, Activity!Visible, ActivityConstants
<1> HIDE DEF a, F, L, C
<1>7. HasSoonest(t[2] \cup F \cup L \cup C)
  <2>1. HasSoonest({})
    BY DEF HasSoonest
  <2>2. HasSoonest({} \cup t[2])
    BY <1>1, <2>1, SoonestOfMore
  <2> QED BY <1>4, <2>2, SoonestOfMore
<1>8. due = t[2] \cup F \cup L \cup C
  BY <1>3 DEF due
<1> HIDE DEF due
<1>9. due # {} => Activity!Soonest(due) \in Nat /\ \A e \in due : Activity!Soonest(due) <= e
  BY <1>7, <1>8 DEF HasSoonest, Activity!Soonest
<1>10. timer' \in Int
  BY <1>5, <1>9
<1>11. Held(a) => timer' \in 0..(HOLD + 1 - a.counted)
  BY <1>2, <1>5, <1>6, <1>8, <1>9
<1>12. Activity!LightActive(a) \in BOOLEAN
  BY <1>1 DEF Activity!LightActive, Activity!Visible, LineState
<1> QED BY <1>1, <1>5, <1>10, <1>11, <1>12 DEF a

-----------------------------------------------------------------------------
(* The steps.                                                              *)

LEMMA ActivityStart ==
  ASSUME ActivityConstants, Activity!Init
  PROVE  ActivityInv
<1>1. Activity!Fresh \in LineState
  BY AgesAre, PhasesAre DEF LineState, Activity!Fresh, Activity!Names
<1>2. ~Held(Activity!Fresh) /\ ~Activity!Busy(Activity!Fresh) /\ ~Activity!LightActive(Activity!Fresh)
  BY DEF Held, Activity!Fresh, Activity!Busy, Activity!LightActive, Activity!Visible
<1>3. /\ line = Activity!Fresh /\ timer = -1 /\ ~rendered /\ rendered \in BOOLEAN
      /\ ~polled /\ polled \in BOOLEAN /\ ~latched /\ latched \in BOOLEAN /\ ~running /\ running \in BOOLEAN
      /\ alive \in BOOLEAN
  BY DEF Activity!Init, Activity!NoTimer
<1>4. ~Held(line) /\ ~Activity!Busy(line) /\ ~Activity!LightActive(line) /\ line \in LineState
  BY <1>1, <1>2, <1>3
<1>5. Activity!GuardSeesJob /\ Activity!SessionCounted /\ Activity!LineFresh
  BY <1>3, <1>4 DEF Activity!GuardSeesJob, Activity!SessionCounted, Activity!LineFresh
<1>6. timer \in Int
  BY <1>3
<1> QED
  BY <1>3, <1>4, <1>5, <1>6 DEF ActivityInv

(* A transition that is not about the job, with everything else in place.  *)
LEMMA KeptJob ==
  ASSUME ActivityConstants, ActivityInv, NEW t, Transition(t), KeepsJob(line, t[1]),
         Activity!Apply(t), UNCHANGED <<polled, latched, running, foreground, alive>>
  PROVE  ActivityInv'
<1>1. /\ line' = t[1] /\ line' \in LineState /\ timer' \in Int /\ rendered' \in BOOLEAN
      /\ rendered' <=> Activity!LightActive(t[1])
      /\ Held(t[1]) => timer' \in 0..(HOLD + 1 - t[1].counted)
  BY Applied
<1>2. Activity!GuardSeesJob' /\ Activity!SessionCounted'
  BY <1>1 DEF ActivityInv, KeepsJob, Activity!GuardSeesJob, Activity!SessionCounted, Activity!Busy,
     Activity!Counted
<1>3. Activity!LineFresh'
  BY <1>1 DEF Activity!LineFresh, Activity!LightActive, Activity!Visible
<1>4. Held(line)' => timer' \in 0..(HOLD + 1 - line'.counted)
  BY <1>1 DEF Held
<1> QED BY <1>1, <1>2, <1>3, <1>4 DEF ActivityInv

LEMMA ActivityTicks ==
  ASSUME ActivityConstants, ActivityInv, Activity!Tick
  PROVE  ActivityInv'
<1> DEFINE since == IF line.phase = "pendingShow" THEN Activity!Older(line.since, SHOW_DELAY) ELSE 0
           shownFor == IF Activity!Visible(line) THEN Activity!Older(line.shown, MIN_VISIBLE) ELSE 0
           unknown == IF line.klass = "unknown" THEN Activity!Older(line.unknown, UNKNOWN_FALLBACK) ELSE 0
           active == Activity!Older(line.active, WINDOW_CLOSE)
           counted == Activity!Older(line.counted, HOLD + 1)
           typed == Activity!Older(line.typed, ECHO_WINDOW + 1)
<1>1. /\ since \in SinceAges /\ shownFor \in ShownAges /\ unknown \in UnknownAges
      /\ active \in ActiveAges /\ counted \in CountedAges /\ typed \in TypedAges
  <2>1. /\ line.since \in 0..SHOW_DELAY /\ line.shown \in 0..MIN_VISIBLE
        /\ line.unknown \in 0..UNKNOWN_FALLBACK /\ line.active \in 0..WINDOW_CLOSE
        /\ line.counted \in 0..(HOLD + 1) /\ line.typed \in 0..(ECHO_WINDOW + 1)
    BY DEF ActivityInv, LineState, SinceAges, ShownAges, UnknownAges, ActiveAges, CountedAges, TypedAges
  <2> QED
    BY <2>1 DEF ActivityConstants, Activity!Older, SinceAges, ShownAges, UnknownAges, ActiveAges,
       CountedAges, TypedAges
<1>2. /\ counted = IF line.counted < HOLD + 1 THEN line.counted + 1 ELSE HOLD + 1
      /\ line.counted \in 0..(HOLD + 1) /\ HOLD \in Nat
  BY DEF Activity!Older, ActivityConstants, ActivityInv, LineState, CountedAges
<1>3. line' = [line EXCEPT !.since = since, !.shown = shownFor, !.unknown = unknown,
                           !.active = active, !.counted = counted, !.typed = typed]
  BY DEF Activity!Tick
<1> HIDE DEF since, shownFor, unknown, active, counted, typed
<1>4. /\ line' \in LineState /\ line'.phase = line.phase /\ line'.klass = line.klass
      /\ line'.name = line.name /\ line'.window = line.window /\ line'.override = line.override
      /\ line'.counted = counted
  BY <1>1, <1>3 DEF ActivityInv, LineState
<1>5. /\ timer \in Int /\ timer # 0 /\ timer' = (IF timer = -1 THEN -1 ELSE timer - 1)
      /\ UNCHANGED <<rendered, polled, latched, running, foreground, alive>>
  BY DEF ActivityInv, Activity!Tick, Activity!NoTimer
<1>6. Activity!GuardSeesJob' /\ Activity!SessionCounted'
  BY <1>4, <1>5 DEF ActivityInv, Activity!GuardSeesJob, Activity!SessionCounted, Activity!Busy,
     Activity!Counted
<1>7. Held(line)' => timer' \in 0..(HOLD + 1 - line'.counted)
  BY <1>2, <1>4, <1>5 DEF Held, ActivityInv
<1>8. Activity!LineFresh'
  <2> SUFFICES ASSUME timer' # 0
               PROVE  rendered' <=> Activity!LightActive(line)'
    BY DEF Activity!LineFresh
  <2>1. rendered <=> Activity!LightActive(line)
    BY <1>5 DEF ActivityInv, Activity!LineFresh
  <2>2. Held(line) => line.counted # HOLD
    BY <1>2, <1>5 DEF ActivityInv
  <2>3. line.counted <= HOLD /\ line.counted # HOLD => counted <= HOLD
    BY <1>2
  <2>4. line.counted > HOLD => ~(counted <= HOLD)
    BY <1>2
  <2> QED
    BY <1>2, <1>4, <1>5, <2>1, <2>2, <2>3, <2>4 DEF Held, Activity!LightActive, Activity!Visible
<1> QED BY <1>4, <1>5, <1>6, <1>7, <1>8 DEF ActivityInv

LEMMA ActivityReports ==
  ASSUME ActivityConstants, ActivityInv, NEW busy \in BOOLEAN,
         NEW m \in METAS \cup {Activity!NoMeta}, Activity!SessionActivity(busy, m)
  PROVE  ActivityInv'
<1>1. m.name \in Activity!Names
  <2>1. Activity!NoMeta.name \in Activity!Names
    BY DEF Activity!NoMeta, Activity!Names
  <2> QED BY <2>1 DEF ActivityConstants
<1> USE DEF Activity!SessionActivity
<1>2. CASE latched /\ m = Activity!NoMeta
  BY <1>2 DEF ActivityInv, Activity!GuardSeesJob, Activity!SessionCounted, Activity!LineFresh,
     Activity!Busy, Activity!LightActive, Activity!Visible, Held
<1>3. CASE latched /\ m # Activity!NoMeta
  <2> DEFINE t == Activity!OnClassifyMetadata(line, m)
  <2>1. /\ Transition(t) /\ (Activity!Busy(t[1]) <=> Activity!Busy(line)) /\ Activity!Apply(t)
    BY <1>1, <1>3, MetadataComes DEF ActivityInv
  <2> HIDE DEF t
  <2>2. /\ line' = t[1] /\ line' \in LineState /\ timer' \in Int /\ rendered' \in BOOLEAN
        /\ rendered' <=> Activity!LightActive(t[1])
        /\ Held(t[1]) => timer' \in 0..(HOLD + 1 - t[1].counted)
    BY <2>1, Applied
  <2>3. UNCHANGED <<latched, running, alive>> /\ polled' \in BOOLEAN
    OBVIOUS
  <2>4. Activity!GuardSeesJob' /\ Activity!SessionCounted'
    BY <1>3, <2>1, <2>2, <2>3 DEF ActivityInv, Activity!GuardSeesJob, Activity!SessionCounted, Activity!Busy
  <2>5. Activity!LineFresh' /\ (Held(line)' => timer' \in 0..(HOLD + 1 - line'.counted))
    BY <2>2 DEF Activity!LineFresh, Activity!LightActive, Activity!Visible, Held
  <2> QED BY <2>2, <2>3, <2>4, <2>5 DEF ActivityInv
<1>4. CASE ~latched
  <2> DEFINE t == Activity!OnBusyChange(line, busy, m)
  <2>1. /\ Transition(t) /\ (Activity!Busy(t[1]) <=> busy) /\ Activity!Apply(t)
        /\ ~Activity!Busy(line) /\ busy /\ t[1].klass = "interactive"
             => m # Activity!NoMeta /\ t[1].name = m.name
    <3>1. CASE busy = TRUE
      BY <1>1, <1>4, <3>1, BusyRises DEF ActivityInv
    <3>2. CASE busy = FALSE
      BY <1>1, <1>4, <3>2, BusyFalls DEF ActivityInv
    <3> QED BY <3>1, <3>2
  <2> HIDE DEF t
  <2>2. /\ line' = t[1] /\ line' \in LineState /\ timer' \in Int /\ rendered' \in BOOLEAN
        /\ rendered' <=> Activity!LightActive(t[1])
        /\ Held(t[1]) => timer' \in 0..(HOLD + 1 - t[1].counted)
    BY <2>1, Applied
  <2>3. UNCHANGED <<latched, running, alive>> /\ polled' = busy /\ alive
    OBVIOUS
  <2>4. Activity!GuardSeesJob'
    BY <1>4, <2>1, <2>2, <2>3 DEF ActivityInv, Activity!GuardSeesJob, Activity!Busy
  <2>5. busy => ~Activity!Busy(line)
    BY <1>4, <2>3 DEF ActivityInv, Activity!GuardSeesJob
  <2>6. busy /\ m # Activity!NoMeta => foreground' = m.name
    OBVIOUS
  <2>7. Activity!SessionCounted'
    BY <2>1, <2>2, <2>5, <2>6 DEF Activity!SessionCounted, Activity!Busy, Activity!Counted
  <2>8. Activity!LineFresh' /\ (Held(line)' => timer' \in 0..(HOLD + 1 - line'.counted))
    BY <2>2 DEF Activity!LineFresh, Activity!LightActive, Activity!Visible, Held
  <2> QED BY <2>2, <2>3, <2>4, <2>7, <2>8 DEF ActivityInv
<1> QED BY <1>2, <1>3, <1>4 DEF ActivityInv

LEMMA ActivityHints ==
  ASSUME ActivityConstants, ActivityInv, NEW name \in Activity!Names \ {"?"}, Activity!TitleHint(name)
  PROVE  ActivityInv'
<1> DEFINE m == [name |-> name, args |-> "?", tty |-> "?"]
           t == Activity!OnClassifyMetadata(line, m)
<1>1. m.name = name /\ m # Activity!NoMeta
  BY DEF Activity!NoMeta
<1> HIDE DEF m
<1>2. /\ Transition(t) /\ (Activity!Busy(t[1]) <=> Activity!Busy(line))
      /\ Activity!Busy(line) => t[1].name = name
  BY <1>1, MetadataComes DEF ActivityInv
<1>3. Activity!Apply(t) /\ UNCHANGED <<polled, latched, running, alive>> /\ foreground' = name
  BY DEF Activity!TitleHint, m
<1> HIDE DEF t
<1>4. /\ line' = t[1] /\ line' \in LineState /\ timer' \in Int /\ rendered' \in BOOLEAN
      /\ rendered' <=> Activity!LightActive(t[1])
      /\ Held(t[1]) => timer' \in 0..(HOLD + 1 - t[1].counted)
  BY <1>2, <1>3, Applied
<1>5. Activity!GuardSeesJob'
  BY <1>2, <1>3, <1>4 DEF ActivityInv, Activity!GuardSeesJob, Activity!Busy
<1>6. Activity!SessionCounted'
  BY <1>2, <1>3, <1>4 DEF Activity!SessionCounted, Activity!Busy, Activity!Counted
<1>7. Activity!LineFresh' /\ (Held(line)' => timer' \in 0..(HOLD + 1 - line'.counted))
  BY <1>4 DEF Activity!LineFresh, Activity!LightActive, Activity!Visible, Held
<1> QED BY <1>3, <1>4, <1>5, <1>6, <1>7 DEF ActivityInv

LEMMA ActivityMarks ==
  ASSUME ActivityConstants, ActivityInv, NEW marker \in Activity!Markers, Activity!PromptMarker(marker)
  PROVE  ActivityInv'
<1> DEFINE busy == marker.kind = "C"
           t == Activity!OnBusyChange(line, busy, Activity!NoMeta)
<1>1. /\ latched' = TRUE /\ running' = busy /\ UNCHANGED <<polled, foreground, alive>> /\ alive
      /\ busy # running => Activity!Apply(t)
      /\ ~(busy # running) => UNCHANGED <<line, timer, rendered>>
  BY DEF Activity!PromptMarker, Activity!StepPrompt
<1>2. Activity!SessionCounted'
  BY <1>1 DEF Activity!SessionCounted
<1>3. CASE busy # running
  <2>1. Transition(t) /\ (busy => Activity!Busy(t[1]))
    <3>1. Activity!NoMeta.name \in Activity!Names
      BY DEF Activity!NoMeta, Activity!Names
    <3>2. CASE busy = TRUE
      BY <3>1, <3>2, BusyRises DEF ActivityInv
    <3>3. CASE busy = FALSE
      BY <3>1, <3>3, BusyFalls DEF ActivityInv
    <3> QED BY <3>2, <3>3
  <2>2. busy \in BOOLEAN
    OBVIOUS
  <2> HIDE DEF t, busy
  <2>3. /\ line' = t[1] /\ line' \in LineState /\ timer' \in Int /\ rendered' \in BOOLEAN
        /\ rendered' <=> Activity!LightActive(t[1])
        /\ Held(t[1]) => timer' \in 0..(HOLD + 1 - t[1].counted)
    BY <1>1, <1>3, <2>1, Applied
  <2>4. Activity!GuardSeesJob'
    BY <1>1, <2>1, <2>3 DEF Activity!GuardSeesJob, Activity!Busy
  <2>5. Activity!LineFresh' /\ (Held(line)' => timer' \in 0..(HOLD + 1 - line'.counted))
    BY <2>3 DEF Activity!LineFresh, Activity!LightActive, Activity!Visible, Held
  <2> QED BY <1>1, <1>2, <2>2, <2>3, <2>4, <2>5 DEF ActivityInv
<1>4. CASE ~(busy # running)
  <2> HIDE DEF t
  <2>1. Activity!GuardSeesJob'
    BY <1>1, <1>4 DEF ActivityInv, Activity!GuardSeesJob, Activity!Busy
  <2> QED
    BY <1>1, <1>2, <1>4, <2>1 DEF ActivityInv, Activity!LineFresh, Activity!LightActive,
       Activity!Visible, Held
<1> QED BY <1>3, <1>4

LEMMA ActivityStep ==
  ASSUME ActivityConstants, ActivityInv, [Activity!Next]_(Activity!vars)
  PROVE  ActivityInv'
<1> USE DEF ActivityInv
<1>1. CASE Activity!TimerFires
  BY <1>1, DeadlinePasses, KeptJob DEF Activity!TimerFires, Activity!Quiet
<1>2. CASE Activity!FlashEnds \/ UNCHANGED Activity!vars
  BY <1>2 DEF Activity!FlashEnds, Activity!vars, Activity!GuardSeesJob, Activity!SessionCounted,
     Activity!LineFresh, Activity!LightActive, Activity!Visible, Activity!Busy, Activity!Counted, Held
<1>3. CASE Activity!Tick
  BY <1>3, ActivityTicks
<1>4. CASE Activity!ToggleActivity
  BY <1>4, ToggleComes, KeptJob DEF Activity!ToggleActivity
<1>5. CASE Activity!Dispose
  <2>1. Activity!Fresh \in LineState
    BY AgesAre, PhasesAre DEF LineState, Activity!Fresh, Activity!Names
  <2>2. /\ line' = Activity!Fresh /\ timer' = -1 /\ ~rendered' /\ rendered' \in BOOLEAN /\ ~alive' /\ alive' \in BOOLEAN
        /\ polled' = FALSE /\ latched' = FALSE /\ running' = FALSE
    BY <1>5 DEF Activity!Dispose, Activity!NoTimer
  <2>3. /\ Activity!Fresh.phase = "idle" /\ Activity!Fresh.override = "none"
    BY DEF Activity!Fresh
  <2>4. Activity!LineFresh' /\ ~Held(line)'
    BY <2>2, <2>3 DEF Activity!LineFresh, Activity!LightActive, Activity!Visible, Held
  <2>5. Activity!GuardSeesJob' /\ Activity!SessionCounted'
    BY <2>2 DEF Activity!GuardSeesJob, Activity!SessionCounted
  <2>6. line' \in LineState /\ timer' \in Int
    BY <2>1, <2>2
  <2> QED BY <2>2, <2>4, <2>5, <2>6
<1>6. CASE \E busy \in BOOLEAN, m \in METAS \cup {Activity!NoMeta} : Activity!SessionActivity(busy, m)
  BY <1>6, ActivityReports
<1>7. CASE \E name \in Activity!Names \ {"?"} : Activity!TitleHint(name)
  BY <1>7, ActivityHints
<1>8. CASE \E marker \in Activity!Markers : Activity!PromptMarker(marker)
  BY <1>8, ActivityMarks
<1>9. CASE \E submitted \in BOOLEAN : Activity!Input(submitted)
  BY <1>9, InputComes, KeptJob DEF Activity!Input, Activity!Quiet
<1>10. CASE \E large \in BOOLEAN : Activity!Output(large)
  BY <1>10, OutputComes, KeptJob DEF Activity!Output, Activity!Quiet
<1> QED BY <1>1, <1>2, <1>3, <1>4, <1>5, <1>6, <1>7, <1>8, <1>9, <1>10 DEF Activity!Next

(* The close guard sees the job, what is drawn is what lightActive says,   *)
(* and the counter has the line's program, for any delays and any metadata *)
(* (applyActivityTransition, isBusy, onSessionActivity, onTitleHint).      *)
THEOREM ActivityIsTrue ==
  ASSUME ActivityConstants
  PROVE  Activity!Spec => [](Activity!GuardSeesJob /\ Activity!LineFresh /\ Activity!SessionCounted)
<1>1. Activity!Init => ActivityInv
  BY ActivityStart
<1>2. ActivityInv /\ [Activity!Next]_(Activity!vars) => ActivityInv'
  BY ActivityStep
<1>3. ActivityInv => Activity!GuardSeesJob /\ Activity!LineFresh /\ Activity!SessionCounted
  BY DEF ActivityInv
<1> QED BY <1>1, <1>2, <1>3, PTL DEF Activity!Spec

-----------------------------------------------------------------------------
(* The updater.                                                            *)

\* A toggle of the settings window is still on its way to the authority.
Toggled(q) == \E n \in 1..Len(q) : q[n].type = "setAutoCheck"

\* A projection that was told anything has the authority's state, or it is the last snapshot
\* on its way, or a toggle that the authority will answer with one is.
UpdaterInv ==
  /\ up \in Updater!States /\ mirror \in Updater!States /\ pending \in Updater!Offers
  /\ toMain \in Seq(Updater!Commands) /\ toSettings \in Seq(Updater!States)
  /\ connected \in BOOLEAN /\ told \in BOOLEAN /\ prefs.autoCheck \in BOOLEAN
  /\ ~connected => ~told /\ toSettings = <<>>
  /\ told => IF toSettings = <<>> THEN mirror = up \/ Toggled(toMain)
                                  ELSE toSettings[Len(toSettings)] = up

LEMMA UpdaterStart == Updater!Init => UpdaterInv
<1> SUFFICES ASSUME Updater!Init
             PROVE  UpdaterInv
  OBVIOUS
<1>1. prefs.autoCheck \in BOOLEAN
  BY DEF Updater!Init
<1>2. up \in Updater!States /\ mirror = up /\ pending \in Updater!Offers
  BY <1>1 DEF Updater!Init, Updater!InitialUpdateState, Updater!States, Updater!Statuses,
     Updater!Offers, Updater!None
<1>3. toMain \in Seq(Updater!Commands) /\ toSettings \in Seq(Updater!States)
  BY DEF Updater!Init
<1> QED BY <1>1, <1>2, <1>3 DEF Updater!Init, UpdaterInv

(* What the reducer is given and returns.                                  *)
LEMMA Reduced ==
  ASSUME NEW s \in Updater!States, NEW v \in Updater!Offers
  PROVE  /\ {Updater!CheckStarted(s), Updater!FoundUpToDate(s), Updater!FoundAvailable(s, v),
             Updater!DownloadStarted(s), Updater!DownloadReady(s), Updater!Failed(s),
             Updater!Skipped(s, v)} \subseteq Updater!States
         /\ s.status # "available" => Updater!DownloadStarted(s) = s
         /\ s.status # "downloading" => Updater!DownloadReady(s) = s
<1>1. /\ s \in [status : Updater!Statuses, info : Updater!Offers, dismissed : Updater!Offers,
               auto : BOOLEAN]
      /\ {"idle", "checking", "up-to-date", "available", "downloading", "ready", "error"}
           \subseteq Updater!Statuses
      /\ Updater!None \in Updater!Offers
  BY DEF Updater!States, Updater!Statuses, Updater!Offers
<1>2. /\ Updater!CheckStarted(s) \in Updater!States
      /\ Updater!Failed(s) \in Updater!States
  BY <1>1 DEF Updater!CheckStarted, Updater!Failed, Updater!States
<1>3. /\ Updater!FoundUpToDate(s) \in Updater!States
      /\ Updater!FoundAvailable(s, v) \in Updater!States
  BY <1>1 DEF Updater!FoundUpToDate, Updater!FoundAvailable, Updater!States
<1>4. Updater!Skipped(s, v) \in Updater!States
  BY <1>1 DEF Updater!Skipped, Updater!States
<1>5. /\ Updater!DownloadStarted(s) \in Updater!States
      /\ s.status # "available" => Updater!DownloadStarted(s) = s
  BY <1>1 DEF Updater!DownloadStarted, Updater!States
<1>6. /\ Updater!DownloadReady(s) \in Updater!States
      /\ s.status # "downloading" => Updater!DownloadReady(s) = s
  BY <1>1 DEF Updater!DownloadReady, Updater!States
<1> QED BY <1>2, <1>3, <1>4, <1>5, <1>6

(* The end of a queue that grows or shrinks.                               *)
LEMMA EndOf ==
  ASSUME NEW S, NEW q \in Seq(S), NEW r \in Seq(S)
  PROVE  /\ q \o r \in Seq(S)
         /\ r # <<>> => q \o r # <<>> /\ (q \o r)[Len(q \o r)] = r[Len(r)]
         /\ q # <<>> => /\ Tail(q) \in Seq(S) /\ Head(q) \in S /\ Head(q) = q[1]
                        /\ Tail(q) = <<>> => Len(q) = 1
                        /\ Tail(q) # <<>> => Tail(q)[Len(Tail(q))] = q[Len(q)]
<1>1. /\ q \o r \in Seq(S) /\ Len(q) \in Nat /\ Len(r) \in Nat /\ Len(q \o r) = Len(q) + Len(r)
      /\ \A i \in 1..Len(r) : (q \o r)[Len(q) + i] = r[i]
  BY ConcatProperties, LenProperties
<1>2. ASSUME r # <<>>
      PROVE  q \o r # <<>> /\ (q \o r)[Len(q \o r)] = r[Len(r)]
  BY <1>1, <1>2, EmptySeq
<1>3. ASSUME q # <<>>
      PROVE  /\ Tail(q) \in Seq(S) /\ Head(q) \in S /\ Head(q) = q[1]
             /\ Tail(q) = <<>> => Len(q) = 1
             /\ Tail(q) # <<>> => Tail(q)[Len(Tail(q))] = q[Len(q)]
  <2>1. /\ Tail(q) \in Seq(S) /\ Head(q) \in S /\ Head(q) = q[1] /\ Len(Tail(q)) = Len(q) - 1
        /\ Len(q) \in Nat /\ \A i \in 1..Len(Tail(q)) : Tail(q)[i] = q[i + 1]
    BY <1>3, HeadTailProperties, LenProperties
  <2>2. Tail(q) # <<>> => Len(Tail(q)) \in Nat \ {0}
    BY <2>1, EmptySeq, LenProperties
  <2>3. Tail(q) = <<>> => Len(Tail(q)) = 0
    BY EmptySeq
  <2> QED BY <2>1, <2>2, <2>3
<1> QED BY <1>1, <1>2, <1>3

\* What a step of the authority leaves of the projection, if it took no toggle.
Answered ==
  /\ up' \in Updater!States /\ toSettings' \in Seq(Updater!States) /\ told' \in BOOLEAN
  /\ ~connected => told' = told /\ toSettings' = toSettings
  /\ \/ up' = up /\ told' = told /\ toSettings' = toSettings
     \/ connected => toSettings' # <<>> /\ toSettings'[Len(toSettings')] = up'

LEMMA SnapshotsSent ==
  ASSUME UpdaterInv, NEW snapshots \in Seq(Updater!States), snapshots # <<>>,
         Updater!Send(snapshots), up' = snapshots[Len(snapshots)], up' \in Updater!States
  PROVE  Answered
<1>1. CASE connected
  <2>1. toSettings' = toSettings \o snapshots /\ told' = TRUE
    BY <1>1 DEF Updater!Send
  <2>2. toSettings \in Seq(Updater!States)
    BY DEF UpdaterInv
  <2>3. /\ toSettings' \in Seq(Updater!States) /\ toSettings' # <<>>
        /\ toSettings'[Len(toSettings')] = up'
    BY <2>1, <2>2, EndOf
  <2> QED BY <1>1, <2>1, <2>3 DEF Answered
<1>2. CASE ~connected
  BY <1>2 DEF Updater!Send, UpdaterInv, Answered
<1> QED BY <1>1, <1>2

(* Every new state is broadcast, and so is the download that it starts.    *)
LEMMA DispatchAnswers ==
  ASSUME UpdaterInv, NEW s \in Updater!States, NEW changed \in BOOLEAN, NEW handle, NEW under,
         ~changed => s = up, Updater!Dispatch(s, changed, handle, under)
  PROVE  Answered /\ (changed /\ connected => toSettings' # <<>>)
<1> DEFINE auto == /\ changed /\ s.status = "available" /\ s.info # Updater!None
                   /\ prefs.autoDownload /\ s.dismissed # s.info /\ autoDone # s.info
           starts == auto /\ handle # Updater!None
           next == IF starts THEN Updater!DownloadStarted(s) ELSE s
           told2 == IF starts THEN <<s, next>> ELSE <<s>>
<1>1. /\ up' = next
      /\ IF changed THEN Updater!Send(told2) ELSE UNCHANGED <<toSettings, told>>
  BY DEF Updater!Dispatch
<1>2. next \in Updater!States /\ (starts => changed)
  BY Reduced DEF Updater!Offers
<1>3. told2 \in Seq(Updater!States) /\ told2 # <<>> /\ told2[Len(told2)] = next
  <2>1. CASE starts
    BY <2>1, <1>2
  <2>2. CASE ~starts
    BY <2>2, <1>2
  <2> QED BY <2>1, <2>2
<1> HIDE DEF auto, starts, next, told2
<1>4. CASE changed
  <2>1. Answered
    BY <1>1, <1>2, <1>3, <1>4, SnapshotsSent
  <2>2. connected => toSettings' # <<>>
    BY <1>1, <1>3, <1>4, EndOf DEF Updater!Send, UpdaterInv
  <2> QED BY <2>1, <2>2
<1>5. CASE ~changed
  <2>1. next = up
    BY <1>2, <1>5 DEF next
  <2> QED BY <1>1, <1>5, <2>1 DEF Answered, UpdaterInv
<1> QED BY <1>4, <1>5

LEMMA UpdaterStep ==
  ASSUME UpdaterInv, [Updater!Next]_(Updater!vars)
  PROVE  UpdaterInv'
<1> USE DEF UpdaterInv
<1>0. ASSUME Answered, pending' \in Updater!Offers, prefs'.autoCheck \in BOOLEAN,
             UNCHANGED <<mirror, connected, toMain>>
      PROVE  UpdaterInv'
  BY <1>0 DEF Answered, Toggled
<1>1. ASSUME Updater!CheckNow
      PROVE  Answered /\ pending' = pending /\ prefs' = prefs
  BY <1>1, DispatchAnswers, Reduced DEF Updater!CheckNow
<1>2. ASSUME NEW due \in BOOLEAN, Updater!Schedule(due)
      PROVE  UpdaterInv'
  <2>1. Answered /\ pending' = pending /\ prefs' = prefs
    BY <1>1, <1>2 DEF Updater!Schedule, Answered
  <2> QED BY <1>0, <1>2, <2>1 DEF Updater!Schedule
<1>3. CASE Updater!Serve \/ UNCHANGED Updater!vars
  <2>1. Answered /\ pending' = pending /\ prefs' = prefs
    BY <1>3 DEF Updater!Serve, Updater!vars, Updater!authority, Updater!projection,
       Updater!bounded, Answered
  <2> QED BY <1>0, <1>3, <2>1 DEF Updater!Serve, Updater!vars, Updater!authority,
             Updater!projection, Updater!bounded
<1>4. ASSUME NEW answer \in Updater!Offers \cup {"error"}, Updater!CheckResolves(answer)
      PROVE  UpdaterInv'
  <2> DEFINE s == CASE answer = "error" -> Updater!Failed(up)
                    [] answer = Updater!None -> Updater!FoundUpToDate(up)
                    [] OTHER -> Updater!FoundAvailable(up, answer)
  <2>1. s \in Updater!States
    <3>1. CASE answer = "error"
      BY <3>1, Reduced DEF Updater!None
    <3>2. CASE answer # "error"
      BY <3>2, Reduced
    <3> QED BY <3>1, <3>2
  <2>2. Updater!Dispatch(s, TRUE, pending', downloads) /\ pending' \in Updater!Offers /\ prefs' = prefs
        /\ UNCHANGED <<mirror, connected, toMain>>
    BY <1>4 DEF Updater!CheckResolves
  <2> HIDE DEF s
  <2>3. Answered
    BY <2>1, <2>2, DispatchAnswers
  <2> QED BY <1>0, <2>2, <2>3
<1>5. ASSUME NEW v \in OFFERED, NEW ok \in BOOLEAN, Updater!DownloadEnds(v, ok)
      PROVE  UpdaterInv'
  <2> DEFINE s == IF ok THEN Updater!DownloadReady(up) ELSE Updater!Failed(up)
             changed == ok => up.status = "downloading"
  <2>1. s \in Updater!States /\ (~changed => s = up) /\ changed \in BOOLEAN
    BY Reduced
  <2>2. \E under : Updater!Dispatch(s, changed, pending, under)
    BY <1>5 DEF Updater!DownloadEnds
  <2> HIDE DEF s, changed
  <2>3. Answered
    BY <2>1, <2>2, DispatchAnswers
  <2> QED BY <1>0, <1>5, <2>3 DEF Updater!DownloadEnds
<1>6. ASSUME Updater!Download \/ Updater!Restart \/ Updater!Skip
      PROVE  Answered /\ pending' = pending /\ prefs' = prefs
  <2>1. CASE Updater!Download
    <3> DEFINE s == Updater!DownloadStarted(up)
               changed == up.status = "available"
    <3>1. s \in Updater!States /\ (~changed => s = up) /\ changed \in BOOLEAN
      BY Reduced
    <3>2. CASE pending = Updater!None
      BY <2>1, <3>2 DEF Updater!Download, Answered
    <3>3. CASE pending # Updater!None
      <4>1. \E under : Updater!Dispatch(s, changed, pending, under)
        BY <2>1, <3>3 DEF Updater!Download
      <4> HIDE DEF s, changed
      <4> QED BY <2>1, <3>1, <4>1, DispatchAnswers DEF Updater!Download
    <3> QED BY <3>2, <3>3
  <2>2. CASE Updater!Restart
    BY <2>2, DispatchAnswers, Reduced DEF Updater!Restart
  <2>3. CASE Updater!Skip
    <3>1. CASE pending = Updater!None
      BY <2>3, <3>1 DEF Updater!Skip, Answered
    <3>2. CASE pending # Updater!None
      BY <2>3, <3>2, DispatchAnswers, Reduced DEF Updater!Skip
    <3> QED BY <3>1, <3>2
  <2> QED BY <1>6, <2>1, <2>2, <2>3
<1>7. CASE Updater!TakeMessage
  <2> DEFINE cmd == Head(toMain)
  <2>1. /\ toMain # <<>> /\ toMain' = Tail(toMain) /\ toMain' \in Seq(Updater!Commands)
        /\ cmd \in Updater!Commands /\ UNCHANGED <<mirror, connected>>
    BY <1>7, EndOf DEF Updater!TakeMessage
  <2>2. cmd.type # "setAutoCheck" /\ Toggled(toMain) => Toggled(toMain')
    <3>1. /\ Len(toMain) \in Nat /\ Len(toMain') = Len(toMain) - 1 /\ cmd = toMain[1]
          /\ \A i \in 1..Len(toMain') : toMain'[i] = toMain[i + 1]
      BY <2>1, HeadTailProperties, LenProperties
    <3>2. ASSUME cmd.type # "setAutoCheck", NEW n \in 1..Len(toMain), toMain[n].type = "setAutoCheck"
          PROVE  \E k \in 1..Len(toMain') : toMain'[k].type = "setAutoCheck"
      <4>1. n # 1 /\ n - 1 \in 1..Len(toMain') /\ toMain'[n - 1] = toMain[n]
        BY <3>1, <3>2
      <4> QED BY <3>2, <4>1
    <3> QED BY <3>2 DEF Toggled
  <2>3. CASE ~served /\ told' = FALSE /\ UNCHANGED <<up, pending, prefs, toSettings>>
    BY <2>1, <2>3
  <2>4. ASSUME cmd.type # "setAutoCheck", Answered, pending' = pending, prefs' = prefs
        PROVE  UpdaterInv'
    BY <2>1, <2>2, <2>4 DEF Answered
  <2>5. CASE cmd.type = "request" /\ Updater!Send(<<up>>) /\ UNCHANGED <<up, pending, prefs>>
    <3>1. <<up>> \in Seq(Updater!States) /\ <<up>> # <<>> /\ <<up>>[Len(<<up>>)] = up
      OBVIOUS
    <3>2. Answered
      BY <2>5, <3>1, SnapshotsSent
    <3> QED BY <2>4, <2>5, <3>2
  <2>6. CASE cmd.type = "checkNow" /\ Updater!CheckNow
    BY <1>1, <2>4, <2>6
  <2>7. CASE cmd.type \in {"download", "restart", "skip"}
             /\ (Updater!Download \/ Updater!Restart \/ Updater!Skip)
    BY <1>6, <2>4, <2>7
  <2>8. CASE cmd.type = "setAutoCheck" /\ Updater!SetAutoCheck(cmd.enabled)
    <3>1. cmd.enabled \in BOOLEAN
      BY <2>1, <2>8 DEF Updater!Commands
    <3>2. [up EXCEPT !.auto = cmd.enabled] \in Updater!States
      BY <3>1 DEF Updater!States
    <3>3. Answered /\ (connected => toSettings' # <<>>)
      BY <2>8, <3>2, DispatchAnswers DEF Updater!SetAutoCheck
    <3>4. pending' = pending /\ prefs'.autoCheck \in BOOLEAN
      BY <2>8, <3>1 DEF Updater!SetAutoCheck
    <3> QED BY <2>1, <3>3, <3>4, <2>8 DEF Answered
  <2> QED BY <1>7, <2>3, <2>5, <2>6, <2>7, <2>8 DEF Updater!TakeMessage
<1>8. ASSUME NEW c \in Updater!Commands, toMain' = Append(toMain, c)
      PROVE  /\ toMain' \in Seq(Updater!Commands) /\ (Toggled(toMain) => Toggled(toMain'))
             /\ c.type = "setAutoCheck" => Toggled(toMain')
  BY <1>8, AppendProperties, LenProperties DEF Toggled
<1>9. CASE Updater!Connect
  <2>1. [type |-> "request"] \in Updater!Commands
    BY DEF Updater!Commands
  <2> QED BY <1>8, <1>9, <2>1 DEF Updater!Connect, Updater!authority
<1>10. CASE Updater!CloseSettings
  <2>1. Updater!InitialUpdateState(prefs.autoCheck) \in Updater!States
    BY DEF Updater!InitialUpdateState, Updater!States, Updater!Statuses, Updater!Offers, Updater!None
  <2>2. /\ UNCHANGED <<up, pending, prefs, toMain>> /\ toSettings' = <<>>
        /\ connected' = FALSE /\ told' = FALSE
        /\ mirror' = Updater!InitialUpdateState(prefs.autoCheck)
    BY <1>10 DEF Updater!CloseSettings, Updater!authority
  <2>3. toSettings' \in Seq(Updater!States)
    BY <2>2
  <2> QED BY <2>1, <2>2, <2>3
<1>11. CASE Updater!TakeSnapshot
  BY <1>11, EndOf DEF Updater!TakeSnapshot, Updater!authority, Updater!bounded
<1>12. CASE Updater!ToggleAutoDownload
  BY <1>12 DEF Updater!ToggleAutoDownload, Updater!projection, Toggled
<1>13. ASSUME NEW type \in {"checkNow", "download", "restart", "skip"}, Updater!Click(type)
       PROVE  UpdaterInv'
  <2>1. [type |-> type] \in Updater!Commands
    BY DEF Updater!Commands
  <2> QED BY <1>8, <1>13, <2>1 DEF Updater!Click, Updater!authority, Updater!projection
<1>14. ASSUME NEW enabled \in BOOLEAN, Updater!ToggleAutoCheck(enabled)
       PROVE  UpdaterInv'
  <2> DEFINE c == [type |-> "setAutoCheck", enabled |-> enabled]
  <2>1. c \in Updater!Commands /\ c.type = "setAutoCheck"
    BY DEF Updater!Commands
  <2>2. [mirror EXCEPT !.auto = enabled] \in Updater!States
    BY DEF Updater!States
  <2> QED BY <1>8, <1>14, <2>1, <2>2 DEF Updater!ToggleAutoCheck, Updater!authority
<1> QED BY <1>2, <1>3, <1>4, <1>5, <1>7, <1>9, <1>10, <1>11, <1>12, <1>13, <1>14 DEF Updater!Next

LEMMA UpdaterTells == ASSUME UpdaterInv PROVE Updater!MirrorSettles
BY DEF UpdaterInv, Updater!MirrorSettles, Toggled

(* Once the bus is quiet a projection that was told anything shows the     *)
(* authority's state, for any versions offered and any number of commands  *)
(* and openings (useUpdateAuthority, useUpdateMirror).                     *)
THEOREM MirrorIsTrue == Updater!Spec => []Updater!MirrorSettles
<1>1. UpdaterInv /\ [Updater!Next]_(Updater!vars) => UpdaterInv'
  BY UpdaterStep
<1>2. UpdaterInv => Updater!MirrorSettles
  BY UpdaterTells
<1> QED BY UpdaterStart, <1>1, <1>2, PTL DEF Updater!Spec

-----------------------------------------------------------------------------
(* Copy on select.                                                         *)

\* What may be selected is no marker of the model's.
CopyConstants == Copy!Nothing \notin TEXTS /\ Copy!Empty \notin TEXTS

GestureMachines ==
  [on : {TRUE}, dragging : BOOLEAN, dirty : BOOLEAN, last : TEXTS \cup {Copy!Nothing},
   debounce : BOOLEAN, deferred : Copy!Selections \cup {Copy!Nothing}, softAbort : BOOLEAN]
Tasks ==
  {<<>>, <<"up">>, <<"cancel">>, <<"lost">>, <<"up", "lost">>, <<"lost", "up">>,
   <<"cancel", "lost">>}

\* How far the gesture that began last has come, by the events that are still to be delivered.
CopyInv ==
  /\ watch \in {Copy!Detached} \cup GestureMachines
  /\ events \in Tasks /\ selection \in Copy!Selections
  /\ captured \in BOOLEAN /\ fallback \in BOOLEAN
  /\ ~watch.on => gesture = "none"
  /\ watch.on =>
       /\ gesture \in {"none", "held", "changed", "released", "aborted"}
       /\ gesture \in {"held", "changed", "released"} => watch.last = Copy!Nothing
       /\ gesture \in {"held", "changed"} =>
            /\ events = <<>> /\ watch.dragging /\ ~watch.debounce /\ ~watch.softAbort
            /\ watch.deferred = Copy!Nothing
       /\ gesture = "changed" => watch.dirty
       /\ gesture = "released" =>
            \/ watch.deferred \in TEXTS /\ (events = <<>> \/ (events = <<"lost">> /\ ~watch.dragging))
            \/ /\ watch.dragging /\ watch.dirty /\ selection \in TEXTS
               /\ events \in {<<"up">>, <<"up", "lost">>, <<"lost", "up">>}
       /\ gesture = "aborted" =>
            /\ ~watch.debounce /\ watch.deferred = Copy!Nothing
            /\ watch.dragging => events \in {<<"cancel">>, <<"cancel", "lost">>}

LEMMA CopyStart == Copy!Init => CopyInv
<1> SUFFICES ASSUME Copy!Init
             PROVE  CopyInv
  OBVIOUS
<1>1. Copy!Idle \in GestureMachines /\ Copy!Idle.on /\ ~Copy!Detached.on
  BY DEF Copy!Idle, Copy!Detached, GestureMachines, Copy!Nothing
<1>2. watch \in {Copy!Detached} \cup GestureMachines
  BY <1>1 DEF Copy!Init
<1>3. events \in Tasks /\ selection \in Copy!Selections
  BY DEF Copy!Init, Tasks, Copy!Selections
<1> QED BY <1>2, <1>3 DEF Copy!Init, CopyInv

(* A machine that is on is one of these records, whatever a handler makes  *)
(* of it.                                                                  *)
LEMMA MachineIs ==
  ASSUME watch \in {Copy!Detached} \cup GestureMachines
  PROVE  /\ watch.on \in BOOLEAN /\ (watch.on => watch \in GestureMachines)
         /\ ~watch.on => watch = Copy!Detached
<1>1. CASE watch = Copy!Detached
  <2>1. watch.on = FALSE
    BY <1>1 DEF Copy!Detached
  <2> QED BY <1>1, <2>1
<1>2. CASE watch \in GestureMachines
  <2>1. watch.on = TRUE
    BY <1>2 DEF GestureMachines
  <2> QED BY <1>2, <2>1
<1> QED BY <1>1, <1>2

(* What the delivery of its first event leaves of a task.                  *)
LEMMA TaskDelivered ==
  ASSUME NEW task \in Tasks, task # <<>>
  PROVE  /\ Tail(task) \in Tasks
         /\ \/ Head(task) = "up" /\ task \in {<<"up">>, <<"up", "lost">>} /\ Tail(task) \in {<<>>, <<"lost">>}
            \/ Head(task) = "cancel" /\ task \in {<<"cancel">>, <<"cancel", "lost">>}
               /\ Tail(task) \in {<<>>, <<"lost">>}
            \/ Head(task) = "lost" /\ task = <<"lost">> /\ Tail(task) = <<>>
            \/ Head(task) = "lost" /\ task = <<"lost", "up">> /\ Tail(task) = <<"up">>
<1>1. /\ Head(<<"up">>) = "up" /\ Tail(<<"up">>) = <<>>
      /\ Head(<<"cancel">>) = "cancel" /\ Tail(<<"cancel">>) = <<>>
      /\ Head(<<"lost">>) = "lost" /\ Tail(<<"lost">>) = <<>>
  OBVIOUS
<1>2. /\ Head(<<"up", "lost">>) = "up" /\ Tail(<<"up", "lost">>) = <<"lost">>
      /\ Head(<<"cancel", "lost">>) = "cancel" /\ Tail(<<"cancel", "lost">>) = <<"lost">>
      /\ Head(<<"lost", "up">>) = "lost" /\ Tail(<<"lost", "up">>) = <<"up">>
  OBVIOUS
<1> QED BY <1>1, <1>2, Zenon DEF Tasks

LEMMA TasksDiffer ==
  /\ <<"up">> # <<"lost">> /\ <<"up">> # <<"lost", "up">> /\ <<"up", "lost">> # <<"lost">>
  /\ <<"up", "lost">> # <<"lost", "up">> /\ <<"up">> # <<>> /\ <<"up", "lost">> # <<>>
  /\ <<"lost">> # <<"lost", "up">> /\ <<"lost">> # <<"up", "lost">> /\ <<"lost">> # <<>>
  /\ <<"cancel">> # <<>> /\ <<"cancel", "lost">> # <<>>
  /\ <<"cancel">> # <<"lost">> /\ <<"cancel">> # <<"lost", "up">>
  /\ <<"cancel", "lost">> # <<"lost">> /\ <<"cancel", "lost">> # <<"lost", "up">>
  /\ <<"cancel">> # <<"up">> /\ <<"cancel">> # <<"up", "lost">>
  /\ <<"cancel", "lost">> # <<"up">> /\ <<"cancel", "lost">> # <<"up", "lost">>
OBVIOUS

LEMMA CopyStep ==
  ASSUME CopyConstants, CopyInv, [Copy!Next]_(Copy!vars)
  PROVE  CopyInv'
<1> USE DEF CopyInv, Copy!Attached, Copy!Delivered
<1>0. /\ watch.on \in BOOLEAN /\ (watch.on => watch \in GestureMachines)
      /\ ~watch.on => watch = Copy!Detached
  BY MachineIs
<1>1. ASSUME NEW granted \in BOOLEAN, Copy!Press(granted)
      PROVE  CopyInv'
  BY <1>0, <1>1 DEF Copy!Press, Copy!OnPointerDown, Copy!ClearPending, GestureMachines, Copy!Nothing
<1>2. ASSUME NEW text \in Copy!Selections, Copy!Select(text)
      PROVE  CopyInv'
  BY <1>0, <1>2 DEF Copy!Select, Copy!OnSelectionChange, GestureMachines
<1>3. ASSUME NEW inside \in BOOLEAN, Copy!Release(inside)
      PROVE  CopyInv'
  BY <1>0, <1>3 DEF Copy!Release, GestureMachines, Tasks, Copy!Selections, Copy!Empty
<1>4. ASSUME NEW expired \in BOOLEAN, Copy!DebounceFires(expired)
      PROVE  CopyInv'
  <2> DEFINE m == [watch EXCEPT !.debounce = FALSE]
             text == IF selection # Copy!Empty THEN selection ELSE Copy!Empty
  <2>1. /\ events = <<>> /\ watch.on /\ watch \in GestureMachines /\ watch.debounce
        /\ UNCHANGED <<events, selection, captured, fallback>>
    BY <1>0, <1>4 DEF Copy!DebounceFires
  <2>2. CASE text = Copy!Empty \/ (text = m.last /\ ~expired)
    <3>1. watch' = m /\ gesture' = gesture
      BY <1>4, <2>2 DEF Copy!DebounceFires, Copy!CopyIfNew
    <3> QED BY <2>1, <2>2, <3>1 DEF GestureMachines, CopyConstants, Copy!Selections
  <2>3. CASE ~(text = Copy!Empty \/ (text = m.last /\ ~expired))
    <3>1. watch' = [m EXCEPT !.last = text] /\ gesture' = "none"
      BY <1>4, <2>3 DEF Copy!DebounceFires, Copy!CopyIfNew
    <3>2. text \in TEXTS
      BY <2>1, <2>3 DEF Copy!Selections, GestureMachines
    <3>3. watch' \in GestureMachines /\ watch'.on
      BY <2>1, <3>1, <3>2 DEF GestureMachines
    <3> QED BY <2>1, <3>1, <3>3
  <2> QED BY <2>2, <2>3
<1>5. ASSUME NEW expired \in BOOLEAN, Copy!DeferredFires(expired)
      PROVE  CopyInv'
  <2> DEFINE m == [watch EXCEPT !.deferred = Copy!Nothing]
             text == IF selection # Copy!Empty THEN selection ELSE watch.deferred
  <2>1. /\ events = <<>> /\ watch.on /\ watch \in GestureMachines /\ watch.deferred # Copy!Nothing
        /\ UNCHANGED <<events, selection, captured, fallback>>
    BY <1>0, <1>5 DEF Copy!DeferredFires
  <2>2. CASE text = Copy!Empty \/ (text = m.last /\ ~expired)
    <3>1. watch' = m /\ gesture' = gesture
      BY <1>5, <2>2 DEF Copy!DeferredFires, Copy!CopyIfNew
    <3> QED BY <2>1, <2>2, <3>1 DEF GestureMachines, CopyConstants, Copy!Selections
  <2>3. CASE ~(text = Copy!Empty \/ (text = m.last /\ ~expired))
    <3>1. watch' = [m EXCEPT !.last = text] /\ gesture' = "none"
      BY <1>5, <2>3 DEF Copy!DeferredFires, Copy!CopyIfNew
    <3>2. text \in TEXTS
      BY <2>1, <2>3 DEF Copy!Selections, GestureMachines
    <3>3. watch' \in GestureMachines /\ watch'.on
      BY <2>1, <3>1, <3>2 DEF GestureMachines
    <3> QED BY <2>1, <3>1, <3>3
  <2> QED BY <2>2, <2>3
<1>6. CASE Copy!Reflow
  BY <1>0, <1>6 DEF Copy!Reflow, Copy!Selections, Copy!Empty, CopyConstants
<1>7. CASE Copy!Cancel
  BY <1>0, <1>7 DEF Copy!Cancel, Tasks
<1>8. CASE Copy!Blur
  BY <1>0, <1>8 DEF Copy!Blur, Copy!OnCancel, Copy!Aborted, GestureMachines
<1>9. CASE Copy!Steal
  BY <1>0, <1>9 DEF Copy!Steal, Tasks
<1>10. CASE Copy!Deliver
  <2>1. /\ events \in Tasks \ {<<>>} /\ events' = Tail(events) /\ fallback' \in BOOLEAN
        /\ UNCHANGED <<captured, selection, gesture>> /\ watch' = Copy!On(Head(events), watch)
    BY <1>10 DEF Copy!Deliver
  <2>2. events' \in Tasks
    BY <2>1, TaskDelivered
  <2>3. CASE ~watch.on
    BY <1>0, <2>1, <2>2, <2>3 DEF Copy!On
  <2>4. CASE /\ watch.on /\ Head(events) = "up"
             /\ events \in {<<"up">>, <<"up", "lost">>} /\ events' \in {<<>>, <<"lost">>}
    <3>1. watch' = Copy!OnPointerUp(watch)
      BY <2>1, <2>4 DEF Copy!On
    <3>2. CASE ~watch.dragging
      <4>1. watch' = [watch EXCEPT !.softAbort = FALSE]
        BY <3>1, <3>2 DEF Copy!OnPointerUp
      <4>2. /\ watch' \in GestureMachines /\ watch'.on /\ ~watch'.dragging /\ watch'.last = watch.last
            /\ watch'.debounce = watch.debounce /\ watch'.deferred = watch.deferred
        BY <1>0, <2>4, <3>2, <4>1 DEF GestureMachines
      <4>3. gesture # "released" /\ gesture \notin {"held", "changed"}
        BY <2>4, <3>2, TasksDiffer
      <4> QED BY <2>1, <2>2, <2>4, <4>2, <4>3
    <3>3. CASE watch.dragging
      <4>1. watch' = [Copy!Aborted(watch) EXCEPT !.deferred = IF watch.dirty THEN selection ELSE @]
        BY <3>1, <3>3 DEF Copy!OnPointerUp
      <4>2. /\ watch' \in GestureMachines /\ watch'.on /\ ~watch'.dragging /\ watch'.last = watch.last
            /\ watch'.debounce = watch.debounce
            /\ watch'.deferred = IF watch.dirty THEN selection ELSE watch.deferred
        BY <1>0, <2>4, <4>1 DEF GestureMachines, Copy!Aborted
      <4>3. gesture \notin {"held", "changed", "aborted"}
        BY <2>4, <3>3, TasksDiffer
      <4>4. gesture = "released" => watch'.deferred \in TEXTS
        BY <2>4, <3>3, <4>2, TasksDiffer
      <4> QED BY <2>1, <2>2, <2>4, <4>2, <4>3, <4>4
    <3> QED BY <1>0, <2>4, <3>2, <3>3 DEF GestureMachines
  <2>5. CASE /\ watch.on /\ Head(events) = "cancel"
             /\ events \in {<<"cancel">>, <<"cancel", "lost">>} /\ events' \in {<<>>, <<"lost">>}
    <3>1. watch' = Copy!Aborted(watch)
      BY <2>1, <2>5 DEF Copy!On, Copy!OnCancel
    <3>2. /\ watch' \in GestureMachines /\ watch'.on /\ ~watch'.dragging /\ watch'.last = watch.last
          /\ watch'.debounce = watch.debounce /\ watch'.deferred = watch.deferred
      BY <1>0, <2>5, <3>1 DEF GestureMachines, Copy!Aborted
    <3>3. gesture \notin {"held", "changed", "released"}
      BY <2>5, TasksDiffer
    <3> QED BY <2>1, <2>2, <2>5, <3>2, <3>3
  <2>6. CASE /\ watch.on /\ Head(events) = "lost"
             /\ \/ events = <<"lost">> /\ events' = <<>>
                \/ events = <<"lost", "up">> /\ events' = <<"up">>
    <3>1. watch' = Copy!OnCaptureLost(watch)
      BY <2>1, <2>6 DEF Copy!On
    <3>2. /\ watch' \in GestureMachines /\ watch'.on /\ watch'.dragging = watch.dragging
          /\ watch'.last = watch.last /\ watch'.dirty = watch.dirty
          /\ watch'.debounce = watch.debounce /\ watch'.deferred = watch.deferred
      BY <1>0, <2>6, <3>1 DEF GestureMachines, Copy!OnCaptureLost
    <3>3. gesture \notin {"held", "changed"} /\ (gesture = "aborted" => ~watch.dragging)
      BY <2>6, TasksDiffer
    <3> QED BY <2>1, <2>2, <2>6, <3>2, <3>3, TasksDiffer
  <2> QED BY <1>0, <2>1, <2>3, <2>4, <2>5, <2>6, TaskDelivered
<1>11. CASE Copy!SoftAbortFires
  BY <1>0, <1>11 DEF Copy!SoftAbortFires, Copy!Aborted, GestureMachines
<1>12. CASE Copy!Toggle
  BY <1>0, <1>12 DEF Copy!Toggle, Copy!Detached, Copy!Idle, GestureMachines
<1>13. CASE Copy!CopyCommand \/ Copy!OtherWrites \/ UNCHANGED Copy!vars
  BY <1>0, <1>13 DEF Copy!CopyCommand, Copy!OtherWrites, Copy!vars
<1> QED BY <1>1, <1>2, <1>3, <1>4, <1>5, <1>6, <1>7, <1>8, <1>9, <1>10, <1>11, <1>12, <1>13
       DEF Copy!Next

(* A released gesture's text is kept until it is on the pasteboard and an  *)
(* aborted one has nothing pending, for any texts (copyOnSelect.ts).       *)
THEOREM CopyIsTrue ==
  ASSUME CopyConstants
  PROVE  Copy!Spec => []Copy!GestureOutcome
<1>1. CopyInv => Copy!GestureOutcome
  BY DEF CopyInv, Copy!GestureOutcome, Copy!Attached, Copy!Delivered
<1>2. CopyInv /\ [Copy!Next]_(Copy!vars) => CopyInv'
  BY CopyStep
<1> QED BY <1>1, <1>2, CopyStart, PTL DEF Copy!Spec

-----------------------------------------------------------------------------
(* The rows of the settings window.                                        *)

FormConstants ==
  /\ Form!System \notin LISTED /\ Form!Custom \notin LISTED
  /\ MIN_SIZE \in Int /\ MAX_SIZE \in Int /\ MIN_SIZE <= MAX_SIZE /\ TYPED \subseteq Int
  /\ MAX_MOUNTS \in Nat

\* A change from elsewhere, or from a page that is gone, is on its way.
Foreign == \E n \in 1..Len(news) : news[n].from # mount

\* The font that was asked for last; the questions to the backend that were.
Newest(l) == l.mount = mount /\ l.request = asked[mount]
Asks == {q \in queries : q.revision = revision}

FieldTexts ==
  IF row = "size" THEN {<<n>> : n \in Int} \cup {Form!Junk} ELSE {<<v>> : v \in Form!Values(row)}
News == [value : Form!Values(row), from : 0..MAX_MOUNTS]

FormTyped ==
  /\ row \in Form!Rows /\ onScreen \in BOOLEAN /\ hearing \in BOOLEAN /\ surprised \in BOOLEAN
  /\ {stored, file, chosen, value} \subseteq Form!Values(row) /\ listing \in {{}, LISTED}
  /\ mount \in 0..MAX_MOUNTS /\ (onScreen => mount > 0) /\ asked \in [1..MAX_MOUNTS -> Nat]
  /\ news \in Seq(News) /\ \A n \in 1..Len(news) : news[n].from <= mount
  /\ revision \in Nat /\ applied \in 0..revision
QueriesTyped ==
  \A q \in queries :
    q = [revision |-> q.revision, answer |-> q.answer] /\ q.revision \in 0..revision
LoadsTyped ==
  \A l \in loads :
    /\ l.mount \in 1..mount /\ l.request \in Nat /\ l.request <= asked[l.mount]
    /\ l.family \in LISTED

\* The last change on its way is the file's, and with none the snapshot is.
Backed == IF news = <<>> THEN stored = file ELSE news[Len(news)].value = file

\* A field that is not being typed in has the value it is given.
Drafted ==
  /\ focused \in BOOLEAN
  /\ Form!HasField => draft \in FieldTexts /\ (~focused => draft = Form!FieldValue)

\* A font on its way that no newer choice superseded is the one chosen.
Latest == onScreen => \A l \in loads : Newest(l) => l.family = chosen

Heard ==
  /\ hearing => row \in {"follow", "status"}
  /\ row = "status" => \A n \in 1..Len(news) : news[n].from = 0
  /\ row # "font" => loads = {}

\* The row shows the file's value, but for what is on its way.
Shows ==
  onScreen /\ ~surprised /\ row # "status" =>
    IF hearing THEN news = <<>> => value = file /\ chosen = file
    ELSE Foreign \/ (value = file /\ (chosen = file \/ \E l \in loads : Newest(l)))
ShellKnown ==
  onScreen /\ ~surprised /\ row = "shell" =>
    \/ Foreign
    \/ /\ \A q \in Asks : q.answer \in {Form!Unanswered, KIND[file]}
       /\ sort = KIND[file] \/ Asks # {}
StatusKnown ==
  onScreen /\ ~surprised /\ row = "status" /\ news = <<>> =>
    /\ \A q \in Asks : q.answer \in {Form!Unanswered, file}
    /\ applied = revision => sort = file

FormInv ==
  /\ FormTyped /\ QueriesTyped /\ LoadsTyped /\ Backed /\ Drafted /\ Latest /\ Heard
  /\ Shows /\ ShellKnown /\ StatusKnown

LEMMA ValuesAre ==
  ASSUME FormConstants, row \in Form!Rows
  PROVE  /\ row \in {"font", "shell"} => Form!System \in Form!Values(row) /\ LISTED \subseteq Form!Values(row)
         /\ row = "size" => Form!Values(row) = MIN_SIZE..MAX_SIZE
         /\ \A v \in Form!Values(row) : Form!Coerced(v) = v
         /\ \A n \in Int : Form!Clamped(n) \in MIN_SIZE..MAX_SIZE
BY DEF FormConstants, Form!Rows, Form!Values, Form!Coerced, Form!Clamped

LEMMA FormStart == ASSUME FormConstants, Form!Init PROVE FormInv
<1>1. FormTyped /\ QueriesTyped /\ LoadsTyped
  <2>1. news = <<>> /\ news \in Seq(News) /\ Len(news) = 0
    BY DEF Form!Init
  <2>2. asked \in [1..MAX_MOUNTS -> Nat] /\ mount = 0 /\ 0 \in 0..MAX_MOUNTS
    BY DEF Form!Init, FormConstants
  <2>3. /\ row \in Form!Rows /\ onScreen = FALSE /\ hearing = FALSE /\ surprised = FALSE /\ listing = {}
        /\ stored \in Form!Values(row) /\ file = stored /\ chosen = stored /\ value = stored
        /\ revision = 0 /\ applied = 0 /\ loads = {} /\ queries = {}
    BY DEF Form!Init
  <2>4. {stored, file, chosen, value} \subseteq Form!Values(row)
    BY <2>3
  <2>5. \A n \in 1..Len(news) : news[n].from <= mount
    BY <2>1
  <2>6. (onScreen => mount > 0) /\ revision \in Nat /\ applied \in 0..revision
    BY <2>3
  <2>7. FormTyped
    BY <2>1, <2>2, <2>3, <2>4, <2>5, <2>6 DEF FormTyped
  <2> QED BY <2>3, <2>7 DEF QueriesTyped, LoadsTyped
<1>2. ~Form!HasField /\ Drafted
  BY DEF Form!Init, Form!HasField, Drafted
<1>3. Backed /\ Latest /\ Heard /\ Shows /\ ShellKnown /\ StatusKnown
  BY DEF Form!Init, Backed, Latest, Heard, Shows, ShellKnown, StatusKnown
<1> QED BY <1>1, <1>2, <1>3 DEF FormInv

(* What the field is given to show may be in it.                           *)
LEMMA FieldIs ==
  ASSUME FormConstants, FormTyped, Form!HasField
  PROVE  Form!FieldValue \in FieldTexts
<1>1. row \in {"size", "font", "shell"}
  BY DEF Form!HasField
<1>2. CASE row = "size"
  BY <1>2, ValuesAre DEF Form!FieldValue, Form!Text, FieldTexts, FormTyped, FormConstants
<1>3. CASE row \in {"font", "shell"}
  BY <1>3, ValuesAre DEF Form!FieldValue, Form!Text, FieldTexts, FormTyped
<1> QED BY <1>1, <1>2, <1>3

(* The field that starts again from its value.                             *)
LEMMA Redrafted ==
  ASSUME FormConstants, Drafted, Form!Redraft, row' = row, row \in Form!Rows, value' \in Form!Values(row)
  PROVE  Drafted'
<1>1. ASSUME Form!HasField'
      PROVE  Form!FieldValue' \in FieldTexts'
  <2>1. row' \in {"size", "font", "shell"}
    BY <1>1 DEF Form!HasField
  <2>2. CASE row = "size"
    BY <2>2, ValuesAre DEF Form!FieldValue, Form!Text, FieldTexts, FormConstants
  <2>3. CASE row \in {"font", "shell"}
    BY <2>3, ValuesAre DEF Form!FieldValue, Form!Text, FieldTexts
  <2> QED BY <2>1, <2>2, <2>3
<1>2. focused' = (focused /\ Form!HasField') /\ focused' \in BOOLEAN
  BY DEF Form!Redraft
<1>3. FieldTexts' = FieldTexts
  BY DEF FieldTexts
<1>4. ASSUME Form!HasField'
      PROVE  draft' \in FieldTexts' /\ (~focused' => draft' = Form!FieldValue')
  <2>1. CASE Form!HasField /\ Form!FieldValue' = Form!FieldValue
    <3>1. draft' = draft
      BY <1>4, <2>1 DEF Form!Redraft
    <3> QED BY <1>2, <1>3, <1>4, <2>1, <3>1 DEF Drafted
  <2>2. CASE ~(Form!HasField /\ Form!FieldValue' = Form!FieldValue)
    <3>1. draft' = Form!FieldValue'
      BY <1>4, <2>2 DEF Form!Redraft
    <3> QED BY <1>1, <1>4, <3>1
  <2> QED BY <2>1, <2>2
<1> QED BY <1>2, <1>4 DEF Drafted

LEMMA DraftKept ==
  ASSUME Drafted, UNCHANGED <<row, onScreen, value, custom, listing, draft, focused>>
  PROVE  Drafted'
BY DEF Drafted, Form!HasField, Form!Selection, Form!IsListed, Form!FieldValue, FieldTexts

(* An event that is sent; the events that are not.                         *)
LEMMA Sent ==
  ASSUME FormConstants, FormTyped, Heard, NEW v \in Form!Values(row), NEW from \in 0..mount,
         news' = Append(news, [value |-> v, from |-> from]), UNCHANGED <<row, mount>>
  PROVE  /\ news' \in Seq(News') /\ \A n \in 1..Len(news') : news'[n].from <= mount'
         /\ news' # <<>> /\ news'[Len(news')].value = v
         /\ (Foreign => Foreign') /\ (from # mount => Foreign')
         /\ row # "status" \/ from = 0 =>
              (row' = "status" => \A n \in 1..Len(news') : news'[n].from = 0)
<1> DEFINE e == [value |-> v, from |-> from]
<1>1. mount \in Nat /\ MAX_MOUNTS \in Nat /\ mount <= MAX_MOUNTS
  BY DEF FormTyped, FormConstants
<1>2. e \in News /\ news \in Seq(News) /\ News' = News
  BY <1>1 DEF News, FormTyped
<1>3. /\ news' \in Seq(News) /\ Len(news) \in Nat /\ Len(news') = Len(news) + 1
      /\ \A i \in 1..Len(news) : news'[i] = news[i]
      /\ news'[Len(news) + 1] = e
  BY <1>2, AppendProperties, LenProperties
<1>4. news' # <<>> /\ news'[Len(news')].value = v
  BY <1>3, EmptySeq
<1>5. \A n \in 1..Len(news') : news'[n].from <= mount'
  BY <1>1, <1>3 DEF FormTyped
<1>6. (Foreign => Foreign') /\ (from # mount => Foreign')
  BY <1>3 DEF Foreign
<1>7. row # "status" \/ from = 0 =>
        (row' = "status" => \A n \in 1..Len(news') : news'[n].from = 0)
  BY <1>3 DEF Heard
<1> QED BY <1>2, <1>3, <1>4, <1>5, <1>6, <1>7

LEMMA IsSet ==
  ASSUME FormConstants, FormTyped, Heard, NEW v \in Form!Values(row), Form!Set(v), row # "status",
         UNCHANGED <<row, mount>>
  PROVE  /\ stored' = v /\ file' = v
         /\ news' \in Seq(News') /\ \A n \in 1..Len(news') : news'[n].from <= mount'
         /\ Backed' /\ news' # <<>> /\ (Foreign => Foreign')
<1>1. Form!Coerced(v) = v /\ mount \in 0..mount
  BY ValuesAre DEF FormTyped
<1>2. stored' = v /\ file' = v /\ news' = Append(news, [value |-> v, from |-> mount])
  BY <1>1 DEF Form!Set
<1> QED BY <1>1, <1>2, Sent DEF Backed

LEMMA NewsKept ==
  ASSUME FormTyped, Heard, Backed, UNCHANGED <<row, mount, news, stored, file>>
  PROVE  /\ News' = News /\ news' \in Seq(News') /\ \A n \in 1..Len(news') : news'[n].from <= mount'
         /\ Backed' /\ (Foreign' <=> Foreign)
         /\ row' = "status" => \A n \in 1..Len(news') : news'[n].from = 0
BY DEF FormTyped, Backed, News, Foreign, Heard

(* A page that is shown, and one that is not.                              *)
LEMMA FormMounts ==
  ASSUME FormConstants, FormInv, Form!Mount
  PROVE  FormInv'
<1> USE DEF FormInv
<1>1. /\ ~onScreen /\ mount < MAX_MOUNTS /\ row' = row /\ onScreen' = TRUE /\ mount' = mount + 1
      /\ hearing' = FALSE /\ listing' = {} /\ value' = stored /\ chosen' = stored
      /\ revision' = 1 /\ applied' = 0 /\ surprised' = FALSE
      /\ queries' = (IF row \in {"shell", "status"} THEN {Form!Question(1)} ELSE {})
      /\ Form!Redraft /\ UNCHANGED <<stored, file, news, asked, loads>>
  BY DEF Form!Mount
<1>2. /\ mount \in Nat /\ MAX_MOUNTS \in Nat /\ Len(news) \in Nat
      /\ \A n \in 1..Len(news) : news[n].from <= mount /\ news[n].from \in Nat
  <2>1. \A n \in 1..Len(news) : news[n] \in News
    BY DEF FormTyped
  <2> QED BY <2>1 DEF FormTyped, FormConstants, News
<1>3. Form!Question(1) = [revision |-> 1, answer |-> Form!Unanswered]
  BY DEF Form!Question
<1>4. FormTyped'
  <2>1. News' = News
    BY <1>1 DEF News
  <2>2. news' \in Seq(News') /\ \A n \in 1..Len(news') : news'[n].from <= mount'
    BY <1>1, <1>2, <2>1 DEF FormTyped
  <2>3. mount' \in 0..MAX_MOUNTS /\ mount' > 0 /\ applied' \in 0..revision' /\ revision' \in Nat
    BY <1>1, <1>2
  <2>4. {stored', file', chosen', value'} \subseteq Form!Values(row')
    BY <1>1 DEF FormTyped
  <2> QED BY <1>1, <2>2, <2>3, <2>4 DEF FormTyped
<1>5. QueriesTyped'
  BY <1>1, <1>3 DEF QueriesTyped
<1>6. LoadsTyped' /\ \A l \in loads : l.mount # mount'
  BY <1>1, <1>2 DEF LoadsTyped
<1>7. Backed' /\ Heard'
  BY <1>1 DEF Backed, Heard
<1>8. Drafted'
  BY <1>1, Redrafted DEF FormTyped
<1>9. Latest'
  BY <1>1, <1>6 DEF Latest, Newest
<1>10. CASE news = <<>>
  <2>1. stored = file
    BY <1>10 DEF Backed
  <2>2. Shows'
    BY <1>1, <2>1 DEF Shows
  <2>3. ShellKnown' /\ StatusKnown'
    BY <1>1, <1>3 DEF ShellKnown, StatusKnown, Asks
  <2> QED BY <1>4, <1>5, <1>6, <1>7, <1>8, <1>9, <2>2, <2>3
<1>11. CASE news # <<>>
  <2>1. 1 \in 1..Len(news) /\ news[1].from # mount'
    BY <1>1, <1>2, <1>11, EmptySeq DEF FormTyped
  <2>2. Foreign'
    BY <1>1, <2>1 DEF Foreign
  <2>3. Shows' /\ ShellKnown' /\ StatusKnown'
    BY <1>1, <1>3, <1>11, <2>2 DEF Shows, ShellKnown, StatusKnown
  <2> QED BY <1>4, <1>5, <1>6, <1>7, <1>8, <1>9, <2>3
<1> QED BY <1>10, <1>11

LEMMA FormUnmounts ==
  ASSUME FormConstants, FormInv, Form!Unmount
  PROVE  FormInv'
<1> USE DEF FormInv
<1>1. /\ ~onScreen' /\ onScreen' \in BOOLEAN /\ hearing' = FALSE /\ queries' = {} /\ focused' = FALSE
      /\ UNCHANGED <<row, mount, listing, stored, file, news, choices, chosen, value, custom,
                     revision, sort, applied, asked, loads, surprised>>
  BY DEF Form!Unmount, Form!values
<1>2. FormTyped' /\ QueriesTyped' /\ LoadsTyped' /\ Backed' /\ Heard'
  BY <1>1, NewsKept DEF FormTyped, QueriesTyped, LoadsTyped, Heard
<1>3. Drafted' /\ Latest' /\ Shows' /\ ShellKnown' /\ StatusKnown'
  BY <1>1 DEF Drafted, Form!HasField, Latest, Shows, ShellKnown, StatusKnown
<1> QED BY <1>2, <1>3

(* What changes nothing but the page's own state.                          *)
LEMMA PageChanges ==
  ASSUME FormConstants, FormInv, Drafted', listing' \in {{}, LISTED},
         hearing' \in BOOLEAN, hearing => hearing', hearing' => row \in {"follow", "status"},
         UNCHANGED <<row, onScreen, mount, stored, file, news, chosen, value, revision,
                     queries, sort, applied, asked, loads, surprised>>
  PROVE  FormInv'
<1> USE DEF FormInv
<1>1. FormTyped' /\ QueriesTyped' /\ LoadsTyped' /\ Backed' /\ Heard'
  BY NewsKept DEF FormTyped, QueriesTyped, LoadsTyped, Heard
<1>2. Latest' /\ ShellKnown' /\ StatusKnown'
  <2>1. Foreign' <=> Foreign
    BY NewsKept
  <2> QED BY <2>1 DEF Latest, Newest, ShellKnown, StatusKnown, Asks
<1>3. Shows'
  <2>1. CASE hearing' = hearing
    <3>1. Foreign' <=> Foreign
      BY NewsKept
    <3> QED BY <2>1, <3>1 DEF Shows, Newest
  <2>2. CASE hearing' /\ ~hearing
    <3>1. loads = {}
      BY <2>2 DEF Heard
    <3>2. news = <<>> => ~Foreign
      BY EmptySeq DEF Foreign
    <3> QED BY <2>2, <3>1, <3>2 DEF Shows
  <2> QED BY <2>1, <2>2 DEF FormTyped
<1> QED BY <1>1, <1>2, <1>3

(* A value that is set at once, with nothing of it on its way.             *)
LEMMA ValueSet ==
  ASSUME FormConstants, FormInv, NEW v \in Form!Values(row), Form!Set(v), onScreen, row # "status",
         value' = v, chosen' = v, Drafted',
         UNCHANGED <<row, onScreen, mount, listing, hearing, loads, surprised>>,
         \/ asked' = asked /\ loads = {}
         \/ asked' = [asked EXCEPT ![mount] = @ + 1],
         \/ UNCHANGED <<queries, revision, sort, applied>> /\ row # "shell"
         \/ Form!AskAgain
  PROVE  FormInv'
<1> USE DEF FormInv
<1>1. /\ stored' = v /\ file' = v
      /\ news' \in Seq(News') /\ \A n \in 1..Len(news') : news'[n].from <= mount'
      /\ Backed' /\ news' # <<>> /\ (Foreign => Foreign')
  BY IsSet
<1>2. /\ mount \in 1..MAX_MOUNTS /\ asked[mount] \in Nat /\ asked' \in [1..MAX_MOUNTS -> Nat]
      /\ \A m \in 1..MAX_MOUNTS : asked[m] \in Nat /\ asked[m] <= asked'[m]
      /\ loads = {} \/ asked'[mount] = asked[mount] + 1
  BY DEF FormTyped, FormConstants
<1>3. revision' \in Nat /\ applied' \in 0..revision' /\ revision <= revision'
  BY DEF FormTyped, Form!AskAgain
<1>4. FormTyped'
  BY <1>1, <1>2, <1>3 DEF FormTyped
<1>5. QueriesTyped'
  <2>1. CASE Form!AskAgain
    BY <1>3, <2>1 DEF QueriesTyped, Form!AskAgain, Form!Question, FormTyped
  <2>2. CASE UNCHANGED <<queries, revision, sort, applied>>
    BY <2>2 DEF QueriesTyped
  <2> QED BY <2>1, <2>2
<1>6. LoadsTyped' /\ \A l \in loads : l.mount = mount => l.request # asked'[mount]
  <2>1. \A l \in loads : l.mount \in 1..MAX_MOUNTS /\ l.request \in Nat /\ l.request <= asked[l.mount]
    BY DEF LoadsTyped, FormTyped, FormConstants
  <2> QED BY <1>2, <2>1 DEF LoadsTyped
<1>7. Latest'
  BY <1>6 DEF Latest, Newest
<1>8. Heard' /\ Shows' /\ StatusKnown'
  BY <1>1 DEF Heard, Shows, StatusKnown
<1>9. ShellKnown'
  <2>1. CASE row # "shell"
    BY <2>1 DEF ShellKnown
  <2>2. CASE Form!AskAgain
    <3>1. Asks' = {Form!Question(revision + 1)}
      BY <2>2 DEF Asks, Form!AskAgain, QueriesTyped, FormTyped, Form!Question
    <3> QED BY <3>1 DEF ShellKnown, Form!Question
  <2> QED BY <2>1, <2>2
<1> QED BY <1>1, <1>4, <1>5, <1>6, <1>7, <1>8, <1>9

(* What is chosen in the window.                                           *)
LEMMA FormChoices ==
  ASSUME FormConstants, FormInv,
         \/ \E v \in Form!Values(row) : Form!Choose(v)
         \/ \E v \in {Form!System, Form!Custom} \cup LISTED : Form!SelectShell(v)
         \/ Form!HasField /\ \E text \in Form!Values(row) : Form!CommitText(text)
         \/ \E n \in Int : Form!HasField /\ Form!CommitNumber(n)
         \/ \E n \in Int : Form!Step(n)
  PROVE  FormInv'
<1>0. /\ row \in Form!Rows /\ value \in Form!Values(row) /\ listing \in {{}, LISTED}
      /\ \A f \in {stored, file, chosen} : f \in Form!Values(row)
      /\ Drafted /\ (row # "font" => loads = {}) /\ hearing \in BOOLEAN
  BY DEF FormInv, FormTyped, Heard
<1>1. ASSUME NEW v \in Form!Values(row), Form!Choose(v)
      PROVE  FormInv'
  <2>1. Drafted'
    BY <1>0, <1>1 DEF Form!Choose, Form!page, Drafted, Form!HasField
  <2> QED BY <1>0, <1>1, <2>1, ValueSet DEF Form!Choose, Form!Choosing, Form!page, Form!questions
<1>2. ASSUME NEW v \in {Form!System, Form!Custom} \cup LISTED, Form!SelectShell(v)
      PROVE  FormInv'
  <2>1. CASE v = Form!Custom
    <3>1. value' = value /\ row' = row /\ Form!Redraft
      BY <1>2, <2>1 DEF Form!SelectShell
    <3>2. Drafted'
      BY <1>0, <3>1, Redrafted
    <3> QED BY <1>0, <1>2, <2>1, <3>2, PageChanges
            DEF Form!SelectShell, Form!page, Form!questions, FormInv, Heard
  <2>2. CASE v # Form!Custom
    <3>1. /\ row = "shell" /\ v \in {Form!System} \cup listing /\ value' = v /\ chosen' = v
          /\ Form!Set(v) /\ Form!AskAgain /\ onScreen /\ Form!Redraft
          /\ UNCHANGED <<row, onScreen, mount, listing, hearing, asked, loads, surprised>>
      BY <1>2, <2>2 DEF Form!SelectShell, Form!Choosing, Form!page
    <3>2. v \in Form!Values(row)
      BY <1>0, <3>1, ValuesAre
    <3>3. Drafted'
      BY <1>0, <3>1, <3>2, Redrafted
    <3> QED BY <1>0, <3>1, <3>2, <3>3, ValueSet
  <2> QED BY <2>1, <2>2
<1>3. ASSUME NEW text \in Form!Values(row), Form!CommitText(text)
      PROVE  FormInv'
  <2>1. /\ row \in {"font", "shell"} /\ value' = text /\ chosen' = text /\ Form!Set(text)
        /\ onScreen /\ Form!Redraft
        /\ UNCHANGED <<row, onScreen, mount, listing, hearing, loads, surprised>>
    BY <1>3 DEF Form!CommitText, Form!Choosing, Form!page
  <2>2. Drafted'
    BY <1>0, <2>1, Redrafted
  <2>3. CASE row = "font"
    <3>1. asked' = [asked EXCEPT ![mount] = @ + 1] /\ UNCHANGED <<queries, revision, sort, applied>>
      BY <1>3, <2>3 DEF Form!CommitText, Form!Supersede, Form!questions
    <3> QED BY <2>1, <2>2, <2>3, <3>1, ValueSet
  <2>4. CASE row = "shell"
    <3>1. Form!AskAgain /\ asked' = asked /\ loads = {}
      BY <1>0, <1>3, <2>4 DEF Form!CommitText
    <3> QED BY <2>1, <2>2, <2>4, <3>1, ValueSet
  <2> QED BY <2>1, <2>3, <2>4
<1>4. ASSUME NEW n \in Int, Form!CommitNumber(n), onScreen
      PROVE  FormInv'
  <2> DEFINE v == Form!Clamped(n)
  <2>1. /\ row = "size" /\ value' = v /\ chosen' = v /\ Form!Set(v)
        /\ draft' = Form!Text(value') /\ focused' = focused
        /\ UNCHANGED <<row, onScreen, mount, listing, hearing, asked, loads, surprised>>
        /\ UNCHANGED <<queries, revision, sort, applied>>
    BY <1>4 DEF Form!CommitNumber, Form!Choosing, Form!page, Form!questions
  <2>2. v \in Form!Values(row) /\ v \in Int
    BY <1>0, <2>1, ValuesAre DEF FormConstants
  <2> HIDE DEF v
  <2>3. Drafted'
    BY <1>0, <2>1, <2>2 DEF Drafted, Form!FieldValue, Form!Text, FieldTexts
  <2> QED BY <1>0, <1>4, <2>1, <2>2, <2>3, ValueSet
<1>5. ASSUME NEW n \in Int, Form!Step(n)
      PROVE  FormInv'
  BY <1>4, <1>5 DEF Form!Step
<1> QED BY <1>1, <1>2, <1>3, <1>4, <1>5 DEF Form!HasField

(* The fonts, which are set once they are there.                           *)
LEMMA FontSelected ==
  ASSUME FormConstants, FormInv, NEW v \in {Form!System, Form!Custom} \cup LISTED, Form!SelectFont(v)
  PROVE  FormInv'
<1> USE DEF FormInv
<1>0. /\ row = "font" /\ onScreen /\ row \in Form!Rows /\ value \in Form!Values(row)
      /\ Form!Redraft /\ Form!Supersede
      /\ UNCHANGED <<row, onScreen, mount, listing, hearing, queries, revision, sort, applied,
                     surprised>>
  BY DEF Form!SelectFont, Form!Choosing, Form!page, Form!questions, FormTyped
<1>1. asked' = [asked EXCEPT ![mount] = @ + 1]
  BY <1>0 DEF Form!Supersede
<1>2. CASE v = Form!System
  <2>1. value' = v /\ chosen' = v /\ Form!Set(v) /\ loads' = loads
    BY <1>2 DEF Form!SelectFont, Form!System, Form!Custom, FormConstants
  <2>2. v \in Form!Values(row)
    BY <1>0, <1>2, ValuesAre
  <2>3. Drafted'
    BY <1>0, <2>1, <2>2, Redrafted
  <2> QED BY <1>0, <1>1, <2>1, <2>2, <2>3, ValueSet
<1>3. CASE v # Form!System
  <2> DEFINE l0 == [mount |-> mount, request |-> asked[mount] + 1, family |-> v]
  <2>1. /\ UNCHANGED <<value, stored, file, news>>
        /\ chosen' = (IF v = Form!Custom THEN value ELSE v)
        /\ loads' = (IF v \in LISTED THEN loads \cup {l0} ELSE loads)
        /\ v \in LISTED \/ v = Form!Custom
    BY <1>3 DEF Form!SelectFont
  <2>2. /\ mount \in 1..MAX_MOUNTS /\ asked[mount] \in Nat /\ asked' \in [1..MAX_MOUNTS -> Nat]
        /\ \A m \in 1..MAX_MOUNTS : asked[m] \in Nat /\ asked[m] <= asked'[m]
        /\ asked'[mount] = asked[mount] + 1
    BY <1>0, <1>1 DEF FormTyped, FormConstants
  <2>3. chosen' \in Form!Values(row)
    BY <1>0, <2>1, ValuesAre
  <2>4. FormTyped' /\ QueriesTyped' /\ Backed' /\ Heard' /\ (Foreign' <=> Foreign)
    BY <1>0, <2>1, <2>2, <2>3, NewsKept DEF FormTyped, QueriesTyped, Heard
  <2>5. \A l \in loads : /\ l.mount \in 1..mount /\ l.mount \in 1..MAX_MOUNTS /\ l.request \in Nat
                         /\ l.request <= asked[l.mount] /\ l.family \in LISTED
    BY DEF LoadsTyped, FormTyped, FormConstants
  <2>6. LoadsTyped'
    BY <1>0, <2>1, <2>2, <2>5 DEF LoadsTyped
  <2>7. \A l \in loads : l.mount = mount => l.request # asked'[mount]
    BY <2>2, <2>5
  <2>8. Latest'
    BY <1>0, <2>1, <2>2, <2>7 DEF Latest, Newest, FormConstants
  <2>9. Drafted'
    BY <1>0, <2>1, Redrafted
  <2>10. Shows'
    <3>1. v \in LISTED => \E l \in loads' : l.mount = mount' /\ l.request = asked'[mount']
      <4>1. l0.mount = mount /\ l0.request = asked[mount] + 1
        OBVIOUS
      <4> HIDE DEF l0
      <4> QED BY <1>0, <2>1, <2>2, <4>1
    <3>2. ~hearing
      BY <1>0 DEF Heard
    <3>3. v \notin LISTED => chosen' = value
      BY <2>1
    <3> QED BY <1>0, <2>1, <2>4, <3>1, <3>2, <3>3 DEF Shows, Newest
  <2>11. ShellKnown' /\ StatusKnown'
    BY <1>0 DEF ShellKnown, StatusKnown
  <2> QED BY <2>4, <2>6, <2>8, <2>9, <2>10, <2>11
<1> QED BY <1>2, <1>3

LEMMA FontIsThere ==
  ASSUME FormConstants, FormInv, NEW l \in loads, Form!FontLoaded(l)
  PROVE  FormInv'
<1> USE DEF FormInv
<1>0. /\ row = "font" /\ row \in Form!Rows /\ value \in Form!Values(row)
      /\ Form!Redraft /\ loads' = loads \ {l}
      /\ UNCHANGED <<row, onScreen, mount, listing, hearing, queries, revision, sort, applied,
                     chosen, asked>>
  BY DEF Form!FontLoaded, Form!page, Form!questions, FormTyped, Heard
<1>1. LoadsTyped' /\ Latest' /\ l.family \in Form!Values(row)
  BY <1>0, ValuesAre DEF LoadsTyped, Latest, Newest
<1>2. QueriesTyped' /\ ShellKnown' /\ StatusKnown' /\ ~hearing
  BY <1>0 DEF QueriesTyped, ShellKnown, StatusKnown, Heard
<1>3. CASE asked[l.mount] # l.request
  <2>1. UNCHANGED <<value, stored, file, news, surprised>>
    BY <1>3 DEF Form!FontLoaded
  <2>2. FormTyped' /\ Backed' /\ Heard' /\ (Foreign' <=> Foreign)
    BY <1>0, <2>1, NewsKept DEF FormTyped, Heard
  <2>3. Drafted'
    BY <1>0, <2>1, Redrafted
  <2>4. \A k \in loads : Newest(k) => k \in loads' /\ Newest(k)'
    BY <1>0, <1>3 DEF Newest
  <2>5. Shows'
    BY <1>0, <1>2, <2>1, <2>2, <2>4 DEF Shows
  <2> QED BY <1>1, <1>2, <2>2, <2>3, <2>5
<1>4. CASE asked[l.mount] = l.request
  <2>1. /\ Form!Set(l.family)
        /\ IF l.mount = mount /\ onScreen THEN value' = l.family /\ surprised' = surprised
                                         ELSE surprised' = TRUE /\ value' = value
    BY <1>4 DEF Form!FontLoaded
  <2>2. /\ stored' = l.family /\ file' = l.family
        /\ news' \in Seq(News') /\ \A n \in 1..Len(news') : news'[n].from <= mount'
        /\ Backed' /\ news' # <<>>
    BY <1>0, <1>1, <2>1, IsSet
  <2>3. value' \in Form!Values(row) /\ surprised' \in BOOLEAN
    BY <1>0, <1>1, <2>1 DEF FormTyped
  <2>4. FormTyped' /\ Heard'
    BY <1>0, <1>1, <2>2, <2>3 DEF FormTyped, Heard
  <2>5. Drafted'
    BY <1>0, <2>3, Redrafted
  <2>6. Shows'
    <3>1. l.mount = mount /\ onScreen => l.family = chosen
      BY <1>4 DEF Latest, Newest
    <3> QED BY <1>0, <1>2, <2>1, <2>2, <3>1 DEF Shows
  <2> QED BY <1>1, <1>2, <2>2, <2>4, <2>5, <2>6
<1> QED BY <1>3, <1>4

(* What comes from elsewhere.                                              *)
LEMMA FormElsewhere ==
  ASSUME FormConstants, FormInv, NEW v \in Form!Values(row), Form!ChangedElsewhere(v)
  PROVE  FormInv'
<1> USE DEF FormInv
<1>0. /\ mount > 0 /\ file' = v /\ news' = Append(news, [value |-> v, from |-> 0])
      /\ UNCHANGED <<row, stored, chosen, value, custom, draft, focused, revision, queries, sort,
                     applied, onScreen, mount, hearing, listing, asked, loads, surprised>>
  BY DEF Form!ChangedElsewhere, Form!control, Form!questions, Form!page
<1>1. /\ news' \in Seq(News') /\ \A n \in 1..Len(news') : news'[n].from <= mount'
      /\ news' # <<>> /\ news'[Len(news')].value = v /\ Foreign'
      /\ row' = "status" => \A n \in 1..Len(news') : news'[n].from = 0
  <2>1. 0 \in 0..mount /\ 0 # mount
    BY <1>0 DEF FormTyped
  <2> QED BY <1>0, <2>1, Sent
<1>2. FormTyped' /\ Heard' /\ QueriesTyped' /\ LoadsTyped' /\ Backed'
  BY <1>0, <1>1 DEF FormTyped, Heard, QueriesTyped, LoadsTyped, Backed
<1>3. Drafted'
  BY <1>0, DraftKept
<1>4. Latest' /\ Shows' /\ ShellKnown' /\ StatusKnown'
  BY <1>0, <1>1 DEF Latest, Newest, Shows, ShellKnown, StatusKnown
<1> QED BY <1>2, <1>3, <1>4

LEMMA FormDelivers ==
  ASSUME FormConstants, FormInv, Form!Deliver
  PROVE  FormInv'
<1> USE DEF FormInv
<1> DEFINE e == news[1]
<1>0. /\ news # <<>> /\ Head(news) = e /\ news' = Tail(news) /\ stored' = e.value
      /\ IF row = "follow" /\ hearing THEN value' = e.value /\ chosen' = e.value
                                      ELSE UNCHANGED <<value, chosen>>
      /\ IF row = "status" /\ hearing THEN Form!AskAgain
                                      ELSE UNCHANGED <<revision, queries, sort, applied>>
      /\ surprised' = (surprised \/ (onScreen /\ ~hearing /\ e.from # mount))
      /\ UNCHANGED <<row, custom, draft, focused, file, onScreen, mount, hearing, listing, asked, loads>>
  BY DEF Form!Deliver, Form!questions, Form!page
<1>1. /\ Len(news) \in Nat /\ Len(news) >= 1 /\ e \in News /\ Tail(news) \in Seq(News)
      /\ Len(news') = Len(news) - 1
      /\ \A n \in 1..Len(news') : news'[n] = news[n + 1]
      /\ news' = <<>> => Len(news) = 1
  <2>1. news \in Seq(News) /\ news # <<>>
    BY <1>0 DEF FormTyped
  <2>2. /\ Len(news) \in Nat /\ Head(news) \in News /\ Tail(news) \in Seq(News)
        /\ Len(Tail(news)) = Len(news) - 1 /\ \A n \in 1..Len(Tail(news)) : Tail(news)[n] = news[n + 1]
    BY <2>1, HeadTailProperties, LenProperties
  <2>3. Len(news) # 0
    BY <2>1, EmptySeq
  <2>4. news' = <<>> => Len(news') = 0
    BY EmptySeq
  <2> QED BY <1>0, <2>2, <2>3, <2>4
<1>2. e.value \in Form!Values(row)
  BY <1>1 DEF News
<1> HIDE DEF e
<1>3. /\ news' \in Seq(News') /\ \A n \in 1..Len(news') : news'[n].from <= mount'
      /\ row' = "status" => \A n \in 1..Len(news') : news'[n].from = 0
  <2>1. News' = News
    BY <1>0 DEF News
  <2> QED BY <1>0, <1>1, <2>1 DEF FormTyped, Heard
<1>4. Backed'
  <2>1. CASE news' = <<>>
    BY <1>0, <1>1, <2>1 DEF Backed, e
  <2>2. CASE news' # <<>>
    <3>1. Len(news') \in 1..Len(news') /\ news'[Len(news')] = news[Len(news)]
      BY <1>1, <1>3, <2>2, EmptySeq, LenProperties
    <3> QED BY <1>0, <2>2, <3>1 DEF Backed
  <2> QED BY <2>1, <2>2
<1>5. revision' \in Nat /\ applied' \in 0..revision'
  BY <1>0 DEF FormTyped, Form!AskAgain
<1>6. FormTyped'
  <2>1. {stored', file', chosen', value'} \subseteq Form!Values(row')
    BY <1>0, <1>2 DEF FormTyped
  <2>2. surprised' \in BOOLEAN
    BY <1>0 DEF FormTyped
  <2> QED BY <1>0, <1>3, <1>5, <2>1, <2>2 DEF FormTyped
<1>7. QueriesTyped'
  BY <1>0 DEF QueriesTyped, FormTyped, Form!AskAgain, Form!Question
<1>8. LoadsTyped' /\ Heard'
  BY <1>0, <1>3 DEF LoadsTyped, Heard
<1>9. Latest'
  <2>1. CASE row = "follow" /\ hearing
    BY <1>0, <2>1 DEF Latest, Heard
  <2>2. CASE ~(row = "follow" /\ hearing)
    BY <1>0, <2>2 DEF Latest, Newest
  <2> QED BY <2>1, <2>2
<1>10. Drafted'
  <2>1. CASE row = "follow" /\ hearing
    BY <1>0, <2>1 DEF Drafted, Form!HasField
  <2>2. CASE ~(row = "follow" /\ hearing)
    BY <1>0, <2>2, DraftKept
  <2> QED BY <2>1, <2>2
<1>11. Foreign /\ ~Foreign' => e.from # mount
  <2>1. ASSUME e.from = mount, NEW n \in 1..Len(news), news[n].from # mount
        PROVE  n - 1 \in 1..Len(news') /\ news'[n - 1].from # mount'
    BY <1>0, <1>1, <2>1 DEF e
  <2> QED BY <2>1 DEF Foreign
<1>12. Shows'
  <2>1. CASE hearing
    <3>1. CASE row = "follow"
      BY <1>0, <1>4, <2>1, <3>1 DEF Shows, Backed
    <3>2. CASE row = "status"
      BY <1>0, <3>2 DEF Shows
    <3> QED BY <2>1, <3>1, <3>2 DEF Heard
  <2>2. CASE ~hearing
    BY <1>0, <1>11, <2>2 DEF Shows, Newest
  <2> QED BY <2>1, <2>2
<1>13. ShellKnown'
  <2>1. CASE row = "shell"
    <3>1. ~hearing
      BY <2>1 DEF Heard
    <3> QED BY <1>0, <1>11, <2>1, <3>1 DEF ShellKnown, Asks
  <2>2. CASE row # "shell"
    BY <1>0, <2>2 DEF ShellKnown
  <2> QED BY <2>1, <2>2
<1>14. StatusKnown'
  <2> SUFFICES ASSUME onScreen', ~surprised', row' = "status", news' = <<>>
               PROVE  /\ \A q \in Asks' : q.answer \in {Form!Unanswered, file'}
                      /\ applied' = revision' => sort' = file'
    BY DEF StatusKnown
  <2>1. mount > 0 /\ e.from = 0
    BY <1>0, <1>1 DEF FormTyped, Heard, e
  <2>2. hearing
    BY <1>0, <2>1 DEF FormTyped
  <2>3. revision' = revision + 1 /\ queries' = queries \cup {Form!Question(revision + 1)} /\ applied' = applied
    BY <1>0, <2>2 DEF Form!AskAgain
  <2>4. Asks' = {Form!Question(revision + 1)}
    BY <2>3 DEF Asks, QueriesTyped, FormTyped, Form!Question
  <2> QED BY <2>3, <2>4 DEF Form!Question, FormTyped
<1> QED BY <1>4, <1>6, <1>7, <1>8, <1>9, <1>10, <1>12, <1>13, <1>14

(* The answers of the backend.                                             *)
LEMMA FormAnswers ==
  ASSUME FormConstants, FormInv, NEW q \in queries, Form!Answer(q) \/ Form!Receive(q)
  PROVE  FormInv'
<1> USE DEF FormInv
<1>0. /\ revision' = revision
      /\ UNCHANGED <<row, stored, file, news, choices, chosen, value, custom, draft, focused,
                     onScreen, mount, hearing, listing, asked, loads, surprised>>
  BY DEF Form!Answer, Form!Receive, Form!values, Form!control, Form!page
<1>1. q = [revision |-> q.revision, answer |-> q.answer] /\ q.revision \in 0..revision /\ revision \in Nat
  BY DEF QueriesTyped, FormTyped
<1>2. applied' \in 0..revision
  BY <1>1 DEF Form!Answer, Form!Receive, FormTyped
<1>3. FormTyped' /\ LoadsTyped' /\ Backed' /\ Heard' /\ (Foreign' <=> Foreign)
  BY <1>0, <1>2, NewsKept DEF FormTyped, LoadsTyped, Heard
<1>4. Drafted' /\ Latest' /\ Shows'
  BY <1>0, <1>3, DraftKept DEF Latest, Newest, Shows
<1>5. CASE Form!Answer(q)
  <2> DEFINE a == [revision |-> q.revision, answer |-> IF row = "shell" THEN KIND[file] ELSE file]
  <2>1. /\ queries' = (queries \ {q}) \cup {a} /\ UNCHANGED <<sort, applied>>
    BY <1>1, <1>5 DEF Form!Answer
  <2>2. QueriesTyped'
    BY <1>0, <1>1, <2>1 DEF QueriesTyped
  <2>3. /\ \A k \in Asks' : k \in Asks \/ k = a
        /\ Asks # {} => Asks' # {}
    <3>1. ASSUME q.revision = revision
          PROVE  a \in Asks'
      BY <1>0, <2>1, <3>1 DEF Asks
    <3>2. ASSUME NEW k \in Asks, k # q
          PROVE  k \in Asks'
      BY <1>0, <2>1, <3>2 DEF Asks
    <3>3. Asks # {} => Asks' # {}
      BY <3>1, <3>2 DEF Asks
    <3>4. \A k \in Asks' : k \in Asks \/ k = a
      BY <1>0, <2>1 DEF Asks
    <3> QED BY <3>3, <3>4
  <2>4. ShellKnown' /\ StatusKnown'
    BY <1>0, <1>3, <2>1, <2>3 DEF ShellKnown, StatusKnown
  <2> QED BY <1>3, <1>4, <2>2, <2>4
<1>6. CASE Form!Receive(q)
  <2>1. /\ q.answer # Form!Unanswered /\ queries' = queries \ {q}
        /\ IF row = "status" \/ q.revision = revision
           THEN sort' = q.answer /\ applied' = q.revision ELSE UNCHANGED <<sort, applied>>
    BY <1>6 DEF Form!Receive
  <2>2. QueriesTyped' /\ Asks' \subseteq Asks
    BY <1>0, <2>1 DEF QueriesTyped, Asks
  <2>3. q.revision # revision => Asks' = Asks
    BY <1>0, <2>1 DEF Asks
  <2>4. q.revision = revision => q \in Asks
    BY DEF Asks
  <2>5. ShellKnown'
    BY <1>0, <1>3, <2>1, <2>2, <2>3, <2>4 DEF ShellKnown
  <2>6. StatusKnown'
    BY <1>0, <2>1, <2>2, <2>4 DEF StatusKnown
  <2> QED BY <1>3, <1>4, <2>2, <2>5, <2>6
<1> QED BY <1>5, <1>6

LEMMA FormStep ==
  ASSUME FormConstants, FormInv, [Form!Next]_(Form!vars)
  PROVE  FormInv'
<1> USE DEF FormInv
<1>0. /\ row \in Form!Rows /\ value \in Form!Values(row) /\ listing \in {{}, LISTED}
      /\ hearing \in BOOLEAN /\ (hearing => row \in {"follow", "status"})
  BY DEF FormTyped, Heard
<1>1. CASE Form!Subscribed \/ Form!Blur \/ UNCHANGED Form!vars
  <2>1. UNCHANGED <<row, onScreen, value, custom, listing, draft>>
    BY <1>1 DEF Form!Subscribed, Form!Blur, Form!vars, Form!values, Form!control, Form!page
  <2>2. Drafted'
    BY <1>1, <2>1 DEF Form!Subscribed, Form!Blur, Form!vars, Form!control, Drafted, Form!HasField,
       Form!Selection, Form!IsListed, Form!FieldValue, FieldTexts
  <2>3. /\ UNCHANGED <<row, onScreen, mount, listing, stored, file, news, chosen, value, revision,
                       queries, sort, applied, asked, loads, surprised>>
        /\ hearing' \in BOOLEAN /\ (hearing => hearing') /\ (hearing' => row \in {"follow", "status"})
    <3>1. CASE Form!Subscribed
      BY <1>0, <3>1 DEF Form!Subscribed, Form!values, Form!control, Form!questions
    <3>2. CASE Form!Blur
      BY <1>0, <3>2 DEF Form!Blur, Form!values, Form!questions, Form!page
    <3>3. CASE UNCHANGED Form!vars
      BY <1>0, <3>3 DEF Form!vars, Form!values, Form!control, Form!questions, Form!page
    <3> QED BY <1>1, <3>1, <3>2, <3>3
  <2> QED BY <1>0, <2>2, <2>3, PageChanges
<1>2. CASE Form!ListShells
  <2>1. Drafted'
    BY <1>0, <1>2, Redrafted DEF Form!ListShells
  <2> QED BY <1>0, <1>2, <2>1, PageChanges DEF Form!ListShells, Form!values, Form!questions
<1>3. ASSUME NEW text \in Form!Texts, Form!Type(text)
      PROVE  FormInv'
  <2>1. Drafted'
    <3>1. text \in FieldTexts
      <4>1. CASE row = "size"
        BY <1>3, <4>1 DEF Form!Texts, Form!Text, FieldTexts, FormConstants
      <4>2. CASE row # "size"
        BY <1>3, <4>2 DEF Form!Texts, Form!Text, FieldTexts
      <4> QED BY <4>1, <4>2
    <3> QED BY <1>3, <3>1 DEF Form!Type, Form!values, Form!page, Drafted, Form!HasField, Form!Selection,
               Form!IsListed, Form!FieldValue, FieldTexts
  <2> QED BY <1>0, <1>3, <2>1, PageChanges DEF Form!Type, Form!values, Form!questions, Form!page
<1>4. CASE Form!Commit
  <2>1. Form!HasField /\ draft \in FieldTexts
    BY <1>4 DEF Form!Commit, Drafted
  <2>2. CASE Form!CommitText(draft[1])
    <3>1. draft[1] \in Form!Values(row)
      BY <2>1, <2>2 DEF Form!CommitText, FieldTexts
    <3> QED BY <2>1, <2>2, <3>1, FormChoices
  <2>3. CASE draft # Form!Junk /\ Form!CommitNumber(draft[1])
    <3>1. draft[1] \in Int
      BY <2>1, <2>3 DEF Form!CommitNumber, FieldTexts
    <3> QED BY <2>1, <2>3, <3>1, FormChoices
  <2>4. CASE Form!Revert
    <3>1. Drafted'
      <4>1. /\ row = "size" /\ draft' = Form!FieldValue /\ focused' = focused
            /\ UNCHANGED <<row, onScreen, value, custom, listing>>
        BY <2>4 DEF Form!Revert, Form!values, Form!page
      <4>2. Form!FieldValue' = Form!FieldValue /\ FieldTexts' = FieldTexts /\ Form!FieldValue \in FieldTexts
        BY <2>1, <4>1, FieldIs DEF Form!FieldValue, FieldTexts
      <4> QED BY <4>1, <4>2 DEF Drafted
    <3> QED BY <1>0, <2>4, <3>1, PageChanges DEF Form!Revert, Form!values, Form!questions, Form!page
  <2> QED BY <1>4, <2>2, <2>3, <2>4 DEF Form!Commit
<1>5. ASSUME NEW v \in Form!Values(row), Form!Choose(v) \/ Form!ChangedElsewhere(v)
      PROVE  FormInv'
  BY <1>5, FormChoices, FormElsewhere
<1>6. ASSUME NEW v \in {Form!System, Form!Custom} \cup LISTED, Form!SelectShell(v) \/ Form!SelectFont(v)
      PROVE  FormInv'
  BY <1>6, FormChoices, FontSelected
<1>7. ASSUME NEW n \in MIN_SIZE..MAX_SIZE, Form!Step(n)
      PROVE  FormInv'
  <2>1. n \in Int
    BY DEF FormConstants
  <2> QED BY <1>7, <2>1, FormChoices
<1> QED BY <1>1, <1>2, <1>3, <1>4, <1>5, <1>6, <1>7, FormMounts, FormUnmounts, FontIsThere,
           FormDelivers, FormAnswers DEF Form!Next

LEMMA FormTells == ASSUME FormInv PROVE Form!FormSettles
<1>1. ASSUME Form!AtRest
      PROVE  /\ row # "status" => value = stored /\ stored = file /\ stored = chosen
             /\ row = "shell" => sort = KIND[file]
             /\ row = "status" /\ applied = revision => sort = file
             /\ Form!HasField /\ ~focused => draft = Form!FieldValue
  <2>1. /\ onScreen /\ loads = {} /\ queries = {} /\ news = <<>> /\ ~surprised /\ hearing \in BOOLEAN
        /\ ~Foreign /\ Asks = {}
    BY <1>1, EmptySeq DEF Form!AtRest, FormInv, FormTyped, Foreign, Asks
  <2> QED BY <1>1, <2>1 DEF FormInv, Backed, Shows, ShellKnown, StatusKnown, Drafted
<1> QED BY <1>1 DEF Form!FormSettles

(* Every row shows its setting once nothing is on its way, for any fonts   *)
(* and shells, any range of the number and any number of mounts and        *)
(* choices (TerminalSettings, AppearanceSettings).                         *)
THEOREM FormIsTrue ==
  ASSUME FormConstants
  PROVE  Form!Spec => []Form!FormSettles
<1>1. Form!Init => FormInv
  BY FormStart
<1>2. FormInv /\ [Form!Next]_(Form!vars) => FormInv'
  BY FormStep
<1>3. FormInv => Form!FormSettles
  BY FormTells
<1> QED BY <1>1, <1>2, <1>3, PTL DEF Form!Spec

-----------------------------------------------------------------------------
(* The find bar.                                                           *)

FindRecord ==
  [open : BOOLEAN, query : Find!Terms, total : 0..MAX_MATCHES, error : BOOLEAN,
   colors : COLORS, debounce : BOOLEAN]
AddonRecord == [query : Find!Terms, colors : COLORS, total : 0..MAX_MATCHES]

FindInv ==
  /\ find \in FindRecord /\ addon \in AddonRecord /\ pressed \in BOOLEAN
  /\ Find!FindSettles

LEMMA PlainIs == Find!Plain \in Find!Terms /\ Find!Plain.term = Find!Empty
BY DEF Find!Plain, Find!Terms

LEMMA FindStart == ASSUME MAX_MATCHES \in Nat, Find!Init PROVE FindInv
<1>1. 0 \in 0..MAX_MATCHES
  OBVIOUS
<1>2. PICK c \in COLORS :
        find = [open |-> FALSE, query |-> Find!Plain, total |-> 0, error |-> FALSE, colors |-> c,
                debounce |-> FALSE]
  BY DEF Find!Init
<1>3. addon = [query |-> Find!Plain, colors |-> c, total |-> 0] /\ pressed = FALSE
  BY <1>2 DEF Find!Init
<1>4. Find!Plain \in Find!Terms
  BY PlainIs
<1> HIDE DEF Find!Plain
<1>5. find \in FindRecord /\ ~find.open
  BY <1>1, <1>2, <1>4 DEF FindRecord
<1>6. addon \in AddonRecord /\ addon.query = Find!Plain
  BY <1>1, <1>3, <1>4 DEF AddonRecord
<1> QED BY <1>3, <1>5, <1>6 DEF FindInv, Find!FindSettles

(* The search that a bar runs.                                             *)
LEMMA Searches ==
  ASSUME NEW s \in FindRecord, NEW n \in 0..MAX_MATCHES, ~s.debounce, s.open, Find!IsSearchable(s),
         Find!FindNext(s, n), pressed' \in BOOLEAN
  PROVE  FindInv'
<1>1. find' = [s EXCEPT !.total = n] /\ addon' = [query |-> s.query, colors |-> s.colors, total |-> n]
  BY DEF Find!FindNext, Find!SetResults, Find!IsSearchable
<1>2. /\ find' \in FindRecord /\ addon' \in AddonRecord /\ ~find'.debounce /\ find'.open
      /\ addon'.query = find'.query /\ addon'.colors = find'.colors /\ find'.total = addon'.total
  BY <1>1 DEF FindRecord, AddonRecord
<1> QED BY <1>2 DEF FindInv, Find!FindSettles

LEMMA ChangeComes ==
  ASSUME MAX_MATCHES \in Nat, FindInv, NEW query \in Find!Terms, Find!Change(query)
  PROVE  FindInv'
<1> DEFINE s == [find EXCEPT !.query = query, !.debounce = TRUE]
<1>1. s \in FindRecord /\ s.debounce /\ s.open
  BY DEF FindInv, FindRecord, Find!Change
<1>2. find' = Find!WithError(s) /\ pressed' = FALSE /\ addon' = addon
  BY DEF Find!Change
<1> HIDE DEF s
<1> DEFINE bad == s.query.regex /\ s.query.term \in MALFORMED
<1>3. bad \in BOOLEAN /\ (IF bad THEN 0 ELSE s.total) \in 0..MAX_MATCHES
  BY <1>1 DEF FindRecord, Find!Terms
<1>4. find' = [s EXCEPT !.error = bad, !.total = IF bad THEN 0 ELSE s.total]
  BY <1>2 DEF Find!WithError
<1> HIDE DEF bad
<1>5. find' \in FindRecord /\ find'.debounce /\ find'.open
  BY <1>1, <1>3, <1>4 DEF FindRecord
<1> QED BY <1>2, <1>5 DEF FindInv, Find!FindSettles

LEMMA FindStep ==
  ASSUME MAX_MATCHES \in Nat, FindInv, [Find!Next]_(Find!vars)
  PROVE  FindInv'
<1> USE DEF FindInv
<1>0. Find!Plain \in Find!Terms /\ 0 \in 0..MAX_MATCHES
  BY PlainIs
<1>1. CASE Find!Open
  <2>1. /\ find' = [find EXCEPT !.open = TRUE, !.query = Find!Plain, !.total = 0, !.error = FALSE,
                                !.debounce = TRUE]
        /\ pressed' = FALSE /\ addon' = addon
    BY <1>1 DEF Find!Open
  <2>2. find' \in FindRecord /\ find'.open /\ find'.debounce
    BY <1>0, <2>1 DEF FindRecord
  <2> QED BY <2>1, <2>2 DEF Find!FindSettles
<1>2. CASE Find!Close
  <2>1. /\ find' = [find EXCEPT !.open = FALSE, !.debounce = FALSE]
        /\ addon' = [addon EXCEPT !.query = Find!Plain, !.total = 0] /\ pressed' = pressed
    BY <1>2 DEF Find!Close, Find!Unlit
  <2>2. find' \in FindRecord /\ ~find'.open /\ ~find'.debounce
    BY <2>1 DEF FindRecord
  <2>3. addon' \in AddonRecord /\ addon'.query = Find!Plain
    BY <1>0, <2>1 DEF AddonRecord
  <2> QED BY <2>1, <2>2, <2>3 DEF Find!FindSettles
<1>3. CASE Find!ToggleCase
  <2>1. [find.query EXCEPT !.matchCase = ~@] \in Find!Terms
    BY DEF FindRecord, Find!Terms
  <2> QED BY <1>3, <2>1, ChangeComes DEF Find!ToggleCase
<1>4. CASE Find!ToggleRegex
  <2>1. [find.query EXCEPT !.regex = ~@] \in Find!Terms
    BY DEF FindRecord, Find!Terms
  <2> QED BY <1>4, <2>1, ChangeComes DEF Find!ToggleRegex
<1>5. ASSUME NEW term \in QUERIES \cup {Find!Empty}, Find!Type(term)
      PROVE  FindInv'
  <2>1. [find.query EXCEPT !.term = term] \in Find!Terms
    BY DEF FindRecord, Find!Terms
  <2> QED BY <1>5, <2>1, ChangeComes DEF Find!Type
<1>6. ASSUME NEW n \in 0..MAX_MATCHES, Find!DebounceFires(n)
      PROVE  FindInv'
  <2> DEFINE run == [find EXCEPT !.debounce = FALSE]
  <2>1. run \in FindRecord /\ ~run.debounce /\ run.open
    BY <1>6 DEF FindRecord, Find!DebounceFires
  <2>2. CASE Find!IsSearchable(run)
    <3>1. Find!FindNext(run, n) /\ pressed' = pressed
      BY <1>6, <2>2 DEF Find!DebounceFires
    <3> HIDE DEF run
    <3> QED BY <2>1, <2>2, <3>1, Searches
  <2>3. CASE ~Find!IsSearchable(run)
    <3>1. addon' = [addon EXCEPT !.query = Find!Plain, !.total = 0] /\ find' = run /\ pressed' = pressed
      BY <1>6, <2>3 DEF Find!DebounceFires, Find!Unlit
    <3>2. addon' \in AddonRecord
      BY <1>0, <3>1 DEF AddonRecord
    <3> HIDE DEF run
    <3> QED BY <2>1, <2>3, <3>1, <3>2 DEF Find!FindSettles, Find!IsSearchable
  <2> QED BY <2>2, <2>3
<1>7. ASSUME NEW n \in 0..MAX_MATCHES, Find!Press(n)
      PROVE  FindInv'
  <2> DEFINE run == [find EXCEPT !.debounce = FALSE]
  <2>1. run \in FindRecord /\ ~run.debounce /\ run.open /\ pressed' = TRUE
    BY <1>7 DEF FindRecord, Find!Press
  <2>2. CASE Find!IsSearchable(run)
    <3>1. Find!FindNext(run, n)
      BY <1>7, <2>2 DEF Find!Press
    <3> HIDE DEF run
    <3> QED BY <2>1, <2>2, <3>1, Searches
  <2>3. CASE ~Find!IsSearchable(run)
    <3>1. addon' = addon /\ find' = run
      BY <1>7, <2>3 DEF Find!Press
    <3> HIDE DEF run
    <3> QED BY <2>1, <2>3, <3>1 DEF Find!FindSettles, Find!IsSearchable
  <2> QED BY <2>2, <2>3
<1>8. ASSUME NEW n \in 0..MAX_MATCHES, Find!Results(n)
      PROVE  FindInv'
  <2>1. /\ addon.query # Find!Plain /\ addon' = [addon EXCEPT !.total = n] /\ pressed' = pressed
        /\ find' = (IF find.open THEN Find!SetResults(find, n) ELSE find)
    BY <1>8 DEF Find!Results
  <2>2. addon' \in AddonRecord /\ addon'.query = addon.query /\ addon'.colors = addon.colors /\ addon'.total = n
    BY <2>1 DEF AddonRecord
  <2>3. find.open
    BY <2>1 DEF Find!FindSettles
  <2>4. /\ find' \in FindRecord /\ find'.open /\ find'.debounce = find.debounce
        /\ find'.query = find.query /\ find'.colors = find.colors /\ find'.error = find.error
        /\ ~find.error => find'.total = n
    BY <2>1, <2>3 DEF FindRecord, Find!SetResults
  <2> QED BY <2>1, <2>2, <2>3, <2>4 DEF Find!FindSettles, Find!IsSearchable
<1>9. ASSUME NEW n \in 0..MAX_MATCHES, NEW c \in COLORS, Find!Recolor(c, n)
      PROVE  FindInv'
  <2> DEFINE run == [find EXCEPT !.colors = c, !.debounce = FALSE]
  <2>1. /\ run \in FindRecord /\ ~run.debounce /\ run.open = find.open /\ pressed' = pressed
    BY <1>9 DEF FindRecord, Find!Recolor
  <2>2. CASE run.open /\ Find!IsSearchable(run)
    <3>1. Find!FindNext(run, n)
      BY <1>9, <2>2 DEF Find!Recolor
    <3> HIDE DEF run
    <3> QED BY <2>1, <2>2, <3>1, Searches
  <2>3. CASE ~(run.open /\ Find!IsSearchable(run))
    <3>1. addon' = addon /\ find' = run
      BY <1>9, <2>3 DEF Find!Recolor
    <3> HIDE DEF run
    <3> QED BY <2>1, <2>3, <3>1 DEF Find!FindSettles, Find!IsSearchable
  <2> QED BY <2>2, <2>3
<1>10. CASE UNCHANGED Find!vars
  BY <1>10 DEF Find!vars, Find!FindSettles, Find!IsSearchable
<1> QED BY <1>1, <1>2, <1>3, <1>4, <1>5, <1>6, <1>7, <1>8, <1>9, <1>10 DEF Find!Next

(* Once nothing is queued the highlights and their count are those of the  *)
(* query in the field, for any queries and colors (FindBar.tsx).           *)
THEOREM FindIsTrue ==
  ASSUME MAX_MATCHES \in Nat
  PROVE  Find!Spec => []Find!FindSettles
<1>1. Find!Init => FindInv
  BY FindStart
<1>2. FindInv /\ [Find!Next]_(Find!vars) => FindInv'
  BY FindStep
<1>3. FindInv => Find!FindSettles
  BY DEF FindInv
<1> QED BY <1>1, <1>2, <1>3, PTL DEF Find!Spec

=============================================================================
