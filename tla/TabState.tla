------------------------------- MODULE TabState -------------------------------
(***************************************************************************)
(* The tab reducer (tabState.ts) as operators on its state: the ordered    *)
(* tabs, the active one and the two id counters.  A tab keeps its panes    *)
(* with the session each is bound to (0 while it opens) and its focus; the *)
(* layout tree is abstracted to the set of its leaves, so any of the rest  *)
(* may take the focus of a removed one.  Titles, badges and activity are   *)
(* left out: no session depends on them.                                   *)
(***************************************************************************)
EXTENDS Naturals, Sequences, SequencesExt, Functions

InitialTabs == [tabs |-> <<>>, active |-> 0, nextTab |-> 1, nextPane |-> 1]

Panes(tab) == DOMAIN tab.sess
TabIds(s) == {s.tabs[i].id : i \in DOMAIN s.tabs}
TabOf(s, t) == s.tabs[CHOOSE i \in DOMAIN s.tabs : s.tabs[i].id = t]
AllPanes(s) == UNION {Panes(s.tabs[i]) : i \in DOMAIN s.tabs}
HasPane(s, t, p) == t \in TabIds(s) /\ p \in Panes(TabOf(s, t))

ReplaceTab(s, t, tab) ==
  [s EXCEPT !.tabs = [i \in DOMAIN s.tabs |-> IF s.tabs[i].id = t THEN tab ELSE s.tabs[i]]]

OpenTab(s) ==
  [tabs     |-> Append(s.tabs, [id |-> s.nextTab, sess |-> [p \in {s.nextPane} |-> 0], focus |-> s.nextPane]),
   active   |-> s.nextTab,
   nextTab  |-> s.nextTab + 1,
   nextPane |-> s.nextPane + 1]

AttachSession(s, t, p, session) ==
  IF HasPane(s, t, p) THEN ReplaceTab(s, t, [TabOf(s, t) EXCEPT !.sess[p] = session]) ELSE s

\* The right neighbour of a closed active tab takes over, else the left one.
CloseTab(s, t) ==
  IF t \notin TabIds(s) THEN s
  ELSE LET i == CHOOSE j \in DOMAIN s.tabs : s.tabs[j].id = t
           rest == RemoveAt(s.tabs, i)
       IN [s EXCEPT !.tabs = rest,
                    !.active = IF @ # t THEN @
                               ELSE IF rest = <<>> THEN 0
                               ELSE rest[IF i <= Len(rest) THEN i ELSE i - 1].id]

ActivateTab(s, t) == IF t \in TabIds(s) THEN [s EXCEPT !.active = t] ELSE s

\* The new pane takes the focus.
SplitPane(s, t) ==
  IF t \notin TabIds(s) THEN s
  ELSE LET tab == TabOf(s, t)
           grown == [tab EXCEPT !.sess = [p \in Panes(tab) \cup {s.nextPane} |->
                                            IF p = s.nextPane THEN 0 ELSE tab.sess[p]],
                                !.focus = s.nextPane]
       IN [ReplaceTab(s, t, grown) EXCEPT !.nextPane = @ + 1]

\* (mutation) the focus stays on the removed pane
ClosePaneKeepFocus(s, t, p) ==
  IF ~HasPane(s, t, p) \/ Panes(TabOf(s, t)) = {p} THEN {s}
  ELSE {ReplaceTab(s, t, [TabOf(s, t) EXCEPT !.sess = Restrict(@, DOMAIN @ \ {p})])}

\* What closePane may lead to: the focus of the removed pane goes to a leaf of its
\* sibling.  The last pane of a tab is not the reducer's to close.
ClosePane(s, t, p) ==
  IF ~HasPane(s, t, p) \/ Panes(TabOf(s, t)) = {p} THEN {s}
  ELSE LET tab == TabOf(s, t)
           rest == Panes(tab) \ {p}
       IN {ReplaceTab(s, t, [tab EXCEPT !.sess = Restrict(tab.sess, rest),
                                        !.focus = IF @ = p THEN next ELSE @]) : next \in rest}

FocusPane(s, t, p) ==
  IF HasPane(s, t, p) THEN ReplaceTab(s, t, [TabOf(s, t) EXCEPT !.focus = p]) ELSE s

\* moveTab: the tab at one place goes to another; the active tab is an identity.
MoveTab(s, from, to) == [s EXCEPT !.tabs = InsertAt(RemoveAt(@, from), to, @[from])]

\* The pane bound to a session, as a set of at most one <<tab, pane>>.
PaneBySessionId(s, session) ==
  {hit \in TabIds(s) \X AllPanes(s) :
     HasPane(s, hit[1], hit[2]) /\ TabOf(s, hit[1]).sess[hit[2]] = session}

=============================================================================
