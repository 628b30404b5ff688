--------------------------- MODULE TabSessionsProofs ---------------------------
(***************************************************************************)
(* Types, and who owns a session, for TabSessions: for any number of tabs, *)
(* panes and sessions, and for every order of handlers, replies, closes    *)
(* and exit events that the races allow.                                   *)
(***************************************************************************)
EXTENDS TabSessions, Integers, FiniteSetTheorems, TLAPS

(***************************************************************************)
(* The tab reducer alone: it keeps its state in order, and what each of    *)
(* its operations does to the panes that are shown and to their sessions.  *)
(***************************************************************************)

\* Tab t shows pane p, bound to session n.
Shows(s, t, p, n) ==
  \E i \in DOMAIN s.tabs : s.tabs[i].id = t /\ p \in Panes(s.tabs[i]) /\ s.tabs[i].sess[p] = n

Bindings == UNION {[S -> Nat] : S \in SUBSET Nat}
Tab == [id : Nat, sess : Bindings, focus : Nat]
State == [tabs : Seq(Tab), active : Nat, nextTab : Nat, nextPane : Nat]

\* The ids are below the counters, a tab has one id and a pane one tab.
TabOK(s, tab) ==
  /\ tab.id \in 1 .. s.nextTab - 1 /\ tab.focus \in Panes(tab)
  /\ Panes(tab) \subseteq 1 .. s.nextPane - 1

StateOK(s) ==
  /\ s \in State /\ s.nextTab >= 1 /\ s.nextPane >= 1
  /\ \A i \in DOMAIN s.tabs : TabOK(s, s.tabs[i])
  /\ \A i, j \in DOMAIN s.tabs : s.tabs[i].id = s.tabs[j].id => i = j
  /\ \A i, j \in DOMAIN s.tabs : Panes(s.tabs[i]) \cap Panes(s.tabs[j]) # {} => i = j
  /\ s.active \in TabIds(s) \cup {0} /\ (s.active = 0 <=> s.tabs = <<>>)


-----------------------------------------------------------------------------
(* Reading a state.                                                        *)

LEMMA TabFields ==
  ASSUME NEW s, StateOK(s), NEW i \in DOMAIN s.tabs
  PROVE  /\ s.tabs[i] \in Tab /\ TabOK(s, s.tabs[i]) /\ s.tabs[i].sess \in [Panes(s.tabs[i]) -> Nat]
         /\ s.tabs \in Seq(Tab) /\ s.tabs[i].id \in TabIds(s)
<1>1. s.tabs \in Seq(Tab) /\ TabOK(s, s.tabs[i])
  BY DEF StateOK, State
<1>2. s.tabs[i] \in Tab
  BY <1>1
<1> QED
  BY <1>1, <1>2 DEF Tab, Bindings, Panes, TabIds

LEMMA TabAt ==
  ASSUME NEW s, StateOK(s), NEW i \in DOMAIN s.tabs
  PROVE  /\ TabOf(s, s.tabs[i].id) = s.tabs[i]
         /\ \A j \in DOMAIN s.tabs : s.tabs[j].id = s.tabs[i].id => j = i
BY DEF StateOK, TabOf

LEMMA PaneBounds ==
  ASSUME NEW s, StateOK(s), NEW i \in DOMAIN s.tabs, NEW p \in Panes(s.tabs[i])
  PROVE  p \in Nat /\ p >= 1 /\ p < s.nextPane /\ s.nextPane \in Nat
<1>1. s.nextPane \in Nat /\ p \in 1 .. s.nextPane - 1
  BY TabFields DEF TabOK, StateOK, State
<1> QED
  BY <1>1

LEMMA ShowsTypes ==
  ASSUME NEW s, StateOK(s), NEW t, NEW p, NEW n, Shows(s, t, p, n)
  PROVE  /\ t \in TabIds(s) /\ t \in 1 .. s.nextTab - 1 /\ p \in 1 .. s.nextPane - 1 /\ n \in Nat
         /\ p \in AllPanes(s) /\ HasPane(s, t, p) /\ TabOf(s, t).sess[p] = n
<1>1. PICK i \in DOMAIN s.tabs : s.tabs[i].id = t /\ p \in Panes(s.tabs[i]) /\ s.tabs[i].sess[p] = n
  BY DEF Shows
<1>2. TabOf(s, t) = s.tabs[i]
  BY <1>1, TabAt
<1> QED
  BY <1>1, <1>2, TabFields DEF TabOK, AllPanes, HasPane

\* A pane is in one tab and bound to one session.
LEMMA ShowsOnce ==
  ASSUME NEW s, StateOK(s), NEW t, NEW u, NEW p, NEW m, NEW n, Shows(s, t, p, n), Shows(s, u, p, m)
  PROVE  t = u /\ n = m
BY DEF Shows, StateOK

LEMMA PaneShows ==
  ASSUME NEW s, StateOK(s), NEW t, NEW p, HasPane(s, t, p)
  PROVE  /\ Shows(s, t, p, TabOf(s, t).sess[p])
         /\ \E i \in DOMAIN s.tabs : s.tabs[i].id = t /\ TabOf(s, t) = s.tabs[i]
<1>1. PICK i \in DOMAIN s.tabs : s.tabs[i].id = t
  BY DEF HasPane, TabIds
<1> QED
  BY <1>1, TabAt DEF HasPane, Shows

LEMMA AllShown ==
  ASSUME NEW s, StateOK(s), NEW p \in AllPanes(s)
  PROVE  \E t, n \in Nat : Shows(s, t, p, n)
<1>1. PICK i \in DOMAIN s.tabs : p \in Panes(s.tabs[i])
  BY DEF AllPanes
<1>2. Shows(s, s.tabs[i].id, p, s.tabs[i].sess[p])
  BY <1>1 DEF Shows
<1> QED
  BY <1>1, <1>2, TabFields DEF Tab

-----------------------------------------------------------------------------
(* Changing one tab.                                                       *)

LEMMA ReplaceIs ==
  ASSUME NEW s, StateOK(s), NEW k \in DOMAIN s.tabs, NEW tab \in Tab
  PROVE  /\ ReplaceTab(s, s.tabs[k].id, tab) = [s EXCEPT !.tabs = [s.tabs EXCEPT ![k] = tab]]
         /\ [s.tabs EXCEPT ![k] = tab] \in Seq(Tab)
<1>1. s.tabs \in Seq(Tab)
  BY DEF StateOK, State
<1>2. \A i \in DOMAIN s.tabs : s.tabs[i].id = s.tabs[k].id <=> i = k
  BY TabAt
<1>3. [i \in DOMAIN s.tabs |-> IF s.tabs[i].id = s.tabs[k].id THEN tab ELSE s.tabs[i]]
        = [s.tabs EXCEPT ![k] = tab]
  BY <1>1, <1>2
<1>4. [s.tabs EXCEPT ![k] = tab] \in Seq(Tab)
  BY <1>1
<1> QED
  BY <1>3, <1>4 DEF ReplaceTab

\* The changed tab keeps its id; a pane that it gains is a new one.
LEMMA Replaced ==
  ASSUME NEW s, StateOK(s), NEW k \in DOMAIN s.tabs, NEW tab \in Tab, NEW r \in State,
         tab.id = s.tabs[k].id, tab.focus \in Panes(tab), r.nextPane >= s.nextPane,
         Panes(tab) \subseteq 1 .. r.nextPane - 1,
         \A p \in Panes(tab) : p \in Panes(s.tabs[k]) \/ p >= s.nextPane,
         r.tabs = [s.tabs EXCEPT ![k] = tab], r.active = s.active, r.nextTab = s.nextTab
  PROVE  /\ StateOK(r)
         /\ \A t, p, n : Shows(r, t, p, n) <=> IF t = tab.id THEN p \in Panes(tab) /\ tab.sess[p] = n
                                                            ELSE Shows(s, t, p, n)
<1>1. /\ s.tabs \in Seq(Tab) /\ s.nextPane \in Nat /\ r.nextPane \in Nat
      /\ DOMAIN r.tabs = DOMAIN s.tabs /\ r.tabs[k] = tab
      /\ \A i \in DOMAIN s.tabs : i # k => r.tabs[i] = s.tabs[i]
  BY DEF StateOK, State
<1>2. \A i \in DOMAIN r.tabs : r.tabs[i].id = s.tabs[i].id
  BY <1>1
<1>3. \A i \in DOMAIN s.tabs : TabOK(s, s.tabs[i])
  BY DEF StateOK
<1>4. ASSUME NEW i \in DOMAIN r.tabs
      PROVE  TabOK(r, r.tabs[i])
  <2>1. CASE i = k
    BY <1>1, <1>3, <2>1 DEF TabOK
  <2>2. CASE i # k
    <3>1. i \in DOMAIN s.tabs /\ r.tabs[i] = s.tabs[i] /\ TabOK(s, s.tabs[i])
      BY <1>1, <1>3, <2>2
    <3>2. ASSUME NEW p \in Panes(s.tabs[i])
          PROVE  p \in 1 .. r.nextPane - 1
      <4>1. p \in Nat /\ p >= 1 /\ p < s.nextPane
        BY <3>1, PaneBounds
      <4> QED
        BY <1>1, <4>1
    <3> QED
      BY <3>1, <3>2 DEF TabOK
  <2> QED
    BY <2>1, <2>2
<1>5. \A i, j \in DOMAIN r.tabs : r.tabs[i].id = r.tabs[j].id => i = j
  BY <1>1, <1>2 DEF StateOK
<1>6. ASSUME NEW i \in DOMAIN r.tabs, NEW j \in DOMAIN r.tabs,
             Panes(r.tabs[i]) \cap Panes(r.tabs[j]) # {}
      PROVE  i = j
  <2>1. PICK p : p \in Panes(r.tabs[i]) /\ p \in Panes(r.tabs[j])
    BY <1>6
  <2>2. \A h \in DOMAIN r.tabs : p \in Panes(r.tabs[h]) => p \in Panes(s.tabs[h]) \/ (h = k /\ p >= s.nextPane)
    BY <1>1
  <2>3. \A h \in DOMAIN r.tabs : p \in Panes(s.tabs[h]) => p \in Int /\ p < s.nextPane
    BY <1>1, PaneBounds
  <2>4. \A g, h \in DOMAIN s.tabs : p \in Panes(s.tabs[g]) /\ p \in Panes(s.tabs[h]) => g = h
    BY DEF StateOK
  <2> QED
    BY <1>1, <2>1, <2>2, <2>3, <2>4
<1>7. TabIds(r) = TabIds(s)
  BY <1>1, <1>2 DEF TabIds
<1>8. r.tabs = <<>> <=> s.tabs = <<>>
  BY <1>1
<1>9. StateOK(r)
  <2>1. r.nextTab >= 1 /\ r.nextPane >= 1
    BY <1>1 DEF StateOK
  <2>2. r.active \in TabIds(r) \cup {0} /\ (r.active = 0 <=> r.tabs = <<>>)
    BY <1>7, <1>8 DEF StateOK
  <2>3. \A i, j \in DOMAIN r.tabs : Panes(r.tabs[i]) \cap Panes(r.tabs[j]) # {} => i = j
    BY <1>6
  <2> QED
    BY <1>4, <1>5, <2>1, <2>2, <2>3 DEF StateOK
<1>10. ASSUME NEW t, NEW p, NEW n
       PROVE  Shows(r, t, p, n) <=> IF t = tab.id THEN p \in Panes(tab) /\ tab.sess[p] = n
                                                 ELSE Shows(s, t, p, n)
  <2>1. CASE t = tab.id
    <3>1. \A i \in DOMAIN r.tabs : r.tabs[i].id = t <=> i = k
      BY <1>1, <1>5, <2>1
    <3> QED
      BY <1>1, <2>1, <3>1 DEF Shows
  <2>2. CASE t # tab.id
    BY <1>1, <1>2, <2>2 DEF Shows
  <2> QED
    BY <2>1, <2>2
<1> QED
  BY <1>9, <1>10

-----------------------------------------------------------------------------
(* The operations.                                                         *)

LEMMA InitialOK == StateOK(InitialTabs) /\ AllPanes(InitialTabs) = {} /\ \A t, p, n : ~Shows(InitialTabs, t, p, n)
BY DEF StateOK, State, InitialTabs, TabIds, AllPanes, Shows

\* A binding is a function on a set of pane ids.
LEMMA BindingsAre ==
  ASSUME NEW S \in SUBSET Nat, NEW f \in [S -> Nat]
  PROVE  f \in Bindings
BY DEF Bindings

LEMMA OpenTabShows ==
  ASSUME NEW s, StateOK(s)
  PROVE  /\ StateOK(OpenTab(s)) /\ OpenTab(s).tabs # <<>>
         /\ OpenTab(s).nextTab = s.nextTab + 1 /\ OpenTab(s).nextPane = s.nextPane + 1
         /\ s.nextTab \in TabIds(OpenTab(s))
         /\ \A t, p, n : Shows(OpenTab(s), t, p, n)
                           <=> Shows(s, t, p, n) \/ (t = s.nextTab /\ p = s.nextPane /\ n = 0)
<1> DEFINE tab == [id |-> s.nextTab, sess |-> [p \in {s.nextPane} |-> 0], focus |-> s.nextPane]
           r == OpenTab(s)
<1>1. s.tabs \in Seq(Tab) /\ s.nextTab \in Nat /\ s.nextPane \in Nat /\ s.nextTab >= 1 /\ s.nextPane >= 1
  BY DEF StateOK, State
<1>2. tab.sess \in Bindings
  <2>1. {s.nextPane} \in SUBSET Nat /\ tab.sess \in [{s.nextPane} -> Nat]
    BY <1>1
  <2> QED
    BY <2>1, BindingsAre
<1>3. tab \in Tab /\ tab.id = s.nextTab /\ tab.focus = s.nextPane /\ Panes(tab) = {s.nextPane}
      /\ tab.sess[s.nextPane] = 0
  BY <1>1, <1>2 DEF Tab, Panes
<1>4. /\ r.tabs = Append(s.tabs, tab) /\ r.active = s.nextTab
      /\ r.nextTab = s.nextTab + 1 /\ r.nextPane = s.nextPane + 1
      /\ r = [tabs |-> Append(s.tabs, tab), active |-> s.nextTab,
              nextTab |-> s.nextTab + 1, nextPane |-> s.nextPane + 1]
  BY DEF OpenTab
<1> HIDE DEF tab, r
<1>5. /\ r.tabs \in Seq(Tab) /\ Len(r.tabs) = Len(s.tabs) + 1 /\ Len(s.tabs) \in Nat
      /\ r.tabs[Len(s.tabs) + 1] = tab /\ \A i \in DOMAIN s.tabs : r.tabs[i] = s.tabs[i]
      /\ DOMAIN r.tabs = DOMAIN s.tabs \cup {Len(s.tabs) + 1} /\ Len(s.tabs) + 1 \notin DOMAIN s.tabs
  BY <1>1, <1>3, <1>4
<1>6. r \in State
  BY <1>1, <1>4, <1>5 DEF State
<1>7. \A i \in DOMAIN s.tabs : TabOK(s, s.tabs[i]) /\ s.tabs[i].id \in Nat /\ s.tabs[i].id < s.nextTab
  BY <1>1 DEF StateOK, TabOK
<1>8. ASSUME NEW i \in DOMAIN r.tabs
      PROVE  TabOK(r, r.tabs[i])
  <2>1. CASE i \in DOMAIN s.tabs
    <3>1. ASSUME NEW p \in Panes(s.tabs[i])
          PROVE  p \in 1 .. r.nextPane - 1
      <4>1. p \in Nat /\ p >= 1 /\ p < s.nextPane
        BY <2>1, PaneBounds
      <4> QED
        BY <1>1, <1>4, <4>1
    <3>2. s.tabs[i].id \in 1 .. r.nextTab - 1
      BY <1>1, <1>4, <1>7, <2>1 DEF TabOK
    <3> QED
      BY <1>5, <1>7, <2>1, <3>1, <3>2 DEF TabOK
  <2>2. CASE i = Len(s.tabs) + 1
    BY <1>1, <1>3, <1>4, <1>5, <2>2 DEF TabOK
  <2> QED
    BY <1>5, <2>1, <2>2
<1>9. \A i, j \in DOMAIN r.tabs : r.tabs[i].id = r.tabs[j].id => i = j
  BY <1>1, <1>3, <1>5, <1>7 DEF StateOK
<1>10. ASSUME NEW i \in DOMAIN r.tabs, NEW j \in DOMAIN r.tabs,
              Panes(r.tabs[i]) \cap Panes(r.tabs[j]) # {}
       PROVE  i = j
  <2>1. \A h \in DOMAIN s.tabs : s.nextPane \notin Panes(s.tabs[h])
    BY PaneBounds
  <2>2. CASE i \in DOMAIN s.tabs /\ j \in DOMAIN s.tabs
    BY <1>5, <1>10, <2>2 DEF StateOK
  <2> QED
    BY <1>3, <1>5, <1>10, <2>1, <2>2
<1>11. s.nextTab \in TabIds(r) /\ r.tabs # <<>>
  BY <1>3, <1>5 DEF TabIds
<1>12. StateOK(r)
  <2>1. r.active \in TabIds(r) /\ r.active # 0 /\ r.nextTab >= 1 /\ r.nextPane >= 1
    BY <1>1, <1>4, <1>11
  <2>2. \A i, j \in DOMAIN r.tabs : Panes(r.tabs[i]) \cap Panes(r.tabs[j]) # {} => i = j
    BY <1>10
  <2> QED
    BY <1>6, <1>8, <1>9, <1>11, <2>1, <2>2 DEF StateOK
<1>13. ASSUME NEW t, NEW p, NEW n
       PROVE  Shows(r, t, p, n) <=> Shows(s, t, p, n) \/ (t = s.nextTab /\ p = s.nextPane /\ n = 0)
  BY <1>3, <1>5 DEF Shows
<1> QED
  BY <1>4, <1>11, <1>12, <1>13 DEF r

\* A pane that is not on its tab any more takes no session.
LEMMA AttachShows ==
  ASSUME NEW s, StateOK(s), NEW t, NEW p, NEW session \in Nat
  PROVE  LET r == AttachSession(s, t, p, session) IN
         /\ StateOK(r) /\ r.nextTab = s.nextTab /\ r.nextPane = s.nextPane
         /\ ~HasPane(s, t, p) => r = s
         /\ HasPane(s, t, p) =>
              \A u, q, n : Shows(r, u, q, n) <=> IF u = t /\ q = p THEN n = session ELSE Shows(s, u, q, n)
<1> DEFINE r == AttachSession(s, t, p, session)
<1>1. CASE ~HasPane(s, t, p)
  BY <1>1 DEF AttachSession
<1>2. CASE HasPane(s, t, p)
  <2>1. PICK k \in DOMAIN s.tabs : s.tabs[k].id = t /\ TabOf(s, t) = s.tabs[k] /\ p \in Panes(s.tabs[k])
    BY <1>2, PaneShows DEF HasPane
  <2> DEFINE tab == [s.tabs[k] EXCEPT !.sess[p] = session]
  <2>2. s.tabs[k] \in Tab /\ s.tabs[k].sess \in [Panes(s.tabs[k]) -> Nat] /\ TabOK(s, s.tabs[k]) /\ s \in State
    BY TabFields DEF StateOK
  <2>3. /\ tab.sess \in [Panes(s.tabs[k]) -> Nat] /\ tab.id = t /\ tab.focus = s.tabs[k].focus
        /\ tab = [id |-> t, sess |-> tab.sess, focus |-> s.tabs[k].focus]
        /\ \A q \in Panes(s.tabs[k]) : tab.sess[q] = IF q = p THEN session ELSE s.tabs[k].sess[q]
    BY <2>1, <2>2 DEF Tab
  <2>4. r = ReplaceTab(s, s.tabs[k].id, tab)
    BY <1>2, <2>1 DEF AttachSession
  <2> HIDE DEF tab, r
  <2>5. Panes(s.tabs[k]) \in SUBSET Nat
    BY PaneBounds
  <2>6. tab \in Tab /\ Panes(tab) = Panes(s.tabs[k])
    <3>1. tab.sess \in Bindings
      BY <2>3, <2>5, BindingsAre
    <3> QED
      BY <2>1, <2>2, <2>3, <3>1 DEF Tab, Panes
  <2>7. /\ r = [s EXCEPT !.tabs = [s.tabs EXCEPT ![k] = tab]]
        /\ [s.tabs EXCEPT ![k] = tab] \in Seq(Tab)
    BY <2>4, <2>6, ReplaceIs
  <2>8. /\ r \in State /\ r.tabs = [s.tabs EXCEPT ![k] = tab] /\ r.active = s.active
        /\ r.nextTab = s.nextTab /\ r.nextPane = s.nextPane /\ s.nextPane \in Nat
    BY <2>2, <2>7 DEF State
  <2>9. tab.focus \in Panes(tab) /\ Panes(tab) \subseteq 1 .. r.nextPane - 1
    BY <2>2, <2>3, <2>6, <2>8 DEF TabOK
  <2>10. /\ StateOK(r)
         /\ \A u, q, n : Shows(r, u, q, n) <=> IF u = tab.id THEN q \in Panes(tab) /\ tab.sess[q] = n
                                                            ELSE Shows(s, u, q, n)
    BY <2>1, <2>3, <2>6, <2>8, <2>9, Replaced
  <2>11. ASSUME NEW u, NEW q, NEW n
         PROVE  Shows(r, u, q, n) <=> IF u = t /\ q = p THEN n = session ELSE Shows(s, u, q, n)
    <3>1. \A i \in DOMAIN s.tabs : s.tabs[i].id = t <=> i = k
      BY <2>1, TabAt
    <3>2. Shows(s, t, q, n) <=> q \in Panes(s.tabs[k]) /\ s.tabs[k].sess[q] = n
      BY <3>1 DEF Shows
    <3> QED
      BY <2>1, <2>3, <2>6, <2>10, <3>2
  <2> QED
    BY <1>2, <2>8, <2>10, <2>11 DEF r
<1> QED
  BY <1>1, <1>2

\* The new pane is bound to no session.
LEMMA SplitShows ==
  ASSUME NEW s, StateOK(s), NEW t \in TabIds(s)
  PROVE  LET r == SplitPane(s, t) IN
         /\ StateOK(r) /\ r.tabs # <<>> /\ r.nextTab = s.nextTab /\ r.nextPane = s.nextPane + 1
         /\ \A u, q, n : Shows(r, u, q, n) <=> Shows(s, u, q, n) \/ (u = t /\ q = s.nextPane /\ n = 0)
<1> DEFINE r == SplitPane(s, t)
<1>1. PICK k \in DOMAIN s.tabs : s.tabs[k].id = t
  BY DEF TabIds
<1>2. TabOf(s, t) = s.tabs[k] /\ \A i \in DOMAIN s.tabs : s.tabs[i].id = t <=> i = k
  BY <1>1, TabAt
<1>3. /\ s.tabs[k] \in Tab /\ s.tabs[k].sess \in [Panes(s.tabs[k]) -> Nat] /\ TabOK(s, s.tabs[k])
      /\ s \in State /\ s.nextPane \in Nat /\ s.nextPane >= 1 /\ s.tabs \in Seq(Tab)
  BY TabFields DEF StateOK, State
<1> DEFINE sess == [p \in Panes(s.tabs[k]) \cup {s.nextPane} |->
                      IF p = s.nextPane THEN 0 ELSE s.tabs[k].sess[p]]
           tab == [s.tabs[k] EXCEPT !.sess = sess, !.focus = s.nextPane]
<1>4. \A p \in Panes(s.tabs[k]) : p \in Nat /\ p >= 1 /\ p < s.nextPane
  BY PaneBounds
<1>5. /\ sess \in [Panes(s.tabs[k]) \cup {s.nextPane} -> Nat] /\ sess[s.nextPane] = 0
      /\ \A p \in Panes(s.tabs[k]) : sess[p] = s.tabs[k].sess[p]
  BY <1>3, <1>4
<1>6. r = [ReplaceTab(s, s.tabs[k].id, tab) EXCEPT !.nextPane = @ + 1]
  BY <1>1, <1>2 DEF SplitPane
<1> HIDE DEF r, sess
<1>7. tab \in Tab /\ tab.id = t /\ tab.focus = s.nextPane /\ tab.sess = sess
      /\ Panes(tab) = Panes(s.tabs[k]) \cup {s.nextPane}
  <2>1. Panes(s.tabs[k]) \cup {s.nextPane} \in SUBSET Nat
    BY <1>3, <1>4
  <2>2. sess \in Bindings
    BY <1>5, <2>1, BindingsAre
  <2> QED
    BY <1>1, <1>3, <1>5, <2>2 DEF Tab, Panes
<1> HIDE DEF tab
<1>8. /\ ReplaceTab(s, s.tabs[k].id, tab) = [s EXCEPT !.tabs = [s.tabs EXCEPT ![k] = tab]]
      /\ [s.tabs EXCEPT ![k] = tab] \in Seq(Tab)
  BY <1>7, ReplaceIs
<1>9. /\ r \in State /\ r.tabs = [s.tabs EXCEPT ![k] = tab] /\ r.active = s.active
      /\ r.nextTab = s.nextTab /\ r.nextPane = s.nextPane + 1
  <2> DEFINE same == [s EXCEPT !.tabs = [s.tabs EXCEPT ![k] = tab]]
  <2>1. /\ same \in State /\ same.tabs = [s.tabs EXCEPT ![k] = tab] /\ same.active = s.active
        /\ same.nextTab = s.nextTab /\ same.nextPane = s.nextPane
    BY <1>3, <1>8 DEF State
  <2>2. r = [same EXCEPT !.nextPane = @ + 1]
    BY <1>6, <1>8
  <2> HIDE DEF same
  <2> QED
    BY <1>3, <2>1, <2>2 DEF State
<1>10. /\ tab.focus \in Panes(tab) /\ Panes(tab) \subseteq 1 .. r.nextPane - 1 /\ r.nextPane >= s.nextPane
       /\ \A p \in Panes(tab) : p \in Panes(s.tabs[k]) \/ p >= s.nextPane
  BY <1>3, <1>4, <1>7, <1>9
<1>11. /\ StateOK(r)
       /\ \A u, q, n : Shows(r, u, q, n) <=> IF u = tab.id THEN q \in Panes(tab) /\ tab.sess[q] = n
                                                          ELSE Shows(s, u, q, n)
  BY <1>1, <1>7, <1>9, <1>10, Replaced
<1>12. ASSUME NEW u, NEW q, NEW n
       PROVE  Shows(r, u, q, n) <=> Shows(s, u, q, n) \/ (u = t /\ q = s.nextPane /\ n = 0)
  <2>1. Shows(s, t, q, n) <=> q \in Panes(s.tabs[k]) /\ s.tabs[k].sess[q] = n
    BY <1>2 DEF Shows
  <2> QED
    BY <1>4, <1>5, <1>7, <1>11, <2>1
<1>13. r.tabs # <<>>
  BY <1>3, <1>9
<1> QED
  BY <1>9, <1>11, <1>12, <1>13 DEF r

\* Only the closed pane leaves, and only one that has a sibling.
LEMMA ClosePaneShows ==
  ASSUME NEW s, StateOK(s), NEW t, NEW p, NEW r \in ClosePane(s, t, p)
  PROVE  /\ StateOK(r) /\ r.nextTab = s.nextTab /\ r.nextPane = s.nextPane /\ Len(r.tabs) = Len(s.tabs)
         /\ HasPane(s, t, p) /\ Panes(TabOf(s, t)) # {p} =>
              \A u, q, n : Shows(r, u, q, n) <=> Shows(s, u, q, n) /\ q # p
<1>1. CASE ~HasPane(s, t, p) \/ Panes(TabOf(s, t)) = {p}
  BY <1>1 DEF ClosePane
<1>2. CASE HasPane(s, t, p) /\ Panes(TabOf(s, t)) # {p}
  <2>1. PICK k \in DOMAIN s.tabs : s.tabs[k].id = t /\ TabOf(s, t) = s.tabs[k] /\ p \in Panes(s.tabs[k])
    BY <1>2, PaneShows DEF HasPane
  <2> DEFINE rest == Panes(s.tabs[k]) \ {p}
             sess == Restrict(s.tabs[k].sess, rest)
  <2>2. PICK next \in rest :
          r = ReplaceTab(s, s.tabs[k].id, [s.tabs[k] EXCEPT !.sess = sess, !.focus = IF @ = p THEN next ELSE @])
    BY <1>2, <2>1 DEF ClosePane
  <2> DEFINE tab == [s.tabs[k] EXCEPT !.sess = sess, !.focus = IF s.tabs[k].focus = p THEN next ELSE s.tabs[k].focus]
  <2>3. r = ReplaceTab(s, s.tabs[k].id, tab)
    BY <2>2
  <2>4. /\ s.tabs[k] \in Tab /\ s.tabs[k].sess \in [Panes(s.tabs[k]) -> Nat] /\ TabOK(s, s.tabs[k])
        /\ s \in State /\ s.nextPane \in Nat /\ s.tabs \in Seq(Tab)
    BY TabFields DEF StateOK, State
  <2>5. \A q \in Panes(s.tabs[k]) : q \in Nat
    BY PaneBounds
  <2>6. sess \in [rest -> Nat] /\ \A q \in rest : sess[q] = s.tabs[k].sess[q]
    BY <2>4 DEF Restrict
  <2> HIDE DEF sess
  <2>7. tab \in Tab /\ tab.id = t /\ tab.sess = sess /\ Panes(tab) = rest /\ tab.focus \in rest
    <3>1. rest \in SUBSET Nat
      BY <2>5
    <3>2. sess \in Bindings
      BY <2>6, <3>1, BindingsAre
    <3>3. (IF s.tabs[k].focus = p THEN next ELSE s.tabs[k].focus) \in rest
      BY <2>4 DEF TabOK
    <3>4. (IF s.tabs[k].focus = p THEN next ELSE s.tabs[k].focus) \in Nat
      BY <2>5, <3>3
    <3> QED
      BY <2>1, <2>4, <2>6, <3>2, <3>3, <3>4 DEF Tab, Panes
  <2> HIDE DEF tab
  <2>8. /\ r = [s EXCEPT !.tabs = [s.tabs EXCEPT ![k] = tab]]
        /\ [s.tabs EXCEPT ![k] = tab] \in Seq(Tab)
    BY <2>3, <2>7, ReplaceIs
  <2>9. /\ r \in State /\ r.tabs = [s.tabs EXCEPT ![k] = tab] /\ r.active = s.active
        /\ r.nextTab = s.nextTab /\ r.nextPane = s.nextPane
    BY <2>4, <2>8 DEF State
  <2>10. /\ Panes(tab) \subseteq 1 .. r.nextPane - 1 /\ r.nextPane >= s.nextPane
         /\ \A q \in Panes(tab) : q \in Panes(s.tabs[k]) \/ q >= s.nextPane
    BY <2>4, <2>7, <2>9 DEF TabOK
  <2>11. /\ StateOK(r)
         /\ \A u, q, n : Shows(r, u, q, n) <=> IF u = tab.id THEN q \in Panes(tab) /\ tab.sess[q] = n
                                                            ELSE Shows(s, u, q, n)
    BY <2>1, <2>7, <2>9, <2>10, Replaced
  <2>12. ASSUME NEW u, NEW q, NEW n
         PROVE  Shows(r, u, q, n) <=> Shows(s, u, q, n) /\ q # p
    <3>1. Shows(s, t, q, n) <=> q \in Panes(s.tabs[k]) /\ s.tabs[k].sess[q] = n
      <4>1. \A i \in DOMAIN s.tabs : s.tabs[i].id = t <=> i = k
        BY <2>1, TabAt
      <4> QED
        BY <4>1 DEF Shows
    <3>2. Shows(s, u, q, n) /\ q = p => u = t
      BY <2>1 DEF Shows, StateOK
    <3> QED
      BY <2>6, <2>7, <2>11, <3>1, <3>2
  <2>13. Len(r.tabs) = Len(s.tabs)
    BY <2>4, <2>9
  <2> QED
    BY <2>9, <2>11, <2>12, <2>13
<1> QED
  BY <1>1, <1>2

LEMMA FocusShows ==
  ASSUME NEW s, StateOK(s), NEW t, NEW p
  PROVE  LET r == FocusPane(s, t, p) IN
         /\ StateOK(r) /\ r.nextTab = s.nextTab /\ r.nextPane = s.nextPane /\ Len(r.tabs) = Len(s.tabs)
         /\ \A u, q, n : Shows(r, u, q, n) <=> Shows(s, u, q, n)
<1> DEFINE r == FocusPane(s, t, p)
<1>1. CASE ~HasPane(s, t, p)
  BY <1>1 DEF FocusPane
<1>2. CASE HasPane(s, t, p)
  <2>1. PICK k \in DOMAIN s.tabs : s.tabs[k].id = t /\ TabOf(s, t) = s.tabs[k] /\ p \in Panes(s.tabs[k])
    BY <1>2, PaneShows DEF HasPane
  <2> DEFINE tab == [s.tabs[k] EXCEPT !.focus = p]
  <2>2. r = ReplaceTab(s, s.tabs[k].id, tab)
    BY <1>2, <2>1 DEF FocusPane
  <2>3. /\ s.tabs[k] \in Tab /\ TabOK(s, s.tabs[k]) /\ s \in State /\ s.nextPane \in Nat
        /\ s.tabs \in Seq(Tab) /\ p \in Nat
    BY <2>1, TabFields, PaneBounds DEF StateOK, State
  <2>4. tab \in Tab /\ tab.id = t /\ tab.sess = s.tabs[k].sess /\ tab.focus = p /\ Panes(tab) = Panes(s.tabs[k])
    BY <2>1, <2>3 DEF Tab, Panes
  <2> HIDE DEF tab, r
  <2>5. /\ r = [s EXCEPT !.tabs = [s.tabs EXCEPT ![k] = tab]]
        /\ [s.tabs EXCEPT ![k] = tab] \in Seq(Tab)
    BY <2>2, <2>4, ReplaceIs
  <2>6. /\ r \in State /\ r.tabs = [s.tabs EXCEPT ![k] = tab] /\ r.active = s.active
        /\ r.nextTab = s.nextTab /\ r.nextPane = s.nextPane
    BY <2>3, <2>5 DEF State
  <2>7. Panes(tab) \subseteq 1 .. r.nextPane - 1 /\ tab.focus \in Panes(tab)
    BY <2>1, <2>3, <2>4, <2>6 DEF TabOK
  <2>8. /\ StateOK(r)
        /\ \A u, q, n : Shows(r, u, q, n) <=> IF u = tab.id THEN q \in Panes(tab) /\ tab.sess[q] = n
                                                           ELSE Shows(s, u, q, n)
    BY <2>1, <2>3, <2>4, <2>6, <2>7, Replaced
  <2>9. \A q, n : Shows(s, t, q, n) <=> q \in Panes(s.tabs[k]) /\ s.tabs[k].sess[q] = n
    <3>1. \A i \in DOMAIN s.tabs : s.tabs[i].id = t <=> i = k
      BY <2>1, TabAt
    <3> QED
      BY <3>1 DEF Shows
  <2> QED
    BY <2>3, <2>4, <2>6, <2>8, <2>9 DEF r
<1> QED
  BY <1>1, <1>2

LEMMA ActivateShows ==
  ASSUME NEW s, StateOK(s), NEW t
  PROVE  LET r == ActivateTab(s, t) IN
         /\ StateOK(r) /\ r.nextTab = s.nextTab /\ r.nextPane = s.nextPane /\ r.tabs = s.tabs
         /\ \A u, q, n : Shows(r, u, q, n) <=> Shows(s, u, q, n)
<1> DEFINE r == ActivateTab(s, t)
<1>1. CASE t \notin TabIds(s)
  BY <1>1 DEF ActivateTab
<1>2. CASE t \in TabIds(s)
  <2>1. PICK k \in DOMAIN s.tabs : s.tabs[k].id = t
    BY <1>2 DEF TabIds
  <2>2. s \in State /\ t \in Nat /\ t # 0 /\ s.tabs # <<>>
    <3>1. s.nextTab \in Nat /\ t \in 1 .. s.nextTab - 1
      BY <2>1 DEF StateOK, State, TabOK
    <3> QED
      BY <2>1, <3>1 DEF StateOK
  <2>3. r = [s EXCEPT !.active = t]
    BY <1>2 DEF ActivateTab
  <2> HIDE DEF r
  <2>4. r \in State /\ r.tabs = s.tabs /\ r.active = t /\ r.nextTab = s.nextTab /\ r.nextPane = s.nextPane
    BY <2>2, <2>3 DEF State
  <2>5. StateOK(r)
    <3>1. TabIds(r) = TabIds(s)
      BY <2>4 DEF TabIds
    <3>2. \A i \in DOMAIN r.tabs : TabOK(r, r.tabs[i])
      BY <2>4 DEF StateOK, TabOK
    <3>3. /\ \A i, j \in DOMAIN r.tabs : r.tabs[i].id = r.tabs[j].id => i = j
          /\ \A i, j \in DOMAIN r.tabs : Panes(r.tabs[i]) \cap Panes(r.tabs[j]) # {} => i = j
          /\ r.nextTab >= 1 /\ r.nextPane >= 1
      BY <2>4 DEF StateOK
    <3> QED
      BY <1>2, <2>2, <2>4, <3>1, <3>2, <3>3 DEF StateOK
  <2>6. \A u, q, n : Shows(r, u, q, n) <=> Shows(s, u, q, n)
    BY <2>4 DEF Shows
  <2> QED
    BY <2>4, <2>5, <2>6 DEF r
<1> QED
  BY <1>1, <1>2

-----------------------------------------------------------------------------
(* Removing and moving tabs.                                               *)

LEMMA RemoveAtIs ==
  ASSUME NEW S, NEW seq \in Seq(S), NEW i \in DOMAIN seq
  PROVE  /\ RemoveAt(seq, i) \in Seq(S) /\ Len(RemoveAt(seq, i)) = Len(seq) - 1
         /\ \A j \in 1 .. Len(seq) - 1 : RemoveAt(seq, i)[j] = seq[IF j < i THEN j ELSE j + 1]
<1>1. i \in Nat /\ i >= 1 /\ i <= Len(seq) /\ Len(seq) \in Nat
  OBVIOUS
<1> DEFINE first == SubSeq(seq, 1, i - 1)
           last == SubSeq(seq, i + 1, Len(seq))
<1>2. first \in Seq(S) /\ last \in Seq(S)
  BY <1>1
<1>3. Len(first) = i - 1 /\ Len(last) = Len(seq) - i
  BY <1>1
<1>4. /\ \A j \in 1 .. i - 1 : first[j] = seq[j]
      /\ \A j \in 1 .. Len(seq) - i : last[j] = seq[i + j]
  BY <1>1
<1>5. RemoveAt(seq, i) = first \o last
  BY DEF RemoveAt
<1> HIDE DEF first, last
<1>6. RemoveAt(seq, i) \in Seq(S) /\ Len(RemoveAt(seq, i)) = Len(seq) - 1
  BY <1>1, <1>2, <1>3, <1>5
<1>7. ASSUME NEW j \in 1 .. Len(seq) - 1
      PROVE  RemoveAt(seq, i)[j] = seq[IF j < i THEN j ELSE j + 1]
  <2>1. CASE j < i
    <3>1. j \in 1 .. i - 1 /\ (first \o last)[j] = first[j]
      BY <1>1, <1>2, <1>3, <2>1
    <3> QED
      BY <1>4, <1>5, <2>1, <3>1
  <2>2. CASE ~(j < i)
    <3>1. j - (i - 1) \in 1 .. Len(seq) - i /\ i + (j - (i - 1)) = j + 1
      BY <1>1, <2>2
    <3>2. (first \o last)[j] = last[j - (i - 1)]
      BY <1>1, <1>2, <1>3, <2>2
    <3> QED
      BY <1>4, <1>5, <2>2, <3>1, <3>2
  <2> QED
    BY <2>1, <2>2
<1> QED
  BY <1>6, <1>7

LEMMA InsertAtIs ==
  ASSUME NEW S, NEW seq \in Seq(S), NEW i \in 1 .. Len(seq) + 1, NEW e \in S
  PROVE  /\ InsertAt(seq, i, e) \in Seq(S) /\ Len(InsertAt(seq, i, e)) = Len(seq) + 1
         /\ \A j \in 1 .. Len(seq) + 1 :
              InsertAt(seq, i, e)[j] = IF j = i THEN e ELSE seq[IF j < i THEN j ELSE j - 1]
<1>1. i \in Nat /\ i >= 1 /\ i <= Len(seq) + 1 /\ Len(seq) \in Nat
  OBVIOUS
<1>2. SubSeq(seq, 1, i - 1) \in Seq(S) /\ SubSeq(seq, i, Len(seq)) \in Seq(S) /\ <<e>> \in Seq(S)
  BY <1>1
<1>3. Len(SubSeq(seq, 1, i - 1)) = i - 1 /\ Len(SubSeq(seq, i, Len(seq))) = Len(seq) - i + 1
  BY <1>1
<1>4. /\ \A j \in 1 .. i - 1 : SubSeq(seq, 1, i - 1)[j] = seq[j]
      /\ \A j \in 1 .. Len(seq) - i + 1 : SubSeq(seq, i, Len(seq))[j] = seq[i + j - 1]
  BY <1>1
<1> DEFINE first == SubSeq(seq, 1, i - 1) \o <<e>>
<1>5. first \in Seq(S) /\ Len(first) = i /\ first[i] = e /\ \A j \in 1 .. i - 1 : first[j] = seq[j]
  BY <1>1, <1>2, <1>3, <1>4
<1>6. InsertAt(seq, i, e) = first \o SubSeq(seq, i, Len(seq))
  BY DEF InsertAt
<1> HIDE DEF first
<1>7. InsertAt(seq, i, e) \in Seq(S) /\ Len(InsertAt(seq, i, e)) = Len(seq) + 1
  BY <1>1, <1>2, <1>3, <1>5, <1>6
<1>8. ASSUME NEW j \in 1 .. Len(seq) + 1
      PROVE  InsertAt(seq, i, e)[j] = IF j = i THEN e ELSE seq[IF j < i THEN j ELSE j - 1]
  BY <1>1, <1>2, <1>3, <1>4, <1>5, <1>6
<1> QED
  BY <1>7, <1>8

\* A state whose tabs are some of another's, each once, in any order.
LEMMA Picked ==
  ASSUME NEW s, StateOK(s), NEW r \in State, r.nextTab = s.nextTab, r.nextPane = s.nextPane,
         NEW f \in [DOMAIN r.tabs -> DOMAIN s.tabs],
         \A i, j \in DOMAIN r.tabs : f[i] = f[j] => i = j,
         \A i \in DOMAIN r.tabs : r.tabs[i] = s.tabs[f[i]],
         r.active \in TabIds(r) \cup {0}, r.active = 0 <=> r.tabs = <<>>
  PROVE  StateOK(r)
<1>1. r.nextTab >= 1 /\ r.nextPane >= 1
  BY DEF StateOK
<1>2. ASSUME NEW i \in DOMAIN r.tabs
      PROVE  TabOK(r, r.tabs[i])
  BY DEF StateOK, TabOK
<1>3. ASSUME NEW i \in DOMAIN r.tabs, NEW j \in DOMAIN r.tabs, r.tabs[i].id = r.tabs[j].id
      PROVE  i = j
  BY <1>3 DEF StateOK
<1>4. ASSUME NEW i \in DOMAIN r.tabs, NEW j \in DOMAIN r.tabs,
             Panes(r.tabs[i]) \cap Panes(r.tabs[j]) # {}
      PROVE  i = j
  <2>1. f[i] \in DOMAIN s.tabs /\ f[j] \in DOMAIN s.tabs /\ Panes(s.tabs[f[i]]) \cap Panes(s.tabs[f[j]]) # {}
    BY <1>4
  <2>2. f[i] = f[j]
    BY <2>1 DEF StateOK
  <2> QED
    BY <2>2
<1> QED
  BY <1>1, <1>2, <1>3, <1>4 DEF StateOK

LEMMA CloseTabShows ==
  ASSUME NEW s, StateOK(s), NEW t
  PROVE  LET r == CloseTab(s, t) IN
         /\ StateOK(r) /\ r.nextTab = s.nextTab /\ r.nextPane = s.nextPane
         /\ t \in TabIds(s) => Len(r.tabs) = Len(s.tabs) - 1
         /\ \A u, q, n : Shows(r, u, q, n) <=> Shows(s, u, q, n) /\ u # t
<1> DEFINE r == CloseTab(s, t)
<1>1. CASE t \notin TabIds(s)
  BY <1>1 DEF CloseTab, Shows, TabIds
<1>2. CASE t \in TabIds(s)
  <2> DEFINE i == CHOOSE j \in DOMAIN s.tabs : s.tabs[j].id = t
             rest == RemoveAt(s.tabs, i)
  <2>1. i \in DOMAIN s.tabs /\ s.tabs[i].id = t
    BY <1>2 DEF TabIds
  <2>2. r = [s EXCEPT !.tabs = rest,
                      !.active = IF @ # t THEN @
                                 ELSE IF rest = <<>> THEN 0
                                 ELSE rest[IF i <= Len(rest) THEN i ELSE i - 1].id]
    BY <1>2 DEF CloseTab
  <2> HIDE DEF i, r
  <2>3. s \in State /\ s.tabs \in Seq(Tab) /\ s.active \in TabIds(s) /\ \A j \in DOMAIN s.tabs : s.tabs[j].id = t => j = i
    <3>1. s.tabs # <<>>
      BY <2>1 DEF StateOK, State
    <3> QED
      BY <2>1, <3>1 DEF StateOK, State
  <2>4. /\ rest \in Seq(Tab) /\ Len(rest) = Len(s.tabs) - 1 /\ Len(s.tabs) \in Nat /\ Len(rest) \in Nat
        /\ \A j \in DOMAIN rest : rest[j] = s.tabs[IF j < i THEN j ELSE j + 1]
    <3>1. /\ rest \in Seq(Tab) /\ Len(rest) = Len(s.tabs) - 1
          /\ \A j \in 1 .. Len(s.tabs) - 1 : rest[j] = s.tabs[IF j < i THEN j ELSE j + 1]
      BY <2>1, <2>3, RemoveAtIs
    <3> HIDE DEF rest
    <3>2. DOMAIN rest = 1 .. Len(s.tabs) - 1 /\ Len(s.tabs) \in Nat /\ Len(rest) \in Nat
      BY <2>3, <3>1
    <3> QED
      BY <3>1, <3>2
  <2> HIDE DEF rest
  <2> DEFINE f == [j \in DOMAIN rest |-> IF j < i THEN j ELSE j + 1]
  <2>5. /\ f \in [DOMAIN rest -> DOMAIN s.tabs] /\ \A j, k \in DOMAIN rest : f[j] = f[k] => j = k
        /\ \A j \in DOMAIN rest : rest[j] = s.tabs[f[j]] /\ f[j] # i
        /\ \A k \in DOMAIN s.tabs : k # i => \E j \in DOMAIN rest : f[j] = k
    <3>1. i \in 1 .. Len(s.tabs)
      BY <2>1, <2>3
    <3>2. f \in [DOMAIN rest -> DOMAIN s.tabs] /\ \A j \in DOMAIN rest : rest[j] = s.tabs[f[j]] /\ f[j] # i
      BY <2>3, <2>4, <3>1
    <3>3. \A j, k \in DOMAIN rest : f[j] = f[k] => j = k
      BY <2>3, <2>4, <3>1
    <3>4. ASSUME NEW k \in DOMAIN s.tabs, k # i
          PROVE  \E j \in DOMAIN rest : f[j] = k
      <4>1. k \in 1 .. Len(s.tabs)
        BY <2>3
      <4>2. CASE k < i
        <5>1. k \in DOMAIN rest /\ f[k] = k
          BY <2>4, <3>1, <4>1, <4>2
        <5> QED
          BY <5>1
      <4>3. CASE k > i
        <5>1. k - 1 \in DOMAIN rest /\ f[k - 1] = k
          BY <2>4, <3>1, <4>1, <4>3
        <5> QED
          BY <5>1
      <4> QED
        BY <3>1, <3>4, <4>1, <4>2, <4>3
    <3> QED
      BY <3>2, <3>3, <3>4
  <2> HIDE DEF f
  <2> DEFINE next == IF i <= Len(rest) THEN i ELSE i - 1
  <2>6. rest # <<>> => next \in DOMAIN rest /\ rest[next] \in Tab
    <3>1. i \in 1 .. Len(s.tabs)
      BY <2>1, <2>3
    <3>2. rest \in Seq(Tab) /\ Len(rest) \in Nat /\ Len(rest) = Len(s.tabs) - 1 /\ Len(s.tabs) \in Nat
      BY <2>4
    <3>3. rest # <<>> => next \in DOMAIN rest
      <4>1. rest # <<>> => Len(rest) # 0
        BY <3>2
      <4>2. Len(rest) # 0 => next \in 1 .. Len(rest)
        <5>1. i \in Nat /\ i >= 1 /\ i <= Len(rest) + 1 /\ Len(rest) \in Nat
          BY <3>1, <3>2
        <5> QED
          BY <5>1
      <4>3. DOMAIN rest = 1 .. Len(rest)
        BY <3>2
      <4> QED
        BY <4>1, <4>2, <4>3
    <3> QED
      BY <2>4, <3>3
  <2>7. s.active \in Nat /\ s.active # 0 /\ s.tabs # <<>>
    <3>1. s.tabs # <<>>
      BY <2>1, <2>3
    <3> QED
      BY <2>3, <3>1 DEF StateOK, State
  <2>8. /\ r \in State /\ r.tabs = rest /\ r.nextTab = s.nextTab /\ r.nextPane = s.nextPane
        /\ r.active = IF s.active # t THEN s.active ELSE IF rest = <<>> THEN 0 ELSE rest[next].id
    BY <2>2, <2>3, <2>4, <2>6 DEF State, Tab
  <2> HIDE DEF next
  <2>9. s.active # t => s.active \in TabIds(r)
    <3> SUFFICES ASSUME s.active # t
                 PROVE  s.active \in TabIds(r)
      OBVIOUS
    <3>1. PICK k \in DOMAIN s.tabs : s.tabs[k].id = s.active
      BY <2>3 DEF TabIds
    <3>2. k # i
      BY <2>1, <3>1
    <3>3. PICK j \in DOMAIN rest : f[j] = k
      BY <2>5, <3>2
    <3> QED
      BY <2>5, <2>8, <3>1, <3>3 DEF TabIds
  <2>10. rest # <<>> => rest[next].id \in TabIds(r) /\ rest[next].id # 0
    <3>1. rest # <<>> => rest[next].id \in TabIds(r)
      BY <2>6, <2>8 DEF TabIds
    <3>2. rest # <<>> => rest[next].id # 0
      <4>1. \A k \in DOMAIN s.tabs : s.tabs[k].id \in 1 .. s.nextTab - 1 /\ s.nextTab \in Nat
        BY DEF StateOK, State, TabOK
      <4>2. \A k \in DOMAIN s.tabs : s.tabs[k].id # 0
        BY <4>1
      <4> QED
        BY <2>5, <2>6, <4>2
    <3> QED
      BY <3>1, <3>2
  <2>11. s.active # t => rest # <<>>
    BY <2>8, <2>9, <2>4 DEF TabIds
  <2>12. r.active \in TabIds(r) \cup {0} /\ (r.active = 0 <=> r.tabs = <<>>)
    BY <2>7, <2>8, <2>9, <2>10, <2>11
  <2>13. StateOK(r)
    BY <2>5, <2>8, <2>12, Picked
  <2>14. ASSUME NEW u, NEW q, NEW n
         PROVE  Shows(r, u, q, n) <=> Shows(s, u, q, n) /\ u # t
    <3>1. ASSUME Shows(r, u, q, n)
          PROVE  Shows(s, u, q, n) /\ u # t
      BY <2>3, <2>5, <2>8, <3>1 DEF Shows
    <3>2. ASSUME Shows(s, u, q, n), u # t
          PROVE  Shows(r, u, q, n)
      <4>1. PICK k \in DOMAIN s.tabs : s.tabs[k].id = u /\ q \in Panes(s.tabs[k]) /\ s.tabs[k].sess[q] = n
        BY <3>2 DEF Shows
      <4>2. PICK j \in DOMAIN rest : f[j] = k
        BY <2>1, <2>5, <3>2, <4>1
      <4> QED
        BY <2>5, <2>8, <4>1, <4>2 DEF Shows
    <3> QED
      BY <3>1, <3>2
  <2> QED
    BY <2>4, <2>8, <2>13, <2>14 DEF r
<1> QED
  BY <1>1, <1>2

LEMMA MoveTabShows ==
  ASSUME NEW s, StateOK(s), NEW from \in DOMAIN s.tabs, NEW to \in DOMAIN s.tabs
  PROVE  LET r == MoveTab(s, from, to) IN
         /\ StateOK(r) /\ r.nextTab = s.nextTab /\ r.nextPane = s.nextPane /\ Len(r.tabs) = Len(s.tabs)
         /\ \A u, q, n : Shows(r, u, q, n) <=> Shows(s, u, q, n)
<1> DEFINE r == MoveTab(s, from, to)
           rest == RemoveAt(s.tabs, from)
           moved == InsertAt(rest, to, s.tabs[from])
<1>1. s \in State /\ s.tabs \in Seq(Tab) /\ s.tabs[from] \in Tab /\ Len(s.tabs) \in Nat
      /\ from \in 1 .. Len(s.tabs) /\ to \in 1 .. Len(s.tabs)
  BY TabFields DEF StateOK, State
<1>2. r = [s EXCEPT !.tabs = moved]
  BY DEF MoveTab
<1>3. /\ rest \in Seq(Tab) /\ Len(rest) = Len(s.tabs) - 1
      /\ \A j \in 1 .. Len(s.tabs) - 1 : rest[j] = s.tabs[IF j < from THEN j ELSE j + 1]
  BY <1>1, RemoveAtIs
<1> HIDE DEF rest
<1>4. /\ moved \in Seq(Tab) /\ Len(moved) = Len(s.tabs)
      /\ \A j \in 1 .. Len(s.tabs) :
           moved[j] = IF j = to THEN s.tabs[from] ELSE rest[IF j < to THEN j ELSE j - 1]
  <2>1. to \in 1 .. Len(rest) + 1 /\ Len(rest) + 1 = Len(s.tabs)
    BY <1>1, <1>3
  <2> QED
    <3>1. /\ moved \in Seq(Tab) /\ Len(moved) = Len(rest) + 1
          /\ \A j \in 1 .. Len(rest) + 1 :
               moved[j] = IF j = to THEN s.tabs[from] ELSE rest[IF j < to THEN j ELSE j - 1]
      <4>1. rest \in Seq(Tab) /\ s.tabs[from] \in Tab
        BY <1>1, <1>3
      <4> QED
        BY <2>1, <4>1, InsertAtIs
    <3> HIDE DEF moved
    <3> QED
      BY <2>1, <3>1
<1> HIDE DEF moved, r
<1>5. DOMAIN moved = 1 .. Len(s.tabs) /\ DOMAIN s.tabs = 1 .. Len(s.tabs)
  BY <1>1, <1>4
<1> DEFINE before(j) == IF j < to THEN j ELSE j - 1
           f == [j \in DOMAIN moved |-> IF j = to THEN from
                                        ELSE IF before(j) < from THEN before(j) ELSE before(j) + 1]
<1>6. /\ f \in [DOMAIN moved -> DOMAIN s.tabs]
      /\ \A j \in DOMAIN moved : moved[j] = s.tabs[f[j]]
  <2>1. f \in [DOMAIN moved -> DOMAIN s.tabs]
    BY <1>1, <1>5
  <2>2. ASSUME NEW j \in DOMAIN moved
        PROVE  moved[j] = s.tabs[f[j]]
    <3>1. CASE j = to
      BY <1>4, <1>5, <3>1
    <3>2. CASE j # to
      <4>1. before(j) \in 1 .. Len(s.tabs) - 1
        BY <1>1, <1>5, <3>2
      <4>2. moved[j] = rest[before(j)]
        BY <1>4, <1>5, <3>2
      <4>3. rest[before(j)] = s.tabs[IF before(j) < from THEN before(j) ELSE before(j) + 1]
        BY <1>3, <4>1
      <4> HIDE DEF before
      <4> QED
        BY <3>2, <4>2, <4>3
    <3> QED
      BY <3>1, <3>2
  <2> QED
    BY <2>1, <2>2
<1>7. \A j, k \in DOMAIN moved : f[j] = f[k] => j = k
  BY <1>1, <1>5
<1>8. ASSUME NEW k \in DOMAIN s.tabs
      PROVE  \E j \in DOMAIN moved : f[j] = k
  <2> DEFINE gap == IF k < from THEN k ELSE k - 1
             j == IF k = from THEN to ELSE IF gap < to THEN gap ELSE gap + 1
  <2>1. j \in DOMAIN moved /\ f[j] = k
    BY <1>1, <1>5
  <2> QED
    BY <2>1
<1> HIDE DEF f
<1>9. r \in State /\ r.tabs = moved /\ r.active = s.active /\ r.nextTab = s.nextTab /\ r.nextPane = s.nextPane
  BY <1>1, <1>2, <1>4 DEF State
<1>10. TabIds(r) = TabIds(s)
  BY <1>6, <1>8, <1>9 DEF TabIds
<1>11. r.tabs # <<>> /\ s.tabs # <<>>
  BY <1>1, <1>5, <1>9
<1>12. r.active \in TabIds(r) \cup {0} /\ (r.active = 0 <=> r.tabs = <<>>)
  BY <1>9, <1>10, <1>11 DEF StateOK
<1>13. StateOK(r)
  BY <1>6, <1>7, <1>9, <1>12, Picked
<1>14. ASSUME NEW u, NEW q, NEW n
       PROVE  Shows(r, u, q, n) <=> Shows(s, u, q, n)
  <2>1. ASSUME Shows(r, u, q, n)
        PROVE  Shows(s, u, q, n)
    BY <1>6, <1>9, <2>1 DEF Shows
  <2>2. ASSUME Shows(s, u, q, n)
        PROVE  Shows(r, u, q, n)
    BY <1>6, <1>8, <1>9, <2>2 DEF Shows
  <2> QED
    BY <2>1, <2>2
<1> QED
  BY <1>4, <1>9, <1>13, <1>14 DEF r

-----------------------------------------------------------------------------
(***************************************************************************)
(* The tabs with their sessions.                                           *)
(***************************************************************************)

(* The invariants.                                                         *)

TypeInv ==
  /\ StateOK(ui) /\ StateOK(ref)
  /\ DOMAIN runtimes \subseteq Nat /\ runtimes \in [DOMAIN runtimes -> Record]
  /\ \A p \in DOMAIN runtimes : runtimes[p].session \in Sessions \cup {0}
  /\ reserved \in [tab : Nat, pane : Nat]
  /\ booted \in BOOLEAN /\ closing \in BOOLEAN
  /\ children \in Seq(Fates)
  /\ opens \subseteq Open /\ \A o \in opens : o.session \in Sessions
  /\ closes \subseteq Sessions /\ exits \subseteq Sessions

\* The records are those of the panes on the screen; a pane mounts once.
RecordInv ==
  /\ reserved = [tab |-> ui.nextTab, pane |-> ui.nextPane]
  /\ DOMAIN runtimes = AllPanes(ui)
  /\ \A t, p, n \in Nat : Shows(ui, t, p, n) => runtimes[p].session = n
  /\ \A p \in DOMAIN runtimes :
       IF runtimes[p].mounted THEN runtimes[p].epoch = 1 ELSE runtimes[p] = Unmounted
  /\ booted /\ ~closing => ui.tabs # <<>>

\* An open that is in flight is the only one of its pane and of its session, and its
\* pane, if it is still there, waits for it.
OpenInv ==
  /\ \A o \in opens :
       /\ o.pane < ui.nextPane /\ o.epoch = 1
       /\ o.pane \in DOMAIN runtimes => /\ runtimes[o.pane].mounted /\ runtimes[o.pane].session = 0
                                        /\ Shows(ui, o.tab, o.pane, 0)
       /\ ~Attached(o.session) /\ o.session \notin closes /\ children[o.session] # "killed"
  /\ \A o, r \in opens : o.pane = r.pane \/ o.session = r.session => o = r

\* Who is responsible for a session.
OwnerInv ==
  /\ \A s \in Sessions : children[s] = "asked" => Opening(s)
  /\ NoOrphanSession /\ ClosedNeverAttached
  /\ \A s \in exits : children[s] = "gone"

\* The end of a shell is announced after its pane knows it.
EndInv ==
  /\ \A s \in Sessions : children[s] = "gone" => ~Opening(s)
  /\ DeadPaneNotified

IInv == TypeInv /\ RecordInv /\ OpenInv /\ OwnerInv

-----------------------------------------------------------------------------
(* The runtime records.                                                    *)

LEMMA UnmountedTyped == Unmounted \in Record /\ Unmounted.session = 0 /\ Unmounted.epoch = 0 /\ ~Unmounted.mounted
BY DEF Unmounted, Record

\* Records are added for panes that have none; the others stay.
LEMMA SeededIs ==
  ASSUME TypeInv, NEW panes \in SUBSET Nat
  PROVE  /\ Seeded(panes) \in [DOMAIN runtimes \cup panes -> Record]
         /\ DOMAIN runtimes \cup panes \subseteq Nat
         /\ \A p \in DOMAIN runtimes : Seeded(panes)[p] = runtimes[p]
         /\ \A p \in panes \ DOMAIN runtimes : Seeded(panes)[p] = Unmounted
         /\ \A p \in DOMAIN Seeded(panes) : Seeded(panes)[p].session \in Sessions \cup {0}
<1>1. \A p \in DOMAIN runtimes : runtimes[p] \in Record
  BY DEF TypeInv
<1>2. /\ DOMAIN Seeded(panes) = DOMAIN runtimes \cup panes
      /\ \A p \in DOMAIN runtimes : Seeded(panes)[p] = runtimes[p]
      /\ \A p \in panes \ DOMAIN runtimes : Seeded(panes)[p] = Unmounted
  BY DEF Seeded, RecordOf
<1>3. Seeded(panes) \in [DOMAIN runtimes \cup panes -> Record]
  BY <1>1, UnmountedTyped DEF Seeded, RecordOf
<1>4. \A p \in DOMAIN Seeded(panes) : Seeded(panes)[p].session \in Sessions \cup {0}
  BY <1>2, UnmountedTyped DEF TypeInv
<1> QED
  BY <1>2, <1>3, <1>4 DEF TypeInv

LEMMA DroppedIs ==
  ASSUME TypeInv, NEW panes
  PROVE  /\ Dropped(panes) \in [DOMAIN runtimes \ panes -> Record]
         /\ \A p \in DOMAIN runtimes \ panes : Dropped(panes)[p] = runtimes[p]
         /\ AttachedIn(panes) \subseteq Sessions
         /\ \A s : s \in AttachedIn(panes) <=> s # 0 /\ \E p \in panes \cap DOMAIN runtimes : runtimes[p].session = s
<1>1. \A p \in DOMAIN runtimes : runtimes[p] \in Record /\ runtimes[p].session \in Sessions \cup {0}
  BY DEF TypeInv
<1>2. Dropped(panes) \in [DOMAIN runtimes \ panes -> Record]
  BY <1>1 DEF Dropped, Restrict
<1>3. \A p \in DOMAIN runtimes \ panes : Dropped(panes)[p] = runtimes[p]
  BY DEF Dropped, Restrict
<1>4. \A s : s \in AttachedIn(panes) <=> s # 0 /\ \E p \in panes \cap DOMAIN runtimes : runtimes[p].session = s
  BY DEF AttachedIn
<1>5. AttachedIn(panes) \subseteq Sessions
  BY <1>1 DEF AttachedIn
<1> QED
  BY <1>2, <1>3, <1>4, <1>5

LEMMA DisposeTyped ==
  ASSUME TypeInv, NEW panes, NEW exited \in BOOLEAN, Dispose(panes, exited), children' = children
  PROVE  /\ DOMAIN runtimes' \subseteq Nat /\ runtimes' \in [DOMAIN runtimes' -> Record]
         /\ \A p \in DOMAIN runtimes' : runtimes'[p].session \in Sessions' \cup {0}
         /\ closes' \subseteq Sessions'
<1>1. runtimes' = Dropped(panes) /\ closes' \subseteq closes \cup AttachedIn(panes)
  BY DEF Dispose
<1>2. /\ runtimes' \in [DOMAIN runtimes \ panes -> Record] /\ DOMAIN runtimes' = DOMAIN runtimes \ panes
      /\ \A p \in DOMAIN runtimes \ panes : runtimes'[p] = runtimes[p]
  BY <1>1, DroppedIs
<1>3. closes' \subseteq Sessions /\ Sessions' = Sessions
  BY <1>1, DroppedIs DEF TypeInv, Sessions
<1>4. DOMAIN runtimes \subseteq Nat /\ \A p \in DOMAIN runtimes : runtimes[p].session \in Sessions \cup {0}
  BY DEF TypeInv
<1> QED
  BY <1>2, <1>3, <1>4

-----------------------------------------------------------------------------
(* What Commit does: every pane without a mounted record asks for a        *)
(* session of its own.                                                     *)

LEMMA FreshFinite ==
  ASSUME StateOK(ui)
  PROVE  IsFiniteSet(Fresh)
<1>1. ui.nextPane \in Nat
  BY DEF StateOK, State
<1>2. Fresh \subseteq 1 .. ui.nextPane - 1
  BY <1>1, PaneBounds DEF Fresh, AllPanes
<1>3. IsFiniteSet(1 .. ui.nextPane - 1)
  BY <1>1, FS_Interval
<1> QED
  BY <1>2, <1>3, FS_Subset

LEMMA Listed ==
  ASSUME NEW S, IsFiniteSet(S)
  PROVE  /\ Cardinality(S) \in Nat
         /\ SetToSeq(S) \in [1 .. Cardinality(S) -> S]
         /\ \A i, j \in 1 .. Cardinality(S) : SetToSeq(S)[i] = SetToSeq(S)[j] => i = j
         /\ \A x \in S : \E i \in 1 .. Cardinality(S) : SetToSeq(S)[i] = x
<1>1. Cardinality(S) \in Nat /\ ExistsBijection(1 .. Cardinality(S), S)
  BY FS_CardinalityType
<1>2. \E f \in [1 .. Cardinality(S) -> S] : IsInjective(f)
  BY <1>1 DEF ExistsBijection, Bijection, Injection
<1>3. SetToSeq(S) \in [1 .. Cardinality(S) -> S] /\ IsInjective(SetToSeq(S))
  BY <1>2 DEF SetToSeq
<1>4. \A i, j \in 1 .. Cardinality(S) : SetToSeq(S)[i] = SetToSeq(S)[j] => i = j
  BY <1>3 DEF IsInjective
<1>5. \A x \in S : \E i \in 1 .. Cardinality(S) : SetToSeq(S)[i] = x
  <2> SUFFICES ASSUME NEW x \in S, \A i \in 1 .. Cardinality(S) : SetToSeq(S)[i] # x
               PROVE  FALSE
    OBVIOUS
  <2>1. IsFiniteSet(S \ {x}) /\ Cardinality(S \ {x}) = Cardinality(S) - 1
    BY FS_RemoveElement
  <2>2. SetToSeq(S) \in Injection(1 .. Cardinality(S), S \ {x})
    BY <1>3 DEF Injection
  <2>3. Cardinality(1 .. Cardinality(S)) <= Cardinality(S \ {x})
    BY <2>1, <2>2, FS_Injection
  <2>4. Cardinality(1 .. Cardinality(S)) = Cardinality(S)
    BY <1>1, FS_Interval
  <2> QED
    BY <1>1, <2>1, <2>3, <2>4
<1> QED
  BY <1>1, <1>3, <1>4, <1>5

\* The panes are asked for one after the other: list[i] gets the i-th new session.
Mounts(n, list) ==
  /\ \A i, j \in 1 .. n : list[i] = list[j] => i = j
  /\ children' \in Seq(Fates) /\ Len(children') = Len(children) + n
  /\ \A s \in Sessions : s \in Sessions' /\ children'[s] = children[s]
  /\ \A s \in Sessions' \ Sessions : children'[s] = "asked" /\ \E i \in 1 .. n : s = Len(children) + i
  /\ \A i \in 1 .. n : Len(children) + i \in Sessions' \ Sessions
  /\ runtimes' \in [DOMAIN runtimes \cup Fresh -> Record]
  /\ \A p \in Fresh : runtimes'[p] = Mounting(p)
  /\ \A p \in DOMAIN runtimes \ Fresh : runtimes'[p] = runtimes[p]
  /\ \A o : o \in opens' <=> o \in opens \/ \E i \in 1 .. n : o = Asking(list[i], Len(children) + i)
  /\ ref' = ui /\ ~closing /\ UNCHANGED <<ui, reserved, booted, closes, exits, closing>>

LEMMA CommitMounts ==
  ASSUME TypeInv, Commit
  PROVE  \E n \in Nat : \E list \in [1 .. n -> Fresh] : Mounts(n, list)
<1> DEFINE n == Cardinality(Fresh)
           list == SetToSeq(Fresh)
           new == [i \in 1 .. n |-> "asked"]
<1>1. /\ n \in Nat /\ list \in [1 .. n -> Fresh]
      /\ \A i, j \in 1 .. n : list[i] = list[j] => i = j
  BY FreshFinite, Listed DEF TypeInv
<1> HIDE DEF n
<1>2. DOMAIN list = 1 .. n
  BY <1>1
<1>3. /\ children' = children \o new
      /\ ref' = ui /\ ~closing
      /\ runtimes' = [p \in DOMAIN runtimes \cup Fresh |-> IF p \in Fresh THEN Mounting(p) ELSE runtimes[p]]
      /\ opens' = opens \cup {Asking(list[i], Len(children) + i) : i \in 1 .. n}
      /\ UNCHANGED <<ui, reserved, booted, closes, exits, closing>>
  BY <1>2 DEF Commit
<1> HIDE DEF list
<1>4. new \in Seq(Fates) /\ Len(new) = n /\ (\A i \in 1 .. n : new[i] = "asked")
      /\ children \in Seq(Fates) /\ Len(children) \in Nat
  BY <1>1 DEF Fates, TypeInv
<1> HIDE DEF new
<1>5. /\ children' \in Seq(Fates) /\ Len(children') = Len(children) + n
      /\ \A s \in 1 .. Len(children) : children'[s] = children[s]
      /\ \A i \in 1 .. n : children'[Len(children) + i] = "asked"
  <2>1. /\ children \o new \in Seq(Fates) /\ Len(children \o new) = Len(children) + n
        /\ \A s \in 1 .. Len(children) : (children \o new)[s] = children[s]
        /\ \A i \in 1 .. n : (children \o new)[Len(children) + i] = "asked"
    <3>1. /\ children \o new \in Seq(Fates) /\ Len(children \o new) = Len(children) + Len(new)
          /\ \A s \in 1 .. Len(children) : (children \o new)[s] = children[s]
          /\ \A i \in 1 .. Len(new) : (children \o new)[Len(children) + i] = new[i]
      <4>1. children \in Seq(Fates) /\ new \in Seq(Fates)
        BY <1>4
      <4> QED
        BY <4>1
    <3>2. Len(new) = n /\ \A i \in 1 .. n : new[i] = "asked"
      BY <1>4
    <3> QED
      BY <3>1, <3>2, Zenon
  <2>2. children' = children \o new
    BY <1>3
  <2> QED
    BY <2>1, <2>2
<1>6. DOMAIN children' = 1 .. Len(children) + n /\ DOMAIN children = 1 .. Len(children)
  BY <1>4, <1>5
<1>7. ASSUME NEW s \in Sessions' \ Sessions
      PROVE  children'[s] = "asked" /\ \E i \in 1 .. n : s = Len(children) + i
  <2>1. s - Len(children) \in 1 .. n /\ s = Len(children) + (s - Len(children))
    BY <1>1, <1>4, <1>6 DEF Sessions
  <2> QED
    BY <1>5, <2>1
<1>8. \A s \in Sessions : s \in Sessions' /\ children'[s] = children[s]
  BY <1>1, <1>4, <1>5, <1>6 DEF Sessions
<1>9. \A i \in 1 .. n : Len(children) + i \in Sessions' \ Sessions
  BY <1>1, <1>4, <1>6 DEF Sessions
<1>10. /\ runtimes' \in [DOMAIN runtimes \cup Fresh -> Record]
       /\ \A p \in Fresh : runtimes'[p] = Mounting(p)
       /\ \A p \in DOMAIN runtimes \ Fresh : runtimes'[p] = runtimes[p]
  <2>1. \A p \in Fresh \cup DOMAIN runtimes : RecordOf(p) \in Record
    BY UnmountedTyped DEF RecordOf, TypeInv
  <2>2. \A p \in Fresh : Mounting(p) \in Record
    BY <2>1 DEF Mounting, Record
  <2>3. \A p \in DOMAIN runtimes : runtimes[p] \in Record
    BY DEF TypeInv
  <2> QED
    BY <1>3, <2>2, <2>3
<1>11. \A o : o \in opens' <=> o \in opens \/ \E i \in 1 .. n : o = Asking(list[i], Len(children) + i)
  BY <1>3
<1> QED
  BY <1>1, <1>3, <1>5, <1>7, <1>8, <1>9, <1>10, <1>11 DEF Mounts

\* Whoever asks is on the screen.
LEMMA AskerShown ==
  ASSUME TypeInv, NEW p \in Fresh
  PROVE  p \in Nat /\ p < ui.nextPane /\ TabOfPane(p) \in Nat /\ \E m \in Nat : Shows(ui, TabOfPane(p), p, m)
<1>1. StateOK(ui) /\ p \in AllPanes(ui)
  BY DEF TypeInv, Fresh
<1>2. PICK t \in Nat, m \in Nat : Shows(ui, t, p, m)
  BY <1>1, AllShown
<1>3. t \in TabIds(ui) /\ HasPane(ui, t, p)
  BY <1>1, <1>2, ShowsTypes
<1>4. TabOfPane(p) \in TabIds(ui) /\ HasPane(ui, TabOfPane(p), p)
  BY <1>3 DEF TabOfPane
<1>5. Shows(ui, TabOfPane(p), p, TabOf(ui, TabOfPane(p)).sess[p])
  BY <1>1, <1>4, PaneShows
<1>6. /\ TabOfPane(p) \in 1 .. ui.nextTab - 1 /\ p \in 1 .. ui.nextPane - 1
      /\ TabOf(ui, TabOfPane(p)).sess[p] \in Nat /\ ui.nextTab \in Nat /\ ui.nextPane \in Nat
  BY <1>1, <1>5, ShowsTypes DEF StateOK, State
<1> QED
  BY <1>5, <1>6

LEMMA CommitTyped ==
  ASSUME TypeInv, Commit
  PROVE  TypeInv'
<1>0. PICK n \in Nat : \E list \in [1 .. n -> Fresh] : Mounts(n, list)
  BY CommitMounts
<1>1. PICK list \in [1 .. n -> Fresh] : Mounts(n, list)
  BY <1>0
<1>2. DOMAIN runtimes' \subseteq Nat /\ runtimes' \in [DOMAIN runtimes' -> Record]
  BY <1>1, AskerShown DEF TypeInv, Mounts
<1>3. ASSUME NEW p \in DOMAIN runtimes'
      PROVE  runtimes'[p].session \in Sessions' \cup {0}
  <2>1. RecordOf(p).session \in Sessions \cup {0}
    BY UnmountedTyped DEF RecordOf, TypeInv
  <2>2. runtimes'[p].session = RecordOf(p).session
    BY <1>1, <1>3 DEF RecordOf, Mounting, Mounts
  <2> QED
    BY <1>1, <2>1, <2>2 DEF Mounts
<1>4. ASSUME NEW o \in opens'
      PROVE  o \in Open /\ o.session \in Sessions'
  <2>1. CASE o \in opens
    BY <1>1, <2>1 DEF TypeInv, Mounts
  <2>2. ASSUME NEW i \in 1 .. n, o = Asking(list[i], Len(children) + i)
        PROVE  o \in Open /\ o.session \in Sessions'
    <3>1. list[i] \in Nat /\ TabOfPane(list[i]) \in Nat
      BY AskerShown
    <3>2. Mounting(list[i]).epoch \in Nat
      BY UnmountedTyped DEF RecordOf, Mounting, TypeInv, Record
    <3>3. Len(children) + i \in Nat
      BY DEF TypeInv
    <3> QED
      BY <1>1, <2>2, <3>1, <3>2, <3>3 DEF Asking, Open, Mounts
  <2> QED
    BY <1>1, <1>4, <2>1, <2>2 DEF Mounts
<1>5. closes \subseteq Sessions' /\ exits \subseteq Sessions'
  BY <1>1 DEF TypeInv, Mounts
<1> QED
  BY <1>1, <1>2, <1>3, <1>4, <1>5 DEF TypeInv, Mounts

-----------------------------------------------------------------------------
(* Types, action by action: for all races.                                 *)

LEMMA InitTyped == Init => TypeInv
<1> SUFFICES ASSUME Init
             PROVE  TypeInv
  OBVIOUS
<1>1. StateOK(ui) /\ StateOK(ref)
  BY InitialOK DEF Init
<1>2. DOMAIN runtimes = {} /\ runtimes \in [DOMAIN runtimes -> Record]
  BY DEF Init
<1>3. children \in Seq(Fates) /\ opens = {} /\ closes = {} /\ exits = {}
  BY DEF Init
<1>4. reserved \in [tab : Nat, pane : Nat] /\ booted \in BOOLEAN /\ closing \in BOOLEAN
  BY DEF Init
<1> QED
  BY <1>1, <1>2, <1>3, <1>4 DEF TypeInv

LEMMA CreateTabsTyped ==
  ASSUME TypeInv, NEW n \in {1, 2}, CreateTabs(n), booted' \in BOOLEAN
  PROVE  TypeInv'
<1>1. StateOK(ui')
  <2>1. StateOK(OpenTab(ui)) /\ StateOK(OpenTab(OpenTab(ui)))
    BY OpenTabShows DEF TypeInv
  <2>2. StateOK(ActivateTab(OpenTab(OpenTab(ui)), reserved.tab))
    BY <2>1, ActivateShows
  <2> QED
    BY <2>1, <2>2 DEF CreateTabs
<1>2. reserved' \in [tab : Nat, pane : Nat]
  BY DEF TypeInv, CreateTabs, ReserveTabs
<1> DEFINE panes == reserved.pane .. reserved.pane + n - 1
<1>3. panes \in SUBSET Nat
  BY DEF TypeInv
<1>4. runtimes' = Seeded(panes)
  BY DEF CreateTabs
<1> HIDE DEF panes
<1>5. /\ DOMAIN runtimes' \subseteq Nat /\ runtimes' \in [DOMAIN runtimes' -> Record]
      /\ \A p \in DOMAIN runtimes' : runtimes'[p].session \in Sessions \cup {0}
  BY <1>3, <1>4, SeededIs
<1> QED
  BY <1>1, <1>2, <1>5 DEF TypeInv, CreateTabs, Sessions

LEMMA SplitTyped ==
  ASSUME TypeInv, RequestSplit
  PROVE  TypeInv'
<1>1. StateOK(ui')
  BY SplitShows DEF RequestSplit, TypeInv, SplitPane
<1> DEFINE panes == {reserved.pane}
<1>2. reserved \in [tab : Nat, pane : Nat] /\ reserved.pane + 1 \in Nat /\ panes \in SUBSET Nat
  BY DEF TypeInv
<1>3. reserved' = [reserved EXCEPT !.pane = reserved.pane + 1] /\ runtimes' = Seeded(panes)
  BY DEF RequestSplit, ReservePane
<1> HIDE DEF panes
<1>4. reserved' \in [tab : Nat, pane : Nat]
  BY <1>2, <1>3
<1>5. /\ DOMAIN runtimes' \subseteq Nat /\ runtimes' \in [DOMAIN runtimes' -> Record]
      /\ \A p \in DOMAIN runtimes' : runtimes'[p].session \in Sessions \cup {0}
  BY <1>2, <1>3, SeededIs
<1> QED
  BY <1>1, <1>4, <1>5 DEF TypeInv, RequestSplit, Sessions

\* The fate of one session changes.
LEMMA FateTyped ==
  ASSUME TypeInv, NEW s \in Sessions, NEW fate \in Fates
  PROVE  /\ [children EXCEPT ![s] = fate] \in Seq(Fates)
         /\ DOMAIN [children EXCEPT ![s] = fate] = Sessions
         /\ \A r \in Sessions : [children EXCEPT ![s] = fate][r] = IF r = s THEN fate ELSE children[r]
BY DEF TypeInv, Sessions

LEMMA BackendTyped ==
  ASSUME TypeInv, Backend
  PROVE  TypeInv'
<1>1. PICK s \in Sessions : Spawn(s) \/ StreamEnds(s) \/ ClosePty(s)
  BY DEF Backend
<1>2. children' \in Seq(Fates) /\ Sessions' = Sessions
  <2>1. CASE Spawn(s)
    BY <2>1, FateTyped DEF Spawn, Fates, Sessions
  <2>2. CASE StreamEnds(s)
    BY <2>2, FateTyped DEF StreamEnds, Fates, Sessions
  <2>3. CASE ClosePty(s)
    <3>1. children' = children \/ children' = [children EXCEPT ![s] = "killed"]
      BY <2>3 DEF ClosePty
    <3> QED
      BY <3>1, FateTyped DEF Fates, Sessions, TypeInv
  <2> QED
    BY <1>1, <2>1, <2>2, <2>3
<1>3. closes' \subseteq Sessions /\ exits' \subseteq Sessions
  BY <1>1 DEF Spawn, StreamEnds, ClosePty, TypeInv
<1>4. UNCHANGED <<ui, ref, runtimes, reserved, booted, opens, closing>>
  BY <1>1 DEF Spawn, StreamEnds, ClosePty
<1> QED
  BY <1>2, <1>3, <1>4 DEF TypeInv

LEMMA ReplyTyped ==
  ASSUME TypeInv, NEW o \in opens, Reply(o)
  PROVE  TypeInv'
<1>1. o \in Open /\ o.session \in Sessions /\ o.session \in Nat
  BY DEF TypeInv, Open
<1>2. UNCHANGED <<ref, reserved, booted, children, exits, closing>> /\ opens' \subseteq opens /\ Sessions' = Sessions
  BY DEF Reply, Sessions
<1>3. CASE Attach(o)
  <2>1. StateOK(ui')
    BY <1>1, <1>3, AttachShows DEF Attach, TypeInv
  <2>2. runtimes' \in [DOMAIN runtimes -> Record] /\ DOMAIN runtimes' = DOMAIN runtimes
    BY <1>1, <1>3 DEF Attach, TypeInv, EpochCurrent, Record
  <2>3. \A p \in DOMAIN runtimes : runtimes'[p].session \in Sessions \cup {0}
    BY <1>1, <1>3 DEF Attach, TypeInv, EpochCurrent, Record
  <2> QED
    BY <1>2, <1>3, <2>1, <2>2, <2>3 DEF Attach, TypeInv
<1>4. CASE DisposeOrphan(o)
  BY <1>1, <1>2, <1>4 DEF DisposeOrphan, TypeInv
<1>5. CASE UNCHANGED <<ui, runtimes, closes>>
  BY <1>2, <1>5 DEF TypeInv
<1> QED
  BY <1>3, <1>4, <1>5 DEF Reply

\* What closing a pane or a tab may do to the types.
CloseTypes ==
  /\ StateOK(ui')
  /\ DOMAIN runtimes' \subseteq Nat /\ runtimes' \in [DOMAIN runtimes' -> Record]
  /\ \A p \in DOMAIN runtimes' : runtimes'[p].session \in Sessions \cup {0}
  /\ closes' \subseteq Sessions /\ closing' \in BOOLEAN

LEMMA CloseTabTypes ==
  ASSUME TypeInv, NEW t, NEW exited \in BOOLEAN, CloseTabInternal(t, exited), children' = children
  PROVE  CloseTypes
<1>1. CASE closing' = TRUE /\ UNCHANGED <<ui, runtimes, closes>>
  BY <1>1 DEF CloseTypes, TypeInv
<1>2. CASE /\ ui' = CloseTab(ui, t) /\ Dispose(Panes(TabOf(ref, t)), exited) /\ UNCHANGED closing
  <2>1. StateOK(ui')
    BY <1>2, CloseTabShows DEF TypeInv
  <2>2. Sessions' = Sessions
    BY DEF Sessions
  <2> QED
    BY <1>2, <2>1, <2>2, DisposeTyped DEF CloseTypes, TypeInv
<1> QED
  BY <1>1, <1>2 DEF CloseTabInternal

LEMMA ClosePaneTypes ==
  ASSUME TypeInv, NEW t, NEW p, NEW exited \in BOOLEAN, ClosePaneInternal(t, p, exited), children' = children
  PROVE  CloseTypes
<1>1. CASE CloseTabInternal(t, exited)
  BY <1>1, CloseTabTypes
<1>2. CASE ui' \in ClosePane(ui, t, p) /\ Dispose({p}, exited) /\ UNCHANGED closing
  <2>1. StateOK(ui')
    BY <1>2, ClosePaneShows DEF TypeInv
  <2>2. Sessions' = Sessions
    BY DEF Sessions
  <2> QED
    BY <1>2, <2>1, <2>2, DisposeTyped DEF CloseTypes, TypeInv
<1> QED
  BY <1>1, <1>2 DEF ClosePaneInternal

LEMMA CloseTyped ==
  ASSUME TypeInv, Close \/ \E s \in Sessions : ExitEvent(s)
  PROVE  TypeInv'
<1>1. /\ UNCHANGED <<ref, reserved, booted, children, opens>> /\ Sessions' = Sessions
      /\ exits' \subseteq exits
  BY DEF Close, ClosePaneGesture, CloseTabGesture, ExitEvent, Sessions
<1>2. CloseTypes \/ UNCHANGED <<ui, runtimes, closes, closing>>
  <2>1. ASSUME NEW t, NEW p, ClosePaneGesture(t, p)
        PROVE  CloseTypes
    BY <2>1, ClosePaneTypes DEF ClosePaneGesture
  <2>2. ASSUME NEW t, CloseTabGesture(t)
        PROVE  CloseTypes
    BY <2>2, CloseTabTypes DEF CloseTabGesture
  <2>3. ASSUME NEW s, ExitEvent(s)
        PROVE  CloseTypes \/ UNCHANGED <<ui, runtimes, closes, closing>>
    BY <2>3, ClosePaneTypes DEF ExitEvent
  <2> QED
    BY <2>1, <2>2, <2>3 DEF Close
<1> QED
  BY <1>1, <1>2 DEF CloseTypes, TypeInv

LEMMA ArrangeTyped ==
  ASSUME TypeInv, Arrange
  PROVE  TypeInv'
<1>1. StateOK(ui')
  BY ActivateShows, FocusShows, MoveTabShows DEF Arrange, TypeInv
<1> QED
  BY <1>1 DEF Arrange, TypeInv, Sessions

LEMMA NextTyped ==
  ASSUME TypeInv, [Next]_vars
  PROVE  TypeInv'
<1>1. CASE Boot
  BY <1>1, CreateTabsTyped DEF Boot
<1>2. CASE NewTab \/ DeliverServicePaths
  BY <1>2, CreateTabsTyped DEF NewTab, DeliverServicePaths, TypeInv
<1>3. CASE UNCHANGED vars
  BY <1>3 DEF vars, TypeInv, Sessions
<1> QED
  BY <1>1, <1>2, <1>3, SplitTyped, CommitTyped, BackendTyped, ReplyTyped, CloseTyped, ArrangeTyped DEF Next

\* Types in the words of TypeOK.
LEMMA TypesFollow == TypeInv => TypeOK
<1> SUFFICES ASSUME TypeInv
             PROVE  TypeOK
  OBVIOUS
<1>1. ASSUME NEW s, StateOK(s)
      PROVE  StateType(s)
  <2>1. ASSUME NEW i \in DOMAIN s.tabs
        PROVE  TabType(s.tabs[i])
    <3>1. /\ s.tabs[i] \in Tab /\ TabOK(s, s.tabs[i])
          /\ s.tabs[i].sess \in [Panes(s.tabs[i]) -> Nat] /\ Panes(s.tabs[i]) \subseteq Nat
      BY <1>1, TabFields, PaneBounds
    <3> QED
      BY <3>1 DEF Tab, TabOK, TabType
  <2> QED
    BY <1>1, <2>1 DEF StateOK, State, StateType
<1>2. Range(runtimes) \subseteq Record
  BY DEF TypeInv, Range
<1> QED
  BY <1>1, <1>2 DEF TypeInv, TypeOK

\* Every variable keeps its type, whatever overtakes what: the focus is a pane of its
\* tab, the active tab is one of the tabs, messages name sessions that were asked for.
THEOREM TypeCorrect == Spec => []TypeOK
<1>1. Init => TypeInv
  BY InitTyped
<1>2. TypeInv /\ [Next]_vars => TypeInv'
  BY NextTyped
<1>3. TypeInv => TypeOK
  BY TypesFollow
<1> QED
  BY <1>1, <1>2, <1>3, PTL DEF Spec

-----------------------------------------------------------------------------
(* Who owns a session.  From here on a handler runs after React committed  *)
(* what the one before it dispatched: the races are without "commit".      *)

InOrder == "commit" \notin RACES

LEMMA HandledCommitted ==
  ASSUME InOrder, Handles
  PROVE  ref = ui /\ ~closing /\ \A p \in AllPanes(ui) : Mounted(p)
BY DEF InOrder, Handles, Committed

LEMMA ShownPanes ==
  ASSUME NEW s, StateOK(s), NEW p
  PROVE  p \in AllPanes(s) <=> \E t, n \in Nat : Shows(s, t, p, n)
<1>1. s.nextTab \in Nat
  BY DEF StateOK, State
<1>2. ASSUME NEW t \in Nat, NEW n \in Nat, Shows(s, t, p, n)
      PROVE  p \in AllPanes(s)
  BY <1>2, ShowsTypes
<1> QED
  BY <1>2, AllShown

LEMMA RecordSession ==
  ASSUME TypeInv, NEW p \in DOMAIN runtimes
  PROVE  runtimes[p] \in Record /\ runtimes[p].session \in Sessions \cup {0} /\ 0 \notin Sessions /\ Sessions \subseteq Nat
BY DEF TypeInv, Sessions

\* A shown pane has a record, bound to the session it shows.
LEMMA ShownRecord ==
  ASSUME TypeInv, RecordInv, NEW t, NEW p, NEW n, Shows(ui, t, p, n)
  PROVE  p \in DOMAIN runtimes /\ runtimes[p].session = n /\ t \in Nat /\ p \in Nat /\ n \in Nat
<1>1. StateOK(ui) /\ ui.nextTab \in Nat /\ ui.nextPane \in Nat
  BY DEF TypeInv, StateOK, State
<1>2. t \in 1 .. ui.nextTab - 1 /\ p \in 1 .. ui.nextPane - 1 /\ n \in Nat /\ p \in AllPanes(ui)
  BY <1>1, ShowsTypes
<1>3. t \in Nat /\ p \in Nat
  BY <1>1, <1>2
<1> QED
  BY <1>2, <1>3 DEF RecordInv

LEMMA RecordShown ==
  ASSUME TypeInv, RecordInv, NEW p \in DOMAIN runtimes
  PROVE  /\ p \in Nat /\ p < ui.nextPane /\ ui.nextPane \in Nat
         /\ \E t \in Nat : Shows(ui, t, p, runtimes[p].session)
<1>1. StateOK(ui) /\ p \in AllPanes(ui)
  BY DEF TypeInv, RecordInv
<1>2. PICK t \in Nat, n \in Nat : Shows(ui, t, p, n)
  BY <1>1, AllShown
<1>3. ui.nextPane \in Nat /\ p \in 1 .. ui.nextPane - 1
  BY <1>1, <1>2, ShowsTypes DEF StateOK, State
<1> QED
  BY <1>2, <1>3, ShownRecord

-----------------------------------------------------------------------------
(* New tabs and panes.                                                     *)

Grows(new) ==
  /\ \A p \in new : p \in Nat /\ p >= ui.nextPane /\ p < ui'.nextPane
  /\ ui.nextPane \in Nat /\ ui'.nextPane \in Nat /\ ui'.nextPane >= ui.nextPane
  /\ StateOK(ui') /\ ui'.tabs # <<>>
  /\ reserved' = [tab |-> ui'.nextTab, pane |-> ui'.nextPane]
  /\ \A t, p, n : Shows(ui, t, p, n) => Shows(ui', t, p, n)
  /\ \A t, p, n : Shows(ui', t, p, n) => Shows(ui, t, p, n) \/ (p \in new /\ n = 0)
  /\ \A p \in new : \E t \in Nat : Shows(ui', t, p, 0)
  /\ runtimes' = Seeded(new)
  /\ UNCHANGED <<ref, children, opens, closes, exits, closing>>

LEMMA CreateTabsGrows ==
  ASSUME TypeInv, RecordInv, NEW n \in {1, 2}, CreateTabs(n)
  PROVE  Grows(ui.nextPane .. ui.nextPane + n - 1)
<1> DEFINE one == OpenTab(ui)
           two == OpenTab(one)
<1>1. StateOK(ui) /\ ui.nextPane \in Nat /\ ui.nextTab \in Nat
  BY DEF TypeInv, StateOK, State
<1>2. /\ StateOK(one) /\ one.tabs # <<>> /\ one.nextTab = ui.nextTab + 1 /\ one.nextPane = ui.nextPane + 1
      /\ \A t, p, m : Shows(one, t, p, m) <=> Shows(ui, t, p, m) \/ (t = ui.nextTab /\ p = ui.nextPane /\ m = 0)
  BY <1>1, OpenTabShows
<1>3. /\ StateOK(two) /\ two.tabs # <<>> /\ two.nextTab = one.nextTab + 1 /\ two.nextPane = one.nextPane + 1
      /\ \A t, p, m : Shows(two, t, p, m) <=> Shows(one, t, p, m) \/ (t = one.nextTab /\ p = one.nextPane /\ m = 0)
  BY <1>2, OpenTabShows
<1>4. /\ ui' = IF n = 1 THEN one ELSE ActivateTab(two, reserved.tab)
      /\ reserved' = [tab |-> ui.nextTab + n, pane |-> ui.nextPane + n]
      /\ runtimes' = Seeded(ui.nextPane .. ui.nextPane + n - 1)
      /\ UNCHANGED <<ref, children, opens, closes, exits, closing>>
  BY DEF CreateTabs, RecordInv, ReserveTabs
<1> HIDE DEF one, two
<1>5. CASE n = 1
  <2>1. ui' = one /\ \A p : p \in ui.nextPane .. ui.nextPane + n - 1 <=> p = ui.nextPane
    BY <1>1, <1>4, <1>5
  <2> QED
    BY <1>1, <1>2, <1>4, <1>5, <2>1 DEF Grows
<1>6. CASE n = 2
  <2>1. /\ StateOK(ui') /\ ui'.nextTab = two.nextTab /\ ui'.nextPane = two.nextPane /\ ui'.tabs = two.tabs
        /\ \A t, p, m : Shows(ui', t, p, m) <=> Shows(two, t, p, m)
    BY <1>3, <1>4, <1>6, ActivateShows
  <2>2. \A p : p \in ui.nextPane .. ui.nextPane + n - 1 <=> p = ui.nextPane \/ p = ui.nextPane + 1
    BY <1>1, <1>6
  <2>3. ui'.nextTab = ui.nextTab + n /\ ui'.nextPane = ui.nextPane + n
    BY <1>1, <1>2, <1>3, <1>6, <2>1
  <2>4. \A t, p, m : Shows(ui', t, p, m) <=> \/ Shows(ui, t, p, m)
                                             \/ t = ui.nextTab /\ p = ui.nextPane /\ m = 0
                                             \/ t = ui.nextTab + 1 /\ p = ui.nextPane + 1 /\ m = 0
    BY <1>2, <1>3, <2>1
  <2>5. ui.nextTab \in Nat /\ ui.nextTab + 1 \in Nat
    BY <1>1
  <2>6. \A p \in ui.nextPane .. ui.nextPane + n - 1 : \E t \in Nat : Shows(ui', t, p, 0)
    BY <2>2, <2>4, <2>5
  <2>7. \A p \in ui.nextPane .. ui.nextPane + n - 1 : p \in Nat /\ p >= ui.nextPane /\ p < ui'.nextPane
    BY <1>1, <1>6, <2>2, <2>3
  <2>8. ui'.nextPane \in Nat /\ ui'.nextPane >= ui.nextPane
    BY <1>1, <1>6, <2>3
  <2>9. \A t, p, m : Shows(ui', t, p, m) => Shows(ui, t, p, m) \/ (p \in ui.nextPane .. ui.nextPane + n - 1 /\ m = 0)
    BY <2>2, <2>4
  <2> QED
    BY <1>1, <1>3, <1>4, <2>1, <2>3, <2>4, <2>6, <2>7, <2>8, <2>9 DEF Grows
<1> QED
  BY <1>5, <1>6

LEMMA SplitGrows ==
  ASSUME InOrder, TypeInv, RecordInv, RequestSplit
  PROVE  Grows({ui.nextPane})
<1>1. ref = ui /\ ui.active # 0
  BY HandledCommitted DEF RequestSplit, HandlesGesture
<1>2. StateOK(ui) /\ ui.nextPane \in Nat /\ ui.nextTab \in Nat /\ ui.active \in TabIds(ui)
  BY <1>1 DEF TypeInv, StateOK, State
<1>3. ui' = SplitPane(ui, ui.active)
  BY <1>1 DEF RequestSplit
<1>4. /\ StateOK(ui') /\ ui'.tabs # <<>> /\ ui'.nextTab = ui.nextTab /\ ui'.nextPane = ui.nextPane + 1
      /\ \A u, q, n : Shows(ui', u, q, n) <=> Shows(ui, u, q, n) \/ (u = ui.active /\ q = ui.nextPane /\ n = 0)
  BY <1>2, <1>3, SplitShows
<1>5. reserved' = [tab |-> ui'.nextTab, pane |-> ui'.nextPane]
  <2>1. reserved = [tab |-> ui.nextTab, pane |-> ui.nextPane]
    BY DEF RecordInv
  <2>2. reserved' = [reserved EXCEPT !.pane = reserved.pane + 1]
    BY DEF RequestSplit, ReservePane
  <2> QED
    BY <1>4, <2>1, <2>2
<1>6. runtimes' = Seeded({ui.nextPane}) /\ UNCHANGED <<ref, children, opens, closes, exits, closing>>
  BY DEF RequestSplit, RecordInv
<1>7. ui.active \in Nat
  BY <1>2 DEF StateOK, State
<1> QED
  BY <1>2, <1>4, <1>5, <1>6, <1>7 DEF Grows

\* The records and the sessions of what was there stay; the new panes have none.
LEMMA GrownRecords ==
  ASSUME TypeInv, RecordInv, NEW new, Grows(new)
  PROVE  /\ DOMAIN runtimes' = DOMAIN runtimes \cup new
         /\ \A p \in DOMAIN runtimes : p \notin new /\ runtimes'[p] = runtimes[p]
         /\ \A p \in new : runtimes'[p] = Unmounted
         /\ \A s \in Sessions : Attached(s)' <=> Attached(s)
<1>1. new \in SUBSET Nat
  BY DEF Grows
<1>2. \A p \in DOMAIN runtimes : p \notin new
  BY RecordShown DEF Grows
<1>3. /\ DOMAIN runtimes' = DOMAIN runtimes \cup new
      /\ \A p \in DOMAIN runtimes : runtimes'[p] = runtimes[p]
      /\ \A p \in new : runtimes'[p] = Unmounted
  BY <1>1, <1>2, SeededIs DEF Grows
<1>4. ASSUME NEW s \in Sessions
      PROVE  Attached(s)' <=> Attached(s)
  <2>1. s # 0
    BY DEF TypeInv, Sessions
  <2> QED
    BY <1>3, <2>1, UnmountedTyped DEF Attached
<1> QED
  BY <1>2, <1>3, <1>4

LEMMA GrowKeeps ==
  ASSUME TypeInv, RecordInv, OpenInv, OwnerInv, NEW new, Grows(new)
  PROVE  RecordInv' /\ OpenInv' /\ OwnerInv'
<1>1. /\ DOMAIN runtimes' = DOMAIN runtimes \cup new
      /\ \A p \in DOMAIN runtimes : p \notin new /\ runtimes'[p] = runtimes[p]
      /\ \A p \in new : runtimes'[p] = Unmounted
      /\ \A s \in Sessions : Attached(s)' <=> Attached(s)
  BY GrownRecords
<1>2. UNCHANGED <<children, opens, closes, exits, closing>> /\ Sessions' = Sessions
  BY DEF Grows, Sessions
<1>3. RecordInv'
  <2>1. ASSUME NEW p
        PROVE  p \in DOMAIN runtimes' <=> p \in AllPanes(ui')
    <3>1. p \in AllPanes(ui) <=> \E t, n \in Nat : Shows(ui, t, p, n)
      BY ShownPanes DEF TypeInv
    <3>2. p \in AllPanes(ui') <=> \E t, n \in Nat : Shows(ui', t, p, n)
      BY ShownPanes DEF Grows
    <3>3. DOMAIN runtimes = AllPanes(ui) /\ 0 \in Nat
      BY DEF RecordInv
    <3> QED
      BY <1>1, <3>1, <3>2, <3>3 DEF Grows
  <2>2. DOMAIN runtimes' = AllPanes(ui')
    BY <2>1
  <2>3. ASSUME NEW t \in Nat, NEW p \in Nat, NEW n \in Nat, Shows(ui', t, p, n)
        PROVE  runtimes'[p].session = n
    <3>1. CASE Shows(ui, t, p, n)
      BY <1>1, <3>1, ShownRecord
    <3>2. CASE p \in new /\ n = 0
      BY <1>1, <3>2, UnmountedTyped
    <3> QED
      BY <2>3, <3>1, <3>2 DEF Grows
  <2>4. ASSUME NEW p \in DOMAIN runtimes'
        PROVE  IF runtimes'[p].mounted THEN runtimes'[p].epoch = 1 ELSE runtimes'[p] = Unmounted
    BY <1>1, UnmountedTyped DEF RecordInv
  <2>5. Unmounted' = Unmounted
    BY DEF Unmounted
  <2> QED
    BY <2>2, <2>3, <2>4, <2>5 DEF RecordInv, Grows
<1>4. OpenInv'
  <2>1. ASSUME NEW o \in opens
        PROVE  /\ o.pane < ui'.nextPane
               /\ o.pane \in DOMAIN runtimes' => /\ o.pane \in DOMAIN runtimes /\ runtimes'[o.pane] = runtimes[o.pane]
               /\ o.session \in Sessions
    <3>1. o.pane \in Nat /\ o.pane < ui.nextPane /\ o.session \in Sessions
      BY DEF TypeInv, OpenInv, Open
    <3> QED
      BY <1>1, <3>1 DEF Grows
  <2> QED
    BY <1>1, <1>2, <2>1 DEF OpenInv, Grows
<1>5. OwnerInv'
  <2>1. (\A s \in Sessions : children[s] = "asked" => Opening(s))'
    BY <1>2 DEF OwnerInv, Opening
  <2>2. NoOrphanSession'
    BY <1>1, <1>2 DEF OwnerInv, NoOrphanSession, Live, Opening
  <2>3. ClosedNeverAttached'
    <3>1. \A p \in new : runtimes'[p].session = 0
      BY <1>1, UnmountedTyped
    <3>2. \A p, q \in DOMAIN runtimes' : runtimes'[p].session = runtimes'[q].session => p = q \/ runtimes'[p].session = 0
      BY <1>1, <3>1 DEF OwnerInv, ClosedNeverAttached
    <3> QED
      BY <1>1, <1>2, <3>2 DEF OwnerInv, ClosedNeverAttached
  <2> QED
    BY <1>2, <2>1, <2>2, <2>3 DEF OwnerInv
<1> QED
  BY <1>3, <1>4, <1>5

-----------------------------------------------------------------------------
(* The panes that mount.                                                   *)

LEMMA CommitKeeps ==
  ASSUME TypeInv, RecordInv, OpenInv, OwnerInv, Commit
  PROVE  /\ RecordInv' /\ OpenInv' /\ OwnerInv'
         /\ \A p \in DOMAIN runtimes : p \in DOMAIN runtimes' /\ runtimes'[p].session = runtimes[p].session
         /\ \A s \in Sessions : /\ s \in Sessions' /\ children'[s] = children[s]
                                /\ (Attached(s)' <=> Attached(s)) /\ (Opening(s)' <=> Opening(s))
         /\ \A s \in Sessions' \ Sessions : children'[s] = "asked"
<1>0. PICK n \in Nat : \E list \in [1 .. n -> Fresh] : Mounts(n, list)
  BY CommitMounts
<1>1. PICK list \in [1 .. n -> Fresh] : Mounts(n, list)
  BY <1>0
<1> DEFINE Ask(i) == Asking(list[i], Len(children) + i)
<1>2. /\ \A i, j \in 1 .. n : list[i] = list[j] => i = j
      /\ \A s \in Sessions : s \in Sessions' /\ children'[s] = children[s]
      /\ \A s \in Sessions' \ Sessions : children'[s] = "asked" /\ \E i \in 1 .. n : s = Len(children) + i
      /\ \A i \in 1 .. n : Len(children) + i \in Sessions' \ Sessions
      /\ \A o : o \in opens' <=> o \in opens \/ \E i \in 1 .. n : o = Ask(i)
      /\ ~closing /\ UNCHANGED <<ui, reserved, booted, closes, exits, closing>>
  BY <1>1 DEF Mounts
<1>3. /\ DOMAIN runtimes = AllPanes(ui) /\ DOMAIN runtimes' = DOMAIN runtimes
      /\ \A p \in DOMAIN runtimes \ Fresh : runtimes'[p] = runtimes[p]
      /\ \A p \in Fresh : p \in DOMAIN runtimes /\ runtimes[p] = Unmounted
  BY <1>1 DEF Mounts, RecordInv, Fresh, Mounted
<1>4. \A p \in Fresh : runtimes'[p] = [session |-> 0, epoch |-> 1, mounted |-> TRUE]
  BY <1>1, <1>3, UnmountedTyped DEF Mounts, Mounting, RecordOf
<1>5. \A p \in DOMAIN runtimes : runtimes'[p].session = runtimes[p].session
  BY <1>3, <1>4, UnmountedTyped
<1>6. \A s : Attached(s)' <=> Attached(s)
  BY <1>3, <1>5 DEF Attached
<1>7. ASSUME NEW i \in 1 .. n
      PROVE  /\ Ask(i).pane = list[i] /\ list[i] \in Fresh /\ Ask(i).session = Len(children) + i /\ Ask(i).epoch = 1
             /\ Ask(i).session \notin Sessions /\ children'[Ask(i).session] = "asked"
             /\ list[i] < ui.nextPane /\ Shows(ui, Ask(i).tab, list[i], 0)
  <2>1. list[i] \in Fresh /\ Mounting(list[i]).epoch = 1
    BY <1>3, UnmountedTyped DEF Mounting, RecordOf
  <2>2. /\ Ask(i).pane = list[i] /\ Ask(i).session = Len(children) + i /\ Ask(i).epoch = 1
        /\ Ask(i).tab = TabOfPane(list[i])
    BY <2>1 DEF Asking
  <2>3. list[i] < ui.nextPane /\ \E m \in Nat : Shows(ui, TabOfPane(list[i]), list[i], m)
    BY <2>1, AskerShown
  <2>4. Shows(ui, TabOfPane(list[i]), list[i], 0)
    BY <1>3, <2>1, <2>3, ShownRecord, UnmountedTyped
  <2> QED
    BY <1>2, <2>1, <2>2, <2>3, <2>4
<1> HIDE DEF Ask
<1>8. \A s \in Sessions : Opening(s)' <=> Opening(s)
  BY <1>2, <1>7 DEF Opening
<1>9. RecordInv'
  <2>1. Unmounted' = Unmounted
    BY DEF Unmounted
  <2>2. \A p \in DOMAIN runtimes' : IF runtimes'[p].mounted THEN runtimes'[p].epoch = 1 ELSE runtimes'[p] = Unmounted
    BY <1>3, <1>4 DEF RecordInv
  <2>3. \A t, p, m \in Nat : Shows(ui, t, p, m) => runtimes'[p].session = m
    BY <1>5, ShownRecord
  <2> QED
    BY <1>2, <1>3, <2>1, <2>2, <2>3 DEF RecordInv
<1>10. OpenInv'
  <2>1. ASSUME NEW o \in opens
        PROVE  /\ o.pane \notin Fresh /\ o.session \in Sessions
               /\ o.pane < ui.nextPane /\ o.epoch = 1
               /\ o.pane \in DOMAIN runtimes' =>
                    runtimes'[o.pane].mounted /\ runtimes'[o.pane].session = 0 /\ Shows(ui, o.tab, o.pane, 0)
               /\ ~Attached(o.session)' /\ o.session \notin closes' /\ children'[o.session] # "killed"
    <3>1. o.pane \notin Fresh /\ o.session \in Sessions
      BY <1>3, UnmountedTyped DEF OpenInv, TypeInv
    <3> QED
      BY <1>2, <1>3, <1>6, <3>1 DEF OpenInv
  <2>2. ASSUME NEW o \in opens', NEW i \in 1 .. n, o = Ask(i)
        PROVE  /\ o.pane < ui.nextPane /\ o.epoch = 1
               /\ o.pane \in DOMAIN runtimes' =>
                    runtimes'[o.pane].mounted /\ runtimes'[o.pane].session = 0 /\ Shows(ui, o.tab, o.pane, 0)
               /\ ~Attached(o.session)' /\ o.session \notin closes' /\ children'[o.session] # "killed"
    <3>1. /\ o.pane \in Fresh /\ o.pane < ui.nextPane /\ o.epoch = 1 /\ Shows(ui, o.tab, o.pane, 0)
          /\ o.session \notin Sessions /\ children'[o.session] = "asked"
          /\ o.session = Len(children) + i
      BY <1>7, <2>2
    <3>2. ~Attached(o.session)
      <4>1. \A p \in DOMAIN runtimes : runtimes[p].session \in Sessions \/ runtimes[p].session = 0
        BY RecordSession
      <4>2. o.session # 0
        BY <3>1 DEF TypeInv
      <4> QED
        BY <3>1, <4>1, <4>2 DEF Attached
    <3>3. o.session \notin closes'
      BY <1>2, <3>1 DEF TypeInv
    <3> QED
      BY <1>4, <1>6, <3>1, <3>2, <3>3
  <2>3. ASSUME NEW o \in opens', NEW r \in opens', o.pane = r.pane \/ o.session = r.session
        PROVE  o = r
    <3>1. CASE o \in opens /\ r \in opens
      BY <2>3, <3>1 DEF OpenInv
    <3>2. ASSUME NEW i \in 1 .. n, NEW x \in opens
          PROVE  Ask(i).pane # x.pane /\ Ask(i).session # x.session
      BY <1>7, <2>1
    <3>3. ASSUME NEW i \in 1 .. n, NEW j \in 1 .. n, Ask(i).pane = Ask(j).pane \/ Ask(i).session = Ask(j).session
          PROVE  i = j
      <4>1. CASE Ask(i).pane = Ask(j).pane
        BY <1>2, <1>7, <4>1
      <4>2. CASE Ask(i).session = Ask(j).session
        <5>1. Len(children) \in Nat /\ Len(children) + i = Len(children) + j
          BY <1>7, <4>2 DEF TypeInv
        <5> QED
          BY <5>1
      <4> QED
        BY <3>3, <4>1, <4>2
    <3>4. (o \in opens \/ \E i \in 1 .. n : o = Ask(i)) /\ (r \in opens \/ \E i \in 1 .. n : r = Ask(i))
      BY <1>2
    <3>5. ASSUME NEW i \in 1 .. n, o = Ask(i)
          PROVE  o = r
      BY <2>3, <3>2, <3>3, <3>4, <3>5
    <3>6. ASSUME NEW i \in 1 .. n, r = Ask(i)
          PROVE  o = r
      BY <2>3, <3>2, <3>3, <3>4, <3>6
    <3> QED
      BY <3>1, <3>4, <3>5, <3>6
  <2>4. ui' = ui
    BY <1>2
  <2>5. \A o \in opens' : o \in opens \/ \E i \in 1 .. n : o = Ask(i)
    BY <1>2
  <2>6. ASSUME NEW o \in opens'
        PROVE  /\ o.pane < ui.nextPane /\ o.epoch = 1
               /\ o.pane \in DOMAIN runtimes' =>
                    runtimes'[o.pane].mounted /\ runtimes'[o.pane].session = 0 /\ Shows(ui, o.tab, o.pane, 0)
               /\ ~Attached(o.session)' /\ o.session \notin closes' /\ children'[o.session] # "killed"
    BY <2>1, <2>2, <2>5
  <2> QED
    BY <2>3, <2>4, <2>6 DEF OpenInv
<1>11. OwnerInv'
  <2>1. ASSUME NEW s \in Sessions', children'[s] = "asked"
        PROVE  Opening(s)'
    <3>1. CASE s \in Sessions
      BY <1>2, <1>8, <2>1, <3>1 DEF OwnerInv
    <3>2. CASE s \notin Sessions
      <4>1. PICK i \in 1 .. n : s = Len(children) + i
        BY <1>2, <3>2
      <4>2. \E o \in opens' : o.session = s
        BY <1>2, <1>7, <4>1
      <4> QED
        BY <4>2 DEF Opening
    <3> QED
      BY <3>1, <3>2
  <2>2. NoOrphanSession'
    BY <1>2, <1>6, <1>8 DEF OwnerInv, NoOrphanSession, Live
  <2>3. ClosedNeverAttached'
    <3>1. \A s \in Sessions' : s \in closes' \/ children'[s] = "killed" => s \in Sessions
      BY <1>2 DEF TypeInv
    <3> QED
      BY <1>2, <1>3, <1>5, <1>6, <3>1 DEF OwnerInv, ClosedNeverAttached
  <2>4. \A s \in exits' : children'[s] = "gone"
    BY <1>2 DEF OwnerInv, TypeInv
  <2> QED
    BY <2>1, <2>2, <2>3, <2>4 DEF OwnerInv
<1> QED
  BY <1>2, <1>3, <1>5, <1>6, <1>8, <1>9, <1>10, <1>11

-----------------------------------------------------------------------------
(* The backend.                                                            *)

LEMMA BackendKeeps ==
  ASSUME TypeInv, RecordInv, OpenInv, OwnerInv, Backend
  PROVE  RecordInv' /\ OpenInv' /\ OwnerInv'
<1>1. PICK s \in Sessions : Spawn(s) \/ StreamEnds(s) \/ ClosePty(s)
  BY DEF Backend
<1>2. UNCHANGED <<ui, ref, runtimes, reserved, booted, opens, closing>>
  BY <1>1 DEF Spawn, StreamEnds, ClosePty
<1>3. \A r : (Attached(r)' <=> Attached(r)) /\ (Opening(r)' <=> Opening(r))
  BY <1>2 DEF Attached, Opening
<1>4. PICK fate \in Fates :
        /\ children' = [children EXCEPT ![s] = fate]
        /\ \/ children[s] = "asked" /\ fate \in {"live", "failed"} /\ exits' = exits /\ closes' = closes
           \/ children[s] \in {"live", "killed"} /\ fate = "gone" /\ exits' = exits \cup {s} /\ closes' = closes
           \/ s \in closes /\ fate = (IF children[s] = "live" THEN "killed" ELSE children[s])
              /\ exits' = exits /\ closes' = closes \ {s}
  <2>1. CASE Spawn(s)
    BY <2>1 DEF Spawn, Fates
  <2>2. CASE StreamEnds(s)
    BY <2>2 DEF StreamEnds, Fates
  <2>3. CASE ClosePty(s)
    <3>1. children[s] \in Fates /\ children = [children EXCEPT ![s] = children[s]]
      BY DEF TypeInv, Sessions
    <3> QED
      BY <2>3, <3>1 DEF ClosePty, Fates
  <2> QED
    BY <1>1, <2>1, <2>2, <2>3
<1>5. Sessions' = Sessions /\ \A r \in Sessions : children'[r] = IF r = s THEN fate ELSE children[r]
  BY <1>4, FateTyped DEF Sessions
<1>6. RecordInv'
  BY <1>2 DEF RecordInv, Unmounted
<1>7. OpenInv'
  <2>1. ASSUME NEW o \in opens
        PROVE  o.session \notin closes' /\ children'[o.session] # "killed"
    <3>1. o.session \in Sessions /\ o.session \notin closes /\ children[o.session] # "killed"
      BY DEF TypeInv, OpenInv
    <3> QED
      BY <1>4, <1>5, <3>1
  <2> QED
    BY <1>2, <1>3, <2>1 DEF OpenInv
<1>8. OwnerInv'
  <2>1. \A r \in Sessions' : children'[r] = "asked" => Opening(r)'
    BY <1>3, <1>4, <1>5 DEF OwnerInv
  <2>2. NoOrphanSession'
    <3>1. ASSUME NEW r \in Sessions', Live(r)'
          PROVE  Attached(r)' \/ Opening(r)' \/ r \in closes' \/ closing'
      <4>1. CASE r = s
        BY <1>3, <1>4, <1>5, <3>1, <4>1 DEF OwnerInv, Live
      <4>2. CASE r # s
        BY <1>2, <1>3, <1>4, <1>5, <3>1, <4>2 DEF OwnerInv, NoOrphanSession, Live
      <4> QED
        BY <4>1, <4>2
    <3> QED
      BY <3>1 DEF NoOrphanSession
  <2>3. ClosedNeverAttached'
    <3>1. ASSUME NEW r \in Sessions, r \in closes' \/ children'[r] = "killed"
          PROVE  ~Attached(r)
      BY <1>4, <1>5, <3>1 DEF OwnerInv, ClosedNeverAttached
    <3> QED
      BY <1>2, <1>3, <1>5, <3>1 DEF OwnerInv, ClosedNeverAttached
  <2>4. \A r \in exits' : children'[r] = "gone"
    BY <1>4, <1>5 DEF OwnerInv, TypeInv
  <2> QED
    BY <2>1, <2>2, <2>3, <2>4 DEF OwnerInv
<1> QED
  BY <1>6, <1>7, <1>8

-----------------------------------------------------------------------------
(* The replies to open_pty.                                                *)

\* The pane of an attached session waited for it, and still does.
LEMMA AttachMeans ==
  ASSUME TypeInv, RecordInv, OpenInv, NEW o \in opens, ref = ui, Attach(o)
  PROVE  /\ o.pane \in DOMAIN runtimes /\ runtimes[o.pane].session = 0 /\ Shows(ui, o.tab, o.pane, 0)
         /\ DOMAIN runtimes' = DOMAIN runtimes
         /\ runtimes'[o.pane].session = o.session /\ runtimes'[o.pane].mounted /\ runtimes'[o.pane].epoch = 1
         /\ \A p \in DOMAIN runtimes : p # o.pane => runtimes'[p] = runtimes[p]
         /\ StateOK(ui') /\ ui'.nextTab = ui.nextTab /\ ui'.nextPane = ui.nextPane
         /\ \A u, q, n : Shows(ui', u, q, n)
                           <=> IF u = o.tab /\ q = o.pane THEN n = o.session ELSE Shows(ui, u, q, n)
         /\ closes' = closes
<1>1. HasPane(ui, o.tab, o.pane) /\ o.pane \in DOMAIN runtimes
  BY DEF Attach, PaneAlive, EpochCurrent
<1>2. runtimes[o.pane].mounted /\ runtimes[o.pane].session = 0 /\ Shows(ui, o.tab, o.pane, 0)
  BY <1>1 DEF OpenInv
<1>3. runtimes[o.pane].epoch = 1 /\ runtimes[o.pane] \in Record
  BY <1>1, <1>2, RecordSession DEF RecordInv
<1>4. runtimes' = [runtimes EXCEPT ![o.pane].session = o.session] /\ closes' = closes
      /\ ui' = AttachSession(ui, o.tab, o.pane, o.session)
  BY DEF Attach
<1>5. /\ DOMAIN runtimes' = DOMAIN runtimes
      /\ runtimes'[o.pane].session = o.session /\ runtimes'[o.pane].mounted /\ runtimes'[o.pane].epoch = 1
      /\ \A p \in DOMAIN runtimes : p # o.pane => runtimes'[p] = runtimes[p]
  BY <1>1, <1>2, <1>3, <1>4 DEF Record
<1>6. StateOK(ui) /\ o.session \in Nat
  BY DEF TypeInv, Open
<1>7. /\ StateOK(ui') /\ ui'.nextTab = ui.nextTab /\ ui'.nextPane = ui.nextPane
      /\ \A u, q, n : Shows(ui', u, q, n)
                        <=> IF u = o.tab /\ q = o.pane THEN n = o.session ELSE Shows(ui, u, q, n)
  BY <1>1, <1>4, <1>6, AttachShows
<1> QED
  BY <1>1, <1>2, <1>4, <1>5, <1>7

LEMMA AttachKeeps ==
  ASSUME TypeInv, RecordInv, OpenInv, OwnerInv, NEW o \in opens, ref = ui, Attach(o),
         children[o.session] \notin {"asked", "failed"}, opens' = opens \ {o},
         UNCHANGED <<reserved, booted, children, exits, closing>>
  PROVE  RecordInv' /\ OpenInv' /\ OwnerInv'
<1>1. /\ o.pane \in DOMAIN runtimes /\ runtimes[o.pane].session = 0 /\ Shows(ui, o.tab, o.pane, 0)
      /\ DOMAIN runtimes' = DOMAIN runtimes
      /\ runtimes'[o.pane].session = o.session /\ runtimes'[o.pane].mounted /\ runtimes'[o.pane].epoch = 1
      /\ \A p \in DOMAIN runtimes : p # o.pane => runtimes'[p] = runtimes[p]
      /\ StateOK(ui') /\ ui'.nextTab = ui.nextTab /\ ui'.nextPane = ui.nextPane
      /\ \A u, q, n : Shows(ui', u, q, n)
                        <=> IF u = o.tab /\ q = o.pane THEN n = o.session ELSE Shows(ui, u, q, n)
      /\ closes' = closes
  BY AttachMeans
<1>2. /\ o.session \in Sessions /\ 0 \notin Sessions /\ Sessions' = Sessions
      /\ o.tab \in Nat /\ o.pane \in Nat /\ o.session \in Nat
  BY RecordSession DEF TypeInv, Open, Sessions
<1>3. /\ ~Attached(o.session) /\ o.session \notin closes /\ children[o.session] # "killed"
      /\ \A r \in opens : r # o => r.pane # o.pane /\ r.session # o.session
  BY DEF OpenInv
<1>4. \A s \in Sessions : Attached(s)' <=> Attached(s) \/ s = o.session
  BY <1>1, <1>2, <1>3 DEF Attached
<1>5. \A u, n : Shows(ui, u, o.pane, n) => u = o.tab
  BY <1>1, ShowsOnce DEF TypeInv
<1>6. RecordInv'
  <2>1. ASSUME NEW p
        PROVE  p \in AllPanes(ui') <=> p \in AllPanes(ui)
    <3>1. p \in AllPanes(ui) <=> \E t, n \in Nat : Shows(ui, t, p, n)
      BY ShownPanes DEF TypeInv
    <3>2. p \in AllPanes(ui') <=> \E t, n \in Nat : Shows(ui', t, p, n)
      BY <1>1, ShownPanes
    <3>3. CASE p = o.pane
      <4>1. Shows(ui', o.tab, p, o.session) /\ Shows(ui, o.tab, p, 0)
        BY <1>1, <3>3
      <4> QED
        BY <1>2, <3>1, <3>2, <4>1
    <3>4. CASE p # o.pane
      BY <1>1, <3>1, <3>2, <3>4
    <3> QED
      BY <3>3, <3>4
  <2>2. DOMAIN runtimes' = AllPanes(ui')
    BY <1>1, <2>1 DEF RecordInv
  <2>3. \A t, p, n \in Nat : Shows(ui', t, p, n) => runtimes'[p].session = n
    BY <1>1, <1>5, ShownRecord
  <2>4. \A p \in DOMAIN runtimes' : IF runtimes'[p].mounted THEN runtimes'[p].epoch = 1 ELSE runtimes'[p] = Unmounted
    BY <1>1 DEF RecordInv
  <2>5. ui'.tabs # <<>>
    <3>1. Shows(ui', o.tab, o.pane, o.session)
      BY <1>1
    <3>2. \E i \in DOMAIN ui'.tabs : TRUE
      BY <3>1 DEF Shows
    <3> QED
      BY <3>2
  <2> QED
    BY <1>1, <2>2, <2>3, <2>4, <2>5 DEF RecordInv, Unmounted
<1>7. OpenInv'
  <2>1. ASSUME NEW r \in opens'
        PROVE  /\ r.pane < ui'.nextPane /\ r.epoch = 1
               /\ r.pane \in DOMAIN runtimes' =>
                    runtimes'[r.pane].mounted /\ runtimes'[r.pane].session = 0 /\ Shows(ui', r.tab, r.pane, 0)
               /\ ~Attached(r.session)' /\ r.session \notin closes' /\ children'[r.session] # "killed"
    <3>1. r \in opens /\ r.pane # o.pane /\ r.session # o.session /\ r.session \in Sessions
      BY <1>3 DEF TypeInv
    <3>2. r.pane < ui'.nextPane /\ r.epoch = 1
      BY <1>1, <3>1 DEF OpenInv
    <3>3. r.pane \in DOMAIN runtimes' =>
            runtimes'[r.pane].mounted /\ runtimes'[r.pane].session = 0 /\ Shows(ui', r.tab, r.pane, 0)
      BY <1>1, <3>1 DEF OpenInv
    <3>4. ~Attached(r.session)' /\ r.session \notin closes' /\ children'[r.session] # "killed"
      BY <1>1, <1>4, <3>1 DEF OpenInv
    <3> QED
      BY <3>2, <3>3, <3>4
  <2>2. \A p, q \in opens' : p.pane = q.pane \/ p.session = q.session => p = q
    BY DEF OpenInv
  <2> QED
    BY <2>1, <2>2 DEF OpenInv
<1>8. OwnerInv'
  <2>1. \A s \in Sessions : s # o.session => (Opening(s)' <=> Opening(s))
    BY <1>3 DEF Opening
  <2>2. (\A s \in Sessions : children[s] = "asked" => Opening(s))'
    BY <1>2, <2>1 DEF OwnerInv
  <2>3. NoOrphanSession'
    BY <1>1, <1>2, <1>4, <2>1 DEF OwnerInv, NoOrphanSession, Live
  <2>4. ClosedNeverAttached'
    <3>1. \A p, q \in DOMAIN runtimes' : runtimes'[p].session = runtimes'[q].session => p = q \/ runtimes'[p].session = 0
      BY <1>1, <1>3 DEF OwnerInv, ClosedNeverAttached, Attached
    <3> QED
      BY <1>1, <1>2, <1>3, <1>4, <3>1 DEF OwnerInv, ClosedNeverAttached
  <2> QED
    BY <2>2, <2>3, <2>4 DEF OwnerInv
<1> QED
  BY <1>6, <1>7, <1>8

\* The other replies leave the panes alone: the session is closed, or there is none.
LEMMA NoPaneKeeps ==
  ASSUME TypeInv, RecordInv, OpenInv, OwnerInv, NEW o \in opens,
         \/ closes' = closes \cup {o.session} /\ children[o.session] # "asked"
         \/ closes' = closes /\ children[o.session] = "failed",
         opens' = opens \ {o}, UNCHANGED <<ui, runtimes, reserved, booted, children, exits, closing>>
  PROVE  RecordInv' /\ OpenInv' /\ OwnerInv'
<1>1. o.session \in Sessions /\ Sessions' = Sessions
  BY DEF TypeInv, Sessions
<1>2. /\ ~Attached(o.session) /\ o.session \notin closes /\ children[o.session] # "killed"
      /\ \A r \in opens : r # o => r.pane # o.pane /\ r.session # o.session
  BY DEF OpenInv
<1>3. /\ \A s : Attached(s)' <=> Attached(s)
      /\ \A s : s # o.session => (Opening(s)' <=> Opening(s))
  BY DEF Attached, Opening
<1>4. RecordInv'
  BY DEF RecordInv, Unmounted
<1>5. OpenInv'
  <2>1. \A r \in opens' : r.session \notin closes'
    BY <1>2 DEF OpenInv
  <2> QED
    BY <1>3, <2>1 DEF OpenInv
<1>6. OwnerInv'
  <2>1. (\A s \in Sessions : children[s] = "asked" => Opening(s))'
    BY <1>1, <1>3 DEF OwnerInv
  <2>2. NoOrphanSession'
    BY <1>1, <1>3 DEF OwnerInv, NoOrphanSession, Live
  <2>3. ClosedNeverAttached'
    BY <1>1, <1>2, <1>3 DEF OwnerInv, ClosedNeverAttached
  <2> QED
    BY <2>1, <2>2, <2>3 DEF OwnerInv
<1> QED
  BY <1>4, <1>5, <1>6

LEMMA ReplyKeeps ==
  ASSUME InOrder, TypeInv, RecordInv, OpenInv, OwnerInv, NEW o \in opens, Reply(o)
  PROVE  RecordInv' /\ OpenInv' /\ OwnerInv'
<1>1. ref = ui
  BY HandledCommitted DEF Reply
<1>2. /\ opens' = opens \ {o} /\ UNCHANGED <<ref, reserved, booted, children, exits, closing>>
      /\ children[o.session] # "asked"
      /\ \/ children[o.session] # "failed" /\ (Attach(o) \/ DisposeOrphan(o))
         \/ children[o.session] = "failed" /\ UNCHANGED <<ui, runtimes, closes>>
  BY DEF Reply
<1>3. CASE children[o.session] # "failed" /\ Attach(o)
  BY <1>1, <1>2, <1>3, AttachKeeps
<1>4. CASE children[o.session] # "failed" /\ DisposeOrphan(o)
  <2>1. closes' = closes \cup {o.session} /\ UNCHANGED <<ui, runtimes>>
    BY <1>4 DEF DisposeOrphan
  <2> QED
    BY <1>2, <2>1, NoPaneKeeps
<1>5. CASE children[o.session] = "failed" /\ UNCHANGED <<ui, runtimes, closes>>
  BY <1>2, <1>5, NoPaneKeeps
<1> QED
  BY <1>2, <1>3, <1>4, <1>5

-----------------------------------------------------------------------------
(* Closing: either a set of panes leaves with its records and its          *)
(* sessions, or the window closes and nothing is touched.                  *)

Leaves(gone, exited) ==
  /\ StateOK(ui') /\ ui'.nextTab = ui.nextTab /\ ui'.nextPane = ui.nextPane
  /\ ui'.tabs # <<>>
  /\ \A t, p, n : Shows(ui', t, p, n) <=> Shows(ui, t, p, n) /\ p \notin gone
  /\ Dispose(gone, exited) /\ closing' = closing

Quits == closing' = TRUE /\ Len(ui.tabs) <= 1 /\ UNCHANGED <<ui, runtimes, closes>>

LEMMA TabPanes ==
  ASSUME NEW s, StateOK(s), NEW t \in TabIds(s), NEW u, NEW p, NEW n, Shows(s, u, p, n)
  PROVE  p \in Panes(TabOf(s, t)) <=> u = t
<1>1. ASSUME u = t
      PROVE  p \in Panes(TabOf(s, t))
  BY <1>1, ShowsTypes DEF HasPane
<1>2. ASSUME p \in Panes(TabOf(s, t))
      PROVE  u = t
  <2>1. Shows(s, t, p, TabOf(s, t).sess[p])
    BY <1>2, PaneShows DEF HasPane
  <2> QED
    BY <2>1, ShowsOnce
<1> QED
  BY <1>1, <1>2

LEMMA CloseTabLeaves ==
  ASSUME TypeInv, RecordInv, ref = ui, NEW t \in TabIds(ui), NEW exited \in BOOLEAN,
         CloseTabInternal(t, exited)
  PROVE  Quits \/ Leaves(Panes(TabOf(ui, t)), exited)
<1>1. CASE Len(ref.tabs) <= 1 /\ closing' = TRUE /\ UNCHANGED <<ui, runtimes, closes>>
  BY <1>1 DEF Quits
<1>2. CASE /\ Len(ref.tabs) > 1 /\ ui' = CloseTab(ui, t)
           /\ Dispose(Panes(TabOf(ref, t)), exited) /\ UNCHANGED closing
  <2>1. /\ StateOK(ui') /\ ui'.nextTab = ui.nextTab /\ ui'.nextPane = ui.nextPane
        /\ Len(ui'.tabs) = Len(ui.tabs) - 1
        /\ \A u, q, n : Shows(ui', u, q, n) <=> Shows(ui, u, q, n) /\ u # t
    BY <1>2, CloseTabShows DEF TypeInv
  <2>2. ui'.tabs # <<>>
    <3>1. Len(ui.tabs) \in Nat /\ Len(ui.tabs) > 1
      BY <1>2 DEF TypeInv, StateOK, State
    <3>2. Len(ui'.tabs) = Len(ui.tabs) - 1
      BY <2>1
    <3>3. \A n \in Nat : n > 1 => n - 1 # 0
      OBVIOUS
    <3>4. Len(ui'.tabs) # 0
      BY <3>1, <3>2, <3>3, Zenon
    <3> QED
      BY <3>4
  <2>3. \A u, q, n : Shows(ui', u, q, n) <=> Shows(ui, u, q, n) /\ q \notin Panes(TabOf(ui, t))
    BY <2>1, TabPanes DEF TypeInv
  <2> QED
    BY <1>2, <2>1, <2>2, <2>3 DEF Leaves
<1> QED
  BY <1>1, <1>2 DEF CloseTabInternal

LEMMA ClosePaneLeaves ==
  ASSUME TypeInv, RecordInv, ref = ui, NEW t, NEW p, HasPane(ui, t, p), NEW exited \in BOOLEAN,
         ClosePaneInternal(t, p, exited)
  PROVE  Quits \/ Leaves({p}, exited)
<1>1. CASE Panes(TabOf(ui, t)) = {p}
  BY <1>1, CloseTabLeaves DEF ClosePaneInternal, HasPane
<1>2. CASE Panes(TabOf(ui, t)) # {p}
  <2>1. ui' \in ClosePane(ui, t, p) /\ Dispose({p}, exited) /\ closing' = closing
    BY <1>2 DEF ClosePaneInternal
  <2>2. /\ StateOK(ui') /\ ui'.nextTab = ui.nextTab /\ ui'.nextPane = ui.nextPane
        /\ Len(ui'.tabs) = Len(ui.tabs)
        /\ \A u, q, n : Shows(ui', u, q, n) <=> Shows(ui, u, q, n) /\ q # p
    BY <1>2, <2>1, ClosePaneShows DEF TypeInv
  <2>3. ui'.tabs # <<>>
    <3>1. \E i \in DOMAIN ui.tabs : TRUE
      BY DEF HasPane, TabIds
    <3>2. ui.tabs \in Seq(Tab)
      BY DEF TypeInv, StateOK, State
    <3>3. Len(ui.tabs) # 0
      BY <3>1, <3>2
    <3> QED
      BY <2>2, <3>3
  <2> QED
    BY <2>1, <2>2, <2>3 DEF Leaves
<1> QED
  BY <1>1, <1>2

\* The sessions of the panes that left are nobody's, and those of the others are theirs.
LEMMA LeftRecords ==
  ASSUME TypeInv, RecordInv, OwnerInv, NEW gone, NEW exited \in BOOLEAN, Leaves(gone, exited)
  PROVE  /\ DOMAIN runtimes' = DOMAIN runtimes \ gone
         /\ \A p \in DOMAIN runtimes' : runtimes'[p] = runtimes[p]
         /\ \A s \in Sessions : Attached(s)' <=> Attached(s) /\ s \notin AttachedIn(gone)
         /\ \A s \in AttachedIn(gone) : s \in Sessions /\ Attached(s)
         /\ closes' = IF exited THEN closes ELSE closes \cup AttachedIn(gone)
<1>1. /\ runtimes' = Dropped(gone)
      /\ closes' = IF exited THEN closes ELSE closes \cup AttachedIn(gone)
  BY DEF Leaves, Dispose
<1>2. /\ DOMAIN runtimes' = DOMAIN runtimes \ gone
      /\ \A p \in DOMAIN runtimes' : runtimes'[p] = runtimes[p]
      /\ AttachedIn(gone) \subseteq Sessions
      /\ \A s : s \in AttachedIn(gone) <=> s # 0 /\ \E p \in gone \cap DOMAIN runtimes : runtimes[p].session = s
  <2>1. /\ Dropped(gone) \in [DOMAIN runtimes \ gone -> Record]
        /\ \A p \in DOMAIN runtimes \ gone : Dropped(gone)[p] = runtimes[p]
        /\ AttachedIn(gone) \subseteq Sessions
        /\ \A s : s \in AttachedIn(gone) <=> s # 0 /\ \E p \in gone \cap DOMAIN runtimes : runtimes[p].session = s
    BY DroppedIs
  <2>2. DOMAIN Dropped(gone) = DOMAIN runtimes \ gone
    BY <2>1
  <2> QED
    BY <1>1, <2>1, <2>2, Zenon
<1>3. ASSUME NEW s \in Sessions
      PROVE  Attached(s)' <=> Attached(s) /\ s \notin AttachedIn(gone)
  <2>1. s # 0
    BY DEF TypeInv, Sessions
  <2>2. \A p, q \in DOMAIN runtimes : runtimes[p].session = s /\ runtimes[q].session = s => p = q
    BY <2>1 DEF OwnerInv, ClosedNeverAttached
  <2> QED
    BY <1>2, <2>1, <2>2 DEF Attached
<1>4. \A s \in AttachedIn(gone) : s \in Sessions /\ Attached(s)
  BY <1>2 DEF Attached
<1> QED
  BY <1>1, <1>2, <1>3, <1>4

\* A close kills the sessions that it takes from the screen; after an exit they are gone.
LEMMA LeavesKeeps ==
  ASSUME TypeInv, RecordInv, OpenInv, OwnerInv, NEW gone, NEW exited \in BOOLEAN, Leaves(gone, exited),
         exited => \A s \in AttachedIn(gone) : children[s] = "gone",
         exits' \subseteq exits, UNCHANGED <<reserved, booted, children, opens>>
  PROVE  RecordInv' /\ OpenInv' /\ OwnerInv'
<1>1. /\ DOMAIN runtimes' = DOMAIN runtimes \ gone
      /\ \A p \in DOMAIN runtimes' : runtimes'[p] = runtimes[p]
      /\ \A s \in Sessions : Attached(s)' <=> Attached(s) /\ s \notin AttachedIn(gone)
      /\ \A s \in AttachedIn(gone) : s \in Sessions /\ Attached(s)
      /\ closes' = IF exited THEN closes ELSE closes \cup AttachedIn(gone)
  BY LeftRecords
<1>2. /\ StateOK(ui') /\ ui'.nextTab = ui.nextTab /\ ui'.nextPane = ui.nextPane /\ ui'.tabs # <<>>
      /\ \A t, p, n : Shows(ui', t, p, n) <=> Shows(ui, t, p, n) /\ p \notin gone
      /\ closing' = closing /\ Sessions' = Sessions
  BY DEF Leaves, Sessions
<1>3. \A s : Opening(s)' <=> Opening(s)
  BY DEF Opening
<1>4. RecordInv'
  <2>1. ASSUME NEW p
        PROVE  p \in AllPanes(ui') <=> p \in AllPanes(ui) /\ p \notin gone
    <3>1. p \in AllPanes(ui) <=> \E t, n \in Nat : Shows(ui, t, p, n)
      BY ShownPanes DEF TypeInv
    <3>2. p \in AllPanes(ui') <=> \E t, n \in Nat : Shows(ui', t, p, n)
      BY <1>2, ShownPanes
    <3> QED
      BY <1>2, <3>1, <3>2
  <2>2. DOMAIN runtimes' = AllPanes(ui')
    BY <1>1, <2>1 DEF RecordInv
  <2>3. \A t, p, n \in Nat : Shows(ui', t, p, n) => runtimes'[p].session = n
    BY <1>1, <1>2, ShownRecord
  <2>4. \A p \in DOMAIN runtimes' : IF runtimes'[p].mounted THEN runtimes'[p].epoch = 1 ELSE runtimes'[p] = Unmounted
    BY <1>1 DEF RecordInv
  <2> QED
    BY <1>2, <2>2, <2>3, <2>4 DEF RecordInv, Unmounted
<1>5. OpenInv'
  <2>1. ASSUME NEW o \in opens
        PROVE  /\ o.pane < ui'.nextPane /\ o.epoch = 1
               /\ o.pane \in DOMAIN runtimes' =>
                    runtimes'[o.pane].mounted /\ runtimes'[o.pane].session = 0 /\ Shows(ui', o.tab, o.pane, 0)
               /\ ~Attached(o.session)' /\ o.session \notin closes' /\ children'[o.session] # "killed"
    <3>1. o.session \in Sessions
      BY DEF TypeInv
    <3>2. ~Attached(o.session) /\ o.session \notin AttachedIn(gone)
      BY <1>1 DEF OpenInv
    <3>3. ~Attached(o.session)' /\ o.session \notin closes' /\ children'[o.session] # "killed"
      BY <1>1, <3>1, <3>2 DEF OpenInv
    <3>4. o.pane \in DOMAIN runtimes' =>
            runtimes'[o.pane].mounted /\ runtimes'[o.pane].session = 0 /\ Shows(ui', o.tab, o.pane, 0)
      BY <1>1, <1>2 DEF OpenInv
    <3> QED
      BY <1>2, <3>3, <3>4 DEF OpenInv
  <2> QED
    BY <2>1 DEF OpenInv
<1>6. OwnerInv'
  <2>1. (\A s \in Sessions : children[s] = "asked" => Opening(s))'
    BY <1>2, <1>3 DEF OwnerInv
  <2>2. NoOrphanSession'
    BY <1>1, <1>2, <1>3 DEF OwnerInv, NoOrphanSession, Live
  <2>3. ClosedNeverAttached'
    BY <1>1, <1>2 DEF OwnerInv, ClosedNeverAttached
  <2> QED
    BY <2>1, <2>2, <2>3 DEF OwnerInv
<1> QED
  BY <1>4, <1>5, <1>6

\* Nothing but the order, the focus or the window's end changes.
LEMMA StillKeeps ==
  ASSUME TypeInv, RecordInv, OpenInv, OwnerInv,
         ui'.nextTab = ui.nextTab, ui'.nextPane = ui.nextPane, ui'.tabs = <<>> <=> ui.tabs = <<>>, StateOK(ui'),
         \A t, p, n : Shows(ui', t, p, n) <=> Shows(ui, t, p, n),
         exits' \subseteq exits, closing' \in {closing, TRUE},
         UNCHANGED <<runtimes, reserved, booted, children, opens, closes>>
  PROVE  RecordInv' /\ OpenInv' /\ OwnerInv'
<1>1. /\ \A s : Attached(s)' <=> Attached(s)
      /\ \A s : Opening(s)' <=> Opening(s)
  BY DEF Attached, Opening
<1>2. RecordInv'
  <2>1. ASSUME NEW p
        PROVE  p \in AllPanes(ui') <=> p \in AllPanes(ui)
    BY ShownPanes DEF TypeInv
  <2>2. AllPanes(ui') = AllPanes(ui)
    BY <2>1
  <2>3. booted' /\ ~closing' => ui'.tabs # <<>>
    BY DEF RecordInv
  <2>4. \A p \in DOMAIN runtimes' : IF runtimes'[p].mounted THEN runtimes'[p].epoch = 1 ELSE runtimes'[p] = Unmounted
    BY DEF RecordInv
  <2>5. \A t, p, n \in Nat : Shows(ui', t, p, n) => runtimes'[p].session = n
    BY ShownRecord
  <2>6. reserved' = [tab |-> ui'.nextTab, pane |-> ui'.nextPane] /\ DOMAIN runtimes' = AllPanes(ui')
    BY <2>2 DEF RecordInv
  <2> QED
    BY <2>3, <2>4, <2>5, <2>6 DEF RecordInv, Unmounted
<1>3. OpenInv'
  BY <1>1 DEF OpenInv
<1>4. OwnerInv'
  <2>1. Sessions' = Sessions /\ (closing => closing')
    BY DEF Sessions, TypeInv
  <2>2. NoOrphanSession'
    BY <1>1, <2>1 DEF OwnerInv, NoOrphanSession, Live
  <2>3. ClosedNeverAttached'
    BY <1>1, <2>1 DEF OwnerInv, ClosedNeverAttached
  <2> QED
    BY <1>1, <2>1, <2>2, <2>3 DEF OwnerInv
<1> QED
  BY <1>2, <1>3, <1>4

LEMMA QuitsKeeps ==
  ASSUME TypeInv, RecordInv, OpenInv, OwnerInv, Quits, exits' \subseteq exits,
         UNCHANGED <<reserved, booted, children, opens>>
  PROVE  RecordInv' /\ OpenInv' /\ OwnerInv'
<1>1. /\ ui' = ui /\ StateOK(ui') /\ closing' \in {closing, TRUE}
      /\ UNCHANGED <<runtimes, reserved, booted, children, opens, closes>>
  BY DEF Quits, TypeInv
<1> QED
  BY <1>1, StillKeeps

LEMMA ArrangeKeeps ==
  ASSUME InOrder, TypeInv, RecordInv, OpenInv, OwnerInv, Arrange
  PROVE  RecordInv' /\ OpenInv' /\ OwnerInv'
<1>1. StateOK(ui) /\ ui.tabs \in Seq(Tab)
  BY DEF TypeInv, StateOK, State
<1>2. /\ StateOK(ui') /\ ui'.nextTab = ui.nextTab /\ ui'.nextPane = ui.nextPane /\ Len(ui'.tabs) = Len(ui.tabs)
      /\ \A t, p, n : Shows(ui', t, p, n) <=> Shows(ui, t, p, n)
  BY <1>1, ActivateShows, FocusShows, MoveTabShows DEF Arrange
<1>3. ui'.tabs = <<>> <=> ui.tabs = <<>>
  <2>1. ui'.tabs \in Seq(Tab)
    BY <1>2 DEF StateOK, State
  <2> QED
    BY <1>1, <1>2, <2>1
<1>4. UNCHANGED <<ref, runtimes, reserved, booted, children, opens, closes, exits, closing>>
  BY DEF Arrange
<1> QED
  BY <1>2, <1>3, <1>4, StillKeeps

\* The pane of the session whose end is announced.
LEMMA HitShown ==
  ASSUME TypeInv, RecordInv, ref = ui, NEW s \in Sessions
  PROVE  /\ \A hit \in PaneBySessionId(ref, s) :
              HasPane(ui, hit[1], hit[2]) /\ hit[2] \in DOMAIN runtimes /\ runtimes[hit[2]].session = s
         /\ Attached(s) => PaneBySessionId(ref, s) # {}
<1>1. ASSUME NEW hit \in PaneBySessionId(ref, s)
      PROVE  HasPane(ui, hit[1], hit[2]) /\ hit[2] \in DOMAIN runtimes /\ runtimes[hit[2]].session = s
  <2>1. HasPane(ui, hit[1], hit[2]) /\ TabOf(ui, hit[1]).sess[hit[2]] = s
    BY DEF PaneBySessionId
  <2>2. Shows(ui, hit[1], hit[2], s)
    BY <2>1, PaneShows DEF TypeInv
  <2> QED
    BY <2>1, <2>2, ShownRecord
<1>2. ASSUME Attached(s)
      PROVE  PaneBySessionId(ref, s) # {}
  <2>1. PICK p \in DOMAIN runtimes : runtimes[p].session = s
    BY <1>2 DEF Attached
  <2>2. PICK t \in Nat : Shows(ui, t, p, s)
    BY <2>1, RecordShown
  <2>3. HasPane(ui, t, p) /\ TabOf(ui, t).sess[p] = s /\ p \in AllPanes(ui) /\ t \in TabIds(ui)
    BY <2>2, ShowsTypes DEF TypeInv
  <2>4. <<t, p>> \in PaneBySessionId(ui, s)
    BY <2>3 DEF PaneBySessionId
  <2> QED
    BY <2>4
<1> QED
  BY <1>1, <1>2

\* What an exit event does: its pane leaves, or no pane has the session.
LEMMA ExitMeans ==
  ASSUME InOrder, TypeInv, RecordInv, OwnerInv, NEW s \in Sessions, ExitEvent(s)
  PROVE  \/ Quits
         \/ \E p \in DOMAIN runtimes : /\ runtimes[p].session = s /\ Leaves({p}, TRUE)
                                       /\ AttachedIn({p}) = {s}
         \/ ~Attached(s) /\ UNCHANGED <<ui, runtimes, closes, closing>>
<1>1. ref = ui
  BY HandledCommitted DEF ExitEvent
<1>2. CASE PaneBySessionId(ref, s) = {}
  BY <1>1, <1>2, HitShown DEF ExitEvent
<1>3. CASE PaneBySessionId(ref, s) # {}
  <2>1. PICK hit \in PaneBySessionId(ref, s) : ClosePaneInternal(hit[1], hit[2], TRUE)
    BY <1>3 DEF ExitEvent
  <2>2. HasPane(ui, hit[1], hit[2]) /\ hit[2] \in DOMAIN runtimes /\ runtimes[hit[2]].session = s
    BY <1>1, <2>1, HitShown
  <2>3. Quits \/ Leaves({hit[2]}, TRUE)
    BY <1>1, <2>1, <2>2, ClosePaneLeaves
  <2>4. s # 0
    BY DEF TypeInv, Sessions
  <2>5. AttachedIn({hit[2]}) = {s}
    BY <2>2, <2>4 DEF AttachedIn
  <2> QED
    BY <2>2, <2>3, <2>5
<1> QED
  BY <1>2, <1>3

LEMMA ExitKeeps ==
  ASSUME InOrder, TypeInv, RecordInv, OpenInv, OwnerInv, NEW s \in Sessions, ExitEvent(s)
  PROVE  RecordInv' /\ OpenInv' /\ OwnerInv'
<1>1. /\ s \in exits /\ exits' \subseteq exits /\ children[s] = "gone"
      /\ UNCHANGED <<ref, reserved, booted, children, opens>>
  BY DEF ExitEvent, OwnerInv
<1>2. CASE Quits
  BY <1>1, <1>2, QuitsKeeps
<1>3. ASSUME NEW p \in DOMAIN runtimes, Leaves({p}, TRUE), AttachedIn({p}) = {s}
      PROVE  RecordInv' /\ OpenInv' /\ OwnerInv'
  BY <1>1, <1>3, LeavesKeeps
<1>4. CASE UNCHANGED <<ui, runtimes, closes, closing>>
  <2>1. StateOK(ui') /\ closing' \in {closing, TRUE}
    BY <1>4 DEF TypeInv
  <2> QED
    BY <1>1, <1>4, <2>1, StillKeeps
<1> QED
  BY <1>2, <1>3, <1>4, ExitMeans

\* What a gesture does.
LEMMA CloseMeans ==
  ASSUME InOrder, TypeInv, RecordInv, Close
  PROVE  /\ Quits \/ \E gone : Leaves(gone, FALSE)
         /\ UNCHANGED <<ref, reserved, booted, children, opens, exits>>
<1>1. ASSUME NEW t, NEW p, ClosePaneGesture(t, p)
      PROVE  /\ Quits \/ \E gone : Leaves(gone, FALSE)
             /\ UNCHANGED <<ref, reserved, booted, children, opens, exits>>
  <2>1. ref = ui /\ HasPane(ui, t, p) /\ ClosePaneInternal(t, p, FALSE)
    BY <1>1, HandledCommitted DEF ClosePaneGesture, HandlesGesture
  <2>2. Quits \/ Leaves({p}, FALSE)
    BY <2>1, ClosePaneLeaves
  <2> QED
    BY <1>1, <2>2 DEF ClosePaneGesture
<1>2. ASSUME NEW t, CloseTabGesture(t)
      PROVE  /\ Quits \/ \E gone : Leaves(gone, FALSE)
             /\ UNCHANGED <<ref, reserved, booted, children, opens, exits>>
  <2>1. ref = ui /\ t \in TabIds(ui) /\ CloseTabInternal(t, FALSE)
    BY <1>2, HandledCommitted DEF CloseTabGesture, HandlesGesture
  <2>2. Quits \/ Leaves(Panes(TabOf(ui, t)), FALSE)
    BY <2>1, CloseTabLeaves
  <2> QED
    BY <1>2, <2>2 DEF CloseTabGesture
<1> QED
  BY <1>1, <1>2 DEF Close

LEMMA CloseKeeps ==
  ASSUME InOrder, TypeInv, RecordInv, OpenInv, OwnerInv, Close
  PROVE  RecordInv' /\ OpenInv' /\ OwnerInv'
<1>1. UNCHANGED <<ref, reserved, booted, children, opens, exits>>
  BY CloseMeans
<1>2. CASE Quits
  BY <1>1, <1>2, QuitsKeeps
<1>3. ASSUME NEW gone, Leaves(gone, FALSE)
      PROVE  RecordInv' /\ OpenInv' /\ OwnerInv'
  BY <1>1, <1>3, LeavesKeeps
<1> QED
  BY <1>2, <1>3, CloseMeans

-----------------------------------------------------------------------------
(* The theorems.                                                           *)

LEMMA InitOwned == Init => IInv
<1> SUFFICES ASSUME Init
             PROVE  IInv
  OBVIOUS
<1>1. ui = InitialTabs /\ runtimes = <<>> /\ children = <<>> /\ opens = {} /\ closes = {} /\ exits = {}
      /\ reserved = [tab |-> 1, pane |-> 1] /\ ~booted
  BY DEF Init
<1>2. DOMAIN runtimes = {} /\ Sessions = {} /\ AllPanes(ui) = {} /\ \A t, p, n : ~Shows(ui, t, p, n)
  BY <1>1, InitialOK DEF Sessions
<1>3. RecordInv
  BY <1>1, <1>2 DEF RecordInv, InitialTabs
<1>4. OpenInv /\ OwnerInv
  BY <1>1, <1>2 DEF OpenInv, OwnerInv, NoOrphanSession, ClosedNeverAttached
<1> QED
  BY <1>3, <1>4, InitTyped DEF IInv

LEMMA NextOwned ==
  ASSUME InOrder, IInv, [Next]_vars
  PROVE  IInv'
<1>1. TypeInv /\ RecordInv /\ OpenInv /\ OwnerInv /\ TypeInv'
  BY NextTyped DEF IInv
<1> SUFFICES RecordInv' /\ OpenInv' /\ OwnerInv'
  BY <1>1 DEF IInv
<1>2. ASSUME NEW n \in {1, 2}, CreateTabs(n)
      PROVE  RecordInv' /\ OpenInv' /\ OwnerInv'
  BY <1>1, <1>2, CreateTabsGrows, GrowKeeps
<1>3. CASE Boot \/ NewTab \/ DeliverServicePaths
  BY <1>2, <1>3 DEF Boot, NewTab, DeliverServicePaths
<1>4. CASE RequestSplit
  BY <1>1, <1>4, SplitGrows, GrowKeeps
<1>5. CASE Commit
  BY <1>1, <1>5, CommitKeeps
<1>6. CASE Backend
  BY <1>1, <1>6, BackendKeeps
<1>7. CASE \E o \in opens : Reply(o)
  BY <1>1, <1>7, ReplyKeeps
<1>8. CASE \E s \in Sessions : ExitEvent(s)
  BY <1>1, <1>8, ExitKeeps
<1>9. CASE Close
  BY <1>1, <1>9, CloseKeeps
<1>10. CASE Arrange
  BY <1>1, <1>10, ArrangeKeeps
<1>11. CASE UNCHANGED vars
  <2>1. /\ ui' = ui /\ StateOK(ui') /\ closing' \in {closing, TRUE} /\ exits' \subseteq exits
        /\ UNCHANGED <<runtimes, reserved, booted, children, opens, closes>>
    BY <1>1, <1>11 DEF vars, TypeInv
  <2> QED
    BY <1>1, <2>1, StillKeeps
<1> QED
  BY <1>1, <1>3, <1>4, <1>5, <1>6, <1>7, <1>8, <1>9, <1>10, <1>11 DEF Next, IInv

\* The invariant that the theorems below rest on: records, opens in flight and sessions
\* fit together after every step of every handler (usePaneOps.ts, usePaneCallbacks.ts).
THEOREM Invariant == InOrder => (Spec => []IInv)
<1> SUFFICES ASSUME InOrder
             PROVE  Spec => []IInv
  OBVIOUS
<1>1. Init => IInv
  BY InitOwned
<1>2. IInv /\ [Next]_vars => IInv'
  BY NextOwned
<1> QED
  BY <1>1, <1>2, PTL DEF Spec

\* Whatever opens, closes and ends, a running shell belongs to a pane, is still being
\* opened or is being closed (the orphan guard of usePaneCallbacks.ts), and a shell that is
\* being closed is no pane's.
THEOREM EverySessionOwned == InOrder => (Spec => []SessionsOwned)
<1> SUFFICES ASSUME InOrder
             PROVE  Spec => []SessionsOwned
  OBVIOUS
<1>1. IInv => SessionsOwned
  BY DEF IInv, OwnerInv, SessionsOwned
<1> QED
  BY <1>1, Invariant, PTL

\* The reserved ids are the reducer's (idReservation.ts), and once React committed there
\* is one record for every pane and for no other, bound to the session the pane shows.
THEOREM RecordsFollowPanes == InOrder => (Spec => []RecordsMatchPanes)
<1> SUFFICES ASSUME InOrder
             PROVE  Spec => []RecordsMatchPanes
  OBVIOUS
<1>1. ASSUME IInv
      PROVE  RecordsMatchPanes
  <2>1. ASSUME NEW i \in DOMAIN ui.tabs, NEW p \in Panes(ui.tabs[i])
        PROVE  ui.tabs[i].sess[p] = runtimes[p].session
    <3>1. Shows(ui, ui.tabs[i].id, p, ui.tabs[i].sess[p])
      BY DEF Shows
    <3> QED
      BY <1>1, <3>1, ShownRecord DEF IInv
  <2> QED
    BY <1>1, <2>1 DEF IInv, RecordInv, RecordsMatchPanes, ReservationMirrors
<1> QED
  BY <1>1, Invariant, PTL

\* Once booted the window has a tab to show until its close is asked for.
THEOREM WindowKeepsTab == InOrder => (Spec => []WindowHasTab)
<1> SUFFICES ASSUME InOrder
             PROVE  Spec => []WindowHasTab
  OBVIOUS
<1>1. IInv => WindowHasTab
  BY DEF IInv, RecordInv, WindowHasTab
<1> QED
  BY <1>1, Invariant, PTL

-----------------------------------------------------------------------------
(* What no step may do.                                                    *)

LEMMA LeavesThrows ==
  ASSUME TypeInv, RecordInv, OwnerInv, NEW gone, NEW exited \in BOOLEAN, Leaves(gone, exited)
  PROVE  SessionsStay
<1>1. /\ DOMAIN runtimes' = DOMAIN runtimes \ gone
      /\ \A p \in DOMAIN runtimes' : runtimes'[p] = runtimes[p]
  BY LeftRecords
<1>2. ASSUME NEW p \in gone
      PROVE  p \notin AllPanes(ui')
  BY ShownPanes DEF Leaves
<1> QED
  BY <1>1, <1>2 DEF SessionsStay

LEMMA NextThrowsNothing ==
  ASSUME InOrder, IInv, [Next]_vars
  PROVE  SessionsStay /\ QuitOnlyWithLastTab
<1>1. TypeInv /\ RecordInv /\ OpenInv /\ OwnerInv
  BY DEF IInv
<1>2. ASSUME runtimes' = runtimes \/ \E new : Grows(new), closing' = closing
      PROVE  SessionsStay /\ QuitOnlyWithLastTab
  BY <1>1, <1>2, GrownRecords DEF SessionsStay, QuitOnlyWithLastTab
<1>3. ASSUME NEW n \in {1, 2}, CreateTabs(n)
      PROVE  SessionsStay /\ QuitOnlyWithLastTab
  <2>1. \E new : Grows(new)
    BY <1>1, <1>3, CreateTabsGrows
  <2> QED
    BY <1>2, <1>3, <2>1 DEF CreateTabs
<1>4. CASE Boot \/ NewTab \/ DeliverServicePaths
  BY <1>3, <1>4 DEF Boot, NewTab, DeliverServicePaths
<1>5. CASE RequestSplit
  <2>1. \E new : Grows(new)
    BY <1>1, <1>5, SplitGrows
  <2> QED
    BY <1>2, <1>5, <2>1 DEF RequestSplit
<1>6. CASE Commit
  BY <1>1, <1>6, CommitKeeps DEF SessionsStay, QuitOnlyWithLastTab, Commit
<1>7. CASE Backend \/ Arrange \/ UNCHANGED vars
  BY <1>2, <1>7 DEF Backend, Spawn, StreamEnds, ClosePty, Arrange, vars
<1>8. ASSUME NEW o \in opens, Reply(o)
      PROVE  SessionsStay /\ QuitOnlyWithLastTab
  <2>1. ref = ui /\ closing' = closing
    BY <1>8, HandledCommitted DEF Reply
  <2>2. CASE Attach(o)
    BY <1>1, <2>1, <2>2, AttachMeans DEF SessionsStay, QuitOnlyWithLastTab
  <2>3. CASE DisposeOrphan(o) \/ UNCHANGED <<ui, runtimes, closes>>
    BY <1>2, <2>1, <2>3 DEF DisposeOrphan
  <2> QED
    BY <1>8, <2>2, <2>3 DEF Reply
<1>9. CASE Quits
  BY <1>9 DEF Quits, SessionsStay, QuitOnlyWithLastTab
<1>10. ASSUME NEW gone, NEW exited \in BOOLEAN, Leaves(gone, exited)
       PROVE  SessionsStay /\ QuitOnlyWithLastTab
  BY <1>1, <1>10, LeavesThrows DEF Leaves, QuitOnlyWithLastTab
<1>11. CASE \E s \in Sessions : ExitEvent(s)
  BY <1>1, <1>2, <1>9, <1>10, <1>11, ExitMeans
<1>12. CASE Close
  BY <1>1, <1>9, <1>10, <1>12, CloseMeans
<1> QED
  BY <1>4, <1>5, <1>6, <1>7, <1>8, <1>11, <1>12 DEF Next

\* No step throws away what nobody closed: a record that loses its session belongs to a
\* pane that leaves the screen in the same step, and the window closes with its last tab.
THEOREM NothingIsThrownAway == InOrder => (Spec => NothingThrownAway)
<1> SUFFICES ASSUME InOrder
             PROVE  Spec => [][SessionsStay /\ QuitOnlyWithLastTab]_vars
  BY DEF NothingThrownAway
<1>1. IInv /\ [Next]_vars => [SessionsStay /\ QuitOnlyWithLastTab]_vars
  BY NextThrowsNothing
<1> QED
  BY <1>1, Invariant, PTL DEF Spec

-----------------------------------------------------------------------------
(* The end of a shell, when nothing overtakes anything.                    *)

InStep == RACES = {}

LEMMA InitEnded == Init => EndInv
<1>1. Init => Sessions = {}
  BY DEF Init, Sessions
<1> QED
  BY <1>1 DEF EndInv, DeadPaneNotified

\* A step that ends no session and takes back no announcement.
LEMMA EndStays ==
  ASSUME TypeInv, EndInv, closing => closing',
         \A s \in Sessions' : children'[s] = "gone" => s \in Sessions /\ children[s] = "gone",
         \A s \in Sessions : children[s] = "gone" /\ Opening(s)' => Opening(s),
         \A s \in Sessions : children[s] = "gone" /\ Attached(s)' => Attached(s) \/ Opening(s),
         \A s \in exits : s \in exits' \/ ~Attached(s)' \/ closing'
  PROVE  EndInv'
<1>1. (\A s \in Sessions : children[s] = "gone" => ~Opening(s))'
  BY DEF EndInv
<1>2. DeadPaneNotified'
  BY DEF EndInv, DeadPaneNotified
<1> QED
  BY <1>1, <1>2 DEF EndInv

LEMMA NextEnded ==
  ASSUME InStep, IInv, EndInv, [Next]_vars
  PROVE  EndInv'
<1>1. TypeInv /\ RecordInv /\ OpenInv /\ OwnerInv /\ InOrder
  BY DEF IInv, InStep, InOrder
<1>2. ASSUME UNCHANGED <<children, opens, exits, closing>>, \A s \in Sessions : Attached(s)' => Attached(s)
      PROVE  EndInv'
  BY <1>1, <1>2, EndStays DEF Sessions, Opening
<1>3. ASSUME NEW new, Grows(new)
      PROVE  EndInv'
  BY <1>1, <1>2, <1>3, GrownRecords DEF Grows
<1>4. ASSUME NEW n \in {1, 2}, CreateTabs(n)
      PROVE  EndInv'
  BY <1>1, <1>3, <1>4, CreateTabsGrows
<1>5. CASE Boot \/ NewTab \/ DeliverServicePaths
  BY <1>4, <1>5 DEF Boot, NewTab, DeliverServicePaths
<1>6. CASE RequestSplit
  BY <1>1, <1>3, <1>6, SplitGrows
<1>7. CASE Commit
  <2>1. /\ \A s \in Sessions : children'[s] = children[s] /\ (Attached(s)' <=> Attached(s)) /\ (Opening(s)' <=> Opening(s))
        /\ \A s \in Sessions' \ Sessions : children'[s] = "asked"
    BY <1>1, <1>7, CommitKeeps
  <2>2. exits' = exits /\ closing' = closing
    BY <1>7 DEF Commit
  <2> QED
    BY <1>1, <2>1, <2>2, EndStays
<1>8. CASE Backend
  <2>1. PICK s \in Sessions : Spawn(s) \/ StreamEnds(s) \/ ClosePty(s)
    BY <1>8 DEF Backend
  <2>2. UNCHANGED <<runtimes, opens, closing>>
    BY <2>1 DEF Spawn, StreamEnds, ClosePty
  <2>3. \A r : (Attached(r)' <=> Attached(r)) /\ (Opening(r)' <=> Opening(r))
    BY <2>2 DEF Attached, Opening
  <2>4. CASE StreamEnds(s)
    <3>1. ~Opening(s) /\ exits' = exits \cup {s} /\ children' = [children EXCEPT ![s] = "gone"]
      BY <2>4 DEF StreamEnds, InStep, Opening
    <3>2. Sessions' = Sessions /\ \A r \in Sessions : children'[r] = IF r = s THEN "gone" ELSE children[r]
      BY <1>1, <3>1, FateTyped DEF Sessions, Fates
    <3>3. (\A r \in Sessions : children[r] = "gone" => ~Opening(r))'
      BY <2>3, <3>1, <3>2 DEF EndInv
    <3>4. DeadPaneNotified'
      BY <2>2, <2>3, <3>1, <3>2 DEF EndInv, DeadPaneNotified
    <3> QED
      BY <3>3, <3>4 DEF EndInv
  <2>5. CASE Spawn(s) \/ ClosePty(s)
    <3>1. /\ exits' = exits
          /\ children' = children \/ \E fate \in {"live", "failed", "killed"} : children' = [children EXCEPT ![s] = fate]
      BY <2>5 DEF Spawn, ClosePty
    <3>2. Sessions' = Sessions /\ \A r \in Sessions : children'[r] = "gone" => children[r] = "gone"
      BY <1>1, <3>1, FateTyped DEF Sessions, Fates
    <3> QED
      BY <1>1, <2>2, <2>3, <3>1, <3>2, EndStays
  <2> QED
    BY <2>1, <2>4, <2>5
<1>9. ASSUME NEW o \in opens, Reply(o)
      PROVE  EndInv'
  <2>1. ref = ui /\ opens' = opens \ {o} /\ UNCHANGED <<children, exits, closing>>
    BY <1>1, <1>9, HandledCommitted DEF Reply
  <2>2. Sessions' = Sessions /\ \A s : Opening(s)' => Opening(s)
    BY <2>1 DEF Sessions, Opening
  <2>3. \A s \in Sessions : Attached(s)' => Attached(s) \/ Opening(s)
    <3>1. CASE Attach(o)
      <4>1. /\ DOMAIN runtimes' = DOMAIN runtimes /\ runtimes'[o.pane].session = o.session
            /\ \A p \in DOMAIN runtimes : p # o.pane => runtimes'[p] = runtimes[p]
        BY <1>1, <2>1, <3>1, AttachMeans
      <4> QED
        BY <4>1 DEF Attached, Opening
    <3>2. CASE runtimes' = runtimes
      BY <3>2 DEF Attached
    <3> QED
      BY <1>9, <3>1, <3>2 DEF Reply, DisposeOrphan
  <2> QED
    BY <1>1, <2>1, <2>2, <2>3, EndStays
<1>10. ASSUME NEW s \in Sessions, ExitEvent(s)
       PROVE  EndInv'
  <2>1. exits' = exits \ {s} /\ UNCHANGED <<children, opens>>
    BY <1>10 DEF ExitEvent
  <2>2. Sessions' = Sessions /\ \A r : Opening(r)' <=> Opening(r)
    BY <2>1 DEF Sessions, Opening
  <2>3. CASE Quits
    <3>1. closing' /\ \A r : Attached(r)' <=> Attached(r)
      BY <2>3 DEF Quits, Attached
    <3> QED
      BY <1>1, <2>1, <2>2, <3>1, EndStays
  <2>4. ASSUME NEW p \in DOMAIN runtimes, Leaves({p}, TRUE), AttachedIn({p}) = {s}
        PROVE  EndInv'
    <3>1. closing' = closing /\ \A r \in Sessions : Attached(r)' <=> Attached(r) /\ r # s
      BY <1>1, <2>4, LeftRecords DEF Leaves
    <3> QED
      BY <1>1, <2>1, <2>2, <3>1, EndStays
  <2>5. CASE ~Attached(s) /\ UNCHANGED <<ui, runtimes, closes, closing>>
    <3>1. closing' = closing /\ ~Attached(s) /\ \A r : Attached(r)' <=> Attached(r)
      BY <2>5 DEF Attached
    <3> QED
      BY <1>1, <2>1, <2>2, <3>1, EndStays
  <2> QED
    BY <1>1, <1>10, <2>3, <2>4, <2>5, ExitMeans
<1>11. CASE Close
  <2>1. UNCHANGED <<children, opens, exits>>
    BY <1>1, <1>11, CloseMeans
  <2>2. Sessions' = Sessions /\ \A r : Opening(r)' <=> Opening(r)
    BY <2>1 DEF Sessions, Opening
  <2>3. CASE Quits
    <3>1. closing' /\ \A r : Attached(r)' <=> Attached(r)
      BY <2>3 DEF Quits, Attached
    <3> QED
      BY <1>1, <2>1, <2>2, <3>1, EndStays
  <2>4. ASSUME NEW gone, Leaves(gone, FALSE)
        PROVE  EndInv'
    <3>1. closing' = closing /\ \A r \in Sessions : Attached(r)' => Attached(r)
      BY <1>1, <2>4, LeftRecords DEF Leaves
    <3> QED
      BY <1>2, <2>1, <3>1
  <2> QED
    BY <1>1, <1>11, <2>3, <2>4, CloseMeans
<1>12. CASE Arrange \/ UNCHANGED vars
  <2>1. UNCHANGED <<runtimes, children, opens, exits, closing>>
    BY <1>12 DEF Arrange, vars
  <2> QED
    BY <1>2, <2>1 DEF Attached
<1> QED
  BY <1>5, <1>6, <1>7, <1>8, <1>9, <1>10, <1>11, <1>12 DEF Next

\* When a reply is handled before the shell it speaks of can end, a pane whose shell has
\* ended has its exit event on the way, so it will close (usePaneCallbacks.ts).
THEOREM DeadPanesAreNotified == InStep => (Spec => []DeadPaneNotified)
<1> SUFFICES ASSUME InStep
             PROVE  Spec => []DeadPaneNotified
  OBVIOUS
<1>1. Init => EndInv
  BY InitEnded
<1>2. IInv /\ EndInv /\ [Next]_vars => EndInv'
  BY NextEnded
<1>3. Spec => []IInv
  BY Invariant DEF InStep, InOrder
<1>4. EndInv => DeadPaneNotified
  BY DEF EndInv
<1> QED
  BY <1>1, <1>2, <1>3, <1>4, PTL DEF Spec

=============================================================================
