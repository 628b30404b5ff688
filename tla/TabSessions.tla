----------------------------- MODULE TabSessions -----------------------------
(***************************************************************************)
(* Tabs, panes and their sessions: the reducer's state (tabState.ts), the  *)
(* runtime records beside it (paneRuntime.ts), the handlers that create,   *)
(* attach and close (usePaneOps.ts, usePaneCallbacks.ts, useCloseGuard.ts) *)
(* and the backend's sessions (open_pty, close_pty, pty:exited).           *)
(*                                                                         *)
(* A handler dispatches at once, but it reads stateRef, which only catches *)
(* up when React commits and runs its effects; open_pty calls, close_pty   *)
(* calls and exit events are messages.                                     *)
(***************************************************************************)
EXTENDS TabState

CONSTANTS MAX_PANES,     \* bound: no gesture creates a pane beyond this id
          MAX_SESSIONS,  \* bound: sessions asked for in one behaviour
          RACES          \* what may overtake what

\* "commit": a handler may run before React has committed the dispatches of
\* the one before it; "attach": a child may end before the reply to its
\* open_pty has been handled.
ASSUME TabSessionsAssumption ==
  /\ MAX_PANES \in Nat /\ MAX_SESSIONS \in Nat
  /\ RACES \subseteq {"commit", "attach"}

VARIABLES
  ui,         \* the reducer's state with every dispatch applied
  ref,        \* stateRef.current: the last committed state
  runtimes,   \* paneId -> record: attached session (0 none), attach epoch, mounted
  reserved,   \* the id reservation's counters
  booted,     \* bootedRef
  children,   \* the sessions asked for so far: what became of each
  opens,      \* open_pty calls whose promise has not been handled
  closes,     \* close_pty calls on their way
  exits,      \* pty:exited events on their way
  closing     \* closeWindow was called: the quit takes over (see CloseGate)

vars == <<ui, ref, runtimes, reserved, booted, children, opens, closes, exits, closing>>

Sessions == DOMAIN children
Record == [session : Nat, epoch : Nat, mounted : BOOLEAN]
Fates == {"asked", "failed", "live", "killed", "gone"}
Open == [tab : Nat, pane : Nat, epoch : Nat, session : Nat]

TabType(tab) ==
  /\ tab.id \in Nat /\ tab.focus \in Panes(tab)
  /\ tab.sess \in [Panes(tab) -> Nat] /\ Panes(tab) \subseteq Nat

StateType(s) ==
  /\ \A i \in DOMAIN s.tabs : TabType(s.tabs[i])
  /\ s.active \in TabIds(s) \cup {0} /\ (s.active = 0 <=> s.tabs = <<>>)
  /\ s.nextTab \in Nat /\ s.nextPane \in Nat

\* Every variable has its type: the focus is a pane of its tab, the active tab
\* is one of the tabs, messages name sessions that were asked for.
TypeOK ==
  /\ StateType(ui) /\ StateType(ref)
  /\ DOMAIN runtimes \subseteq Nat /\ Range(runtimes) \subseteq Record
  /\ reserved \in [tab : Nat, pane : Nat]
  /\ booted \in BOOLEAN /\ closing \in BOOLEAN
  /\ children \in Seq(Fates)
  /\ opens \subseteq Open /\ \A o \in opens : o.session \in Sessions
  /\ closes \subseteq Sessions /\ exits \subseteq Sessions

Init ==
  /\ ui = InitialTabs /\ ref = InitialTabs
  /\ runtimes = <<>>
  /\ reserved = [tab |-> 1, pane |-> 1]
  /\ booted = FALSE /\ closing = FALSE
  /\ children = <<>> /\ opens = {} /\ closes = {} /\ exits = {}

-----------------------------------------------------------------------------
(* The runtime records.                                                    *)

Mounted(p) == p \in DOMAIN runtimes /\ runtimes[p].mounted
Committed == ref = ui /\ \A p \in AllPanes(ui) : Mounted(p)

\* Unless "commit" is among the races, React commits before the next handler runs.
Handles == ~closing /\ ("commit" \in RACES \/ Committed)
HandlesGesture == booted /\ Handles

Unmounted == [session |-> 0, epoch |-> 0, mounted |-> FALSE]

RecordOf(p) == IF p \in DOMAIN runtimes THEN runtimes[p] ELSE Unmounted

\* seedPaneField: create the record of a pane that has not rendered yet.
Seeded(panes) == [p \in DOMAIN runtimes \cup panes |-> RecordOf(p)]

\* The records that panes leave, and the sessions they were attached to.
Dropped(panes) == Restrict(runtimes, DOMAIN runtimes \ panes)
AttachedIn(panes) == {runtimes[p].session : p \in panes \cap DOMAIN runtimes} \ {0}

\* disposePaneResources
Dispose(panes, alreadyExited) ==
  /\ runtimes' = Dropped(panes)
  /\ closes' = IF alreadyExited THEN closes ELSE closes \cup AttachedIn(panes)

-----------------------------------------------------------------------------
(* Creating tabs and panes.                                                *)

ReserveTabs(n) == [tab |-> reserved.tab + n, pane |-> reserved.pane + n]
ReservePane == [reserved EXCEPT !.pane = @ + 1]

\* n tabs in one synchronous block; of several delivered, the first is activated.
CreateTabs(n) ==
  /\ reserved.pane + n - 1 <= MAX_PANES
  /\ reserved' = ReserveTabs(n)
  /\ runtimes' = Seeded(reserved.pane .. reserved.pane + n - 1)
  /\ ui' = IF n = 1 THEN OpenTab(ui) ELSE ActivateTab(OpenTab(OpenTab(ui)), reserved.tab)
  /\ UNCHANGED <<ref, children, opens, closes, exits, closing>>

\* One default tab, or the folders a service launch delivered.
Boot ==
  /\ ~booted /\ booted' = TRUE
  /\ \E n \in {1, 2} : CreateTabs(n)

NewTab == HandlesGesture /\ CreateTabs(1) /\ UNCHANGED booted

DeliverServicePaths == HandlesGesture /\ CreateTabs(2) /\ UNCHANGED booted

\* A split that does not fit does nothing.
RequestSplit ==
  /\ HandlesGesture /\ ref.active # 0
  /\ reserved.pane <= MAX_PANES
  /\ reserved' = ReservePane
  /\ runtimes' = Seeded({reserved.pane})
  /\ ui' = SplitPane(ui, ref.active)
  /\ UNCHANGED <<ref, booted, children, opens, closes, exits, closing>>

-----------------------------------------------------------------------------
(* React renders the dispatched state, mounts the panes that have no       *)
(* mounted record (each asks for a session) and advances stateRef.         *)

Fresh == {p \in AllPanes(ui) : ~Mounted(p)}
TabOfPane(p) == CHOOSE t \in TabIds(ui) : HasPane(ui, t, p)
Mounting(p) == [session |-> RecordOf(p).session, epoch |-> RecordOf(p).epoch + 1, mounted |-> TRUE]
Asking(p, s) == [tab |-> TabOfPane(p), pane |-> p, epoch |-> Mounting(p).epoch, session |-> s]

Commit ==
  LET list == SetToSeq(Fresh)
  IN /\ ~closing /\ ~Committed
     /\ Len(children) + Len(list) <= MAX_SESSIONS
     /\ ref' = ui
     /\ runtimes' = [p \in DOMAIN runtimes \cup Fresh |-> IF p \in Fresh THEN Mounting(p) ELSE runtimes[p]]
     /\ children' = children \o [i \in DOMAIN list |-> "asked"]
     /\ opens' = opens \cup {Asking(list[i], Len(children) + i) : i \in DOMAIN list}
     /\ UNCHANGED <<ui, reserved, booted, closes, exits, closing>>

-----------------------------------------------------------------------------
(* The backend's sessions.                                                 *)

\* open_pty spawns the shell and registers the session, or fails.
Spawn(s) ==
  /\ children[s] = "asked"
  /\ \E fate \in {"live", "failed"} : children' = [children EXCEPT ![s] = fate]
  /\ UNCHANGED <<ui, ref, runtimes, reserved, booted, opens, closes, exits, closing>>

\* (mutation) the end is not announced
EndsSilently(s) ==
  /\ children[s] \in {"live", "killed"}
  /\ children' = [children EXCEPT ![s] = "gone"]
  /\ UNCHANGED <<ui, ref, runtimes, reserved, booted, opens, closes, exits, closing>>

\* A session's stream ends: it is reaped and pty:exited tells the frontend.
StreamEnds(s) ==
  /\ children[s] \in {"live", "killed"}
  /\ "attach" \in RACES \/ \A o \in opens : o.session # s
  /\ children' = [children EXCEPT ![s] = "gone"]
  /\ exits' = exits \cup {s}
  /\ UNCHANGED <<ui, ref, runtimes, reserved, booted, opens, closes, closing>>

\* close_pty kills the child; of a session already reaped it is Ok and does nothing.
ClosePty(s) ==
  /\ s \in closes /\ closes' = closes \ {s}
  /\ children' = IF children[s] = "live" THEN [children EXCEPT ![s] = "killed"] ELSE children
  /\ UNCHANGED <<ui, ref, runtimes, reserved, booted, opens, exits, closing>>

-----------------------------------------------------------------------------
(* The replies to open_pty.                                                *)

PaneAlive(o) == HasPane(ref, o.tab, o.pane)
EpochCurrent(o) == o.pane \in DOMAIN runtimes /\ runtimes[o.pane].epoch = o.epoch

\* (mutation) the session is dispatched but not recorded
AttachScreenOnly(o) ==
  /\ PaneAlive(o) /\ EpochCurrent(o)
  /\ ui' = AttachSession(ui, o.tab, o.pane, o.session)
  /\ UNCHANGED <<runtimes, closes>>

Attach(o) ==
  /\ PaneAlive(o) /\ EpochCurrent(o)
  /\ runtimes' = [runtimes EXCEPT ![o.pane].session = o.session]
  /\ ui' = AttachSession(ui, o.tab, o.pane, o.session)
  /\ UNCHANGED closes

\* (mutation) no orphan guard
ForgetOrphan(o) ==
  /\ ~(PaneAlive(o) /\ EpochCurrent(o))
  /\ UNCHANGED <<ui, runtimes, closes>>

\* The orphan guard: the pane closed while open_pty was in flight, or mounted again.
DisposeOrphan(o) ==
  /\ ~(PaneAlive(o) /\ EpochCurrent(o))
  /\ closes' = closes \cup {o.session}
  /\ UNCHANGED <<ui, runtimes>>

Reply(o) ==
  /\ Handles /\ o \in opens /\ children[o.session] # "asked"
  /\ opens' = opens \ {o}
  /\ \/ children[o.session] # "failed" /\ (Attach(o) \/ DisposeOrphan(o))
     \/ children[o.session] = "failed" /\ UNCHANGED <<ui, runtimes, closes>>
  /\ UNCHANGED <<ref, reserved, booted, children, exits, closing>>

-----------------------------------------------------------------------------
(* Closing panes and tabs.                                                 *)

\* closeTabInternal: the last tab closes the window instead.
CloseTabInternal(t, alreadyExited) ==
  \/ /\ Len(ref.tabs) <= 1
     /\ closing' = TRUE
     /\ UNCHANGED <<ui, runtimes, closes>>
  \/ /\ Len(ref.tabs) > 1
     /\ ui' = CloseTab(ui, t)
     /\ Dispose(Panes(TabOf(ref, t)), alreadyExited)
     /\ UNCHANGED closing

\* (mutation) a closed pane takes its siblings' records along
DisposeWholeTab(t, p, alreadyExited) ==
  IF Panes(TabOf(ref, t)) # {p}
  THEN /\ ui' \in ClosePane(ui, t, p)
       /\ Dispose(Panes(TabOf(ref, t)), alreadyExited)
       /\ UNCHANGED closing
  ELSE CloseTabInternal(t, alreadyExited)

\* closePaneInternal: a tab's last pane closes the tab.
ClosePaneInternal(t, p, alreadyExited) ==
  IF Panes(TabOf(ref, t)) # {p}
  THEN /\ ui' \in ClosePane(ui, t, p)
       /\ Dispose({p}, alreadyExited)
       /\ UNCHANGED closing
  ELSE CloseTabInternal(t, alreadyExited)

\* (mutation) only a pane of the active tab
ExitOfActiveTab(s) ==
  /\ Handles /\ s \in exits /\ exits' = exits \ {s}
  /\ IF \A hit \in PaneBySessionId(ref, s) : hit[1] # ref.active
     THEN UNCHANGED <<ui, runtimes, closes, closing>>
     ELSE \E hit \in PaneBySessionId(ref, s) : ClosePaneInternal(hit[1], hit[2], TRUE)
  /\ UNCHANGED <<ref, reserved, booted, children, opens>>

\* pty:exited closes the pane the session is bound to, if there is one.
ExitEvent(s) ==
  /\ Handles /\ s \in exits /\ exits' = exits \ {s}
  /\ IF PaneBySessionId(ref, s) = {}
     THEN UNCHANGED <<ui, runtimes, closes, closing>>
     ELSE \E hit \in PaneBySessionId(ref, s) : ClosePaneInternal(hit[1], hit[2], TRUE)
  /\ UNCHANGED <<ref, reserved, booted, children, opens>>

\* The user or the control socket closes a pane or a tab; a confirmed dialog
\* looks its target up again, so it is a close at the time of the answer.
ClosePaneGesture(t, p) ==
  /\ HandlesGesture /\ HasPane(ref, t, p)
  /\ ClosePaneInternal(t, p, FALSE)
  /\ UNCHANGED <<ref, reserved, booted, children, opens, exits>>

CloseTabGesture(t) ==
  /\ HandlesGesture /\ t \in TabIds(ref)
  /\ CloseTabInternal(t, FALSE)
  /\ UNCHANGED <<ref, reserved, booted, children, opens, exits>>

\* Selecting, cycling and moving: what changes the active tab, the focus or the order.
Arrange ==
  /\ HandlesGesture
  /\ \/ \E t \in TabIds(ref) : ui' = ActivateTab(ui, t)
     \/ \E t \in TabIds(ref), p \in AllPanes(ref) : HasPane(ref, t, p) /\ ui' = FocusPane(ui, t, p)
     \/ \E i \in DOMAIN ui.tabs, j \in DOMAIN ui.tabs : ui' = MoveTab(ui, i, j)
  /\ ui' # ui
  /\ UNCHANGED <<ref, runtimes, reserved, booted, children, opens, closes, exits, closing>>

-----------------------------------------------------------------------------
Backend == \E s \in Sessions : Spawn(s) \/ StreamEnds(s) \/ ClosePty(s)
Close == \/ \E t \in TabIds(ref), p \in AllPanes(ref) : ClosePaneGesture(t, p)
         \/ \E t \in TabIds(ref) : CloseTabGesture(t)

Next ==
  \/ Boot \/ NewTab \/ DeliverServicePaths \/ RequestSplit
  \/ Commit
  \/ Backend
  \/ \E o \in opens : Reply(o)
  \/ \E s \in Sessions : ExitEvent(s)
  \/ Close
  \/ Arrange

Spec == Init /\ [][Next]_vars

\* React renders, the backend answers, and the event loop is a queue: a reply or
\* an exit event is handled although other dispatches come between.  Nothing
\* makes a user act or a shell exit.  (A session is opened, closed and announced
\* once, so no session starves another.)
FairSpec ==
  /\ Spec
  /\ WF_vars(Commit)
  /\ WF_vars(\E s \in Sessions : Spawn(s) \/ ClosePty(s))
  /\ SF_vars(\E o \in opens : Reply(o))
  /\ SF_vars(\E s \in Sessions : ExitEvent(s))

-----------------------------------------------------------------------------
(* Properties.                                                             *)

Live(s) == s \in Sessions /\ children[s] = "live"
Attached(s) == \E p \in DOMAIN runtimes : runtimes[p].session = s
Opening(s) == \E o \in opens : o.session = s

\* A shell that runs belongs to a pane, or its open is still in flight, or its close is
\* on the way: no interleaving of opening and closing leaks one that nothing in the window
\* can reach (the orphan guard of usePaneCallbacks.ts).  And one whose close is on its way,
\* or done, is no pane's any more, nor does one belong to two: nobody types into a shell
\* that another gesture killed.
NoOrphanSession == \A s \in Sessions : Live(s) => Attached(s) \/ Opening(s) \/ s \in closes \/ closing
ClosedNeverAttached ==
  /\ \A s \in Sessions : s \in closes \/ children[s] = "killed" => ~Attached(s)
  /\ \A p, q \in DOMAIN runtimes : runtimes[p].session = runtimes[q].session => p = q \/ runtimes[p].session = 0
SessionsOwned == NoOrphanSession /\ ClosedNeverAttached

\* What the window keeps beside the reducer agrees with it: the ids reserved are the ids
\* it gives next (idReservation.ts), and there is one record for every pane and for no
\* other, bound to the session the pane shows.
ReservationMirrors == reserved = [tab |-> ui.nextTab, pane |-> ui.nextPane]
RecordsMatchPanes ==
  /\ ReservationMirrors
  /\ Committed =>
    /\ DOMAIN runtimes = AllPanes(ui)
    /\ \A i \in DOMAIN ui.tabs : \A p \in Panes(ui.tabs[i]) : ui.tabs[i].sess[p] = runtimes[p].session

\* A pane whose shell has ended has its exit event on the way, so it will close.
DeadPaneNotified == \A s \in Sessions : children[s] = "gone" /\ Attached(s) => s \in exits \/ closing

\* Once booted the window has a tab to show until its close is asked for.
WindowHasTab == booted /\ ~closing => ui.tabs # <<>>

\* No step throws away what nobody closed: a record that loses its session belongs to a
\* pane that leaves the screen in the same step, and the window closes with its last tab.
SessionsStay ==
  \A p \in DOMAIN runtimes : runtimes[p].session # 0
    => \/ p \in DOMAIN runtimes' /\ runtimes'[p].session = runtimes[p].session
       \/ p \notin AllPanes(ui')
QuitOnlyWithLastTab == ~closing /\ closing' => Len(ui.tabs) <= 1
NothingThrownAway == [][SessionsStay /\ QuitOnlyWithLastTab]_vars

\* A pane whose shell ended closes, and a shell no pane shows is shown or killed:
\* again and again no session and no pane are left without each other, until the
\* window closes.
Stray(s) == IF Attached(s) THEN children[s] = "gone" ELSE children[s] = "live"
SessionsSettle == []<>(closing \/ \A s \in Sessions : ~Stray(s))

=============================================================================
