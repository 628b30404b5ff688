------------------------------ MODULE CloseGate ------------------------------
(***************************************************************************)
(* The close / quit gate: the Rust side decides whether a close gesture    *)
(* asks the webview or tears the application down (close_gate.rs, main.rs),*)
(* and the webview answers an ask with a dialog or a confirmation          *)
(* (useCloseGuard.ts, App.tsx).                                            *)
(*                                                                         *)
(* Menu events, window events, run events and synchronous commands are all *)
(* handled on the main thread, so each handler is one action.  What is not *)
(* atomic is the conversation: events to the webview, acknowledgements and *)
(* commands back, and the messages the handlers post to the event loop.    *)
(***************************************************************************)
EXTENDS Naturals, Sequences, SequencesExt

CONSTANTS GRACE,      \* ASK_GRACE in clock ticks
          MAX_GEN,    \* bound: no user gesture may ask beyond this generation
          MAX_ASKS,   \* bound: no user gesture may ask with more asks waiting
          EARLY,      \* the channels registered before the first gesture can come
          OUTSIDE     \* what else happens around the gate

Channels == {"tabs:action", "close:requested"}

ASSUME GraceAssumption == GRACE \in Nat \ {0}

ASSUME CloseGateAssumption ==
  /\ MAX_GEN \in Nat
  /\ MAX_ASKS \in Nat
  /\ EARLY \subseteq Channels
  /\ OUTSIDE \subseteq {"settings", "exit", "restart", "remote", "hang", "gone", "sessions"}

VARIABLES
  ask,            \* AskTracker: generation, acked, started, elapsed (saturating at GRACE)
  authorized,     \* QUIT_AUTHORIZED
  tornDown,       \* MAIN_TEARDOWN_DONE
  sessions,       \* the registry may hold a live PTY child
  windows,        \* the open windows
  process,        \* "running", "exiting" (an exit request was let through), "exited"
  events,         \* messages posted to the event loop and not handled yet
  listening,      \* channels the webview has a listener on
  reachable,      \* FALSE once an emit to the main webview fails
  asks,           \* asks on their way: emitted, acknowledged by the webview, recorded
  calls,          \* commands the webview has invoked and the backend not handled
  responsive,     \* the webview's thread is running
  pending,        \* pendingCloseRef: the confirm dialog that is up
  quitAuthorized, \* quitAuthorizedRef
  consent,        \* history: the quit was confirmed, or needed no confirmation
  answered,       \* history: the last generation the webview took an ask of in time
  lateSettings    \* history: the settings window that is open was opened after the teardown

gate == <<ask, authorized, tornDown, sessions>>
runtime == <<windows, process, events>>
link == <<listening, reachable, asks, calls>>
view == <<responsive, pending, quitAuthorized>>
history == <<consent, answered, lateSettings>>
vars == <<gate, runtime, link, view, history>>

Phases == {"sent", "acking", "acked"}
Ask == [chan : Channels, gen : Nat, phase : Phases]
Events == {"close", "closeSettings", "exit", "restart", "lastWindow"}
Calls == {"quit_confirmed", "webview_close_request"}

GateTypes ==
  /\ ask \in [generation : Nat, acked : BOOLEAN, started : BOOLEAN, elapsed : 0..GRACE]
  /\ authorized \in BOOLEAN /\ tornDown \in BOOLEAN /\ sessions \in BOOLEAN

RuntimeTypes ==
  /\ windows \subseteq {"main", "settings"}
  /\ process \in {"running", "exiting", "exited"}
  /\ events \subseteq Events

LinkTypes ==
  /\ listening \subseteq Channels
  /\ reachable \in BOOLEAN
  /\ asks \in Seq(Ask)
  /\ calls \subseteq Calls

ViewTypes ==
  /\ responsive \in BOOLEAN
  /\ pending \in {"none", "quit", "tab"}
  /\ quitAuthorized \in BOOLEAN
  /\ consent \in BOOLEAN /\ answered \in Nat /\ lateSettings \in BOOLEAN

TypeOK == GateTypes /\ RuntimeTypes /\ LinkTypes /\ ViewTypes

Init ==
  /\ ask = [generation |-> 0, acked |-> FALSE, started |-> FALSE, elapsed |-> 0]
  /\ authorized = FALSE /\ tornDown = FALSE /\ sessions = TRUE
  /\ windows = {"main"} /\ process = "running" /\ events = {}
  /\ listening = EARLY /\ reachable = TRUE /\ asks = <<>> /\ calls = {}
  /\ responsive = TRUE /\ pending = "none" /\ quitAuthorized = FALSE
  /\ consent = FALSE /\ answered = 0 /\ lateSettings = FALSE

-----------------------------------------------------------------------------
(* The gate.                                                               *)

\* (mutations) the fallback inside the grace; no fallback
TerminalAtOnce(isPtyOwner, quitAuth) == isPtyOwner /\ (quitAuth \/ (ask.started /\ ~ask.acked))
NoFallback(isPtyOwner, quitAuth) == isPtyOwner /\ quitAuth

\* Rules 2 and 5: the quit is authorized, or the streak stands unacked past the grace.
Terminal(isPtyOwner, quitAuth) ==
  /\ isPtyOwner
  /\ \/ quitAuth
     \/ ask.started /\ ~ask.acked /\ ask.elapsed >= GRACE

\* Rules 3 and 4: no ask yet, or the last one was answered.
FreshStreak(isPtyOwner, quitAuth) ==
  isPtyOwner /\ ~quitAuth /\ (ask.started => ask.acked)

\* Rule 6: unacked inside the grace; the deadline stays.
SameStreak(isPtyOwner, quitAuth) ==
  isPtyOwner /\ ~quitAuth /\ ask.started /\ ~ask.acked /\ ask.elapsed < GRACE

Asks(isPtyOwner, quitAuth) ==
  FreshStreak(isPtyOwner, quitAuth) \/ SameStreak(isPtyOwner, quitAuth)

\* What a decided ask leaves in the tracker.
Restarted(isPtyOwner, quitAuth) ==
  IF FreshStreak(isPtyOwner, quitAuth)
  THEN [generation |-> ask.generation + 1, acked |-> FALSE, started |-> TRUE, elapsed |-> 0]
  ELSE ask

\* An emit to a webview with no listener on the channel succeeds and is lost.
Delivered(chan, gen) ==
  IF chan \in listening
  THEN Append(asks, [chan |-> chan, gen |-> gen, phase |-> "sent"])
  ELSE asks

\* Only an emit to an existing webview can fail.
EmitFails == "main" \in windows /\ ~reachable

\* Decide and update the tracker, then emit; "Vetoed" only when the emit succeeded.
AskAndApply(chan, isPtyOwner, quitAuth, outcome) ==
  \/ /\ ~isPtyOwner
     /\ outcome = "Ignore"
     /\ UNCHANGED <<ask, asks>>
  \/ /\ Terminal(isPtyOwner, quitAuth)
     /\ outcome = "TeardownAndProceed"
     /\ UNCHANGED <<ask, asks>>
  \/ /\ Asks(isPtyOwner, quitAuth)
     /\ ask' = Restarted(isPtyOwner, quitAuth)
     /\ IF EmitFails
        THEN outcome = "TeardownAndProceed" /\ UNCHANGED asks
        ELSE outcome = "Vetoed" /\ asks' = Delivered(chan, ask'.generation)

\* kill_all, stop the control socket, close the settings window: the first time only.
TeardownOnce ==
  /\ tornDown' = TRUE
  /\ sessions' = (sessions /\ tornDown)

\* (mutation) the settings window is left open
LeaveSettings == {}

TeardownPosts == IF ~tornDown /\ "settings" \in windows THEN {"closeSettings"} ELSE {}

NoTeardown == UNCHANGED <<tornDown, sessions>>

\* Bounds: the user starts no further ask at MAX_GEN or with MAX_ASKS waiting; a gesture
\* that would not ask is never held back.
MayAskMore == ask.generation < MAX_GEN /\ Len(asks) < MAX_ASKS
GestureBound == Asks(TRUE, authorized) => MayAskMore

-----------------------------------------------------------------------------
(* The main thread: menu, window and run events.                           *)

Alive == process = "running"

\* A close that is let through; the runtime reports the last window gone.
RemoveWindow(w, posts) ==
  /\ windows' = windows \ {w}
  /\ events' = posts \cup (IF windows = {w} THEN {"lastWindow"} ELSE {})

\* Cmd-Q or Shift-Cmd-W.  A terminal outcome authorizes, tears down and asks for an exit.
MenuClose ==
  /\ Alive /\ GestureBound
  /\ \E outcome \in {"Vetoed", "TeardownAndProceed"} :
       /\ AskAndApply("tabs:action", TRUE, authorized, outcome)
       /\ IF outcome = "TeardownAndProceed"
          THEN /\ authorized' = TRUE
               /\ TeardownOnce
               /\ events' = events \cup {"exit"} \cup TeardownPosts
          ELSE NoTeardown /\ UNCHANGED <<authorized, events>>
  /\ UNCHANGED <<windows, process, listening, reachable, calls, view, history>>

\* The CloseRequested handler of the main window.
CloseRequested(queue) ==
  \E outcome \in {"Vetoed", "TeardownAndProceed"} :
    /\ AskAndApply("close:requested", TRUE, authorized, outcome)
    /\ IF outcome = "TeardownAndProceed"
       THEN TeardownOnce /\ RemoveWindow("main", queue \cup TeardownPosts)
       ELSE NoTeardown /\ events' = queue /\ UNCHANGED windows
    /\ UNCHANGED <<authorized, process, listening, reachable, calls, view, history>>

\* The red button.
NativeClose ==
  Alive /\ "main" \in windows /\ GestureBound /\ CloseRequested(events)

\* The close posted by quit_confirmed or by a failed webview_close_request.
PostedClose ==
  /\ Alive /\ "close" \in events
  /\ IF "main" \in windows
     THEN CloseRequested(events \ {"close"})
     ELSE events' = events \ {"close"} /\ UNCHANGED <<gate, windows, process, link, view, history>>

\* The settings window is not the PTY owner: rule 1, its close goes through.
SettingsClose(posted) ==
  /\ Alive /\ "settings" \in windows
  /\ posted => "closeSettings" \in events
  /\ RemoveWindow("settings", events \ {"closeSettings"})
  /\ lateSettings' = FALSE
  /\ UNCHANGED <<gate, process, link, view, consent, answered>>

\* Menu or palette: the settings window opens, or comes to the front, teardown or not.
OpenSettings ==
  /\ Alive /\ "settings" \in OUTSIDE
  /\ windows' = windows \cup {"settings"}
  /\ lateSettings' = (lateSettings \/ (tornDown /\ "settings" \notin windows))
  /\ UNCHANGED <<gate, process, events, link, view, consent, answered>>

\* A restart is not gated; with no window left there is nobody to ask.
ExitGateInput(code) == code = "exit" /\ "main" \in windows

\* (mutation) every exit request reaps and proceeds
ExitReaps(code) ==
  /\ Alive /\ code \in events
  /\ TeardownOnce
  /\ events' = (events \ {code}) \cup TeardownPosts
  /\ process' = "exiting"
  /\ UNCHANGED <<ask, authorized, windows, link, view, history>>

\* RunEvent::ExitRequested: a restart reaps and proceeds, any other code goes to the gate.
ExitRequested(code) ==
  /\ Alive /\ code \in events
  /\ \E outcome \in {"Ignore", "Vetoed", "TeardownAndProceed"} :
       /\ IF code = "restart"
          THEN outcome = "TeardownAndProceed" /\ UNCHANGED <<ask, asks>>
          ELSE AskAndApply("close:requested", ExitGateInput(code), authorized, outcome)
       /\ IF outcome = "TeardownAndProceed"
          THEN TeardownOnce /\ events' = (events \ {code}) \cup TeardownPosts
          ELSE NoTeardown /\ events' = events \ {code}
       /\ process' = IF outcome = "Vetoed" THEN process ELSE "exiting"
  /\ UNCHANGED <<authorized, windows, listening, reachable, calls, view, history>>

\* RunEvent::Exit: the last-resort teardown.
RunExit ==
  /\ process = "exiting"
  /\ TeardownOnce
  /\ process' = "exited"
  /\ UNCHANGED <<ask, authorized, windows, events, link, view, history>>

\* An updater restart, or a programmatic exit.
RequestExit(code) ==
  /\ Alive /\ code \in OUTSIDE
  /\ code = "exit" => MayAskMore
  /\ events' = events \cup {code}
  /\ UNCHANGED <<gate, windows, process, link, view, history>>

\* (mutation) the age grows past what the tracker compares
TickOn ==
  /\ Alive /\ ask.started /\ ~ask.acked
  /\ ask' = [ask EXCEPT !.elapsed = @ + 1]
  /\ UNCHANGED <<authorized, tornDown, sessions, runtime, link, view, history>>

\* The clock: an unanswered streak ages (the age of an answered one is never read).
Tick ==
  /\ Alive /\ ask.started /\ ~ask.acked /\ ask.elapsed < GRACE
  /\ ask' = [ask EXCEPT !.elapsed = @ + 1]
  /\ UNCHANGED <<authorized, tornDown, sessions, runtime, link, view, history>>

-----------------------------------------------------------------------------
(* Commands of the main webview.                                           *)

Invoked(cmd) == Alive /\ "main" \in windows /\ cmd \in calls

QuitConfirmed ==
  /\ Invoked("quit_confirmed")
  /\ authorized' = TRUE
  /\ events' = events \cup {"close"}
  /\ calls' = calls \ {"quit_confirmed"}
  /\ UNCHANGED <<ask, tornDown, sessions, windows, process, listening, reachable, asks, view, history>>

\* The webview asks to close; when it cannot be asked back: authorize, tear down, close.
WebviewCloseRequest ==
  /\ Invoked("webview_close_request")
  /\ calls' = calls \ {"webview_close_request"}
  /\ \E outcome \in {"Vetoed", "TeardownAndProceed"} :
       /\ AskAndApply("close:requested", TRUE, FALSE, outcome)
       /\ IF outcome = "TeardownAndProceed"
          THEN /\ authorized' = TRUE
               /\ TeardownOnce
               /\ events' = events \cup {"close"} \cup TeardownPosts
          ELSE NoTeardown /\ UNCHANGED <<authorized, events>>
  /\ UNCHANGED <<windows, process, listening, reachable, view, history>>

\* (mutation) any ack counts
AnyAck(gen) == ask.started

\* The ack of one ask: recorded only when it answers the current streak.
Acknowledges(gen) == gen = ask.generation /\ ask.started

CloseAcknowledged(i) ==
  /\ Alive /\ "main" \in windows
  /\ asks[i].phase = "acking"
  /\ asks' = [asks EXCEPT ![i].phase = "acked"]
  /\ ask' = [ask EXCEPT !.acked = @ \/ Acknowledges(asks[i].gen)]
  /\ UNCHANGED <<authorized, tornDown, sessions, runtime, listening, reachable, calls, view, history>>

\* A session opened by the webview (a new tab, a split, the boot's first tab): no guard of the
\* gate reads `sessions', so a run without "sessions" loses no behaviour of the rest.
OpenPty ==
  /\ Alive /\ "main" \in windows /\ "sessions" \in OUTSIDE
  /\ sessions' = TRUE
  /\ UNCHANGED <<ask, authorized, tornDown, runtime, link, view, history>>

-----------------------------------------------------------------------------
(* The webview.                                                            *)

WebviewRuns == Alive /\ "main" \in windows /\ responsive

\* The listener's registration completes.
Register(chan) ==
  /\ WebviewRuns /\ chan \notin listening
  /\ listening' = listening \cup {chan}
  /\ UNCHANGED <<gate, runtime, reachable, asks, calls, view, history>>

Newest(gen) == IF gen = ask.generation THEN gen ELSE answered

\* (mutation) an ask that finds a dialog up is dropped without an ack
TakeUnlessDialog(i) ==
  /\ WebviewRuns
  /\ asks[i].phase = "sent" /\ \A j \in 1..(i - 1) : asks[j].phase # "sent"
  /\ IF pending = "none"
     THEN asks' = [asks EXCEPT ![i].phase = "acking"] /\ answered' = Newest(asks[i].gen)
     ELSE asks' = RemoveAt(asks, i) /\ UNCHANGED answered
  /\ UNCHANGED <<gate, runtime, listening, reachable, calls, view,
                 consent, lateSettings>>

\* A listener takes the oldest ask and first invokes close_acknowledged, dialog or not.
TakeAsk(i) ==
  /\ WebviewRuns
  /\ asks[i].phase = "sent" /\ \A j \in 1..(i - 1) : asks[j].phase # "sent"
  /\ asks' = [asks EXCEPT ![i].phase = "acking"]
  /\ answered' = Newest(asks[i].gen)
  /\ UNCHANGED <<gate, runtime, listening, reachable, calls, view,
                 consent, lateSettings>>

\* The quit needs no more questions: quit_confirmed or webview_close_request is invoked.
Agree(cmd) == calls' = calls \cup {cmd} /\ consent' = TRUE

\* (mutation) the menu's ask is acknowledged and forgotten
ForgetMenu == UNCHANGED <<calls, pending, consent>>

\* The continuation of a menu ask: dispatch window.close, unless a dialog is up.
ContinueMenu ==
  /\ calls' = IF pending # "none" THEN calls ELSE calls \cup {"webview_close_request"}
  /\ UNCHANGED <<pending, consent>>

\* (mutation) the dialog check is not repeated after the ack
AskAgain ==
  \/ quitAuthorized /\ Agree("quit_confirmed") /\ UNCHANGED pending
  \/ ~quitAuthorized /\ pending' = "quit" /\ UNCHANGED <<calls, consent>>
  \/ ~quitAuthorized /\ Agree("quit_confirmed") /\ UNCHANGED pending

\* The continuation of close:requested: confirm, ignore, or ask the user.  Whether
\* shouldConfirmClose wants a dialog depends on the setting and the busy panes: either.
ContinueClose ==
  \/ quitAuthorized /\ Agree("quit_confirmed") /\ UNCHANGED pending
  \/ ~quitAuthorized /\ pending # "none" /\ UNCHANGED <<calls, pending, consent>>
  \/ ~quitAuthorized /\ pending = "none" /\ pending' = "quit" /\ UNCHANGED <<calls, consent>>
  \/ ~quitAuthorized /\ pending = "none" /\ Agree("quit_confirmed") /\ UNCHANGED pending

\* The ack's promise resolved: what follows reads the state of now.
Continue(i) ==
  /\ WebviewRuns
  /\ asks[i].phase = "acked"
  /\ asks' = RemoveAt(asks, i)
  /\ IF asks[i].chan = "tabs:action" THEN ContinueMenu ELSE ContinueClose
  /\ UNCHANGED <<gate, runtime, listening, reachable, responsive, quitAuthorized, answered, lateSettings>>

\* confirmPendingClose on the quit dialog.
ConfirmQuit ==
  /\ WebviewRuns /\ pending = "quit"
  /\ pending' = "none"
  /\ quitAuthorized' = TRUE
  /\ Agree("quit_confirmed")
  /\ UNCHANGED <<gate, runtime, listening, reachable, asks, responsive, answered, lateSettings>>

\* closeTabInternal past the confirm gate: the last tab closes the window.
LastTabCloses ==
  quitAuthorized' = TRUE /\ Agree("webview_close_request")

\* confirmPendingClose on a pane's or tab's dialog: its target may be the last one.
ConfirmTab ==
  /\ WebviewRuns /\ pending = "tab"
  /\ pending' = "none"
  /\ LastTabCloses \/ UNCHANGED <<quitAuthorized, calls, consent>>
  /\ UNCHANGED <<gate, runtime, listening, reachable, asks, responsive, answered, lateSettings>>

CancelDialog ==
  /\ WebviewRuns /\ pending # "none"
  /\ pending' = "none"
  /\ UNCHANGED <<gate, runtime, link, responsive, quitAuthorized, history>>

\* The user closes a pane or tab: a dialog, or the last tab goes at once.
CloseTab ==
  /\ WebviewRuns /\ pending = "none" /\ MayAskMore
  /\ \/ pending' = "tab" /\ UNCHANGED <<quitAuthorized, calls, consent>>
     \/ LastTabCloses /\ UNCHANGED pending
  /\ UNCHANGED <<gate, runtime, listening, reachable, asks, responsive, answered, lateSettings>>

\* The session of the last tab's last pane exits by itself: never gated.
LastSessionExits ==
  /\ WebviewRuns /\ MayAskMore
  /\ LastTabCloses
  /\ UNCHANGED <<gate, runtime, listening, reachable, asks, responsive, pending, answered, lateSettings>>

\* window.close from the control channel confirms the quit directly.
RemoteClose ==
  /\ WebviewRuns /\ "remote" \in OUTSIDE
  /\ Agree("quit_confirmed")
  /\ UNCHANGED <<gate, runtime, listening, reachable, asks, view, answered, lateSettings>>

\* The webview's thread hangs and recovers.
HangOrRecover ==
  /\ Alive /\ reachable /\ "hang" \in OUTSIDE
  /\ responsive' = ~responsive
  /\ UNCHANGED <<gate, runtime, link, pending, quitAuthorized, history>>

\* The webview process is gone: nothing runs in it again and emits fail.
WebviewGone ==
  /\ Alive /\ reachable /\ "gone" \in OUTSIDE
  /\ reachable' = FALSE /\ responsive' = FALSE /\ listening' = {}
  /\ UNCHANGED <<gate, runtime, asks, calls, pending, quitAuthorized, history>>

-----------------------------------------------------------------------------
UserCloses == MenuClose \/ NativeClose

MainThread ==
  \/ PostedClose \/ SettingsClose(TRUE) \/ RunExit
  \/ \E code \in {"exit", "restart", "lastWindow"} : ExitRequested(code)
  \/ QuitConfirmed \/ WebviewCloseRequest
  \/ \E i \in DOMAIN asks : CloseAcknowledged(i)

Webview ==
  \/ \E chan \in Channels : Register(chan)
  \/ \E i \in DOMAIN asks : TakeAsk(i) \/ Continue(i)

User ==
  \/ ConfirmQuit \/ ConfirmTab
  \/ CancelDialog \/ CloseTab \/ LastSessionExits \/ RemoteClose
  \/ SettingsClose(FALSE) \/ OpenSettings \/ OpenPty
  \/ \E code \in {"exit", "restart"} : RequestExit(code)
  \/ HangOrRecover \/ WebviewGone

Next == UserCloses \/ MainThread \/ Webview \/ User \/ Tick

Spec == Init /\ [][Next]_vars

\* Fairness: the event loop handles what is posted to it and the clock advances; a
\* webview that keeps running handles its messages.
FairSpec ==
  /\ Spec
  /\ WF_vars(PostedClose) /\ WF_vars(SettingsClose(TRUE)) /\ WF_vars(RunExit)
  /\ \A code \in {"exit", "restart", "lastWindow"} : WF_vars(ExitRequested(code))
  /\ WF_vars(QuitConfirmed) /\ WF_vars(WebviewCloseRequest)
  /\ WF_vars(\E i \in DOMAIN asks : CloseAcknowledged(i))
  /\ WF_vars(Webview) /\ WF_vars(Tick)

-----------------------------------------------------------------------------
(* Properties.                                                             *)

TearsDown == ~tornDown /\ tornDown'

\* The streak stands past the grace with no ack.
Unanswered == ask.started /\ ~ask.acked /\ ask.elapsed >= GRACE

(* The tracker calls a streak acknowledged only when the webview took an   *)
(* ask of that very streak: an ack of an earlier streak, late or repeated, *)
(* never makes a hung webview look alive (AskTracker::acknowledge).        *)
AckedMeansAlive == ask.acked => ask.generation = answered

(* The sessions are torn down only after the quit was confirmed (or needed *)
(* no confirmation), on an updater restart, or when the webview left the   *)
(* streak unanswered past the grace or cannot be reached (close_decision,  *)
(* ask_failed), whichever origins the gestures had.                        *)
ConsentBeforeTeardown ==
  [][TearsDown => consent \/ Unanswered \/ ~reachable \/ "restart" \in events]_vars

(* The fallback fires only against a webview that owes an answer: an ask   *)
(* of the current streak was delivered and is not acknowledged.  A webview *)
(* that listens and has nothing left to answer (a dialog up included) is   *)
(* never taken for hung (rule 5 of close_decision, the ack before the      *)
(* dialog check in onCloseRequested).                                      *)
OwesAnAnswer ==
  \E i \in DOMAIN asks : asks[i].gen = ask.generation /\ asks[i].phase # "acked"

FallbackMeansUnanswered ==
  [][TearsDown =>
       \/ consent \/ OwesAnAnswer
       \/ Channels \ listening # {} \/ ~reachable \/ "restart" \in events]_vars

(* A dialog that is up is only ever closed by its own buttons: no ask,     *)
(* whose answer was awaited while the dialog came up, replaces its target  *)
(* (the pendingCloseRef checks after the ack).                             *)
DialogKept == [][pending # "none" => pending' \in {pending, "none"}]_vars

(* A teardown is followed by the end of the process, with one exception    *)
(* the code leaves open: a settings window opened after the teardown, the  *)
(* close of the main window still on its way, is closed by nobody, and the *)
(* process stays as long as the user keeps that window.  Without a window  *)
(* the process always ends (webview_close_flow's re-drive, the None of     *)
(* exit_gate_input, teardown_once closing the settings window it finds,    *)
(* on_menu_event opening one at any time).                                 *)
TeardownEnds ==
  /\ tornDown ~> process = "exited" \/ (lateSettings /\ windows = {"settings"})
  /\ windows = {} ~> process = "exited"

(* An ask delivered to a webview that keeps running is answered: a dialog  *)
(* comes up, the main window is gone or the process ends (the two          *)
(* listeners and their continuations after the ack).                       *)
AskAnswered ==
  <>[]responsive =>
    (asks # <<>> ~> pending # "none" \/ "main" \notin windows \/ process = "exited")

(* With a webview that hangs for good, a user who keeps pressing reaches a *)
(* teardown and the exit, also when the webview had acknowledged the last  *)
(* ask before it hung; except where the bounds let no new streak start     *)
(* (rules 4 to 6 of close_decision).                                       *)
HungEscape ==
  WF_vars(MenuClose) /\ WF_vars(NativeClose) /\ <>[]~responsive
    => <>(process = "exited" \/ (ask.acked /\ ~MayAskMore))

=============================================================================
