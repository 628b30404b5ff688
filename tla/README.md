# Termixion: a verification project

Termixion is a terminal emulator: a Rust back end (three crates: `termixion-core`, `termixion-platform`,
`termixion-tauri`) and a webview front end in TypeScript (`app/src`), joined by Tauri commands (webview to back end,
answered through a promise), Tauri events (back end to webview, or window to window) and one binary channel per session. This directory holds TLA+ models of
it, TLC runs on small instances, and proofs checked by TLAPS.

## The system

| component | state it keeps | operations | hard because |
| --- | --- | --- | --- |
| PTY output path (`flow.rs`, `pump.rs`, `pty_io.rs`, `ipc/useBackend.ts`) | hand-off queue, batch, credit balance, entries of `credits` and the registry | read, hand over, drain, pace, consume or probe, send, reap; `pty_ack`, `close_pty` | two threads and a webview; acks lost before the attach or after dispose; any of three ends may fail first |
| Close gate (`close_gate.rs`, `main.rs`, `useCloseGuard.ts`, `ipc/window.ts`) | ask tracker, two latches, dialog state, webview latch | decide, ask, acknowledge, confirm, tear down | an ask can be lost, answered late, or answered by a webview that then hangs; four event channels |
| Tabs, panes, sessions (`tabState.ts`, `idReservation.ts`, `paneRuntime.ts`, `usePaneOps.ts`, `usePaneCallbacks.ts`) | reducer state, its committed copy, records per pane, id counters | new tab, split, close, reorder, attach, exit | handlers decide on the committed copy; `open_pty` resolves after its pane is gone |
| Session registry (`registry.rs`, `session.rs`) | map from id to session | insert, remove, kill, kill all | used by the command threads, the sender threads and the teardown |
| Pane layout (`layoutTree.ts`, `paneNav.ts`, `dividerDrag.ts`, `dropZone.ts`, `growPane.ts`, `usePaneDrag.ts`) | a tree of splits and leaves, the focus, two drags | split, close, dock, swap, resize, navigate, rename | recursive data, pixels and fractions at their limits; keys, exits and frames in the middle of a drag |
| Pane activity (`activityLine.ts`, `usePaneActivity.ts`, `osc133.ts`) | phase, class and epoch per pane, one timer, a latch | poller report, prompt mark, output, tick, override, failure | two debounce windows and a classification by time; two detectors of the same thing |
| Terminal view (`TerminalView.tsx`, `mountTerminal.ts`, `resizeCoalescer.ts`, `scrollbar.ts`, `clipboardNotice.ts`, `copyOnSelect.ts`) | fitted grid, live options, overlay, notice, gesture machine | mount, resize, change a setting, select, tear down | frames, fonts and listeners that resolve after what they were for is gone |
| Find in terminal (`FindBar.tsx`, `findState.ts`) | query, options, count, debounce | type, toggle, next, previous, close | a debounced search against a pressed key; output moves the matches |
| Keyboard focus (`App.tsx`, `usePaneCallbacks.ts`) | who renames, badges, searches; which overlay is open | every gesture that opens or closes an input | the effect that hands the keyboard over sees state, not the focused element |
| Commands, key bindings, palette, scripts (`commands/*`, `ui/PaletteOverlay.tsx`, `ScriptPicker.tsx`) | registry, keymap, rows and selection, recent commands | rebuild, resolve, filter, move, run | reads answered out of order; keys between a render and its effect |
| Tab strip (`TabStrip.tsx`) | drag record, indicator, inline rename | press, drag, release, rename | tabs open and close under the pointer |
| Config file (`config_io.rs`, `fs_watch.rs`, `config.rs`) | the file, last self-write, unreadable latch | read, write a key, watch, remote control switch | editor and program write the same file; a watcher reports late and repeats |
| Settings store (`settingsStore.ts`) | the webview's values per key | set, load, reload, broadcast | two windows, optimistic values against echoes |
| Settings window (`TerminalSettings.tsx`, `AppearanceSettings.tsx`) | a control's value, draft and request per row | choose, type, load a font, ask for a shell's kind | two writers per row; fonts and queries resolve in any order |
| Themes (`themeHotReload.ts`, `themes_io.rs`, `theme.rs`) | themes known, theme in use | reload, reapply, fall back | the active theme may disappear or break while in use |
| Updates (`update/*`) | authority's state, mirror's copy | check, download, install, broadcast, request | the mirror joins late and commands a state that moved |
| Control channel (`socket.rs`, `control.rs`, `controlBridge.ts`) | socket and lock, worker slots, pending replies | reconcile, bind, connect, dispatch, reply, time out | several instances on one path; a late answer meets a timed-out request; slots must come back |
| Title and process poller (`poller.rs`, `foreground.rs`) | last reported values per session | tick, diff, emit, park | sessions vanish between the snapshot and the emit; only changes are reported |
| Services queue (`services_io.rs`, `serviceNudge.ts`) | paths not yet taken | enqueue, nudge, drain | delivered before the webview listens; three kinds of drain; effects replayed |
| Shell enhancements (`enhancements_io.rs`, `zdotdir.rs`) | installed files | stage, swap, remove | several file operations, any of which may fail, of programs that run at once |

**How they interact.** `open_pty` starts a session's two threads and inserts it in the registry; its reply attaches the session to a pane
(TabSessions), and from then on the frames of PtyStream are parsed by that pane's terminal. The path's `pty:exited` is what TabSessions handles as `ExitEvent`;
the pane's disposal is `close_pty`, which PtyStream handles as `ClosePty`. The last tab's close asks the window to close, where CloseGate takes over; CloseGate's
teardown is `kill_all` on the registry, which ends every PtyStream. Each model takes the others as its environment and allows them any behaviour theirs may show:
PtyStream lets the user, the child and the webview stop at any time, TabSessions lets any child end at any time, CloseGate lets sessions appear and vanish.
`PaneLayout` keeps the tree of a tab, of which `TabSessions` sees the set of leaves: every step of the one is shown to be a transition of the reducer the other uses
(`LayoutSteps`). `TitlePoller` produces the busy reports that `ActivityLine` consumes; `ConfigSync` the value that `TerminalHost`, `Catalogs` and `SettingsForm` follow, and
the switch that starts and stops the socket of `ControlSocket`, whose listener is the one whose connections `ControlChannel` serves.

**What makes each component correct.**

- PTY output path: bytes arrive once and in order; the window is neither leaked nor minted; the exit is announced after the last byte, once; no thread is left blocked.
- Close gate: no session is killed without consent unless the webview did not answer; a hung webview cannot keep the application open; a dialog is neither replaced nor lost; the process ends.
- Tabs: no shell without a pane, no pane without a record, no window without a tab, no dead shell that nobody closes, ids that agree, no shell killed that nobody closed.
- Layout: panes tile the window, a split or a drop leaves every pane large enough, the title is the focused pane's, a drag leaves nothing behind.
- Config and settings: an edit of the user is neither lost nor overwritten; the program's own write is not taken for one; all windows end with the file's values; a row shows the setting.
- Terminal view: a terminal at rest is fitted to its size and font and has the stored options; nothing scheduled for it outlives it; a selection is copied once or dropped.
- Find: the highlights are those of the query shown. Keyboard: it is where the window shows it. Palette: Enter runs the highlighted row. Keymap, picker, themes: what the files say. Strip: a gesture does what it was on.
- Control: every answer goes to the request it is for, a command runs at most once, a slot is always given back, a live socket is never removed, at most the line being read is served after the switch is off.
- Poller: it does not sleep past a session; the pane ends with the name and the busy state of its session.
- Activity: no job is hidden from the close guard, what is drawn is what holds now, a phase that waits has a timer.
- Updates: the mirror ends in the authority's state. Themes: terminals and chrome in the colours of the selected theme, the last good ones when it breaks.
- Services: every path becomes one tab, once. Enhancements: a tree with its marker is whole, and none that a shell may still read is removed while two versions are around.

## The plan and where it stands

Order: what loses user work or leaks shells first, then what two writers share, then the machines with timers and the pure algorithms.

| modules | part | state |
| --- | --- | --- |
| `ByteStream` (abstract), `PtyStream`, `PtyStreamProofs` | PTY output path | modelled, checked, proved; `PtyStream` implements `ByteStream` |
| `CloseGate`, `CloseGateProofs` | close gate | modelled, checked, proved |
| `TabState`, `TabSessions`, `TabSessionsProofs` | tabs, panes, sessions | modelled, checked, proved |
| `ConfigText`, `ConfigSync`, `ConfigSyncProofs` | configuration file, watcher, settings store | modelled, checked, proved |
| `PaneTree`, `PaneLayout` | layout of a tab; a refinement of `TabState`'s reducer | modelled, checked |
| `ActivityLine`, `TitlePoller` | who is busy, and what a pane is called | modelled, checked, proved |
| `ControlSocket`, `ControlChannel`, `ControlProofs` | control channel | modelled, checked, proved |
| `Updates`, `SettingsForm` | copies that the settings window keeps | modelled, checked, proved |
| `TerminalHost`, `CopyOnSelect`, `FindBar` | terminal view | modelled, checked, proved |
| `KeyboardFocus` | who has the keyboard | modelled, checked, proved |
| `Catalogs` | the user's keys, scripts and themes | modelled, checked, proved |
| `Palette`, `TabStrip` | command palette, tab strip | modelled, checked |
| `ServicesQueue`, `Enhancements` | Finder services; the enhancement trees of several versions | modelled, checked, proved |
| `ComponentProofs` | the poller, the services queue, the trees, the terminal, the catalogs: one invariant and one theorem each | proved |
| `WindowProofs` | the keyboard, the activity line, the updater, copy on select, the settings rows, the find bar: the same | proved |
| `MachinesProofs` | the same, and the control socket and channel, as properties of the composed run | proved |

`MCPtyStream`, `MCCloseGate`, `MCTabSessions`, `MCConfigSync` instantiate the first four for TLC; `MCMachines` the rest.

A run belongs to a question. The runs that expect a violation stay as long as the code behaves so.

What is left: the `[keys]` map and the migration inside `ConfigSync`, and a window that is closed and opened again; an abstract register with the editor and the windows as writers, and `ConfigSync` as an
implementation of it; `PaneLayout` as an implementation of the reducer in `TabState`, for every layout. Of the properties of `MCMachines` the theorems are
`OutsideServed`, `PollerTrue`, `KeyboardOwner`, `ActivityTrue`, `MirrorSettles`, `TerminalSettles` and `CatalogsSettle`, and one conjunct of `GestureOutcome`; next in line is the other, the tab strip's.
## PtyStream: the output path of one session

**Code.** `crates/termixion-core/src/pump.rs`, `crates/termixion-core/src/flow.rs`,
`open_pty` / `pty_ack` / `close_pty` in `crates/termixion-tauri/src/pty_io.rs`, and
`attachTerminal` in `app/src/ipc/useBackend.ts`.

**State.** Bytes are numbered by their position in the child's output; a chunk, a batch or a
channel frame is a piece `[lo, hi, len]`. `written`/`read`/`sent`/`parsed` are the positions reached
by the child, the pump thread, the sender thread and the terminal; `chunk`, `handoff`, `batch`
and `frames` are what each stage holds. `credits` is the balance of the `CreditCell`,
`cellLive` whether the `credits` map still has it, `acks` the `pty_ack` calls under way
(kept as their total), `lost` the bytes parsed and never acknowledged. `pumpPc` and `sendPc`
are the two threads; `rxOpen` is the receiver `run_batch_sender` re-binds after its drop guard.

**Actions.** One per blocking or observable step of each thread: the pump's read, hand-over and its three
ways to stop (end-of-file, read error, the receiver is gone); the sender's first receive, the
drain, the pacing window, the credit wait (`Consume`, or `Probe` when a park slice times out
above the floor), the send, and the reap as the three separately locked steps of `on_done`.
The environment: the child writes and exits, background jobs keep the terminal open after it,
the user closes the pane, the webview attaches, disposes the terminal or goes away.

**Abstractions.** Time is not a number: the pacing window may or may not be over, and a park slice
may time out whenever the balance is exhausted. At the floor the repeated park is no step.
Poisoned locks are not modelled (no code panics while it holds these locks).
The Tauri channel is assumed to deliver in order, and xterm's behaviour after `dispose`
(whether the parse callback still runs) is a nondeterministic choice.

**Checked.**

| run | bounds | shows |
| --- | --- | --- |
| `pty_stream` | 7 bytes, read buffer 2, queue 2, batch 2, window 2, kernel buffer 2 | `TypeOK`, `InOrder`, `CreditAccounting`, `UnackedBound`, `ExitComesLast`, and that the path implements `ByteStream` |
| `pty_stream_live` | 4 bytes, window 1, queue 1 | `BytesArrive`, `SessionEnds`, `FailureReleases` |

With these sizes a full queue, a batch that overshoots its cap, an exhausted window, a balance at
the floor, acknowledgements in flight and lost, and every end of the session all happen; six
bytes are enough for a window, an overdraw and a batch on top of it. `UnackedBound` is tight: TLC finds
states that reach it. `flow.rs` calls the floor "a hard bound on unacked bytes" at `PTY_CREDIT_BYTES + |floor|`; the test is made on the balance
before the deduction, so the last probe may add a batch (but for one byte) to that, and a run of probes overdraws several batches, not the one its other comment names.

**Fairness** (`pty_stream_live`). The two threads are scheduled by the operating system; a webview
that is up runs its event loop, so it parses what it was handed and its `invoke` calls arrive. Nothing is assumed
of the child, of the user, of the attach, or of the window staying up. A read error and
the loss of the webview are possible and never owed. `WindowUsable` is the exact condition under
which the session cannot wedge: the webview stays up and less than the window plus |floor| bytes are ever parsed
without an acknowledgement (TLC refutes the properties one byte beyond it). A session whose frames were
all parsed before `open_pty` resolved, or whose terminal was disposed, for that many bytes does stay parked for ever.

**Proved** (`PtyStreamProofs`), for every value of the constants under `SizesAssumption` and
`CreditAssumption`: `TypeCorrect`, `OrderPreserved`, `CreditConserved`, `InFlightBounded`,
`ExitIsLast` and `StreamRefinement`. The safety invariants are not inductive by themselves. The inductive
invariant `IInv` adds `Phases` (what each program counter says of the queue, the receiver, the cell,
the registry and the exit), `Sizes` (no piece is longer than the loop that built it allows), `Behind`
(every frame ends at or before `sent`: the bytes of a frame cannot be acknowledged twice) and `CreditBound` (how far the balance
may sink). `UnackedBound` then follows from credit accounting and `CreditBound`; `ExitComesLast`
from `Phases` and `InOrder`. The refinement needs one more invariant, `Ahead`: nothing on its way lies
beyond what the pump has read. Gapless chains of pieces are kept behind the operator `Chained` and three lemmas about it
(`ChainAppend`, `ChainTail`, `JoinGapless`), so that no induction over sequences is needed.
## CloseGate: the close / quit conversation

**Code.** `close_gate.rs`, the menu, window and run-event handlers of `main.rs` (all in
`crates/termixion-tauri/src`), and the webview's half: `useCloseGuard.ts`, the two subscriptions of
`App.tsx`, `ipc/window.ts`, `closeWindow` of `useCommandContext.ts` (all in `app/src`).

**State.** `ask` is `AskTracker` (the generation, whether it was acknowledged, the age of the streak
saturated at `GRACE`), `authorized` and `tornDown` are the two latches, `sessions` says that the registry may
hold a live child. `windows`, `process` and `events` are the runtime: what is open, whether an exit
request was let through, which messages the handlers posted to the event loop (`app.exit`, `window.close`, the
close of the settings window, the report of the last window gone). `asks` are the events on their
way to the webview, `sent`, then `acking` (the listener invoked `close_acknowledged`), then `acked` (the backend
recorded it, the awaited promise may resolve); `calls` the other commands on their way back. `pending` and `quitAuthorized`
are the two refs of `useCloseGuard`. `consent`, `answered` and `lateSettings` (the settings window that is open was opened after the teardown) are history variables.

**Actions.** Every gesture, event and command is one action, since all of them are handled on the main
thread: `MenuClose`, `NativeClose`, `PostedClose`, `SettingsClose`, `ExitRequested`, `RunExit`,
`QuitConfirmed`, `WebviewCloseRequest`, `CloseAcknowledged`. `AskAndApply` is `ask_and_apply`, decision,
tracker and emit together: the six rules of `close_decision` are `Terminal` (2 and 5), `FreshStreak` (3 and 4),
`SameStreak` (6) and the first disjunct (1). In the webview what follows an `await` is an action of its own:
`TakeAsk` is a listener up to its ack, `Continue` the continuation, which reads the dialog's state of
that later moment. Around them: the dialog's buttons, the closing of tabs, the last session's exit, the control
channel's close, an updater restart, a programmatic exit, a webview that hangs, recovers or is gone.

**Abstractions.** Whether `shouldConfirmClose` wants a dialog depends on a setting and on which panes are
busy: the model takes either answer, so what holds here holds for every setting. An emit to a webview without a listener
succeeds and is lost, as Tauri's `emit_to` does. A dock quit that reaches the process without a
run event is not modelled (the code says it cannot catch it).

**Checked.**

| run | bounds | shows |
| --- | --- | --- |
| `close_gate` | grace 1, 2 streaks, 1 user's ask under way, hanging webview, new sessions, every other way out | `TypeOK`, `AckedMeansAlive`, `ConsentBeforeTeardown`, `FallbackMeansUnanswered`, `DialogKept` |
| `close_gate_live` | grace 1, 2 streaks, settings window, hang, loss, the menu listener registered late | `TeardownEnds`, `AskAnswered`, `HungEscape` |
| `close_gate_boot` | no listener registered yet | an ask lost at boot later ends in a teardown without a dialog |

**A teardown that the process outlives.** `TeardownEnds` names one exception, because the code leaves it open. When its ask is terminal (it cannot be delivered, or an earlier one stands unanswered past the grace) `webview_close_request` latches the teardown
and posts the close of the main window (`close_gate.rs`); until that close is handled, `on_menu_event` still opens the settings window on Cmd-comma (`main.rs:249-253`, no guard), and `teardown_once`, whose latch is
set, closes no second one. The main window goes, the settings window stays, and with it the process, without sessions or terminal, until the user closes it or quits. The exception is exactly that state: the settings window is the only one and was opened
after the teardown. A settings window that was open before is closed by the teardown (`LeaveSettings` breaks the property), and without a window the process always ends. The settings window is left out of `close_gate`: it bears on no decision of the gate before the teardown (rule 1), and
the theorems hold with it. Nor does any decision read `sessions`, so `close_gate_live` goes without new ones.

Two streaks are what a stale ack needs (an ask of the first one acknowledged in the second); the grace is one tick,
so that "inside", "at its end" and "not yet started" are distinct. The bounds only hold back gestures that would ask again
(`GestureBound`, `MayAskMore`), so the re-asks of the menu's continuation still put two asks under way; handlers of what is already under way are never bounded.

**Fairness** (`FairSpec`). The event loop handles what was posted to it and a command that was invoked; the clock
advances; a webview that runs delivers its events and resolves its promises. Nothing is assumed of the user, of the
dialog's buttons or of the webview staying up. `HungEscape` is conditional on a user who keeps pressing Cmd-Q and the red button
(it names that fairness itself): without another gesture the gate, by design, never acts by itself.

**Proved** (`CloseGateProofs`), for every grace, every bound and every environment: `TypeCorrect`, `AckedIsAlive`,
`ConsentFirst`, `DialogStays` and, when both listeners are registered from the start (`EARLY = Channels`), `FallbackIsEarned`. `AckedMeansAlive` is not inductive: an ack arrives for an ask taken earlier, so `Streaks` adds that
no ask is of a later streak than the tracker's and that a taken ask of the current streak was taken in time. `ConsentBeforeTeardown` is
an action property that needs `Agreed`: the latch, a pending `quit_confirmed` and the webview's own latch all imply consent
(or a teardown that already happened), a missing main window and an ending process imply the teardown. `DialogKept` is a case split over the steps: only the ack reads the dialog state after an await. `FallbackMeansUnanswered` needs `Owed`:
an unacknowledged streak of a webview that can be reached always has an ask of its own on its way. It holds because the emit and the tracker's update are one step of the gate, an ask leaves `asks` only by its ack or with the page, and a channel
that is listened to stays so (`Listens`); `close_gate_boot` is the run in which the last hypothesis fails.
## TabState and TabSessions: tabs, panes and the shells behind them

**Code.** The reducer `tabs/tabState.ts`, the id reservation `tabs/idReservation.ts`, the runtime records
`app/paneRuntime.ts`, the handlers `app/usePaneOps.ts`, `app/usePaneCallbacks.ts`, `app/useCloseGuard.ts`, the boot of
`app/useAppServices.ts` and the refs of `App.tsx` (all in `app/src`); `open_pty`, `close_pty` and the stream end of
`pty_io.rs`.

**State.** `TabState` is the reducer as pure operators on a record: the ordered tabs (each with the session every pane is bound to
and its focus), the active tab, the two id counters. In `TabSessions`, `ui` is that record with every dispatch applied,
`ref` is `stateRef.current`, the last *committed* one: a handler dispatches into `ui` and reads `ref`. `runtimes` are the records of
`paneRuntime.ts` (attached session, attach epoch, whether the pane's terminal is mounted), `reserved` the two counters of
`idReservation.ts`, `children` what became of every session asked for, `opens`, `closes` and `exits` the calls and events under way,
`closing` that the window's close was asked for, from where `CloseGate` takes over.

**Actions.** `Boot`, `NewTab`, `DeliverServicePaths`, `RequestSplit`: reserve, seed the record, dispatch. `Commit`: React renders
what was dispatched, a pane without a mounted record gets one and asks for a session (`readyFor`'s `onReady`, which the terminal's effect
calls), `stateRef` advances. `Spawn`, `StreamEnds`, `ClosePty`: the backend. `Reply`: the continuation of `open_pty`, attached or an orphan.
`ExitEvent`, `ClosePaneGesture`, `CloseTabGesture`: the precedence pane, tab, window of `closePaneInternal` and `closeTabInternal`. `Arrange`:
what selects, focuses and moves.

**Abstractions.** A layout tree is the set of its leaves, so any remaining pane may take the focus (`removeLeaf` chooses a leaf of the sibling).
Titles, badges, activity and find bars are left out. The confirm dialog is not a state of its own: a confirmed one looks its target up again and closes
it then, which is a close at that moment, and an unconfirmed one does nothing. Rendering and the effects after it are one step; a handler that runs between them sees the
old `stateRef`, as one that runs before both. A pane gesture may name any pane of any committed tab, which includes the focused one that ⌘W names.

**What `RACES` says.** With `"commit"` a handler may run before React has committed the dispatches of the one before. This is what React does with dispatches
that no user event carries: Tauri events (`pty:exited`, control requests) and promise continuations are scheduled in the default lane, and passive effects, where `stateRef` is
assigned, later still. Without it every handler finds the last one committed, as after a key press or click. With `"attach"` a child may end before the reply to its `open_pty` is handled.

| run | races | bounds | shows |
| --- | --- | --- | --- |
| `tab_sessions` | none | 3 panes | `TypeOK`, `SessionsOwned`, `RecordsMatchPanes`, `DeadPaneNotified`, `NothingThrownAway`, and under `FairSpec` `SessionsSettle` |
| `tab_sessions_lag_window` | commit | 3 panes | `WindowHasTab` violated: two last tabs close at once and leave a window without a tab |
| `tab_sessions_early_exit` | attach | 2 panes | `DeadPaneNotified` violated: the exit event comes before the attach and the dead pane stays |

Three panes are two panes of a tab beside another tab, or three tabs (a right neighbour, a left one, an emptied strip). `MAX_SESSIONS` only matters when a pane may mount twice,
which without `"commit"` none does; with it, two panes and a third session are a pane that is disposed of, mounts again and opens once more.
`SessionsSettle` is stated once for all sessions (the sessions of a bounded behaviour are finitely many, so none can stray for ever while others take turns).

**Fairness** (`FairSpec`). React commits; a spawn or a close that was asked for is carried out (weak fairness); a reply or an exit event is handled
although other handlers keep dispatching, since the webview's tasks are a queue (strong fairness). No user acts and no shell ends because of fairness.

**What `"commit"` breaks.** Decisions (how many tabs, how many panes, does the tab exist) are taken on `stateRef` and carried out on the reducer's state. Beside the window without a tab, four more
statements fail in the same way (`TabSessions_window.cfg` with their name, or `NothingThrownAway`, in place of `WindowHasTab`): `SessionsStay` (two panes of a tab closed at once: the reducer keeps the second as the last pane, its record
is gone, and it mounts again with a new shell), `ReservationMirrors` (a split of a tab whose close is not committed reserves an id the reducer never gives, so every later pane is seeded under the wrong id),
`QuitOnlyWithLastTab` (a tab opened and not committed is lost with the window) and, with `MAX_SESSIONS = 4`, `NoOrphanSession` (a record dropped and created again counts its epochs from one again, so two opens of the same epoch
attach and the first shell leaks). `ClosedNeverAttached` holds all the same.

**Proved**, for any number of tabs, panes and sessions and any `RACES` that the hypothesis allows. The first part of `TabSessionsProofs` is about the reducer alone: every operation keeps `StateOK` (the ids are below the
counters, a tab has one id, a pane one tab, the focus is in its tab, the active tab exists) and does to `Shows` (which tab shows which pane with which session) what its name says, and nothing else. The second part builds on it.

| theorem | hypothesis |
| --- | --- |
| `TypeCorrect` (`TypeOK`, by `TypeInv`) | none |
| `EverySessionOwned`, `RecordsFollowPanes`, `NothingIsThrownAway`, `WindowKeepsTab` | `InOrder`: no `"commit"` in `RACES` |
| `DeadPanesAreNotified` | no `RACES` at all |

The hypotheses are not for convenience: the runs `tab_sessions_lag_window` and `tab_sessions_early_exit` show what happens without them. `SessionsOwned` is far from inductive. That a reply attaches its session, or closes it, and never leaves it running unseen, needs that
the pane of an open in flight is unbound and waits for this open (`OpenInv`: one open per pane and per session); that needs a pane to mount once and an id to be given once (`RecordInv`: the records are the panes
of the reducer, bound to what it shows, with epoch 1 once mounted; reserved ids are the reducer's counters); and the close of a session that was just asked for needs somebody who opens it (`OwnerInv`). `IInv` is these and `TypeInv`; `EndInv` adds, for the exit
event, that no open is in flight for a shell that has ended. TLC checked `IInv` and `EndInv` with three panes and three sessions. `SessionsSettle` is liveness and stays with TLC.

## ConfigText and ConfigSync: the configuration file and its copies

**Code.** `config_io.rs`, `fs_watch.rs` (`crates/termixion-tauri/src`), `config.rs` (`crates/termixion-core/src`), the settings runtime
`app/src/store/settingsStore.ts`, and the entry into `control.rs` that starts and stops the socket.

**State.** `file` is the text on the disk and whether it can be read. A text (`ConfigText`) is what the synchronisation can tell apart: what the entry of one setting,
`appearance.theme`, holds, and whether remote control is enabled; not being TOML, being empty and being absent are texts of their own. `inner` is `ConfigInner`: `last` (the diff base), `last_write_hash` (here the text itself, so two texts
never collide), the parse warnings and `last_unreadable`. `watcher` and `main` say where the watcher thread and the command on the main thread are, `wake` that the notify channel holds an event.
Each window has calls and events under way in order, results in any order, and a settings runtime: the snapshot's theme, the last ticket of `writeSeq`, whether the key is in
`writeFailedKeys` and in `clientWarnings`, the file warnings it shows, and as history the fate of its latest write.

**Actions.** A command is as many actions as it has points where the editor or the watcher can come between: `ConfigRead` (the file) and `Rebase` (the lock); `ConfigWrite` or `ConfigResetAll` (read and edit), `WriteAtomic`
(rename or fail), `Latch` (the lock), `ApplyControl` (after it). The watcher: `WatcherWakes`, `ReadAgain` when the file was absent, `Apply` (under the lock), `Emit` and `FollowControl` (after it). A window: `OpenWindow`, `Hydrate` with the
materialized theme, `SubscribeToBus`, `SetTheme`, `ResetAll`, `WriteSettled`, `HandleEvent`. Around them `EditorSaves`, `FileRemoved`, `PermissionsChange`, `ConfigOpenFile`, `EmitConfigWarnings`.

**Abstractions.** One setting stands for all: every key has its own ticket, warning and diff, and the theme is the one with the special cases (materialized, derived, a removed built-in). The shell and enhancement
warnings that `warnings_for_surface` adds are left out, as are `[keys]`, the migration of legacy values, and a window that is closed and opened again. The mutex is never poisoned.

**What overlaps.** The file has no lock that the editor would respect, and events leave after the lock is released, so some interleavings lose an update by construction. `rift` records the worst of those that happened, and each property says how much of it it survives:

| level | happened | still holds |
| --- | --- | --- |
| 0 | no overlap | everything |
| 1 | the watcher emitted while a write of a window was under way, or a window was between its read and its subscription; both windows wrote; a save failed; `config_read` moved the diff base because the file could not be read | `LastMatchesFile`, `SocketFollowsFile` |
| 2 | the watcher emitted, or moved the socket, after a newer write or read had moved the state | `LastMatchesFile` |
| 3 | the file changed between two steps of a command; `config_read` moved the diff base past an unreported change | `TypeOK`, `WarningIsNewest` |

These are the real limits of "last write wins" (`docs/config.md`): at level 2, for one, the file and the window that wrote last agree, and then the delayed event of the older value makes every window show that one, until the key changes again.

| run | bounds | shows |
| --- | --- | --- |
| `config_sync` | 2 windows, 2 themes, 4 texts, 3 files at start, `MAX_WORK` 2 | `TypeOK`, `LastMatchesFile`, `SocketFollowsFile`, `Converged`, `WarningIsNewest` |
| `config_failure` | an unreadable file, one change | `FailureShown` violated: the window's own echo deletes the warning about the write that failed |

`MAX_WORK` counts what users do (an edit, a removal, a permission change, a setting changed or reset, the settings window or the file opened, a shell's health). Two are an edit and its undoing after the program's own write (what the latch must survive), an edit
against a change in a window, and a change in one window while the other opens; the write that materializes the theme and failing renames come on top and are not bounded.

**Also seen.** A banner can outlive its cause: the write that materializes the theme over an entry of the wrong type, or a reset of a broken file, repairs the file, but its echo is dropped and no `config:warnings` follows, and `last_unreadable` is
cleared by neither. It takes another change of the file, or a new window, to clear it.

The proof of `Converged` found an exception that needs three changes, one more than the run has: the file becomes unreadable, the settings window opens (`config_read` makes the defaults the diff base) and finds no theme, and the file becomes readable
before the write of the derived theme is carried out. The write then replaces the user's theme, its echo is dropped, and the main window keeps the old one. The comment in `settingsStore.ts` ("ONLY when the file carried no theme AT ALL") does not think of a
file that could not be read. It is level 1 of `rift`.

**Proved**, for every set of themes, every set of files at start and any number of changes. `ConfigSyncProofs` proves `TypeOK`, `LastMatchesFile`, `SocketFollowsFile` and `WarningIsNewest` by one invariant, whose parts hold as long as their level of `rift` is not reached:

- `BaseInv` (below 3): what a command has read, or has written, is what the file holds (`CommandCurrent`), what the watcher is about to apply says what the file says, unless a wake is waiting (`WatcherCurrent`), the latched text is the diff base's (`LatchIsBase`), and the base is the
  file's unless the watcher is about to read it (`BaseFollows`). Without `LatchIsBase` an echo could be dropped that the base has not seen.
- `SocketInv` (below 2): between the lock and `apply_remote_control` the latch is the command's text, if the watcher has not cleared it (`ControlLatched`); the listener is what the base says, or a command or the watcher is on the way to set it, or the watcher has the
  file still to read and no latch will make it drop what it reads (`ListenerFollows`).
- `WarningInv`: a window that warns of its own accord has the key in `writeFailedKeys`, and its newest write was refused.

The second part of `ConfigSyncProofs` proves `Converged`. Every window is *on the way* to one theme, the aim: the theme of the newest write that has not reached the diff base, or the base's. On the way means that the last `changed` event of its queue, followed by what the watcher
is about to emit, leads it there (`Leads`, `Reaches`, `OnTheWay`), unless what the watcher is about to emit has been overtaken (`Overtaken`), in which case emitting it widens `rift`. It also needs that one window at a time has writes under way
(`OneWriter`), that none is while a read is (`NoWriteDuringRead`), that the text a command holds says what was asked (`TextAsAsked`), and that a window reads once, before all else (`ReadInv`). That nothing under way ends is not claimed: the property is about the states in which it has. TLC checked the parts on the bounds of the run, and with three changes without finding a violation in the first six million states.

## MCMachines: the machines that share no state

Sixteen modules have no variable in common: a step of one changes nothing another reads. `MCMachines` holds the variables of all of them, `Init` picks one, and only that one steps; the others'
variables stay `Off`. A property of one holds of all side by side exactly when it holds of it alone, so this loses nothing, and one run asks every question. The terminal is explored twice, as `host` (size and font) and as `view` (size, buffer and colors). Each property of `MCMachines` names the machine whose conjunct it is.

Most of these properties are of the form *once nothing is on its way, the copy agrees with the original*. They are invariants of the quiescent states, not liveness: no fairness is assumed, and what a state that is not
quiescent may show is left open. Histories (`missed`, `lost`, `surprised`, `astray`, `wrong`) record the exceptions a property names.

| module | code | state and actions | what is checked |
| --- | --- | --- | --- |
| `PaneTree`, `PaneLayout` | `layoutTree.ts`, `paneNav.ts`, `dividerDrag.ts`, `dropZone.ts`, `growPane.ts`; pane transitions of `tabState.ts`, `usePaneOps.ts`, `usePaneDrag.ts`, `tabTitle.ts` | A tree is a function from paths to nodes. Split, close, focus, swap, resize, title changes; the divider drag with its frame; the pane drag with press, threshold, preview, drop | `LayoutShown`: panes and dividers tile the window exactly, the title is derived, an ended drag leaves nothing pending. `LayoutSteps`: no split or drop below the minimum; every step is a transition of `TabState` or a stutter |
| `ActivityLine` | `activityLine.ts`, `usePaneActivity.ts`, `osc133.ts`, `interactivePrograms.ts`, `aiSessionBuckets.ts` | Phase, class, ages, the single timer, the latch of the prompt marks; poller reports, marks, output, ticks, override | `ActivityTrue`: the close guard sees every job, the line drawn is the line that holds now, a lit AI session is counted |
| `Updates` | `update/*`, the buttons of `AboutSettings.tsx` | Authority, mirror, two queues, checks and downloads as promises | `MirrorSettles`: a mirror that was told anything ends in the authority's state |
| `SettingsForm` | `TerminalSettings.tsx`, `AppearanceSettings.tsx`, `components.tsx` | One row of six kinds: value, draft, listener, fonts loading, questions to the backend | `MirrorSettles`: a row at rest shows the setting of the file, the last choice |
| `CopyOnSelect` | `copyOnSelect.ts` | The gesture machine, the order of DOM events, the debounce | `GestureOutcome`: a released gesture keeps its text for the clipboard, an aborted one leaves nothing pending |
| `TabStrip` | `TabStrip.tsx` | Pointer capture, drag record, indicator, inline rename | `GestureOutcome`: a release moves or activates the tab that was pressed, an edit ends at most once |
| `TerminalHost` | `TerminalView.tsx`, `mountTerminal.ts`, `resizeCoalescer.ts`, `scrollbar.ts`, `clipboardNotice.ts`, `themeSettings.ts` | Observer, frame, fonts, options, listener, overlay, notice, teardown | `TerminalSettles`: fitted, painted, options as stored; nothing outlives the teardown |
| `FindBar` | `FindBar.tsx`, `findState.ts` | Query, options, debounce, the addon's highlights | `TerminalSettles`: the highlights are the query's, a press is not followed by a queued search |
| `KeyboardFocus` | `App.tsx`, `AppView.tsx`, `usePaneCallbacks.ts`, the inputs | Who renames, badges, searches, asks; one action is an event with its commit, its effect and its blur | `KeyboardOwner`: an edit under way has the keyboard, else it is the focused pane's |
| `Catalogs` | `rebuildKeymap`, `keychord.ts`, `keymapDispatch.ts`, `ScriptPicker.tsx`, `themeHotReload.ts`, `registry.ts` (theme) | A catalog's file, its signal, its reads under way in any order | `CatalogsSettle`: keymap, open picker and theme show the files |
| `Palette` | `PaletteOverlay.tsx`, `CommandPalette.tsx`, `fuzzy.ts`, `dispatch.ts` | Renders and effects as steps, keys between them | `PaletteRuns`: Enter runs the row that the keys lead to |
| `ControlSocket` | `socket.rs`, `apply_with`, `teardown` of `control.rs` | Several instances, the node at the path, the lock, one step per system call; crashes | `OutsideServed`: a live socket is never removed, only a crash (or a failed mode change) leaves one |
| `ControlChannel` | the acceptor, workers and bridge of `control.rs`; `controlBridge.ts` | Slots, connections, ids, pending senders, the deadline, listeners stopped and started | `OutsideServed`: the answer to its own request, run once; no sender and no slot left behind; at most the line being read after a stop |
| `ServicesQueue` | `services_io.rs`, `serviceNudge.ts`, `boot.tsx`, `useAppServices.ts` | The queue, nudges, three kinds of drain, StrictMode's replay, a reload of the page | `OutsideServed`: every directory opened once, none left waiting |
| `Enhancements` | `materialize_enhancements`, `gc_stale_versions` of `enhancements_io.rs`, `open_pty` | The tree of each version on the disk, calls that look up, stage, rename, clear and sweep, one step per call to the file system, each of which may fail; removal file by file; deaths | `OutsideServed`: the marker means a whole tree, and with a version and its successor side by side no shell reads a tree that is being removed |
| `TitlePoller` | `poller.rs`, `usePaneActivity.ts` | The gate's latch, one iteration read by read, the two diffs, events on their way | `PollerTrue`: it does not sleep past a session; the pane is busy and named as the session is |

| run | bounds | shows |
| --- | --- | --- |
| `machines` | per machine, in `Machines_base.cfg` and, for those that are not proved, in the `INSTANCE`s of `MCMachines` | the twelve properties above, `TypeOK` among them |
| `activity_strand` | the `activity` machine, the same | `PhaseArmed` violated: a phase is left without the timer that would end it |

**Why the bounds are enough.** Three panes are the least in which a sibling is a split; two window sizes are one where everything fits and one where it does not. Debounce delays are one to three ticks: what counts is which is longer. Two versions
are an update that is overtaken; one opening of the settings window and one command from it meet every state of the authority, its scheduled check and download under way among them. A hosted terminal is the only view whose size matters, and there a size is replaced while the host is hidden; the view of options has one size, shown or hidden. Two host sizes, and two fonts or two themes with one change, are a value that is replaced while the listener is asked for; font and theme never meet in the code but in the options object, so one instance varies each. Three reads
of a catalog are two that cross and one after. Two instances with three sockets are one that starts while the other stops or has crashed; two connections with two workers and two requests are a worker of a stopped listener beside one of its successor. One session
and one job with three changes are a rise and a fall in one pass and a rise in the next. Two paths are one taken at boot and one by a nudge. Three versions are the current one, the one that keeps the slot and one that is swept; two overlapping calls are a builder beside a sweeper or beside another builder of its version (`MAX_CALLS = 3`, fifty times
the states, was explored once apart and holds too).

**Proved.** `ControlProofs` has the control channel. Of the socket: for any number of instances, sockets and applied configurations, the three conjuncts of `OutsideServed` about the socket (`SocketOwned`, `OnlyCrashesLeave`, `WantFollowed`) always hold. For `SocketOwned`: whoever has a handle, or is on its way from the lock to one, has the lock, and the node at
the path of an instance that serves is the one it bound. By itself this is not preserved: an instance that starts must have no handle of an earlier socket, or dropping the lock would leave that one unprotected (`Unhandled`). The other two need that the path is empty when a stop releases its lock (`Vacated`) and that an instance on its way to a handle was asked to serve (`StartsWanted`). That a name of an instance is not
`Nobody`, and that the bounds are naturals, is all that is assumed.

Of the bridge: for any number of clients, workers, requests and changes of the switch, the four conjuncts of `OutsideServed` about the bridge, `OwnAnswer`, `SendersWaited`, `OneLineMore` and `SlotsCounted`. They are proved together. That an answer is the client's own needs every
worker with a request to be the one that asked for its id, below `next_id` (`Asking`), and an id to be asked of the webview once, run once and answered only then (`Traced`); that no sender is left needs sender and answer
never to be both there (`Waited`), or a reply would leave a second one for nobody; that a stopped worker reads no second line needs its listener to stay the older one when the channel is started again (`Numbered`, `Stopping`). TLC checked the
invariant with two clients, three requests and two changes (a million states). The proof assumes finitely many clients.

`ComponentProofs` and `WindowProofs` have the machines that no other module composes with. They make an instance of each, and prove of each by itself that an invariant holds at the start, that every step keeps it, and what follows from it. In `ComponentProofs` are those that are fed by a queue or by answers in any order:

- *The poller* (`PollerIsTrue`). That it does not sleep past a session is a fact about the latch and the sessions still to be notified (`Awake`). That the panes are true is about two diffs against what was last told: `BusyTold`, `NameTold` and
  `FrontTold` say that the last report of a session is on its way in a queue, or arrived and is what the pane shows, or came before the pane was there (`missed`), whatever events of other sessions and kinds are between. The lemmas on queues (`Last`, and what an append, a head and an
  order of a set do to it) are the ones that carry the proof. Assumed: finitely many sessions, no job called as the placeholder for an unknown name.
- *The services queue* (`FinderOpensOnce`). A directory is in one of the queue, a batch on its way, the boot paths, a lost batch and the tabs, and there once (`OnePlace`, `ThereOnce`); a directory opened or held is one that was handed over (`OpenedOrHeld`); the boot paths go to the first mount only (`BootsOnce`). No assumptions.
- *The trees* (`TreesAreKept`). Every call goes through its steps with its own version (`TreesOnward`), and what is put into place is whole. While no more than two versions ever came, a sweep finds no victim: one beside the tree it keeps and its own version would be a third (`NoThird`, `Calm`). Versions only come
  (`VersionsCome`), so two now were two at most before. Assumed: finitely many versions, and that what is there at the start is a sequence of them.
- *The terminal* (`HostIsTrue`). That the options follow is about the broadcasts under way: the last one of a setting has the stored value, and with none of it the option does (`Follows`), the same lemmas on queues; a resize or a font that may change the grid leaves a frame or a recomputation behind it. Assumed: what is stored at the start is a
  record of settings.
- *The catalogs* (`CatalogsAreTrue`). But for a change that is announced or was missed, the last read, once answered, has what is on the disk (`Informed`), and a choice of the user's theme that is the last on its way is of one that is there, or finds the colors of the built-in one (`PaintLast`): without the second half a theme whose file goes while
  a choice of it is under way would leave the terminals in colors the chrome no longer has. What `mergeKeymap` makes of a file of any length is proved too: the fold is written out entry by entry (`UpToIs`), and the least entry after which the keymap would not have what the last valid entry says of a chord does not exist (`MergedAgrees`). Assumed: a file of keys is a sequence.

In `WindowProofs` are those of the windows:

- *The keyboard* (`KeyboardIsOwned`). The screen is in order in every state (`Standing`: the active tab exists and has its focused pane, an edit is of something there); each command keeps that and starts one edit at most; `CommitKeeps` does the rest once for all of them: what a commit blurs, mounts and hands over leaves the keyboard where the
  window shows it. Assumed: there is a tab and a pane.
- *The activity line* (`ActivityIsTrue`). One lemma per transition says what it does to *busy* and to the program's name; one for `Apply` (`Applied`) that what is drawn is the light of the stored state and that a light which goes out by itself has a timer before that (`Held`): the soonest of the deadlines is not after it. Then a tick that takes the light out is one whose timer is due. Assumed:
  the delays are naturals, the names of the metadata are names.
- *The updater* (`MirrorIsTrue`). A projection that was told anything has the authority's state, or the last snapshot on its way is that state, or a toggle is on its way that the authority answers with one (`UpdaterInv`); the toggle is the exception because the mirror shows it before the authority has it. No assumptions.
- *Copy on select* (`CopyIsTrue`). The browser's events of one release come in six orders; for each the invariant says how far the gesture has come, by what is still to be delivered. Assumed: a text is not one of the two marks for no text.
- *The settings rows* (`FormIsTrue`). The last change on its way is the file's value (`Backed`); a font that no newer choice superseded is the one chosen (`Latest`); the row shows the file's value but for what is on its way (`Shows`); the kind of the shell and the status are those of the file, or a question asked since will say so (`ShellKnown`,
  `StatusKnown`). A page that was left and opened again has its own questions and loads, so each is about those of the mount that is on the screen. Assumed: the shells and fonts are not called as the two that stand for "system" and "other", and the range of the number is one.
- *The find bar* (`FindIsTrue`). `FindSettles` is inductive with the types.

`MachinesProofs` brings all of these into the composed run: the lemmas `Same...` show that the machine in `MCMachines` is the one of the proofs (every action of it, definition by definition), and the invariant then holds whenever that machine was picked. The two terminals of the run are each within the one of the proofs, which has both
instances' fonts and themes (`WithinHost`, `WithinView`). So `OutsideServed`, `PollerTrue`, `KeyboardOwner`, `ActivityTrue`, `MirrorSettles`, `TerminalSettles` and `CatalogsSettle`, properties that the run `machines` checks, are theorems of its specification for every value of the constants of `MCMachines`. The assumptions are named there
(`SocketAssumption` and the others), and TLC evaluates them on the run's values.

`Enhancements` states its property for two versions only, because the retention rule keeps one other tree: with a third version around, a shell may be started on a tree whose removal has begun, and the module shows it when `Present` is left out of `TreesKept`.

**Statements of comments and docs that the code does not keep**, seen while modelling. The first is a run, the others are written down here only.

- A phase that waits has a timer (`PhaseArmed`; "would strand the phase forever" in `activityLine.ts`).
- `BarOwnsKeyboard` and `DialogKeepsKeyboard` (`KeyboardFocus`): an open find bar of the focused pane loses the keyboard to another pane's terminal, and a terminal may get it under the close dialog.
- `NothingToFind` (`FindBar`): a query that became malformed keeps the highlights of the one before.
- "A late reply is logged" (`docs/remote-control.md`): a reply that comes between the timeout and the removal of the sender goes into a channel nobody reads, and is not logged.
- `rebuildKeymap` has no request number: an older answer that arrives last stays. `CatalogsSettle` excepts it.
- The palette's selection goes to the first row when anything in `App` renders, because `items` is a new array each time; the strip's start index is stale when a tab before the dragged one closes, and the line of a drag stays when its tab closes.
- A font that loads after its page was closed is set over a newer choice ("the newest user choice always wins"), and most rows do not hear of changes from elsewhere. `FormSettles` excepts both.
- The overlay is not repainted after a smaller scrollback cap trims the buffer, and an option that changes between the mount and the listener is missed. `missed` records both.
- A window that loses the focus ends a divider drag without its last frame; an update check may start from any state, a finished download included.
- A prompt mark that arrives while the poller's job runs takes the pane over from it, and the poller's fall is then not heard.
- A poller's event that comes before the session's pane is attached is lost until the value changes again, and a directory taken for a page that is reloaded before it opened is lost.
- What is emitted between a window's `config_read` and its subscription is lost to it, and a write or reset that repairs the file emits no `config:warnings` (see `ConfigSync`).

## What is proved and what is only checked

A theorem holds for every value of the constants under the named assumptions; a run holds for its instance. Liveness, with its fairness, stays with TLC, and so does everything about `ENABLED`;
so does what the recursive definitions of the layout compute for every tree: the tiling (`LayoutShown`, `LayoutSteps`), and the ranks of the palette (`PaletteRuns`). Where a definition goes over a sequence, the least position at which it would be wrong takes the place of an induction (`MergedAgrees`). Only checked, though
nothing in it is out of reach, is `TypeOK` of `MCMachines` as a whole (the proved invariants have the types of their own machines), and of `GestureOutcome` the conjunct of the tab strip. The mutant of each property (`PROJECT.json`, "mutants") is a plausible bug of the mapped code
under which the same run fails.

## What is not modelled

- Time as a number: a deadline is a tick count saturated at the value the code compares with, or a choice.
- Text: titles, escape sequences, TOML, shell scripts, colours, log lines.
- The operating system beyond what the code sees of it: the kernel's terminal buffer is a bound, the child a process that writes and ends; Tauri is a queue of events per window and calls that may be answered in any order.
- Presentation: rendering, menus, styles, cell metrics. Pixels only where a pane's size decides something.
- The rest of the shell enhancements: which variables the environment gets, the text of the shim files, the age after which a staging directory is swept, and the installer of the integration script. All the rest of the program sees of them is a status, which `SettingsForm` takes as given.
- Launch, logging and error transport, the smoke and performance harness: straight-line code, or code that only runs in tests.
- The parsers of escape sequences and pasted text, the pages of the settings window that only show text, the remaining commands of the registry (each is one handler that another module has as an action).
- A write that fails, in the form of the settings window (`SettingsForm.Set`): the form's rows are checked against a store that takes every value. The error path of the store's persist, its warning and what clears it, is in `ConfigSync`, for one key and every window.
- A mutex poisoned by a panic: the code recovers the value and goes on.
- Components listed as `not_modelled` or `partly` in `PROJECT.json`, each with its reason.
