----------------------------- MODULE ConfigSync -----------------------------
(***************************************************************************)
(* The configuration file and its copies: the file, which an editor and    *)
(* the program both write; the backend's ConfigState (config_io.rs); the   *)
(* watcher thread (fs_watch.rs); the settings runtime of each of the two   *)
(* windows (settingsStore.ts); the control socket that follows the file.   *)
(*                                                                         *)
(* Commands run one at a time on the main thread, but the watcher and the  *)
(* editor move between their steps; calls, replies and events travel.      *)
(***************************************************************************)
EXTENDS ConfigText

CONSTANTS START,       \* bound: the files that there may be at start
          MAX_WORK     \* bound: what users and processes do that changes the file, a setting
                       \* or a shell's health or opens the second window, in all

ASSUME ConfigSyncAssumption ==
  /\ START \subseteq [text : SAVED \cup {Absent}, readable : BOOLEAN]
  /\ \A f \in START : f.text = Absent => f.readable
  /\ MAX_WORK \in Nat

VARIABLES
  file,      \* its text (Absent when there is none) and whether it can be read
  wake,      \* the watcher's channel holds an event
  watcher,   \* the watcher thread: where it is, the text it read, what it will emit
  inner,     \* ConfigInner: last, last_write_hash (Absent for none), read health, warnings
  listener,  \* the control socket is served
  main,      \* the command the main thread runs: where it is, whose, the text at hand
  calls,     \* per window: commands invoked and not started, in order
  replies,   \* per window: results on their way, in any order
  queues,    \* per window: events on their way, in order
  windows,   \* per window: its settings runtime
  rift,      \* history: how far the steps overlapped (see Rift)
  work       \* how much of MAX_WORK is used

vars == <<file, wake, watcher, inner, listener, main, calls, replies, queues, windows,
          rift, work>>
backendVars == <<file, wake, watcher, inner, listener, main>>

Windows == {"main", "settings"}
Call == [cmd : {"read", "write", "reset"}, theme : VALUES, ticket : Nat]
Warnings == SUBSET {"parse", "unreadable"}
Event == [kind : {"changed"}, theme : ConfigTheme] \cup [kind : {"warnings"}, set : Warnings]

\* How far overlapping steps of two actors may have put the copies out of step.
\*   1 a window: the watcher emitted while a write of a window was on its way; events
\*     were emitted, or the other window wrote, while a window was between its read and
\*     its subscription; both windows wrote at once; a write or a reset was refused;
\*     config_read moved the diff base, because the file could not be read
\*   2 the socket: the watcher emitted what it applied after the state had moved on
\*   3 the diff base: the file changed from outside between two steps of a command;
\*     config_read replaced the base while the watcher was behind, or because of a
\*     file that cannot be read while a write was latched
Rift == 0..3

NoCall == [cmd |-> "read", theme |-> DERIVED, ticket |-> 0]
Idle == [pc |-> "idle", win |-> "main", call |-> NoCall, text |-> Absent, ok |-> TRUE]
Asleep == [pc |-> "idle", text |-> Absent, events |-> <<>>]
Closed == [phase |-> "closed", theme |-> "unset", ticket |-> 0, failed |-> FALSE,
           client |-> FALSE, banner |-> {}, fate |-> "none"]

File == [text : Text, readable : BOOLEAN]
WatcherThread == [pc : {"idle", "again", "apply", "emit", "control"}, text : Text, events : Seq(Event)]
ConfigInner == [last : Config, latch : Text, warned : BOOLEAN, unreadable : BOOLEAN]
Command == [pc : {"idle", "rebase", "rename", "latch", "control"}, win : Windows, call : Call,
            text : Text, ok : BOOLEAN]
Result == [call : Call, ok : BOOLEAN, text : Text, warnings : Warnings]
SettingsRuntime == [phase : {"closed", "reading", "seeded", "up"}, theme : VALUES \cup {"unset"},
                    ticket : Nat, failed : BOOLEAN, client : BOOLEAN, banner : Warnings,
                    fate : {"none", "ok", "failed"}]

\* Every variable has its type; a window never holds a theme it could not show.
TypeOK ==
  /\ file \in File /\ wake \in BOOLEAN /\ listener \in BOOLEAN
  /\ watcher \in WatcherThread /\ inner \in ConfigInner /\ main \in Command
  /\ calls \in [Windows -> Seq(Call)] /\ queues \in [Windows -> Seq(Event)]
  /\ replies \in [Windows -> SUBSET Result]
  /\ windows \in [Windows -> SettingsRuntime]
  /\ rift \in Rift /\ work \in 0..MAX_WORK

\* hydrate_at, before any command can run; then the socket follows what it read.
Init ==
  /\ file \in START
  /\ LET text == IF file.readable THEN file.text ELSE Absent IN
       /\ inner = [last |-> ParseConfig(text), latch |-> Absent,
                   warned |-> HasWarnings(text), unreadable |-> ~file.readable]
       /\ listener = text.rc
  /\ wake = FALSE /\ watcher = Asleep /\ main = Idle
  /\ calls = [w \in Windows |-> <<>>] /\ queues = [w \in Windows |-> <<>>]
  /\ replies = [w \in Windows |-> {}]
  /\ windows = [w \in Windows |-> Closed]
  /\ rift = 0 /\ work = 0

Work == work < MAX_WORK /\ work' = work + 1

Widened(level, condition) == IF condition /\ level > rift THEN level ELSE rift
IsWrite(call) == call.cmd # "read"

\* A write or a reset of window w has been invoked and is not carried out.
Writing(w) ==
  \/ \E i \in DOMAIN calls[w] : IsWrite(calls[w][i])
  \/ main.pc # "idle" /\ main.win = w /\ IsWrite(main.call)

Up(w) == windows[w].phase = "up"
Opening(w) == windows[w].phase \in {"reading", "seeded"}

\* app.emit: the windows that listen get the events.
Emitted(events) == [w \in Windows |-> IF Up(w) THEN queues[w] \o events ELSE queues[w]]
Missed == \E w \in Windows : Opening(w)

-----------------------------------------------------------------------------
(* The file changes from outside.                                          *)

Outside(changed) ==
  /\ Work /\ changed # file
  /\ file' = changed /\ wake' = TRUE
  /\ rift' = Widened(3, main.pc # "idle")
  /\ UNCHANGED <<watcher, inner, listener, main, calls, replies, queues, windows>>

EditorSaves == file.readable /\ \E text \in SAVED : Outside([file EXCEPT !.text = text])
FileRemoved == Outside([text |-> Absent, readable |-> TRUE])
PermissionsChange == file.text # Absent /\ Outside([file EXCEPT !.readable = ~@])

-----------------------------------------------------------------------------
(* The commands, one at a time on the main thread.                         *)

\* The command at the head of a window's calls starts.
Begin(w, cmd) ==
  /\ main.pc = "idle" /\ calls[w] # <<>> /\ Head(calls[w]).cmd = cmd
  /\ calls' = [calls EXCEPT ![w] = Tail(@)]

\* The result of a reset is only logged (resetAll), so it is not kept.
Answer(w, call, ok, text, warnings) ==
  LET reply == [call |-> call, ok |-> ok, text |-> text, warnings |-> warnings] IN
  replies' = [replies EXCEPT ![w] = IF call.cmd = "reset" THEN @ ELSE @ \cup {reply}]

Refuse(w, call) == Answer(w, call, FALSE, Absent, {}) /\ rift' = Widened(1, TRUE)

ConfigRead(w) ==
  /\ Begin(w, "read")
  /\ main' = [pc |-> "rebase", win |-> w, call |-> Head(calls[w]), ok |-> file.readable,
              text |-> IF file.readable THEN file.text ELSE Absent]
  /\ rift' = Widened(1, \E o \in Windows \ {w} : Writing(o))
  /\ UNCHANGED <<file, wake, watcher, inner, listener, replies, queues, windows, work>>

\* The second half of config_read: the diff base, the warnings, the read health.
Rebased(text, readable) ==
  [inner EXCEPT !.last = ParseConfig(text), !.warned = HasWarnings(text), !.unreadable = ~readable]

WarningsOf(warned, unreadable) ==
  (IF warned THEN {"parse"} ELSE {}) \cup (IF unreadable THEN {"unreadable"} ELSE {})

Rebase ==
  /\ main.pc = "rebase"
  /\ inner' = Rebased(main.text, main.ok)
  /\ Answer(main.win, main.call, TRUE, main.text, WarningsOf(HasWarnings(main.text), ~main.ok))
  /\ rift' = IF \/ wake \/ watcher.pc # "idle"
                \/ ~main.ok /\ inner.latch # Absent
             THEN Widened(3, TRUE)
             ELSE Widened(1, ParseConfig(main.text) # inner.last)
  /\ main' = Idle
  /\ UNCHANGED <<file, wake, watcher, listener, calls, queues, windows, work>>

\* write_key_at up to its edit: an absent file starts from the template.
Source == IF file.text = Absent THEN Template ELSE file.text

ConfigWrite(w) ==
  /\ Begin(w, "write")
  /\ \/ /\ file.readable /\ Editable(Source)
        /\ main' = [pc |-> "rename", win |-> w, call |-> Head(calls[w]), ok |-> TRUE,
                    text |-> EditDocument(Source, Head(calls[w]).theme)]
        /\ UNCHANGED <<replies, rift>>
     \/ /\ ~file.readable \/ ~Editable(Source)
        /\ Refuse(w, Head(calls[w]))
        /\ UNCHANGED main
  /\ UNCHANGED <<file, wake, watcher, inner, listener, queues, windows, work>>

ConfigResetAll(w) ==
  /\ Begin(w, "reset")
  /\ main' = [pc |-> "rename", win |-> w, call |-> Head(calls[w]), ok |-> TRUE, text |-> Template]
  /\ UNCHANGED <<file, wake, watcher, inner, listener, replies, queues, windows, rift, work>>

\* write_atomic: the temporary file replaces the target, or nothing happens.
WriteAtomic ==
  /\ main.pc = "rename"
  /\ \/ /\ file' = [text |-> main.text, readable |-> TRUE] /\ wake' = TRUE
        /\ main' = [main EXCEPT !.pc = "latch"]
        /\ UNCHANGED <<replies, rift>>
     \/ /\ Refuse(main.win, main.call)
        /\ main' = Idle
        /\ UNCHANGED <<file, wake>>
  /\ UNCHANGED <<watcher, inner, listener, calls, queues, windows, work>>

\* (mutation) the write does not move the diff base
LatchOnly(text) == [inner EXCEPT !.latch = text]

Latched(text) ==
  [inner EXCEPT !.latch = text, !.last = ParseConfig(text), !.warned = HasWarnings(text)]

Latch ==
  /\ main.pc = "latch"
  /\ inner' = Latched(main.text)
  /\ main' = [main EXCEPT !.pc = "control"]
  /\ UNCHANGED <<file, wake, watcher, listener, calls, replies, queues, windows, rift, work>>

\* apply_remote_control, after the lock is released; then the command returns.
\* (mutation) the socket is left to the watcher
LeaveListener(text) == listener

ServeControl(text) == text.rc

ApplyControl ==
  /\ main.pc = "control"
  /\ listener' = ServeControl(main.text)
  /\ Answer(main.win, main.call, TRUE, Absent, {})
  /\ main' = Idle
  /\ UNCHANGED <<file, wake, watcher, inner, calls, queues, windows, rift, work>>

\* config_open_file creates a missing file and latches nothing.
ConfigOpenFile ==
  /\ Work /\ main.pc = "idle" /\ file.text = Absent /\ Up("settings")
  /\ file' = [file EXCEPT !.text = Template] /\ wake' = TRUE
  /\ UNCHANGED <<watcher, inner, listener, main, calls, replies, queues, windows, rift>>

\* emit_config_warnings: a shell or an enhancement changed its health.
EmitConfigWarnings ==
  /\ Work
  /\ queues' = Emitted(<<[kind |-> "warnings", set |-> WarningsOf(inner.warned, inner.unreadable)]>>)
  /\ UNCHANGED <<backendVars, calls, replies, windows, rift>>

-----------------------------------------------------------------------------
(* The watcher.                                                            *)

\* wait_for_wake and drain_debounced: a burst is one wake; then the first read.
WatcherWakes ==
  /\ watcher.pc = "idle" /\ wake
  /\ wake' = FALSE
  /\ watcher' = IF ~file.readable THEN Asleep
                ELSE IF file.text = Absent THEN [Asleep EXCEPT !.pc = "again"]
                ELSE [Asleep EXCEPT !.pc = "apply", !.text = file.text]
  /\ UNCHANGED <<file, inner, listener, main, calls, replies, queues, windows, rift, work>>

\* The file was absent: it is read once more before that is believed.
ReadAgain ==
  /\ watcher.pc = "again"
  /\ watcher' = IF ~file.readable THEN Asleep
                ELSE [Asleep EXCEPT !.pc = "apply",
                                    !.text = IF file.text = Absent THEN Empty ELSE file.text]
  /\ UNCHANGED <<file, wake, inner, listener, main, calls, replies, queues, windows, rift, work>>

\* (mutation) the latch outlives an external edit
AppliedKeepsLatch(text) ==
  [last |-> ParseConfig(text), latch |-> inner.latch, warned |-> HasWarnings(text), unreadable |-> FALSE]

Applied(text) ==
  [last |-> ParseConfig(text), latch |-> Absent, warned |-> HasWarnings(text), unreadable |-> FALSE]

\* emissions_for: the changed pair, then the warnings, also when there are none.
EmissionsFor(text) ==
  LET config == ParseConfig(text) IN
  (IF config.theme # inner.last.theme THEN <<[kind |-> "changed", theme |-> config.theme]>> ELSE <<>>)
    \o <<[kind |-> "warnings", set |-> WarningsOf(HasWarnings(text), FALSE)]>>

\* apply_file_text under the lock: our own write is dropped.
Apply ==
  /\ watcher.pc = "apply"
  /\ \/ /\ watcher.text = inner.latch
        /\ watcher' = Asleep /\ UNCHANGED inner
     \/ /\ watcher.text # inner.latch
        /\ inner' = Applied(watcher.text)
        /\ watcher' = [watcher EXCEPT !.pc = "emit", !.events = EmissionsFor(watcher.text)]
  /\ UNCHANGED <<file, wake, listener, main, calls, replies, queues, windows, rift, work>>

\* The lock is released: the events go out.
Emit ==
  /\ watcher.pc = "emit"
  /\ queues' = Emitted(watcher.events)
  /\ watcher' = [watcher EXCEPT !.pc = "control"]
  /\ rift' = IF inner # Applied(watcher.text)
             THEN Widened(2, TRUE)
             ELSE Widened(1, Missed \/ \E w \in Windows : Writing(w))
  /\ UNCHANGED <<file, wake, inner, listener, main, calls, replies, windows, work>>

\* Then the socket follows.
FollowControl ==
  /\ watcher.pc = "control"
  /\ listener' = watcher.text.rc
  /\ watcher' = Asleep
  /\ rift' = Widened(2, inner # Applied(watcher.text))
  /\ UNCHANGED <<file, wake, inner, main, calls, replies, queues, windows, work>>

-----------------------------------------------------------------------------
(* The settings runtime of a window.                                       *)

OpenWindow(w) ==
  /\ windows[w].phase = "closed"
  /\ IF w = "main" THEN UNCHANGED work ELSE Up("main") /\ Work
  /\ windows' = [windows EXCEPT ![w].phase = "reading"]
  /\ calls' = [calls EXCEPT ![w] = Append(@, NoCall)]
  /\ UNCHANGED <<backendVars, replies, queues, rift>>

\* persist: a ticket and a config_write.
Ticket(w) == windows[w].ticket + 1
Persisted(w, theme) ==
  [calls EXCEPT ![w] = Append(@, [cmd |-> "write", theme |-> theme, ticket |-> Ticket(w)])]
Crossing(w) == \E o \in Windows \ {w} : Writing(o)

\* hydrate after config_read resolved: the present value is the snapshot's; the
\* theme that is missing is derived and written to the file.
Hydrate(w) ==
  \E r \in replies[w] :
    /\ r.call.cmd = "read"
    /\ replies' = [replies EXCEPT ![w] = @ \ {r}]
    /\ LET seeded == [windows[w] EXCEPT !.phase = "seeded", !.client = FALSE, !.banner = r.warnings]
       IN \/ /\ r.text.theme \in VALUES
             /\ windows' = [windows EXCEPT ![w] = [seeded EXCEPT !.theme = r.text.theme]]
             /\ UNCHANGED <<calls, rift>>
          \/ /\ r.text.theme \notin VALUES
             /\ windows' = [windows EXCEPT ![w] =
                              [seeded EXCEPT !.theme = DERIVED, !.ticket = Ticket(w)]]
             /\ calls' = Persisted(w, DERIVED)
             /\ rift' = Widened(1, Crossing(w))
    /\ UNCHANGED <<backendVars, queues, work>>

SubscribeToBus(w) ==
  /\ windows[w].phase = "seeded"
  /\ windows' = [windows EXCEPT ![w].phase = "up"]
  /\ UNCHANGED <<backendVars, calls, replies, queues, rift, work>>

\* set: the snapshot at once, the write, then the broadcast, which comes back too.
SetTheme(w, theme) ==
  /\ Up(w) /\ Work
  /\ windows' = [windows EXCEPT ![w] =
       [windows[w] EXCEPT !.theme = theme, !.ticket = Ticket(w), !.client = FALSE,
                          !.failed = @ /\ ~windows[w].client, !.fate = "none"]]
  /\ calls' = Persisted(w, theme)
  /\ queues' = Emitted(<<[kind |-> "changed", theme |-> theme]>>)
  /\ rift' = Widened(1, Missed \/ Crossing(w))
  /\ UNCHANGED <<backendVars, replies>>

ResetAll(w) ==
  /\ Up(w) /\ w = "settings" /\ Work
  /\ windows' = [windows EXCEPT ![w].theme = "unset"]
  /\ calls' = [calls EXCEPT ![w] = Append(@, [cmd |-> "reset", theme |-> DERIVED, ticket |-> 0])]
  /\ queues' = Emitted(<<[kind |-> "changed", theme |-> DERIVED]>>)
  /\ rift' = Widened(1, Missed \/ Crossing(w))
  /\ UNCHANGED <<backendVars, replies>>

\* (mutation) any settled write speaks for the setting
AnyTicket(w, r) == TRUE

Newest(w, r) == r.call.ticket = windows[w].ticket

\* persist settles: the newest write authors or clears its own warning.
WriteSettled(w) ==
  \E r \in replies[w] :
    /\ r.call.cmd = "write"
    /\ replies' = [replies EXCEPT ![w] = @ \ {r}]
    /\ LET this == windows[w]
           fate == IF r.call.ticket # this.ticket THEN this.fate ELSE IF r.ok THEN "ok" ELSE "failed"
           settled == CASE Newest(w, r) /\ ~r.ok -> [this EXCEPT !.failed = TRUE, !.client = TRUE]
                        [] Newest(w, r) /\ r.ok /\ this.failed ->
                             [this EXCEPT !.failed = FALSE, !.client = FALSE]
                        [] OTHER -> this
       IN windows' = [windows EXCEPT ![w] = [settled EXCEPT !.fate = fate]]
    /\ UNCHANGED <<backendVars, calls, queues, rift, work>>

\* (mutation) a value the registry does not know reaches the snapshot
TakeRaw(theme) == theme

Taken(theme) == Coerce(theme)

\* applySettingsChangedToSnapshot and replaceConfigWarnings
HandleEvent(w) ==
  /\ queues[w] # <<>>
  /\ queues' = [queues EXCEPT ![w] = Tail(@)]
  /\ LET event == Head(queues[w]) IN
       \/ /\ event.kind = "changed"
          /\ windows' = [windows EXCEPT ![w] =
               [windows[w] EXCEPT !.theme = Taken(event.theme), !.client = FALSE,
                                  !.fate = IF Taken(event.theme) = windows[w].theme THEN @ ELSE "none"]]
       \/ /\ event.kind = "warnings"
          /\ windows' = [windows EXCEPT ![w].banner = event.set]
  /\ UNCHANGED <<backendVars, calls, replies, rift, work>>

-----------------------------------------------------------------------------
FromOutside == EditorSaves \/ FileRemoved \/ PermissionsChange
MainThread ==
  \/ \E w \in Windows : ConfigRead(w) \/ ConfigWrite(w) \/ ConfigResetAll(w)
  \/ Rebase \/ WriteAtomic \/ Latch \/ ApplyControl \/ ConfigOpenFile \/ EmitConfigWarnings
Watcher == WatcherWakes \/ ReadAgain \/ Apply \/ Emit \/ FollowControl
Runtime(w) ==
  \/ OpenWindow(w) \/ Hydrate(w) \/ SubscribeToBus(w) \/ ResetAll(w)
  \/ \E theme \in VALUES : SetTheme(w, theme)
  \/ WriteSettled(w) \/ HandleEvent(w)

Next == FromOutside \/ MainThread \/ Watcher \/ \E w \in Windows : Runtime(w)
Spec == Init /\ [][Next]_vars

-----------------------------------------------------------------------------
\* Nothing is under way.
BackendQuiet == ~wake /\ watcher.pc = "idle" /\ main.pc = "idle"
Quiet ==
  /\ BackendQuiet
  /\ \A w \in Windows : calls[w] = <<>> /\ replies[w] = {} /\ queues[w] = <<>> /\ ~Opening(w)

FileConfig == ParseConfig(file.text)

\* The diff base (and with it the shell that the next session gets, config_io.rs
\* configured_shell) is what the file says once the watcher is idle, whatever
\* echoes, stale reads and merged events came before.
LastMatchesFile ==
  BackendQuiet /\ file.readable /\ rift < 3 => inner.last = FileConfig

\* The control socket is served exactly when the file enables it: a write whose
\* echo the watcher drops must not leave the socket behind.
SocketFollowsFile ==
  BackendQuiet /\ file.readable /\ rift < 2
    => listener = file.text.rc

\* The theme a window shows: one that it has not set is the derived one.
Shown(w) == IF windows[w].theme = "unset" THEN DERIVED ELSE windows[w].theme

\* When nothing is under way, every window shows the theme that the file names,
\* if no two actors' steps overlapped on the way.
Converged ==
  Quiet /\ file.readable /\ rift = 0
    => \A w \in Windows : Up(w) => Shown(w) = Coerce(FileConfig.theme)

\* A window that says a setting could not be saved speaks of its latest write to it.
WarningIsNewest == \A w \in Windows : windows[w].client => windows[w].fate = "failed"

\* A write that was refused is said to have been, until the setting gets another value.
FailureShown == \A w \in Windows : windows[w].fate = "failed" => windows[w].client
=============================================================================
