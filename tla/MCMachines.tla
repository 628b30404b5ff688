------------------------------ MODULE MCMachines -----------------------------
(***************************************************************************)
(* The machines of the webview and of the back end that share no state, on *)
(* small instances.  Init picks a machine out of MACHINES and              *)
(* only that one steps: as no variable of one occurs in another, a         *)
(* property of one holds of all of them side by side exactly when it holds *)
(* of it alone.  The variables of the others stay Off.                     *)
(***************************************************************************)
EXTENDS PaneTree, TLC

CONSTANTS
  MACHINES,                                                        \* the machines to explore
  BOUNDS, MAX_PANE, MAX_GESTURES, POSITIONS, POINTS, TITLES,       \* PaneLayout
  SHOW_DELAY, MIN_VISIBLE, ECHO_WINDOW, UNKNOWN_FALLBACK, HOLD,
  WINDOW_CLOSE, FLASH, METAS,                                      \* ActivityLine
  VERSIONS, MAX_COMMANDS, MAX_OPENINGS,                            \* Updates
  TEXTS,                                                           \* CopyOnSelect
  MAX_TAB,                                                         \* KeyboardFocus, MAX_PANE too
  QUERIES, MALFORMED, COLORS, MAX_MATCHES,                         \* FindBar
  CHARACTERS, DEFAULTS, KEY_FILES, LISTINGS, PALETTES, MAX_READS,  \* Catalogs
  LISTED, OTHERS, KIND, MIN_SIZE, MAX_SIZE, TYPED, MAX_CHOICES,
  MAX_MOUNTS,                                                      \* SettingsForm
  INSTANCES, MAX_BINDS, MAX_APPLIES,                               \* ControlSocket
  CONNECTIONS, MAX_WORKERS, MAX_REQUESTS, MAX_SWITCHES,            \* ControlChannel
  SESSIONS, JOBS, TITLE_EVERY, MAX_CHANGES, MAX_EVENTS, MAX_OPEN,  \* TitlePoller
  PATHS, MAX_RELOADS,                                              \* ServicesQueue
  TREE_VERSIONS, INSTALLED, MAX_CALLS, MAX_OVERLAP                 \* Enhancements

\* What is proved for every value of the constants needs this much of them.
ASSUME SocketAssumption == "nobody" \notin INSTANCES /\ MAX_BINDS \in Nat /\ MAX_APPLIES \in Nat
ASSUME ChannelAssumption ==
  /\ IsFiniteSet(CONNECTIONS) /\ "nobody" \notin CONNECTIONS
  /\ MAX_WORKERS \in Nat /\ MAX_REQUESTS \in Nat /\ MAX_SWITCHES \in Nat
ASSUME PollerAssumption ==
  /\ IsFiniteSet(SESSIONS) /\ "?" \notin JOBS
  /\ TITLE_EVERY \in Nat \ {0} /\ MAX_CHANGES \in Nat
ASSUME TreesAssumption ==
  /\ IsFiniteSet(TREE_VERSIONS) /\ "none" \notin TREE_VERSIONS
  /\ \A there \in INSTALLED : there \in Seq(TREE_VERSIONS)
ASSUME CopyAssumption == "-" \notin TEXTS /\ "" \notin TEXTS
ASSUME FindAssumption == MAX_MATCHES \in Nat
ASSUME FormAssumption ==
  /\ "" \notin LISTED /\ "custom" \notin LISTED
  /\ MIN_SIZE \in Int /\ MAX_SIZE \in Int /\ MIN_SIZE <= MAX_SIZE /\ TYPED \subseteq Int
  /\ MAX_MOUNTS \in Nat
ASSUME FilesAssumption == \A f \in KEY_FILES : f \in Seq({f[n] : n \in DOMAIN f})
ASSUME KeyboardAssumption == MAX_TAB \in Nat \ {0} /\ MAX_PANE \in Nat \ {0}
ASSUME ActivityAssumption ==
  /\ SHOW_DELAY \in Nat /\ MIN_VISIBLE \in Nat /\ ECHO_WINDOW \in Nat /\ UNKNOWN_FALLBACK \in Nat
  /\ HOLD \in Nat /\ WINDOW_CLOSE \in Nat /\ FLASH \in Nat
  /\ \A m \in METAS : m.name \in {"", "tool", "ai", "repl", "?"}

VARIABLES
  machine,
  tree, focus, nextPane, bounds, gestures, sources, pin, title, drag, ratio, frame,
  pickup, pointer, hover, preview, swallow,
  line, timer, rendered, flash, polled, latched, running, foreground, alive,
  up, pending, checks, downloads, autoDone, scheduled, prefs, served, mirror, connected,
  told, toMain, toSettings, clicks, openings,
  gestureMachine, fallback, captured, button, events, selection, clipboard, gesture,
  life, host, observed, fitFrame, faces, ready, stored, bus, listener, options, grid, buffer,
  scrolled, bar, notice, changes, missed,
  ui, keyboard,
  find, addon, pressed,
  catalog, disk, signal, hearing, lost, reads, issued, applied, newest, keymap, picker, theme,
  setting, news, terminal, chrome,
  tabs, page, scripts, reading, query, selected, overlay, fresh, reset, recent, keys, runs, astray,
  row, mounted, mount, snapshot, file, broadcasts, subscribed, shown, custom, listing, draft,
  focused, asked, loads, revision, queries, kind, choices, chosen, surprised, answered,
  strip, place, held, capture, tabDrag, mark, renaming, done, edits, press, ends, wrong, orphaned,
  node, lock, binds, applies, proc, left,
  server, slots, conn, nextId, waiters, sent, requested, replies, listening, switches, asker, ran,
  extra,
  session, front, jobs, latch, poller, prevTitles, prevBusy, outbox, inbox, heard, unheard, current,
  queue, provider, mainPage, boot, booted, hook, stale, nudges, takes, orphans, batches, openTabs,
  reloads, remounted, opened, lostPaths,
  trees, builder, builds, cut, shell

panesVars ==
  <<tree, focus, nextPane, bounds, gestures, sources, pin, title, drag, ratio, frame, pickup,
    pointer, hover, preview, swallow>>
activityVars == <<line, timer, rendered, flash, polled, latched, running, foreground, alive>>
updateVars ==
  <<up, pending, checks, downloads, autoDone, scheduled, prefs, served, mirror, connected,
    told, toMain, toSettings, clicks, openings>>
copyVars ==
  <<gestureMachine, fallback, captured, button, events, selection, clipboard, gesture>>
hostVars ==
  <<life, host, observed, fitFrame, faces, ready, stored, bus, listener, options, grid,
    buffer, scrolled, bar, notice, changes, missed>>
keyboardVars == <<ui, keyboard>>
findVars == <<find, addon, pressed>>
catalogVars ==
  <<catalog, disk, signal, hearing, lost, reads, issued, applied, newest, keymap, picker, theme,
    setting, news, terminal, chrome>>
paletteVars ==
  <<tabs, page, scripts, reading, query, selected, overlay, fresh, reset, recent, keys, runs,
    astray>>
formVars ==
  <<row, mounted, mount, snapshot, file, broadcasts, subscribed, shown, custom, listing, draft,
    focused, asked, loads, revision, queries, kind, choices, chosen, surprised, answered>>
stripVars ==
  <<strip, place, held, capture, tabDrag, mark, renaming, done, edits, press, ends, wrong,
    orphaned>>
socketVars == <<node, lock, binds, applies, proc, left>>
channelVars ==
  <<server, slots, conn, nextId, waiters, sent, requested, replies, listening, switches, asker,
    ran, extra>>
pollerVars ==
  <<session, front, jobs, latch, poller, prevTitles, prevBusy, outbox, inbox, heard, unheard,
    current>>
servicesVars ==
  <<queue, provider, mainPage, boot, booted, hook, stale, nudges, takes, orphans, batches,
    openTabs, reloads, remounted, opened, lostPaths>>
versionVars == <<trees, builder, builds, cut, shell>>

-----------------------------------------------------------------------------
(* The instances: panes at a tenth of the pixels, minimum 8 x 6, a 1 pixel *)
(* divider.                                                                *)

Size(w, h) == [x |-> 0, y |-> 0, w |-> w, h |-> h]
TwoSizes == {Size(21, 13), Size(30, 13)}
EdgePositions == {0 - 3, 12}
CornerPoints == {<<1, 6>>, <<15, 12>>, <<16, 4>>}

ToolOrAgent == [name : {"tool"}, args : {"bare"}, tty : {"yes"}]
               \cup [name : {"ai"}, args : {"bare", "oneShot"}, tty : {"yes"}]

Bind(tokens, x) == [tokens |-> tokens, command |-> x]
NewTab == [c \in {[mods |-> {"cmd"}, key |-> "t"]} |-> "cmd1"]
KeyFiles == {<<Bind(<<"meta", "t">>, "none"), Bind(<<"cmd", "junk">>, "cmd2")>>,
             <<Bind(<<"cmd", "c">>, "cmd2"), Bind(<<"esc">>, "cmd2"),
               Bind(<<"shift", "cmd", "esc">>, "cmd2"), Bind(<<"cmd", "shift", "escape">>, "script.run")>>}

\* Two commands that run, two that open a page; the names as initials and other letters.
Cmd(id, needs, param) == [id |-> id, needs |-> needs, param |-> param]
Registry == <<Cmd("tab.new", 0, "nothing"), Cmd("tab.close", 1, "nothing"),
              Cmd("theme.select", 0, "themes"), Cmd("script.run", 0, "scripts")>>
Letter(c) == [letter |-> c, start |-> FALSE]
Initial(c) == [letter |-> c, start |-> TRUE]
Names == ("tab.new" :> <<Initial("t"), Letter("n")>>) @@ ("tab.close" :> <<Initial("t"), Initial("t")>>)
         @@ ("theme.select" :> <<Letter("t"), Initial("n")>>) @@ ("script.run" :> <<Initial("n")>>)
         @@ ("night" :> <<Initial("n"), Letter("t")>>) @@ ("mine" :> <<Letter("n")>>)
         @@ ("build" :> <<Initial("t"), Letter("n"), Letter("t")>>)
TypedQueries == {<<>>, <<"t", "t">>}
ThemeLists == {<<"night">>, <<"night", "mine">>}
ScriptLists == {<<>>, <<"build">>}

\* The trees that programs of two versions, and of a third before them, left behind.
LeftBehind == {<<>>, <<"1">>, <<"1", "2">>, <<"1", "2", "3">>}

ShellKinds == [v \in {"", "a"} |-> "zsh"] @@ [v \in {"b", "c"} |-> "fish"]

Panes == INSTANCE PaneLayout
Activity == INSTANCE ActivityLine
Update == INSTANCE Updates
Copy == INSTANCE CopyOnSelect WITH machine <- gestureMachine
\* A terminal, once in the light of its size and font, once of its buffer and colors; hidden or
\* shown in both.
Host == INSTANCE TerminalHost WITH
  SIZES <- {1, 2}, FONTS <- {"f", "g"}, THEMES <- {"t"}, LINES <- {0}, MAX_CHANGES <- 1,
  STORED <- [font : {"f"}, theme : {"t"}, lines : {0}, write : {"allow"}],
  frame <- fitFrame
View == INSTANCE TerminalHost WITH
  SIZES <- {1}, FONTS <- {"f"}, THEMES <- {"t", "u"}, LINES <- {0, 1}, MAX_CHANGES <- 1,
  STORED <- [font : {"f"}, theme : {"t"}, lines : {1}, write : {"deny"}],
  frame <- fitFrame
Keyboard == INSTANCE KeyboardFocus WITH focus <- keyboard
Find == INSTANCE FindBar
UserFiles == INSTANCE Catalogs
Commands == INSTANCE Palette WITH
  COMMANDS <- Registry, THEME_LISTS <- ThemeLists, LISTINGS <- ScriptLists, QUERIES <- TypedQueries,
  LETTERS <- Names, MAX_TABS <- 1, MAX_RUNS <- 2, MAX_KEYS <- 1
Form == INSTANCE SettingsForm WITH
  stored <- snapshot, news <- broadcasts, hearing <- subscribed, applied <- answered
Strip == INSTANCE TabStrip WITH TABS <- 3, MAX_EDITS <- 2, drag <- tabDrag
Socket == INSTANCE ControlSocket
Channel == INSTANCE ControlChannel WITH
  listener <- server, pending <- waiters, asked <- requested
Poller == INSTANCE TitlePoller WITH changes <- jobs, shown <- heard, missed <- unheard
Finder == INSTANCE ServicesQueue WITH
  page <- mainPage, listener <- hook, replies <- batches, tabs <- openTabs, lost <- lostPaths
Trees == INSTANCE Enhancements WITH VERSIONS <- TREE_VERSIONS, tree <- trees

Off == "off"

PanesInit ==
  IF machine = "panes" THEN Panes!Init
  ELSE /\ tree = Off /\ focus = Off /\ nextPane = Off /\ bounds = Off /\ gestures = Off
       /\ sources = Off /\ pin = Off /\ title = Off /\ drag = Off /\ ratio = Off /\ frame = Off
       /\ pickup = Off /\ pointer = Off /\ hover = Off /\ preview = Off /\ swallow = Off

ActivityInit ==
  IF machine = "activity" THEN Activity!Init
  ELSE /\ line = Off /\ timer = Off /\ rendered = Off /\ flash = Off /\ polled = Off
       /\ latched = Off /\ running = Off /\ foreground = Off /\ alive = Off

UpdateInit ==
  IF machine = "update" THEN Update!Init
  ELSE /\ up = Off /\ pending = Off /\ checks = Off /\ downloads = Off /\ autoDone = Off
       /\ scheduled = Off /\ prefs = Off /\ served = Off /\ mirror = Off /\ connected = Off
       /\ told = Off /\ toMain = Off /\ toSettings = Off /\ clicks = Off /\ openings = Off

CopyInit ==
  IF machine = "copy" THEN Copy!Init
  ELSE /\ gestureMachine = Off /\ fallback = Off /\ captured = Off /\ button = Off
       /\ events = Off /\ selection = Off /\ clipboard = Off /\ gesture = Off

HostInit ==
  IF machine \in {"host", "view"} THEN (IF machine = "host" THEN Host!Init ELSE View!Init)
  ELSE /\ life = Off /\ host = Off /\ observed = Off /\ fitFrame = Off /\ faces = Off
       /\ ready = Off /\ stored = Off /\ bus = Off /\ listener = Off /\ options = Off
       /\ grid = Off /\ buffer = Off /\ scrolled = Off /\ bar = Off /\ notice = Off
       /\ changes = Off /\ missed = Off

KeyboardInit ==
  IF machine = "keyboard" THEN Keyboard!Init ELSE ui = Off /\ keyboard = Off

FindInit ==
  IF machine = "find" THEN Find!Init ELSE find = Off /\ addon = Off /\ pressed = Off

CatalogInit ==
  IF machine = "catalogs" THEN UserFiles!Init
  ELSE /\ catalog = Off /\ disk = Off /\ signal = Off /\ hearing = Off /\ lost = Off
       /\ reads = Off /\ issued = Off /\ applied = Off /\ newest = Off /\ keymap = Off
       /\ picker = Off /\ theme = Off /\ setting = Off /\ news = Off /\ terminal = Off
       /\ chrome = Off

PaletteInit ==
  IF machine = "palette" THEN Commands!Init
  ELSE /\ tabs = Off /\ page = Off /\ scripts = Off /\ reading = Off /\ query = Off
       /\ selected = Off /\ overlay = Off /\ fresh = Off /\ reset = Off /\ recent = Off
       /\ keys = Off /\ runs = Off /\ astray = Off

FormInit ==
  IF machine = "form" THEN Form!Init
  ELSE /\ row = Off /\ mounted = Off /\ mount = Off /\ snapshot = Off /\ file = Off
       /\ broadcasts = Off /\ subscribed = Off /\ shown = Off /\ custom = Off /\ listing = Off
       /\ draft = Off /\ focused = Off /\ asked = Off /\ loads = Off /\ revision = Off
       /\ queries = Off /\ kind = Off /\ choices = Off /\ chosen = Off /\ surprised = Off
       /\ answered = Off

StripInit ==
  IF machine = "strip" THEN Strip!Init
  ELSE /\ strip = Off /\ place = Off /\ held = Off /\ capture = Off /\ tabDrag = Off
       /\ mark = Off /\ renaming = Off /\ done = Off /\ edits = Off /\ press = Off
       /\ ends = Off /\ wrong = Off /\ orphaned = Off

SocketInit ==
  IF machine = "socket" THEN Socket!Init
  ELSE /\ node = Off /\ lock = Off /\ binds = Off /\ applies = Off /\ proc = Off /\ left = Off

ChannelInit ==
  IF machine = "channel" THEN Channel!Init
  ELSE /\ server = Off /\ slots = Off /\ conn = Off /\ nextId = Off /\ waiters = Off
       /\ sent = Off /\ requested = Off /\ replies = Off /\ listening = Off /\ switches = Off
       /\ asker = Off /\ ran = Off /\ extra = Off

PollerInit ==
  IF machine = "poller" THEN Poller!Init
  ELSE /\ session = Off /\ front = Off /\ jobs = Off /\ latch = Off /\ poller = Off
       /\ prevTitles = Off /\ prevBusy = Off /\ outbox = Off /\ inbox = Off /\ heard = Off
       /\ unheard = Off /\ current = Off

FinderInit ==
  IF machine = "services" THEN Finder!Init
  ELSE /\ queue = Off /\ provider = Off /\ mainPage = Off /\ boot = Off /\ booted = Off
       /\ hook = Off /\ stale = Off /\ nudges = Off /\ takes = Off /\ orphans = Off
       /\ batches = Off /\ openTabs = Off /\ reloads = Off /\ remounted = Off /\ opened = Off
       /\ lostPaths = Off

VersionsInit ==
  IF machine = "versions" THEN Trees!Init
  ELSE trees = Off /\ builder = Off /\ builds = Off /\ cut = Off /\ shell = Off

Init ==
  /\ machine \in MACHINES
  /\ PanesInit /\ ActivityInit /\ UpdateInit /\ CopyInit
  /\ HostInit /\ KeyboardInit /\ FindInit /\ CatalogInit
  /\ PaletteInit /\ FormInit /\ StripInit
  /\ SocketInit /\ ChannelInit /\ PollerInit /\ FinderInit
  /\ VersionsInit

Next ==
  /\ \/ machine = "panes" /\ Panes!Next
     \/ machine = "activity" /\ Activity!Next
     \/ machine = "update" /\ Update!Next
     \/ machine = "copy" /\ Copy!Next
     \/ machine = "host" /\ Host!Next
     \/ machine = "view" /\ View!Next
     \/ machine = "keyboard" /\ Keyboard!Next
     \/ machine = "find" /\ Find!Next
     \/ machine = "catalogs" /\ UserFiles!Next
     \/ machine = "palette" /\ Commands!Next
     \/ machine = "form" /\ Form!Next
     \/ machine = "strip" /\ Strip!Next
     \/ machine = "socket" /\ Socket!Next
     \/ machine = "channel" /\ Channel!Next
     \/ machine = "poller" /\ Poller!Next
     \/ machine = "services" /\ Finder!Next
     \/ machine = "versions" /\ Trees!Next
  /\ UNCHANGED machine
  /\ (machine # "panes" => UNCHANGED panesVars)
  /\ (machine # "activity" => UNCHANGED activityVars)
  /\ (machine # "update" => UNCHANGED updateVars)
  /\ (machine # "copy" => UNCHANGED copyVars)
  /\ (machine \notin {"host", "view"} => UNCHANGED hostVars)
  /\ (machine # "keyboard" => UNCHANGED keyboardVars)
  /\ (machine # "find" => UNCHANGED findVars)
  /\ (machine # "catalogs" => UNCHANGED catalogVars)
  /\ (machine # "palette" => UNCHANGED paletteVars)
  /\ (machine # "form" => UNCHANGED formVars)
  /\ (machine # "strip" => UNCHANGED stripVars)
  /\ (machine # "socket" => UNCHANGED socketVars)
  /\ (machine # "channel" => UNCHANGED channelVars)
  /\ (machine # "poller" => UNCHANGED pollerVars)
  /\ (machine # "services" => UNCHANGED servicesVars)
  /\ (machine # "versions" => UNCHANGED versionVars)

vars ==
  <<machine, panesVars, activityVars, updateVars, copyVars, hostVars, keyboardVars,
    findVars, catalogVars, paletteVars, formVars, stripVars, socketVars,
    channelVars, pollerVars, servicesVars, versionVars>>

Spec == Init /\ [][Next]_vars

-----------------------------------------------------------------------------
(* Properties, each of the machine that it names; the modules say more of  *)
(* every one.                                                              *)

(* Every variable of the machine that runs has its type.                   *)
TypeOK ==
  /\ machine = "panes" => Panes!TypeOK
  /\ machine = "activity" => Activity!TypeOK
  /\ machine = "update" => Update!TypeOK
  /\ machine = "copy" => Copy!TypeOK
  /\ machine = "host" => Host!TypeOK
  /\ machine = "view" => View!TypeOK
  /\ machine = "keyboard" => Keyboard!TypeOK
  /\ machine = "find" => Find!TypeOK
  /\ machine = "catalogs" => UserFiles!TypeOK
  /\ machine = "palette" => Commands!TypeOK
  /\ machine = "form" => Form!TypeOK
  /\ machine = "strip" => Strip!TypeOK
  /\ machine = "socket" => Socket!TypeOK
  /\ machine = "channel" => Channel!TypeOK
  /\ machine = "poller" => Poller!TypeOK
  /\ machine = "services" => Finder!TypeOK
  /\ machine = "versions" => Trees!TypeOK

(* Panes and dividers tile the content area, the tab's title is its        *)
(* focused pane's or the pin, and no frame of a drag outlives the drag     *)
(* (walkRects, deriveTitle, endDrag, endPaneDrag).                         *)
LayoutShown == machine = "panes" => Panes!Tiles /\ Panes!TitleDerived /\ Panes!DragsEndClean

(* Every step of the layout is one of the tab reducer's transitions, and   *)
(* no split and no drop takes a pane below the minimum size in a layout    *)
(* that respected it (tabReducer, canSplit, canDropEdge).                  *)
LayoutSteps == [][machine = "panes" => Panes!KeepsFloor /\ Panes!IsTabStep]_panesVars

(* The close guard sees every job a detector reports, the line is lit as   *)
(* lightActive says now, and a lit AI session is counted (isBusy,          *)
(* applyActivityTransition's timer, the setForeground dispatches).         *)
ActivityTrue ==
  machine = "activity" =>
    Activity!GuardSeesJob /\ Activity!LineFresh /\ Activity!SessionCounted

(* A phase of the line that waits for a deadline has a timer.              *)
PhaseArmed == machine = "activity" => Activity!PhaseArmed

(* The settings window's copy of the update state catches up with the      *)
(* authority's, and every row with the setting that it shows               *)
(* (useUpdateMirror, TerminalSettings).                                    *)
MirrorSettles ==
  /\ machine = "update" => Update!MirrorSettles
  /\ machine = "form" => Form!FormSettles

(* A selection gesture ends in the copy, or the discard, of what it        *)
(* selected, and a gesture on a tab in what it was on (copyOnSelect.ts,    *)
(* TabStrip).                                                              *)
GestureOutcome ==
  /\ machine = "copy" => Copy!GestureOutcome
  /\ machine = "strip" => Strip!StripOutcome

(* A terminal at rest is fitted to its size and font, shows the scrollbar  *)
(* of its buffer and has the stored options, nothing that was scheduled    *)
(* for it outlives it, and once the debounce is over its find bar has the  *)
(* highlights of the query shown (TerminalView, its teardown, FindBar).    *)
TerminalSettles ==
  /\ machine \in {"host", "view"} =>
       Host!GridSettles /\ Host!BarFresh /\ Host!OptionsFollow /\ Host!NothingOutlives
  /\ machine = "find" => Find!FindSettles

(* With nothing modal up, the keyboard is in the focused pane or in an     *)
(* input that may own it (readyFor, focusFocusedPane).                     *)
KeyboardOwner == machine = "keyboard" => Keyboard!KeyboardOwner

(* Keymap, open picker and theme show the files once their reads are done  *)
(* (rebuildKeymap, ScriptPicker, themeHotReload.ts).                       *)
CatalogsSettle == machine = "catalogs" => UserFiles!CatalogsSettle

(* Enter in the command palette runs the row that the keys lead to         *)
(* (PaletteOverlay, fuzzyFilter).                                          *)
PaletteRuns == machine = "palette" => Commands!PaletteRuns

(* A live instance keeps its socket, a socket left at the path is that of  *)
(* a crash, a client gets the answer to its own request, a stopped         *)
(* listener serves the line being read at most, no sender and no slot is   *)
(* left behind, a directory that the Finder hands over is opened once, and *)
(* no shell is started on an enhancement tree that is being removed        *)
(* (apply_with, create_socket_at, bridge_to_webview, the drains of the     *)
(* services queue, materialize_enhancements).                              *)
OutsideServed ==
  /\ machine = "socket" => Socket!SocketOwned /\ Socket!OnlyCrashesLeave /\ Socket!WantFollowed
  /\ machine = "channel" =>
       Channel!OwnAnswer /\ Channel!SendersWaited /\ Channel!OneLineMore /\ Channel!SlotsCounted
  /\ machine = "services" => Finder!OpenedOnce /\ Finder!QueueDrained
  /\ machine = "versions" => Trees!MarkerMeansWhole /\ Trees!TreesKept

(* The poller does not sleep past a session, and what it reports, changes  *)
(* only, leaves the panes busy and named as the sessions are               *)
(* (PollerGate, poll_iteration, onSessionActivity, onTitleHint).           *)
PollerTrue == machine = "poller" => Poller!NeverStranded /\ Poller!PanesTrue

-----------------------------------------------------------------------------
AllMachines == {"panes", "activity", "update", "copy", "host", "view", "keyboard", "find",
                "catalogs", "palette", "form", "strip", "socket", "channel", "poller",
                "services", "versions"}
OneMachine == {"activity"}
=============================================================================
