------------------------------- MODULE Catalogs -------------------------------
(***************************************************************************)
(* The three catalogs the main window keeps of the user's files, each read *)
(* again on a bare signal that something changed: the [keys] of the config *)
(* file (rebuildKeymap), the scripts while a picker is open (ScriptPicker) *)
(* and the themes (themeHotReload.ts), with the two consumers of the theme *)
(* that is selected, the terminals and the chrome.                         *)
(*                                                                         *)
(* A read is answered from the files whenever the backend gets to it, and  *)
(* the answers arrive in any order.  The three share no state: a behaviour *)
(* follows the one that Init picks.                                        *)
(***************************************************************************)
EXTENDS Integers, Sequences, SequencesExt

CONSTANTS CHARACTERS, \* the one-character keys
          DEFAULTS,   \* FULL_DEFAULT_KEYS: a function from some of the chords
          KEY_FILES,  \* what [keys] may hold: sequences of [tokens, command]
          LISTINGS,   \* what the scripts directory may hold
          PALETTES,   \* colors that the user's theme file may hold
          MAX_READS   \* bound: reads

VARIABLES
  catalog,   \* the one that is followed
  disk,      \* its file
  signal,    \* a change of it is announced and not yet delivered
  hearing,   \* its listener: "off", "asked" of the bus, "on"
  lost,      \* history: a change was announced to nobody, and not read since
  reads,     \* reads of it under way: the number, the answer once there
  issued,    \* the number of the last read
  applied,   \* the number of the read applied last
  newest,    \* history: the highest number ever applied
  keymap, picker,             \* the effective keymap; the open picker's list, or Closed
  theme,     \* the registry's entry for the user's theme
  setting, news,              \* appearance.theme as stored here; settings:changed under way
  terminal, chrome            \* the colors the two consumers show

reading == <<catalog, disk, signal, hearing, lost, reads, issued, applied, newest>>
painting == <<theme, setting, news, terminal, chrome>>
vars == <<reading, keymap, picker, painting>>

Closed == "closed"
Default == "default"
NoTokens == "none"
Absent == [file |-> "absent", tokens |-> NoTokens]
ThemeFiles == {"absent", "invalid"} \cup PALETTES
Unanswered == <<>>
ThemeIds == {"builtin", "user"}

Contents(c) ==
  CASE c = "keys" -> KEY_FILES [] c = "scripts" -> LISTINGS [] c = "themes" -> ThemeFiles

-----------------------------------------------------------------------------
(* Chords and the keymap.                                                  *)

MODIFIERS ==
  [cmd |-> "cmd", meta |-> "cmd", command |-> "cmd", ctrl |-> "ctrl", control |-> "ctrl",
   alt |-> "alt", option |-> "alt", opt |-> "alt", shift |-> "shift"]

KEY_ALIASES ==
  [esc |-> "escape", escape |-> "escape", enter |-> "enter", return |-> "enter",
   space |-> "space", spacebar |-> "space", tab |-> "tab", left |-> "left", right |-> "right",
   up |-> "up", down |-> "down", arrowleft |-> "left", arrowright |-> "right",
   arrowup |-> "up", arrowdown |-> "down"]

IsKeyToken(t) == t \in DOMAIN KEY_ALIASES \cup CHARACTERS
KeyToken(t) == IF t \in DOMAIN KEY_ALIASES THEN KEY_ALIASES[t] ELSE t

KeysIn(tokens) == SelectSeq(tokens, LAMBDA t : t \notin DOMAIN MODIFIERS)

\* The errors of parseChord: no key, an unknown key, more than one.
Parses(tokens) == Len(KeysIn(tokens)) = 1 /\ IsKeyToken(KeysIn(tokens)[1])

\* parseChord and canonicalChord: modifiers are a set, whatever order they were written in.
ParseChord(tokens) ==
  [mods |-> {MODIFIERS[t] : t \in ToSet(tokens) \cap DOMAIN MODIFIERS},
   key |-> KeyToken(KeysIn(tokens)[1])]

\* The keys of the terminal are not bindable, nor are copy and paste.
ValidBinding(chord) ==
  /\ "cmd" \in chord.mods \/ {"ctrl", "shift"} \subseteq chord.mods
  /\ chord.mods = {"cmd"} => chord.key \notin {"c", "v"}

Without(map, c) == [d \in DOMAIN map \ {c} |-> map[d]]
With(map, c, command) == [d \in DOMAIN map \cup {c} |-> IF d = c THEN command ELSE map[d]]

\* (mutation) what may not be bound is bound like the rest
MergedUnchecked(file) ==
  FoldLeft(LAMBDA map, entry :
             CASE ~Parses(entry.tokens) -> map
               [] Parses(entry.tokens) /\ entry.command = "none" -> Without(map, ParseChord(entry.tokens))
               [] OTHER -> With(map, ParseChord(entry.tokens), entry.command),
           DEFAULTS, file)

\* mergeKeymap: the last of the user's entries wins, however it spells the chord; "none"
\* unbinds; an entry that does not parse or may not be bound is skipped.
Merged(file) ==
  FoldLeft(LAMBDA map, entry :
             CASE ~Parses(entry.tokens) -> map
               [] Parses(entry.tokens) /\ entry.command = "none" -> Without(map, ParseChord(entry.tokens))
               [] Parses(entry.tokens) /\ entry.command # "none" /\ ~ValidBinding(ParseChord(entry.tokens)) -> map
               [] OTHER -> With(map, ParseChord(entry.tokens), entry.command),
           DEFAULTS, file)

PALETTE_ONLY_COMMANDS == {"theme.select", "script.run"}

Held == SUBSET {"cmd", "ctrl", "alt", "shift"}

\* The key of an event is spelled like a token of a binding, once normalized.
ChordFromEvent(held, key) == [mods |-> held, key |-> KeyToken(key)]

\* describeTarget: every input owns its keys, but the one that xterm types into.
IsEditable(target) == target \notin {"page", "terminal"}

\* The command a keystroke runs, if any; the others go on to where they were typed.
Resolve(chord, target) ==
  IF IsEditable(target) \/ chord \notin DOMAIN keymap THEN "none"
  ELSE IF keymap[chord] \in PALETTE_ONLY_COMMANDS THEN "none" ELSE keymap[chord]

TypeOK ==
  /\ catalog \in {"keys", "scripts", "themes"} /\ disk \in Contents(catalog)
  /\ {signal, lost} \subseteq BOOLEAN /\ hearing \in {"off", "asked", "on"}
  /\ \A r \in reads : /\ r.id \in 1..MAX_READS
                      /\ r.answer = Unanswered \/ r.answer[1] \in Contents(catalog)
  /\ {issued, applied, newest} \subseteq 0..MAX_READS
  /\ \A c \in DOMAIN keymap : ValidBinding(c)
  /\ picker \in LISTINGS \cup {Closed, "loading"}
  /\ theme \in [file : {"absent", "invalid", "valid"}, tokens : PALETTES \cup {NoTokens}]
  /\ setting \in ThemeIds /\ {terminal, chrome} \subseteq PALETTES \cup {Default}
  /\ \A n \in DOMAIN news : news[n] \in ThemeIds

-----------------------------------------------------------------------------
(* The theme registry.                                                     *)

\* (mutation) what was last good goes with the rest
RegisteredAfresh(file) ==
  CASE file = "absent" -> Absent
    [] file = "invalid" -> [file |-> "invalid", tokens |-> NoTokens]
    [] OTHER -> [file |-> "valid", tokens |-> file]

\* registerUserThemes replaces the set; an edit that does not parse keeps the last good tokens.
Registered(file) ==
  CASE file = "absent" -> Absent
    [] file = "invalid" -> [file |-> "invalid", tokens |-> theme.tokens]
    [] OTHER -> [file |-> "valid", tokens |-> file]

ResolveTheme(id, entry) ==
  IF id = "user" /\ entry.tokens # NoTokens THEN entry.tokens ELSE Default

IsRegistered(id) == id = "user" => theme.file # "absent"

\* decideHotReload over the entry just registered.
HotReload(entry) ==
  CASE setting # "user" -> UNCHANGED <<setting, news>>
    [] setting = "user" /\ entry.file = "absent" -> setting' = "builtin" /\ news' = Append(news, "builtin")
    [] setting = "user" /\ entry.file = "invalid" -> UNCHANGED <<setting, news>>
    [] OTHER -> news' = Append(news, "user") /\ UNCHANGED setting

-----------------------------------------------------------------------------
\* keys was read at the mount; boot hydrated the theme registry and painted.
Init ==
  /\ catalog \in {"keys", "scripts", "themes"} /\ disk \in Contents(catalog)
  /\ signal = FALSE /\ lost = FALSE
  /\ hearing = IF catalog = "scripts" THEN "off" ELSE "asked"
  /\ IF catalog = "keys" THEN reads = {[id |-> 1, answer |-> Unanswered]} /\ issued = 1
                         ELSE reads = {} /\ issued = 0
  /\ applied = 0 /\ newest = 0
  /\ keymap = DEFAULTS /\ picker = Closed
  /\ theme = (CASE catalog # "themes" \/ disk = "absent" -> Absent
                [] catalog = "themes" /\ disk = "invalid" -> [file |-> "invalid", tokens |-> NoTokens]
                [] OTHER -> [file |-> "valid", tokens |-> disk])
  /\ setting \in ThemeIds /\ news = <<>>
  /\ terminal = ResolveTheme(setting, theme) /\ chrome = terminal

\* Somebody writes the file; the watcher signals, one signal standing for several.
Write(content) ==
  /\ issued < MAX_READS /\ content # disk
  /\ disk' = content /\ signal' = TRUE
  /\ UNCHANGED <<catalog, hearing, lost, reads, issued, applied, newest, keymap, picker, painting>>

Issue ==
  /\ issued < MAX_READS /\ issued' = issued + 1
  /\ reads' = reads \cup {[id |-> issued + 1, answer |-> Unanswered]}

\* The bus answers listen.
Subscribed ==
  /\ hearing = "asked" /\ hearing' = "on"
  /\ UNCHANGED <<catalog, disk, signal, lost, reads, issued, applied, newest, keymap, picker,
                 painting>>

\* A signal that comes before the listener is lost, and nothing reads again for it.
Signal ==
  /\ signal /\ signal' = FALSE
  /\ IF hearing = "on" THEN Issue /\ lost' = FALSE ELSE lost' = TRUE /\ UNCHANGED <<reads, issued>>
  /\ UNCHANGED <<catalog, disk, hearing, applied, newest, keymap, picker, painting>>

\* The scripts have a listener only while the picker is open.
OpenPicker ==
  /\ catalog = "scripts" /\ picker = Closed /\ Issue
  /\ picker' = "loading" /\ hearing' = "asked" /\ lost' = FALSE
  /\ UNCHANGED <<catalog, disk, signal, applied, newest, keymap, painting>>

\* The unmount drops the answers still to come.
ClosePicker ==
  /\ picker # Closed /\ picker' = Closed /\ reads' = {} /\ hearing' = "off"
  /\ UNCHANGED <<catalog, disk, signal, lost, issued, applied, newest, keymap, painting>>

\* The backend reads the file.
Answer(r) ==
  /\ r \in reads /\ r.answer = Unanswered
  /\ reads' = (reads \ {r}) \cup {[r EXCEPT !.answer = <<disk>>]}
  /\ UNCHANGED <<catalog, disk, signal, hearing, lost, issued, applied, newest, keymap, picker,
                 painting>>

Received(c, r) ==
  /\ catalog = c /\ r \in reads /\ r.answer # Unanswered
  /\ reads' = reads \ {r}
  /\ newest' = IF r.id > newest THEN r.id ELSE newest
  /\ UNCHANGED <<catalog, disk, signal, hearing, lost, issued>>

RebuildKeymap(r) ==
  /\ Received("keys", r)
  /\ keymap' = Merged(r.answer[1]) /\ applied' = r.id
  /\ UNCHANGED <<picker, painting>>

\* (mutation) any answer is shown
ShowAnyScripts(r) ==
  /\ Received("scripts", r)
  /\ picker' = r.answer[1] /\ applied' = r.id
  /\ UNCHANGED <<keymap, painting>>

\* Only the answer to the last request is shown.
ShowScripts(r) ==
  /\ Received("scripts", r)
  /\ IF r.id = issued
     THEN picker' = r.answer[1] /\ applied' = r.id
     ELSE UNCHANGED <<picker, applied>>
  /\ UNCHANGED <<keymap, painting>>

ReloadThemes(r) ==
  /\ Received("themes", r)
  /\ theme' = Registered(r.answer[1]) /\ applied' = r.id
  /\ HotReload(theme')
  /\ UNCHANGED <<keymap, picker, terminal, chrome>>

-----------------------------------------------------------------------------
\* The palette of this window lists what is registered.
SelectTheme(id) ==
  /\ catalog = "themes" /\ news = <<>> /\ IsRegistered(id) /\ id # setting
  /\ setting' = id /\ news' = Append(news, id)
  /\ UNCHANGED <<reading, keymap, picker, theme, terminal, chrome>>

\* The settings window, or an edit of the config file, which may name a theme that is not there.
SelectElsewhere(id) ==
  /\ catalog = "themes" /\ news = <<>> /\ id # setting
  /\ news' = Append(news, id)
  /\ UNCHANGED <<reading, keymap, picker, theme, setting, terminal, chrome>>

\* (mutation) the terminals take the id they show already for an echo
PaintChromeOnly ==
  /\ news # <<>> /\ news' = Tail(news)
  /\ LET id == Head(news) IN
       /\ terminal' = IF id # setting THEN ResolveTheme(id, theme) ELSE terminal
       /\ chrome' = ResolveTheme(id, theme)
       /\ setting' = id
  /\ UNCHANGED <<reading, keymap, picker, theme>>

\* applyThemeSettingsChange: an id that is not registered leaves the terminals as they are.
PaintTerminal(id) ==
  terminal' = IF IsRegistered(id) THEN ResolveTheme(id, theme) ELSE terminal

\* settings:changed reaches the store, whoever sent it (a reload too, which may undo a choice
\* on its way), the terminals and the chrome.
Paint ==
  /\ news # <<>> /\ news' = Tail(news)
  /\ LET id == Head(news) IN
       /\ PaintTerminal(id)
       /\ chrome' = ResolveTheme(id, theme)
       /\ setting' = id
  /\ UNCHANGED <<reading, keymap, picker, theme>>

Next ==
  \/ \E f \in Contents(catalog) : Write(f)
  \/ Subscribed \/ Signal
  \/ \E r \in reads : Answer(r) \/ RebuildKeymap(r) \/ ShowScripts(r) \/ ReloadThemes(r)
  \/ \E id \in ThemeIds : SelectTheme(id) \/ SelectElsewhere(id)
  \/ OpenPicker \/ ClosePicker \/ Paint

Spec == Init /\ [][Next]_vars

-----------------------------------------------------------------------------
(* Properties.                                                             *)

Settled(c) == catalog = c /\ ~signal /\ ~lost /\ reads = {}

\* What the user's entries say of a chord, if anything.
Entries(chord) ==
  {n \in DOMAIN disk : /\ Parses(disk[n].tokens)
                       /\ ParseChord(disk[n].tokens) = chord
                       /\ disk[n].command = "none" \/ ValidBinding(chord)}
Bound(chord) ==
  IF Entries(chord) = {} THEN IF chord \in DOMAIN DEFAULTS THEN DEFAULTS[chord] ELSE "none"
  ELSE disk[CHOOSE n \in Entries(chord) : \A m \in Entries(chord) : m <= n].command

(* Once its reads are done, and no change was announced before there was a *)
(* listener, a catalog shows the files: an open picker always, whatever    *)
(* order the answers came in; the keymap: a keystroke in a terminal runs   *)
(* what the last valid entry of the file for its chord says, unless an     *)
(* older answer came last, which nothing in the code prevents; and the     *)
(* theme that is selected is in the same colors in the terminals and in    *)
(* the chrome, the last good ones when its file no longer parses.          *)
CatalogsSettle ==
  /\ picker # Closed /\ Settled("scripts") => picker = disk
  /\ Settled("keys") /\ applied = newest =>
       \A held \in Held, key \in CHARACTERS \cup {"escape"} :
         LET chord == ChordFromEvent(held, key) IN
           Resolve(chord, "terminal") =
             IF Bound(chord) \in PALETTE_ONLY_COMMANDS THEN "none" ELSE Bound(chord)
  /\ Settled("themes") /\ news = <<>> /\ IsRegistered(setting) =>
       terminal = ResolveTheme(setting, theme) /\ chrome = terminal

=============================================================================
