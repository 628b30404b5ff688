------------------------------- MODULE TerminalHost ------------------------------
(***************************************************************************)
(* One mounted terminal and what the webview keeps beside it: the cell     *)
(* grid that follows the host's size through the resize observer and one   *)
(* frame, the options that follow the stored settings, the scrollbar       *)
(* overlay, the clipboard notice, and the teardown of it all               *)
(* (TerminalView.tsx, mountTerminal.ts, resizeCoalescer.ts, scrollbar.ts,  *)
(* clipboardNotice.ts).                                                    *)
(*                                                                         *)
(* xterm.js and the browser are outside: what they may do to the buffer,   *)
(* and when they announce it, is nondeterministic.                         *)
(***************************************************************************)
EXTENDS Naturals, Sequences

CONSTANTS SIZES,       \* sizes of a host that is laid out; Hidden is display:none
          FONTS, THEMES,
          LINES,       \* scrollback caps
          STORED,      \* settings to begin with
          MAX_CHANGES  \* bound: settings changed

VARIABLES
  life,      \* "new", "mounted", "gone"
  host,      \* client size of the host element
  observed,  \* the resize observer has a change to deliver
  frame,     \* the coalescer waits for its frame
  faces,     \* fonts whose face this document has loaded
  ready,     \* document.fonts.ready, as taken at the mount, is still to resolve
  stored,    \* the settings
  bus,       \* broadcasts on their way to this terminal
  listener,  \* "off", "asked", "on", or "dropped": torn down before it was registered
  options,   \* font, theme and scrollback of the live terminal
  grid,      \* what the cell grid was last fitted to: host, font and whether its face was there
  buffer,    \* scrollback lines, first line shown, alternate screen
  scrolled,  \* a DOM scroll event of the viewport is still to come
  bar,       \* what the overlay was painted for, or NoBar
  notice,    \* the notice is up and its timer runs
  changes,   \* for the bound
  missed     \* history: changes no listener heard, faces and trims that no code looks at

layout == <<host, observed, frame>>
fonts == <<faces, ready>>
settings == <<stored, bus, listener>>
view == <<buffer, scrolled>>
vars == <<life, layout, fonts, settings, options, grid, view, bar, notice,
          changes, missed>>

Hidden == 0
NoBar == [shown |-> FALSE]
NoLines == [base |-> 0, top |-> 0, alt |-> FALSE]
NoFit == [host |-> Hidden, font |-> "none", face |-> FALSE]
Mounted == life = "mounted"
Misses == {"setting", "face", "trim"}

Broadcasts == [key : {"font"}, value : FONTS] \cup [key : {"theme"}, value : THEMES]
              \cup [key : {"lines"}, value : LINES]

TypeOK ==
  /\ life \in {"new", "mounted", "gone"}
  /\ host \in SIZES \cup {Hidden}
  /\ {observed, frame, ready, scrolled, notice} \subseteq BOOLEAN
  /\ faces \subseteq FONTS
  /\ stored \in [font : FONTS, theme : THEMES, lines : LINES, write : {"allow", "deny"}]
  /\ bus \in Seq(Broadcasts)
  /\ listener \in {"off", "asked", "on", "dropped"}
  /\ options \in [font : FONTS, theme : THEMES, lines : LINES]
  /\ grid = NoFit \/ grid \in [host : SIZES \cup {Hidden}, font : FONTS, face : BOOLEAN]
  /\ buffer.top \in 0..buffer.base /\ buffer.base <= options.lines /\ buffer.alt \in BOOLEAN
  /\ changes \in 0..MAX_CHANGES /\ missed \subseteq Misses

Chosen == [font |-> stored.font, theme |-> stored.theme, lines |-> stored.lines]

Init ==
  /\ life = "new"
  /\ host \in SIZES \cup {Hidden} /\ observed = FALSE /\ frame = FALSE
  /\ stored \in STORED
  /\ faces \in {{}, {stored.font}}  \* the boot gate loaded it, or ran into its timeout
  /\ ready = FALSE
  /\ bus = <<>> /\ listener = "off"
  /\ options = Chosen /\ grid = NoFit
  /\ buffer = NoLines /\ scrolled = FALSE
  /\ bar = NoBar /\ notice = FALSE /\ changes = 0 /\ missed = {}

-----------------------------------------------------------------------------
(* The three things a change ends in.                                      *)

\* (mutation) a second tick replaces the frame under way with none
TickToggles == frame' = (Mounted /\ ~frame)

\* coalescer.tick: one frame for any burst, none after the teardown.
Tick == frame' = Mounted

\* handle.fit: to the host as it is now. The fit addon leaves a hidden host alone, or
\* falls to its smallest grid; a new grid reflows the buffer.
Fit ==
  /\ grid' \in {[host |-> host, font |-> options'.font, face |-> options'.font \in faces]}
               \cup (IF host = Hidden THEN {grid} ELSE {})
  /\ \/ grid' = grid /\ buffer' = buffer
     \/ grid' # grid /\ \E base \in 0..options'.lines :
          buffer' = [base |-> base, alt |-> buffer.alt,
                     top |-> IF buffer.top = buffer.base \/ buffer.top > base THEN base
                             ELSE buffer.top]

\* computeScrollbar and resolveScrollbarPaint: shown over the main buffer, scrolled back.
Paint ==
  IF buffer.alt \/ buffer.base = buffer.top THEN NoBar
  ELSE [shown |-> TRUE, base |-> buffer.base, top |-> buffer.top, host |-> host,
        theme |-> options.theme]

Recompute == bar' = Paint' /\ missed' = missed \ {"trim"}

-----------------------------------------------------------------------------
(* The life of the component.                                              *)

\* The mount effect.
Mount ==
  /\ life = "new" /\ life' = "mounted"
  /\ UNCHANGED <<host, frame, faces, stored, bus, scrolled, notice, changes>>
  /\ observed' = TRUE /\ listener' = "asked" /\ ready' = TRUE
  /\ options' = Chosen /\ Fit /\ buffer' = buffer /\ Recompute

\* The cleanup of the effect; what the disposed terminal had counts no more.
Unmount ==
  /\ Mounted /\ life' = "gone"
  /\ observed' = FALSE /\ frame' = FALSE
  /\ listener' = IF listener = "on" THEN "off" ELSE "dropped"
  /\ bus' = <<>> /\ notice' = FALSE /\ bar' = NoBar /\ scrolled' = FALSE
  /\ options' = Chosen /\ grid' = NoFit /\ buffer' = NoLines /\ missed' = {}
  /\ UNCHANGED <<host, fonts, stored, changes>>

\* (mutation) a listener registered after the teardown stays
ListenRegardless ==
  /\ listener \in {"asked", "dropped"} /\ listener' = "on"
  /\ UNCHANGED <<life, layout, fonts, stored, bus, options, grid, view, bar, notice,
                 changes, missed>>

\* realObserveSettings: the registration resolves, too late perhaps.
Listen ==
  /\ listener \in {"asked", "dropped"}
  /\ listener' = IF listener = "asked" THEN "on" ELSE "off"
  /\ UNCHANGED <<life, layout, fonts, stored, bus, options, grid, view, bar, notice,
                 changes, missed>>

-----------------------------------------------------------------------------
(* Size and fonts.                                                         *)

\* The window, a divider, or the tab being shown and hidden.
HostResizes(size) ==
  /\ size # host /\ host' = size
  /\ observed' = Mounted
  /\ UNCHANGED <<life, frame, fonts, settings, options, grid, view, bar, notice,
                 changes, missed>>

Observe ==
  /\ observed /\ observed' = FALSE
  /\ Tick
  /\ UNCHANGED <<life, host, fonts, settings, options, grid, view, bar, notice,
                 changes, missed>>

\* The coalesced run skips a host without area.
Frame ==
  /\ frame /\ frame' = FALSE
  /\ UNCHANGED <<life, host, observed, fonts, settings, options, scrolled,
                 notice, changes>>
  /\ IF host = Hidden THEN UNCHANGED <<grid, buffer, bar, missed>> ELSE Fit /\ Recompute

\* A face arrives. The promise taken at the mount covers the font of the mount alone.
FaceLoads(font) ==
  /\ font \in {stored.font, options.font} \ faces
  /\ faces' = faces \cup {font}
  /\ missed' = IF ready \/ ~Mounted THEN missed ELSE missed \cup {"face"}
  /\ UNCHANGED <<life, layout, ready, settings, options, grid, view, bar, notice, changes>>

\* fonts.ready: the faces that were loading then have arrived or failed.
FontsReady ==
  /\ ready /\ ready' = FALSE
  /\ Tick
  /\ UNCHANGED <<life, host, observed, faces, settings, options, grid, view, bar,
                 notice, changes, missed>>

-----------------------------------------------------------------------------
(* Settings.                                                               *)

ChangeSetting(key, value) ==
  /\ changes < MAX_CHANGES /\ stored[key] # value
  /\ changes' = changes + 1
  /\ stored' = [stored EXCEPT ![key] = value]
  /\ bus' = IF listener = "on" /\ key # "write" THEN Append(bus, [key |-> key, value |-> value])
            ELSE bus
  /\ missed' = IF Mounted /\ listener # "on" THEN missed \cup {"setting"} ELSE missed
  /\ UNCHANGED <<life, layout, fonts, listener, options, grid, view, bar, notice>>

\* A smaller cap drops the oldest lines; nobody is told when the first line shown stays the first.
Trimmed(lines) ==
  LET base == IF buffer.base > lines THEN lines ELSE buffer.base
      cut == buffer.base - base
  IN [buffer EXCEPT !.base = base, !.top = IF @ > cut THEN @ - cut ELSE 0]

\* One broadcast, applied by assigning options; a font re-fits, at once and wherever.
ApplySetting ==
  /\ bus # <<>> /\ bus' = Tail(bus)
  /\ UNCHANGED <<life, layout, fonts, stored, listener, notice, changes>>
  /\ LET key == Head(bus).key IN
     /\ options' = [options EXCEPT ![key] = Head(bus).value]
     /\ CASE key = "font" -> UNCHANGED scrolled /\ Fit /\ Recompute
          [] key = "theme" -> UNCHANGED <<grid, buffer, scrolled>> /\ Recompute
          [] key = "lines" ->
               /\ buffer' = Trimmed(Head(bus).value)
               /\ scrolled' = (scrolled \/ buffer'.top # buffer.top)
               /\ missed' = IF buffer' # buffer THEN missed \cup {"trim"} ELSE missed
               /\ UNCHANGED <<grid, bar>>

-----------------------------------------------------------------------------
(* The buffer, the overlay and the notice.                                 *)

\* A line of output: the view follows at the bottom, else stays with its text; onScroll.
Output ==
  /\ Mounted /\ ~buffer.alt
  /\ LET full == buffer.base = options.lines
         shift == IF full /\ buffer.top > 0 THEN buffer.top - 1 ELSE buffer.top
         base == IF full THEN buffer.base ELSE buffer.base + 1
     IN buffer' = [buffer EXCEPT !.base = base,
                                 !.top = IF buffer.top = buffer.base THEN base ELSE shift]
  /\ UNCHANGED <<life, layout, fonts, settings, options, grid, scrolled,
                 notice, changes>>
  /\ Recompute

\* The user scrolls: onScroll is silent, the DOM event follows.
Scroll(top) ==
  /\ Mounted /\ ~buffer.alt /\ top \in 0..buffer.base /\ top # buffer.top
  /\ buffer' = [buffer EXCEPT !.top = top] /\ scrolled' = TRUE
  /\ UNCHANGED <<life, layout, fonts, settings, options, grid, bar, notice,
                 changes, missed>>

ViewportScrolls ==
  /\ scrolled /\ scrolled' = FALSE
  /\ UNCHANGED <<life, layout, fonts, settings, options, grid, buffer,
                 notice, changes>>
  /\ Recompute

\* onBufferChange; the alternate screen has no scrollback, the main one is back as it was.
SwitchBuffer ==
  /\ Mounted /\ buffer' = [buffer EXCEPT !.alt = ~@]
  /\ UNCHANGED <<life, layout, fonts, settings, options, grid, scrolled,
                 notice, changes>>
  /\ Recompute

\* An OSC 52 write that the policy of this moment accepts; a burst shares one notice.
ClipboardRequest ==
  /\ Mounted /\ stored.write = "allow" /\ ~notice
  /\ notice' = TRUE
  /\ UNCHANGED <<life, layout, fonts, settings, options, grid, view, bar, changes, missed>>

NoticeEnds ==
  /\ notice /\ notice' = FALSE
  /\ UNCHANGED <<life, layout, fonts, settings, options, grid, view, bar, changes, missed>>

Next ==
  \/ Mount \/ Unmount \/ Listen \/ Observe \/ Frame \/ FontsReady \/ ApplySetting
  \/ \E size \in SIZES \cup {Hidden} : HostResizes(size)
  \/ \E font \in FONTS : FaceLoads(font)
  \/ \E font \in FONTS : ChangeSetting("font", font)
  \/ \E theme \in THEMES : ChangeSetting("theme", theme)
  \/ \E lines \in LINES : ChangeSetting("lines", lines)
  \/ \E write \in {"allow", "deny"} : ChangeSetting("write", write)
  \/ \E top \in 0..buffer.base : Scroll(top)
  \/ Output \/ ViewportScrolls \/ SwitchBuffer \/ ClipboardRequest \/ NoticeEnds

Spec == Init /\ [][Next]_vars

-----------------------------------------------------------------------------
(* Properties.                                                             *)

(* A visible terminal at rest is fitted to the size and to the font it has *)
(* now: through bursts of observer ticks, hides and shows, fonts changed   *)
(* while hidden and faces that land late ("the settled (final) tick is     *)
(* never dropped"). A face chosen live that this document had not loaded   *)
(* is outside.                                                             *)
GridSettles ==
  Mounted /\ host # Hidden /\ ~observed /\ ~frame /\ ~ready /\ "face" \notin missed =>
    grid = [host |-> host, font |-> options.font, face |-> options.font \in faces]

(* At rest the overlay shows this position of this buffer in this size and *)
(* theme, or nothing at the live bottom and on the alternate screen        *)
(* (attachScrollbar; TerminalView's recompute after a fit and a theme). A  *)
(* trim by a smaller cap is outside: nothing recomputes after it.          *)
BarFresh ==
  Mounted /\ host # Hidden /\ ~observed /\ ~frame /\ ~scrolled /\ "trim" \notin missed =>
    bar = Paint

(* Once the broadcasts are through, a terminal whose listener heard all of *)
(* them has the stored options.                                            *)
OptionsFollow == Mounted /\ bus = <<>> /\ "setting" \notin missed => options = Chosen

(* After the teardown no frame, no timer, no overlay and no registered     *)
(* listener is left, also when the registration or fonts.ready resolves    *)
(* later ("a frame that fires after teardown must not touch the disposed   *)
(* terminal").                                                             *)
NothingOutlives ==
  life = "gone" => /\ ~frame /\ ~notice /\ bar = NoBar
                   /\ listener \in {"dropped", "off"} /\ bus = <<>>

=============================================================================
