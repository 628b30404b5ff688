----------------------------- MODULE ActivityLine -----------------------------
(***************************************************************************)
(* One pane's activity line: who says that a job runs (the process poller, *)
(* or the shell's OSC 133 marks once there was one), the debounce of the   *)
(* line, the class of the epoch that decides whether it lights, the manual *)
(* override, the flash after a failed command, and the single timer that   *)
(* drives it all (activityLine.ts, usePaneActivity.ts, osc133.ts).         *)
(*                                                                         *)
(* A timestamp of the code is an age here, counted in ticks and saturated  *)
(* at the delay it is compared with: "never" and "long ago" are the same.  *)
(***************************************************************************)
EXTENDS Integers

CONSTANTS SHOW_DELAY, MIN_VISIBLE, ECHO_WINDOW,
          UNKNOWN_FALLBACK, HOLD, WINDOW_CLOSE, FLASH,
          METAS   \* the foreground metadata that the poller sends

VARIABLES
  line,      \* ActivityState of the pane
  timer,     \* activityTimer: ticks until it fires, or NoTimer
  rendered,  \* the tab's activityVisible, as last dispatched
  flash,     \* flashTimer, likewise; the pane flashes while it is armed
  polled,    \* the last busy flag of the poller
  latched,   \* the osc133 latch
  running,   \* PromptState is "running"
  foreground,  \* the program the title bar's AI counter sees, or NoName
  alive      \* the pane's record exists

vars == <<line, timer, rendered, flash, polled, latched, running, foreground, alive>>

NoTimer == -1
NoMeta == [name |-> "?", args |-> "?", tty |-> "?"]
Phases == {"idle", "pendingShow", "visible", "pendingHide"}
Names == {"", "tool", "ai", "repl", "?"}
NoName == ""

\* An age one tick on, saturated.
Older(age, limit) == IF age < limit THEN age + 1 ELSE limit

ActivityState ==
  [phase : Phases, since : 0..SHOW_DELAY, shown : 0..MIN_VISIBLE,
   klass : {"plain", "interactive", "unknown"}, unknown : 0..UNKNOWN_FALLBACK,
   name : Names, submit : BOOLEAN, window : BOOLEAN,
   active : 0..WINDOW_CLOSE, counted : 0..(HOLD + 1),
   typed : 0..(ECHO_WINDOW + 1), override : {"none", "on", "off"}]

TypeOK ==
  /\ line \in ActivityState
  /\ timer \in NoTimer..(WINDOW_CLOSE + HOLD + UNKNOWN_FALLBACK)
  /\ flash \in NoTimer..FLASH
  /\ {rendered, polled, latched, running, alive} \subseteq BOOLEAN
  /\ foreground \in Names \ {"?"}

\* initialActivity
Fresh ==
  [phase |-> "idle", since |-> 0, shown |-> 0, klass |-> "plain", unknown |-> 0, name |-> "?",
   submit |-> FALSE, window |-> FALSE, active |-> WINDOW_CLOSE, counted |-> HOLD + 1,
   typed |-> ECHO_WINDOW + 1, override |-> "none"]

Init ==
  /\ line = Fresh /\ timer = NoTimer /\ rendered = FALSE /\ flash = NoTimer
  /\ polled = FALSE /\ latched = FALSE /\ running = FALSE /\ foreground = NoName
  /\ alive = TRUE

-----------------------------------------------------------------------------
(* The pure machine.                                                       *)

\* (mutation) the guard reads the debounced line
BusyAsShown(a) == a.phase \in {"visible", "pendingHide"}

Busy(a) == a.phase \in {"pendingShow", "visible"}
Visible(a) == a.phase \in {"visible", "pendingHide"}

\* classifyInvocation: args is the shape of the argument list, or "?" when it is not known.
ClassifyInvocation(m) ==
  IF \/ m.name \notin {"ai", "repl"} \/ m.tty = "no"
     \/ m.args = "?" /\ m.name = "repl"
     \/ m.args = "oneShot"
  THEN "plain" ELSE "interactive"

LightActive(a) ==
  IF a.override # "none" THEN a.override = "on"
  ELSE /\ Visible(a)
       /\ \/ a.klass = "plain"
          \/ a.klass = "interactive" /\ a.window /\ a.counted <= HOLD

\* (mutation) the timer fires while the light still holds
LightOffEarly(a) == IF a.window /\ LightActive(a) THEN {HOLD - a.counted} ELSE {}

LightOff(a) == IF a.window /\ LightActive(a) THEN {HOLD + 1 - a.counted} ELSE {}

\* classDeadline, as ticks from now: when the class or the light changes by itself next.
ClassDeadlines(a) ==
  LET fallback == IF a.klass = "unknown" /\ Busy(a) THEN {UNKNOWN_FALLBACK - a.unknown} ELSE {}
      closing == IF a.window THEN {WINDOW_CLOSE - a.active} ELSE {}
  IN {d \in fallback \cup LightOff(a) \cup closing : d > 0}

\* The ticks until a phase ends.
ShowIn(a) == {SHOW_DELAY - a.since}
HideIn(a) == {MIN_VISIBLE - a.shown}

NoWindow(a) == [a EXCEPT !.window = FALSE, !.active = WINDOW_CLOSE, !.counted = HOLD + 1]
OpenWindow(a) == [a EXCEPT !.window = TRUE, !.active = 0, !.counted = HOLD + 1, !.submit = FALSE]

\* freshEpoch: born classified, or unknown with its fallback pending.
FreshEpoch(a, m) ==
  [NoWindow(a) EXCEPT
     !.klass = IF m = NoMeta THEN "unknown" ELSE ClassifyInvocation(m),
     !.name = m.name, !.unknown = 0, !.submit = FALSE]

\* Each transition is <<next state, phase deadlines>>, the second empty for null.
OnBusyChange(a, busy, m) ==
  LET b == [a EXCEPT !.override = "none"]
  IN CASE a.phase = "idle" /\ busy ->
            <<[FreshEpoch(b, m) EXCEPT !.phase = "pendingShow", !.since = 0], {SHOW_DELAY}>>
       [] a.phase = "pendingShow" /\ busy -> <<b, ShowIn(b)>>
       [] a.phase = "pendingShow" /\ ~busy -> <<[b EXCEPT !.phase = "idle", !.since = 0], {}>>
       [] a.phase = "visible" /\ ~busy -> <<[b EXCEPT !.phase = "pendingHide"], HideIn(b)>>
       [] a.phase = "pendingHide" /\ busy -> <<[FreshEpoch(b, m) EXCEPT !.phase = "visible"], {}>>
       [] a.phase = "pendingHide" /\ ~busy -> <<b, HideIn(b)>>
       [] OTHER -> <<b, {}>>

\* advanceClass: the fallback of an unknown epoch, the close of a silent window.
AdvanceClass(a) ==
  LET falls == a.klass = "unknown" /\ Busy(a) /\ a.unknown >= UNKNOWN_FALLBACK
      b == IF falls THEN [a EXCEPT !.klass = "plain", !.unknown = 0, !.submit = FALSE] ELSE a
  IN IF b.window /\ b.active >= WINDOW_CLOSE THEN NoWindow(b) ELSE b

OnDeadline(a) ==
  LET b == AdvanceClass(a)
  IN CASE a.phase = "pendingShow" /\ a.since >= SHOW_DELAY ->
            <<[b EXCEPT !.phase = "visible", !.since = 0, !.shown = 0], {}>>
       [] a.phase = "pendingShow" /\ a.since < SHOW_DELAY -> <<b, ShowIn(a)>>
       [] a.phase = "pendingHide" /\ a.shown >= MIN_VISIBLE ->
            <<[b EXCEPT !.phase = "idle", !.shown = 0], {}>>
       [] a.phase = "pendingHide" /\ a.shown < MIN_VISIBLE -> <<b, HideIn(a)>>
       [] OTHER -> <<b, {}>>

OnClassifyMetadata(a, m) ==
  IF ~Busy(a) \/ m = NoMeta \/ (a.klass # "unknown" /\ a.name = m.name) THEN <<a, {}>>
  ELSE LET b == [NoWindow(a) EXCEPT !.klass = ClassifyInvocation(m), !.name = m.name, !.unknown = 0]
       IN <<IF b.klass = "interactive" /\ a.submit THEN OpenWindow(b)
            ELSE [b EXCEPT !.submit = FALSE], {}>>

OnInput(a, submitted) ==
  LET b == [a EXCEPT !.typed = 0]
  IN <<CASE submitted /\ Busy(b) /\ b.klass = "interactive" ->
              [OpenWindow(b) EXCEPT !.override = "none"]
         [] submitted /\ Busy(b) /\ b.klass = "unknown" ->
              [b EXCEPT !.submit = TRUE, !.override = "none"]
         [] OTHER -> b, {}>>

Echo(a, large) == a.typed <= ECHO_WINDOW /\ ~large

OnOutput(a, large) ==
  LET counts == Busy(a) /\ ~Echo(a, large) /\ a.klass = "interactive" /\ a.window
  IN <<IF counts THEN [a EXCEPT !.counted = 0, !.active = 0] ELSE a, {}>>

OnManualToggle(a, force) ==
  <<[a EXCEPT !.override = force],
    CASE a.phase = "pendingShow" -> ShowIn(a)
      [] a.phase = "pendingHide" -> HideIn(a)
      [] OTHER -> {}>>

-----------------------------------------------------------------------------
(* The pane: one timer, re-armed by every transition.                      *)

Soonest(S) == CHOOSE d \in S : \A e \in S : d <= e

\* applyActivityTransition: store, clear and re-arm, dispatch the light.
Apply(t) ==
  LET due == t[2] \cup ClassDeadlines(t[1])
  IN /\ line' = t[1]
     /\ timer' = IF due = {} THEN NoTimer ELSE Soonest(due)
     /\ rendered' = LightActive(t[1])

Flashing == flash # NoTimer
Quiet == UNCHANGED <<flash, polled, latched, running, foreground, alive>>

TimerFires == alive /\ timer = 0 /\ Apply(OnDeadline(line)) /\ Quiet

FlashEnds ==
  /\ alive /\ flash = 0
  /\ flash' = NoTimer
  /\ UNCHANGED <<line, timer, rendered, polled, latched, running, foreground, alive>>

\* The poller reports changes only; a pane with prompt marks takes the metadata alone.
SessionActivity(busy, m) ==
  /\ alive /\ busy # polled /\ (busy \/ m = NoMeta)
  /\ polled' = busy
  /\ foreground' = IF ~busy THEN NoName ELSE IF m # NoMeta THEN m.name ELSE foreground
  /\ \/ latched /\ m # NoMeta /\ Apply(OnClassifyMetadata(line, m))
     \/ latched /\ m = NoMeta /\ UNCHANGED <<line, timer, rendered>>
     \/ ~latched /\ Apply(OnBusyChange(line, busy, m))
  /\ UNCHANGED <<flash, latched, running, alive>>

\* The name alone, once a second.
TitleHint(name) ==
  /\ alive /\ foreground' = name
  /\ Apply(OnClassifyMetadata(line, [name |-> name, args |-> "?", tty |-> "?"]))
  /\ UNCHANGED <<flash, polled, latched, running, alive>>

\* A mark and whether it carries the exit code of a failure: only D may.
Markers == [kind : {"A", "B", "C"}, failed : {FALSE}] \cup [kind : {"D"}, failed : BOOLEAN]

\* stepPrompt: C starts a command, every other mark ends one.
StepPrompt(marker) == marker.kind = "C"

PromptMarker(marker) ==
  LET busy == StepPrompt(marker)
  IN /\ alive
     /\ latched' = TRUE /\ running' = busy
     /\ IF busy # running THEN Apply(OnBusyChange(line, busy, NoMeta))
        ELSE UNCHANGED <<line, timer, rendered>>
     /\ flash' = IF busy THEN NoTimer ELSE IF marker.failed THEN FLASH ELSE flash
     /\ UNCHANGED <<polled, foreground, alive>>

Input(submitted) == alive /\ Apply(OnInput(line, submitted)) /\ Quiet
Output(large) == alive /\ Apply(OnOutput(line, large)) /\ Quiet

\* toggleActivity: against what is drawn, the line or the flash.
ToggleActivity ==
  LET drawn == LightActive(line) \/ Flashing
  IN /\ alive
     /\ flash' = IF drawn THEN NoTimer ELSE flash
     /\ Apply(OnManualToggle(line, IF drawn THEN "off" ELSE "on"))
     /\ UNCHANGED <<polled, latched, running, foreground, alive>>

\* dispose: both timers go with the record.
Dispose ==
  /\ alive /\ alive' = FALSE
  /\ line' = Fresh /\ timer' = NoTimer /\ flash' = NoTimer /\ rendered' = FALSE
  /\ polled' = FALSE /\ latched' = FALSE /\ running' = FALSE /\ foreground' = NoName

\* Time passes until a timer is due; a due one fires within the tick.
Tick ==
  LET left(t) == IF t = NoTimer THEN NoTimer ELSE t - 1
  IN /\ alive /\ timer # 0 /\ flash # 0
     /\ line' = [line EXCEPT
          !.since = IF line.phase = "pendingShow" THEN Older(@, SHOW_DELAY) ELSE 0,
          !.shown = IF Visible(line) THEN Older(@, MIN_VISIBLE) ELSE 0,
          !.unknown = IF line.klass = "unknown" THEN Older(@, UNKNOWN_FALLBACK) ELSE 0,
          !.active = Older(@, WINDOW_CLOSE), !.counted = Older(@, HOLD + 1),
          !.typed = Older(@, ECHO_WINDOW + 1)]
     /\ timer' = left(timer) /\ flash' = left(flash)
     /\ UNCHANGED <<rendered, polled, latched, running, foreground, alive>>

\* bucketFor, sessionsFrom: the pane is one of the AI sessions of the title bar's counter.
Counted == foreground = "ai"

Next ==
  \/ TimerFires \/ FlashEnds \/ Tick \/ ToggleActivity \/ Dispose
  \/ \E busy \in BOOLEAN, m \in METAS \cup {NoMeta} : SessionActivity(busy, m)
  \/ \E name \in Names \ {"?"} : TitleHint(name)
  \/ \E marker \in Markers : PromptMarker(marker)
  \/ \E submitted \in BOOLEAN : Input(submitted)
  \/ \E large \in BOOLEAN : Output(large)

Spec == Init /\ [][Next]_vars

-----------------------------------------------------------------------------
(* Properties.                                                             *)

(* The close guard reads Busy: whichever detector owns the pane, a job it  *)
(* reports is seen, whatever the debounce, the linger of the job before,   *)
(* the class and the override are at; and a pane the poller owns is not    *)
(* held busy after the poller's fall (isBusy, onBusyChange, the latch of   *)
(* promptMarkerFor).                                                       *)
GuardSeesJob ==
  alive => /\ latched /\ running => Busy(line)
           /\ ~latched => (Busy(line) <=> polled)

(* The title bar counts a pane whose line is lit as an AI session's, as    *)
(* the line and the counter learn the program from the same reports.  With *)
(* prompt marks the two have different sources, and may differ.            *)
SessionCounted ==
  alive /\ ~latched /\ Busy(line) /\ line.klass = "interactive" /\ line.name = "ai" => Counted

(* What is drawn is what lightActive says at this moment, not at the       *)
(* moment of the last event: the one timer always covers the next time the *)
(* light changes by itself (classDeadline folded with the phase deadline). *)
LineFresh == timer # 0 => (rendered <=> LightActive(line))

(* A phase that waits for a deadline has a timer to end it (the App arms   *)
(* its single timer to the returned deadline; "would strand the phase      *)
(* forever").                                                              *)
PhaseArmed == line.phase \in {"pendingShow", "pendingHide"} => timer # NoTimer

=============================================================================
