--------------------------- MODULE ConfigSyncProofs ---------------------------
(***************************************************************************)
(* Types, the diff base, the socket and the convergence of the windows of  *)
(* ConfigSync, for any set of themes, any files at the start, any editor   *)
(* and any amount of work.                                                 *)
(***************************************************************************)
EXTENDS ConfigSync, TLAPS

-----------------------------------------------------------------------------
(* The texts and what is made of them (ConfigText).                        *)

LEMMA KnownTexts == {Absent, Empty, Template, Broken} \subseteq Text
BY DEF Text, Absent, Empty, Template, Broken

LEMMA SavedTexts == SAVED \subseteq Text
<1> SUFFICES ASSUME NEW t \in SAVED
             PROVE  t \in Text
  OBVIOUS
<1>1. CASE t \in [theme : VALUES \cup {"unset", "bad"}, rc : BOOLEAN]
  BY <1>1 DEF Text
<1>2. CASE t = Broken
  BY <1>2, KnownTexts
<1> QED
  BY <1>1, <1>2, SavedAssumption

LEMMA Parses ==
  ASSUME NEW t \in Text
  PROVE  /\ ParseConfig(t) \in Config /\ ParseConfig(t).rc = t.rc
         /\ t.rc \in BOOLEAN /\ HasWarnings(t) \in BOOLEAN
BY DEF Text, ParseConfig, Config, ConfigTheme, HasWarnings

LEMMA Edits ==
  ASSUME NEW t \in Text, NEW theme \in VALUES
  PROVE  EditDocument(t, theme) \in Text
BY DEF Text, EditDocument

\* A file that was deleted reads as one that is empty.
LEMMA NoFileParses == ParseConfig(Empty) = ParseConfig(Absent) /\ Empty # Absent
BY ConfigTextAssumption DEF ParseConfig, Empty, Absent

-----------------------------------------------------------------------------
(* The messages and records that the actions make.                         *)

LEMMA CallTypes ==
  ASSUME NEW theme \in VALUES, NEW n \in Nat
  PROVE  /\ NoCall \in Call
         /\ [cmd |-> "write", theme |-> theme, ticket |-> n] \in Call
         /\ [cmd |-> "reset", theme |-> theme, ticket |-> n] \in Call
BY ConfigTextAssumption DEF NoCall, Call

LEMMA WarningTypes == \A a, b \in BOOLEAN : WarningsOf(a, b) \in Warnings
BY DEF WarningsOf, Warnings

LEMMA EventTypes ==
  /\ \A set \in Warnings : [kind |-> "warnings", set |-> set] \in Event
  /\ \A theme \in ConfigTheme : [kind |-> "changed", theme |-> theme] \in Event
BY DEF Event

LEMMA Resting == Idle \in Command /\ Asleep \in WatcherThread /\ Closed \in SettingsRuntime
<1>1. Idle \in Command
  BY KnownTexts, CallTypes, ConfigTextAssumption DEF Idle, Command, Windows
<1>2. Asleep \in WatcherThread
  BY KnownTexts DEF Asleep, WatcherThread
<1>3. Closed \in SettingsRuntime
  BY DEF Closed, SettingsRuntime, Warnings
<1> QED
  BY <1>1, <1>2, <1>3

\* The overlap that is recorded never falls.
LEMMA Widens ==
  ASSUME rift \in Rift, NEW level \in 1..3, NEW condition
  PROVE  /\ Widened(level, condition) \in Rift
         /\ Widened(level, condition) >= rift
         /\ condition => Widened(level, condition) >= level
BY DEF Rift, Widened

LEMMA Answers ==
  ASSUME replies \in [Windows -> SUBSET Result], NEW w \in Windows, NEW call \in Call,
         NEW ok \in BOOLEAN, NEW text \in Text, NEW set \in Warnings,
         Answer(w, call, ok, text, set)
  PROVE  replies' \in [Windows -> SUBSET Result]
<1> [call |-> call, ok |-> ok, text |-> text, warnings |-> set] \in Result
  BY DEF Result
<1> QED
  BY DEF Answer

LEMMA Refuses ==
  ASSUME TypeOK, NEW w \in Windows, NEW call \in Call, Refuse(w, call)
  PROVE  replies' \in [Windows -> SUBSET Result] /\ rift' \in Rift /\ rift' >= rift
<1>1. Absent \in Text /\ {} \in Warnings
  BY KnownTexts DEF Warnings
<1> QED
  <2>1. replies' \in [Windows -> SUBSET Result]
    BY <1>1, Answers DEF Refuse, TypeOK
  <2> QED
    BY <2>1 DEF Refuse, TypeOK, Widened, Rift

LEMMA EmitTypes ==
  ASSUME queues \in [Windows -> Seq(Event)], NEW events \in Seq(Event)
  PROVE  Emitted(events) \in [Windows -> Seq(Event)]
BY DEF Emitted

LEMMA Begins ==
  ASSUME TypeOK, NEW w \in Windows, NEW cmd, Begin(w, cmd)
  PROVE  Head(calls[w]) \in Call /\ calls' \in [Windows -> Seq(Call)]
BY DEF TypeOK, Begin

LEMMA Invoked ==
  ASSUME TypeOK, NEW w \in Windows, NEW call \in Call
  PROVE  [calls EXCEPT ![w] = Append(@, call)] \in [Windows -> Seq(Call)]
BY DEF TypeOK

LEMMA Worked == TypeOK /\ Work => work' \in 0..MAX_WORK
BY ConfigSyncAssumption DEF TypeOK, Work

-----------------------------------------------------------------------------
(* Types, action by action.                                                *)

LEMMA InitTyped == Init => TypeOK
<1> SUFFICES ASSUME Init
             PROVE  TypeOK
  OBVIOUS
<1> DEFINE text == IF file.readable THEN file.text ELSE Absent
<1>1. file \in File
  BY KnownTexts, SavedTexts, ConfigSyncAssumption DEF Init, File
<1>2. text \in Text /\ (~file.readable) \in BOOLEAN
  BY <1>1, KnownTexts DEF File
<1>3. inner = [last |-> ParseConfig(text), latch |-> Absent,
               warned |-> HasWarnings(text), unreadable |-> ~file.readable] /\ listener = text.rc
  BY DEF Init
<1> HIDE DEF text
<1>4. inner \in ConfigInner /\ listener \in BOOLEAN
  BY <1>2, <1>3, Parses, KnownTexts DEF ConfigInner
<1>5. /\ calls \in [Windows -> Seq(Call)] /\ queues \in [Windows -> Seq(Event)]
      /\ replies \in [Windows -> SUBSET Result]
  BY DEF Init
<1>6. windows \in [Windows -> SettingsRuntime]
  BY Resting DEF Init
<1>7. rift \in Rift /\ work \in 0..MAX_WORK
  BY ConfigSyncAssumption DEF Init, Rift
<1> QED
  BY <1>1, <1>4, <1>5, <1>6, <1>7, Resting DEF Init, TypeOK

LEMMA OutsideTyped ==
  ASSUME TypeOK, NEW f \in File, Outside(f)
  PROVE  TypeOK'
<1>1. rift' \in Rift
  BY DEF TypeOK, Outside, Widened, Rift
<1> QED
  BY <1>1, Worked DEF TypeOK, Outside

LEMMA FromOutsideIs ==
  ASSUME TypeOK, FromOutside
  PROVE  \E f \in File : Outside(f)
<1>1. ASSUME NEW text \in SAVED
      PROVE  [file EXCEPT !.text = text] \in File
  BY <1>1, SavedTexts DEF TypeOK, File
<1>2. [text |-> Absent, readable |-> TRUE] \in File
  BY KnownTexts DEF File
<1>3. [file EXCEPT !.readable = ~@] \in File
  BY DEF TypeOK, File
<1> QED
  BY <1>1, <1>2, <1>3 DEF FromOutside, EditorSaves, FileRemoved, PermissionsChange

LEMMA ConfigReadTyped ==
  ASSUME TypeOK, NEW w \in Windows, ConfigRead(w)
  PROVE  TypeOK'
<1>1. main' \in Command
  BY Begins, KnownTexts DEF TypeOK, ConfigRead, Command, File
<1>2. rift' \in Rift
  BY DEF TypeOK, ConfigRead, Widened, Rift
<1> QED
  BY <1>1, <1>2, Begins DEF TypeOK, ConfigRead

LEMMA RebaseTyped ==
  ASSUME TypeOK, Rebase
  PROVE  TypeOK'
<1>1. main.text \in Text /\ main.call \in Call /\ main.win \in Windows /\ main.ok \in BOOLEAN
  BY DEF TypeOK, Command
<1>2. inner' \in ConfigInner
  BY <1>1, Parses DEF TypeOK, Rebase, Rebased, ConfigInner
<1>3. replies' \in [Windows -> SUBSET Result]
  BY <1>1, Parses, Answers, WarningTypes DEF TypeOK, Rebase
<1>4. rift' \in Rift
  BY DEF TypeOK, Rebase, Widened, Rift
<1> QED
  BY <1>2, <1>3, <1>4, Resting DEF TypeOK, Rebase

LEMMA ConfigWriteTyped ==
  ASSUME TypeOK, NEW w \in Windows, ConfigWrite(w)
  PROVE  TypeOK'
<1>1. calls' \in [Windows -> Seq(Call)] /\ Head(calls[w]) \in Call
  BY Begins DEF ConfigWrite
<1>2. Source \in Text
  BY KnownTexts DEF Source, TypeOK, File
<1>3. EditDocument(Source, Head(calls[w]).theme) \in Text
  BY <1>1, <1>2, Edits DEF Call
<1>4. CASE Refuse(w, Head(calls[w])) /\ UNCHANGED main
  BY <1>1, <1>4, Refuses DEF ConfigWrite, TypeOK
<1>5. CASE /\ main' = [pc |-> "rename", win |-> w, call |-> Head(calls[w]), ok |-> TRUE,
                       text |-> EditDocument(Source, Head(calls[w]).theme)]
           /\ UNCHANGED <<replies, rift>>
  <2>1. main' \in Command
    BY <1>1, <1>3, <1>5 DEF Command
  <2> QED
    BY <1>1, <1>5, <2>1 DEF ConfigWrite, TypeOK
<1> QED
  BY <1>4, <1>5 DEF ConfigWrite

LEMMA ConfigResetTyped ==
  ASSUME TypeOK, NEW w \in Windows, ConfigResetAll(w)
  PROVE  TypeOK'
<1>1. calls' \in [Windows -> Seq(Call)] /\ main' \in Command
  BY Begins, KnownTexts DEF ConfigResetAll, Command
<1> QED
  BY <1>1 DEF ConfigResetAll, TypeOK

LEMMA WriteAtomicTyped ==
  ASSUME TypeOK, WriteAtomic
  PROVE  TypeOK'
<1>1. main.text \in Text /\ main.call \in Call /\ main.win \in Windows
  BY DEF TypeOK, Command
<1>2. CASE Refuse(main.win, main.call) /\ main' = Idle /\ UNCHANGED <<file, wake>>
  BY <1>1, <1>2, Refuses, Resting DEF WriteAtomic, TypeOK
<1>3. CASE /\ file' = [text |-> main.text, readable |-> TRUE] /\ wake' = TRUE
           /\ main' = [main EXCEPT !.pc = "latch"]
           /\ UNCHANGED <<replies, rift>>
  <2>1. file' \in File /\ main' \in Command
    BY <1>1, <1>3 DEF TypeOK, File, Command
  <2> QED
    BY <1>3, <2>1 DEF WriteAtomic, TypeOK
<1> QED
  BY <1>2, <1>3 DEF WriteAtomic

LEMMA LatchTyped ==
  ASSUME TypeOK, Latch
  PROVE  TypeOK'
<1>1. main.text \in Text /\ main' \in Command
  BY DEF TypeOK, Command, Latch
<1>2. inner' \in ConfigInner
  BY <1>1, Parses DEF TypeOK, Latch, Latched, ConfigInner
<1> QED
  BY <1>1, <1>2 DEF TypeOK, Latch

LEMMA ApplyControlTyped ==
  ASSUME TypeOK, ApplyControl
  PROVE  TypeOK'
<1>1. main.text \in Text /\ main.call \in Call /\ main.win \in Windows
  BY DEF TypeOK, Command
<1>2. Absent \in Text /\ {} \in Warnings
  BY KnownTexts DEF Warnings
<1>3. replies' \in [Windows -> SUBSET Result] /\ listener' \in BOOLEAN
  BY <1>1, <1>2, Answers, Parses DEF ApplyControl, ServeControl, TypeOK
<1> QED
  BY <1>3, Resting DEF TypeOK, ApplyControl

LEMMA ConfigOpenFileTyped ==
  ASSUME TypeOK, ConfigOpenFile
  PROVE  TypeOK'
<1>1. file' \in File
  BY KnownTexts DEF TypeOK, ConfigOpenFile, File
<1> QED
  BY <1>1, Worked DEF TypeOK, ConfigOpenFile

LEMMA EmitWarningsTyped ==
  ASSUME TypeOK, EmitConfigWarnings
  PROVE  TypeOK'
<1>1. WarningsOf(inner.warned, inner.unreadable) \in Warnings
  BY WarningTypes DEF TypeOK, ConfigInner
<1>2. <<[kind |-> "warnings", set |-> WarningsOf(inner.warned, inner.unreadable)]>> \in Seq(Event)
  BY <1>1, EventTypes
<1> QED
  BY <1>2, EmitTypes, Worked DEF TypeOK, EmitConfigWarnings, backendVars

LEMMA WatcherWakesTyped ==
  ASSUME TypeOK, WatcherWakes
  PROVE  TypeOK'
<1>1. watcher' \in WatcherThread
  BY Resting DEF TypeOK, WatcherWakes, WatcherThread, File
<1> QED
  BY <1>1 DEF TypeOK, WatcherWakes

LEMMA ReadAgainTyped ==
  ASSUME TypeOK, ReadAgain
  PROVE  TypeOK'
<1>1. watcher' \in WatcherThread
  BY Resting, KnownTexts DEF TypeOK, ReadAgain, WatcherThread, File
<1> QED
  BY <1>1 DEF TypeOK, ReadAgain

LEMMA EmissionTypes ==
  ASSUME TypeOK, NEW text \in Text
  PROVE  EmissionsFor(text) \in Seq(Event)
<1> DEFINE theme == ParseConfig(text).theme
           warnings == [kind |-> "warnings", set |-> WarningsOf(HasWarnings(text), FALSE)]
<1>1. [kind |-> "changed", theme |-> theme] \in Event
  BY Parses, EventTypes DEF Config
<1>2. warnings \in Event
  BY Parses, WarningTypes, EventTypes
<1> HIDE DEF theme, warnings
<1>3. (IF theme # inner.last.theme THEN <<[kind |-> "changed", theme |-> theme]>> ELSE <<>>) \o <<warnings>>
        \in Seq(Event)
  BY <1>1, <1>2
<1> QED
  BY <1>3 DEF EmissionsFor, theme, warnings

LEMMA ApplyTyped ==
  ASSUME TypeOK, Apply
  PROVE  TypeOK'
<1>1. watcher.text \in Text
  BY DEF TypeOK, WatcherThread
<1>2. Applied(watcher.text) \in ConfigInner
  BY <1>1, Parses, KnownTexts DEF Applied, ConfigInner
<1>3. EmissionsFor(watcher.text) \in Seq(Event)
  BY <1>1, EmissionTypes
<1>4. watcher' \in WatcherThread
  BY <1>3, Resting DEF TypeOK, Apply, WatcherThread
<1> QED
  BY <1>2, <1>4 DEF TypeOK, Apply

LEMMA EmitTyped ==
  ASSUME TypeOK, Emit
  PROVE  TypeOK'
<1>1. watcher' \in WatcherThread /\ watcher.events \in Seq(Event)
  BY DEF TypeOK, Emit, WatcherThread
<1>2. rift' \in Rift
  BY DEF TypeOK, Emit, Widened, Rift
<1> QED
  BY <1>1, <1>2, EmitTypes DEF TypeOK, Emit

LEMMA FollowControlTyped ==
  ASSUME TypeOK, FollowControl
  PROVE  TypeOK'
<1>1. listener' \in BOOLEAN
  BY Parses DEF TypeOK, FollowControl, WatcherThread
<1>2. rift' \in Rift
  BY DEF TypeOK, FollowControl, Widened, Rift
<1> QED
  BY <1>1, <1>2, Resting DEF TypeOK, FollowControl

-----------------------------------------------------------------------------
(* The same for the settings runtimes.                                     *)

LEMMA OpenWindowTyped ==
  ASSUME TypeOK, NEW w \in Windows, OpenWindow(w)
  PROVE  TypeOK'
<1>1. work' \in 0..MAX_WORK
  BY Worked DEF OpenWindow, TypeOK
<1>2. calls' \in [Windows -> Seq(Call)]
  BY CallTypes, ConfigTextAssumption, Invoked DEF OpenWindow
<1>3. windows' \in [Windows -> SettingsRuntime]
  BY DEF OpenWindow, TypeOK, SettingsRuntime
<1> QED
  BY <1>1, <1>2, <1>3 DEF TypeOK, OpenWindow, backendVars

LEMMA PersistTypes ==
  ASSUME TypeOK, NEW w \in Windows, NEW theme \in VALUES
  PROVE  Persisted(w, theme) \in [Windows -> Seq(Call)] /\ Ticket(w) \in Nat
<1>1. Ticket(w) \in Nat
  BY DEF TypeOK, SettingsRuntime, Ticket
<1> QED
  BY <1>1, CallTypes, Invoked DEF Persisted

LEMMA HydrateTyped ==
  ASSUME TypeOK, NEW w \in Windows, Hydrate(w)
  PROVE  TypeOK'
<1> PICK r \in replies[w] :
       /\ r.call.cmd = "read"
       /\ replies' = [replies EXCEPT ![w] = @ \ {r}]
       /\ LET seeded == [windows[w] EXCEPT !.phase = "seeded", !.client = FALSE, !.banner = r.warnings]
          IN \/ /\ r.text.theme \in VALUES
                /\ windows' = [windows EXCEPT ![w] = [seeded EXCEPT !.theme = r.text.theme]]
                /\ UNCHANGED <<calls, rift>>
             \/ /\ r.text.theme \notin VALUES
                /\ windows' = [windows EXCEPT ![w] =
                                 [seeded EXCEPT !.theme = DERIVED, !.ticket = Ticket(w)]]
                /\ calls' = Persisted(w, DERIVED)
                /\ rift' = Widened(1, Crossing(w))
       /\ UNCHANGED <<backendVars, queues, work>>
  BY DEF Hydrate
<1>1. r.warnings \in Warnings /\ replies' \in [Windows -> SUBSET Result]
  BY DEF TypeOK, Result
<1>2. Persisted(w, DERIVED) \in [Windows -> Seq(Call)] /\ Ticket(w) \in Nat
  BY PersistTypes, ConfigTextAssumption
<1> DEFINE seeded == [windows[w] EXCEPT !.phase = "seeded", !.client = FALSE, !.banner = r.warnings]
<1>3. windows' \in [Windows -> SettingsRuntime]
  <2>1. windows[w] \in SettingsRuntime
    BY DEF TypeOK
  <2>2. seeded \in SettingsRuntime
    BY <1>1, <2>1 DEF SettingsRuntime
  <2>3. CASE r.text.theme \in VALUES /\ windows' = [windows EXCEPT ![w] = [seeded EXCEPT !.theme = r.text.theme]]
    <3>1. [seeded EXCEPT !.theme = r.text.theme] \in SettingsRuntime
      BY <2>2, <2>3 DEF SettingsRuntime
    <3> QED
      BY <2>3, <3>1 DEF TypeOK
  <2>4. CASE windows' = [windows EXCEPT ![w] = [seeded EXCEPT !.theme = DERIVED, !.ticket = Ticket(w)]]
    <3>1. [seeded EXCEPT !.theme = DERIVED, !.ticket = Ticket(w)] \in SettingsRuntime
      BY <2>2, <1>2, ConfigTextAssumption DEF SettingsRuntime
    <3> QED
      BY <2>4, <3>1 DEF TypeOK
  <2> QED
    BY <2>3, <2>4
<1>4. calls' \in [Windows -> Seq(Call)]
  BY <1>2 DEF TypeOK
<1>5. rift' \in Rift
  BY DEF TypeOK, Widened, Rift
<1> QED
  BY <1>1, <1>3, <1>4, <1>5 DEF TypeOK, backendVars

LEMMA SubscribeTyped ==
  ASSUME TypeOK, NEW w \in Windows, SubscribeToBus(w)
  PROVE  TypeOK'
BY DEF TypeOK, SubscribeToBus, SettingsRuntime, backendVars

LEMMA ChangedEvents ==
  ASSUME TypeOK, NEW theme \in VALUES
  PROVE  Emitted(<<[kind |-> "changed", theme |-> theme]>>) \in [Windows -> Seq(Event)]
<1>1. <<[kind |-> "changed", theme |-> theme]>> \in Seq(Event)
  BY EventTypes DEF ConfigTheme
<1> QED
  BY <1>1, EmitTypes DEF TypeOK

LEMMA SetThemeTyped ==
  ASSUME TypeOK, NEW w \in Windows, NEW theme \in VALUES, SetTheme(w, theme)
  PROVE  TypeOK'
<1>1. Persisted(w, theme) \in [Windows -> Seq(Call)] /\ Ticket(w) \in Nat
  BY PersistTypes
<1>2. windows' \in [Windows -> SettingsRuntime]
  <2> DEFINE new == [windows[w] EXCEPT !.theme = theme, !.ticket = Ticket(w), !.client = FALSE,
                                       !.failed = @ /\ ~windows[w].client, !.fate = "none"]
  <2>1. windows[w] \in SettingsRuntime /\ (windows[w].failed /\ ~windows[w].client) \in BOOLEAN
    BY DEF TypeOK, SettingsRuntime
  <2>2. new \in SettingsRuntime
    BY <1>1, <2>1 DEF SettingsRuntime
  <2>3. windows' = [windows EXCEPT ![w] = new]
    BY DEF SetTheme
  <2> QED
    BY <2>2, <2>3 DEF TypeOK
<1>3. rift' \in Rift
  BY DEF TypeOK, SetTheme, Widened, Rift
<1>4. queues' \in [Windows -> Seq(Event)]
  BY ChangedEvents DEF SetTheme
<1> QED
  BY <1>1, <1>2, <1>3, <1>4, Worked DEF TypeOK, SetTheme, backendVars

LEMMA ResetAllTyped ==
  ASSUME TypeOK, NEW w \in Windows, ResetAll(w)
  PROVE  TypeOK'
<1>1. calls' \in [Windows -> Seq(Call)]
  BY CallTypes, ConfigTextAssumption, Invoked DEF ResetAll
<1>2. windows' \in [Windows -> SettingsRuntime]
  <2>1. [windows[w] EXCEPT !.theme = "unset"] \in SettingsRuntime
    BY DEF TypeOK, SettingsRuntime
  <2> QED
    BY <2>1 DEF TypeOK, ResetAll
<1>3. rift' \in Rift
  BY DEF TypeOK, ResetAll, Widened, Rift
<1>4. queues' \in [Windows -> Seq(Event)]
  BY ChangedEvents, ConfigTextAssumption DEF ResetAll
<1> QED
  BY <1>1, <1>2, <1>3, <1>4, Worked DEF TypeOK, ResetAll, backendVars

\* What a window becomes when the reply r to a write of its is handled.
Settled(w, r) ==
  LET this == windows[w] IN
  CASE Newest(w, r) /\ ~r.ok -> [this EXCEPT !.failed = TRUE, !.client = TRUE]
    [] Newest(w, r) /\ r.ok /\ this.failed -> [this EXCEPT !.failed = FALSE, !.client = FALSE]
    [] OTHER -> this
FateAfter(w, r) ==
  IF r.call.ticket # windows[w].ticket THEN windows[w].fate ELSE IF r.ok THEN "ok" ELSE "failed"

LEMMA Settles ==
  ASSUME TypeOK, NEW w \in Windows, WriteSettled(w)
  PROVE  \E r \in replies[w] :
           /\ replies' = [replies EXCEPT ![w] = @ \ {r}]
           /\ windows' = [windows EXCEPT ![w] = [Settled(w, r) EXCEPT !.fate = FateAfter(w, r)]]
           /\ UNCHANGED <<backendVars, calls, queues, rift, work>>
BY DEF WriteSettled, Settled, FateAfter

LEMMA WriteSettledTyped ==
  ASSUME TypeOK, NEW w \in Windows, WriteSettled(w)
  PROVE  TypeOK'
<1> PICK r \in replies[w] :
       /\ replies' = [replies EXCEPT ![w] = @ \ {r}]
       /\ windows' = [windows EXCEPT ![w] = [Settled(w, r) EXCEPT !.fate = FateAfter(w, r)]]
       /\ UNCHANGED <<backendVars, calls, queues, rift, work>>
  BY Settles
<1>1. windows[w] \in SettingsRuntime /\ replies' \in [Windows -> SUBSET Result]
  BY DEF TypeOK
<1>2. Settled(w, r) \in SettingsRuntime /\ FateAfter(w, r) \in {"none", "ok", "failed"}
  BY <1>1 DEF Settled, FateAfter, SettingsRuntime
<1>3. [Settled(w, r) EXCEPT !.fate = FateAfter(w, r)] \in SettingsRuntime
  BY <1>2 DEF SettingsRuntime
<1> QED
  BY <1>1, <1>3 DEF TypeOK, backendVars

LEMMA HandleEventTyped ==
  ASSUME TypeOK, NEW w \in Windows, HandleEvent(w)
  PROVE  TypeOK'
<1> DEFINE event == Head(queues[w])
           theme == Taken(event.theme)
<1>1. event \in Event /\ queues' \in [Windows -> Seq(Event)] /\ windows[w] \in SettingsRuntime
  BY DEF TypeOK, HandleEvent
<1>2. CASE event.kind = "changed"
  <2>1. theme \in VALUES
    BY <1>1, <1>2, ConfigTextAssumption DEF Event, ConfigTheme, Taken, Coerce
  <2> DEFINE new == [windows[w] EXCEPT !.theme = theme, !.client = FALSE,
                       !.fate = IF theme = windows[w].theme THEN @ ELSE "none"]
  <2>2. windows' = [windows EXCEPT ![w] = new]
    BY <1>2 DEF HandleEvent
  <2> HIDE DEF event, theme
  <2>3. new \in SettingsRuntime
    BY <1>1, <2>1 DEF SettingsRuntime
  <2> HIDE DEF new
  <2> QED
    BY <1>1, <2>2, <2>3 DEF TypeOK, HandleEvent, backendVars
<1>3. CASE event.kind = "warnings"
  <2>1. event.set \in Warnings
    BY <1>1, <1>3 DEF Event
  <2>2. [windows[w] EXCEPT !.banner = event.set] \in SettingsRuntime
    BY <1>1, <2>1 DEF SettingsRuntime
  <2>3. windows' = [windows EXCEPT ![w] = [windows[w] EXCEPT !.banner = event.set]]
    BY <1>3 DEF HandleEvent
  <2> HIDE DEF event
  <2> QED
    BY <1>1, <2>2, <2>3 DEF TypeOK, HandleEvent, backendVars
<1> QED
  BY <1>2, <1>3 DEF HandleEvent
-----------------------------------------------------------------------------
(* The inductive invariant.  Up to an overlap of level 3, what the steps   *)
(* of a command rely on is still so, and what is missing in the diff base  *)
(* is on its way to it.                                                    *)

\* What the command has read is the file; what it wrote is the file.
CommandCurrent ==
  /\ main.pc = "rebase" => /\ main.ok = file.readable
                           /\ main.ok => main.text = file.text
                           /\ ~main.ok => main.text = Absent
  /\ main.pc \in {"latch", "control"} => file.text = main.text

\* What the watcher is about to apply is the file, or it will be woken again.
WatcherCurrent ==
  watcher.pc = "apply" =>
    /\ watcher.text # Absent
    /\ wake \/ (file.readable /\ ParseConfig(watcher.text) = ParseConfig(file.text))

\* The text of the write whose echo is awaited is the diff base.
LatchIsBase == inner.latch # Absent => inner.last = ParseConfig(inner.latch)

\* The diff base is the file, or the watcher has yet to read or to apply it.
WillRead == wake \/ watcher.pc \in {"again", "apply"}
BaseFollows == file.readable => WillRead \/ inner.last = ParseConfig(file.text)

BaseInv == rift < 3 => CommandCurrent /\ WatcherCurrent /\ LatchIsBase /\ BaseFollows

(* The same for the socket, up to level 2: it is served as the diff base   *)
(* says, or somebody is on the way to it.                                  *)

\* The command that is about to serve the socket has latched what it serves, or
\* the watcher has applied something since.
ControlLatched == main.pc = "control" => inner.latch \in {Absent, main.text}

ListenerFollows ==
  \/ listener = inner.last.rc
  \/ main.pc = "control" \/ watcher.pc \in {"emit", "control"}
  \/ inner.latch = Absent /\ (file.readable => WillRead)

SocketInv == rift < 2 => ControlLatched /\ ListenerFollows

(* A warning of the window's own speaks of the newest write, which failed. *)
WarningInv == \A w \in Windows : windows[w].client => windows[w].failed /\ windows[w].fate = "failed"

IInv == TypeOK /\ BaseInv /\ SocketInv /\ WarningInv
-----------------------------------------------------------------------------
(* The invariants, step by step.                                           *)

LEMMA RefuseWidens ==
  ASSUME TypeOK, NEW w, NEW call, Refuse(w, call)
  PROVE  rift' \in Rift /\ rift' >= rift
BY DEF TypeOK, Refuse, Widened, Rift

\* What changes neither the backend nor the overlap downwards changes neither of them.
LEMMA BackendRests ==
  ASSUME TypeOK, BaseInv, SocketInv, UNCHANGED backendVars, rift' \in Rift, rift' >= rift
  PROVE  BaseInv' /\ SocketInv'
BY DEF TypeOK, Rift, BaseInv, SocketInv, backendVars, CommandCurrent, WatcherCurrent, LatchIsBase,
       BaseFollows, WillRead, ControlLatched, ListenerFollows

\* When the file changes from outside, the watcher will be woken; a command that is
\* under way is the overlap of level 3.
LEMMA OutsideKeeps ==
  ASSUME TypeOK, BaseInv, SocketInv, NEW f \in File, Outside(f)
  PROVE  BaseInv' /\ SocketInv'
<1>1. rift \in 0..3
  BY DEF TypeOK, Rift
<1>2. rift' < 3 => rift' = rift /\ main.pc = "idle"
  BY <1>1 DEF Outside, Widened
<1>3. wake' /\ UNCHANGED <<watcher, inner, listener, main>>
  BY DEF Outside
<1>4. rift' < 2 => rift' = rift
  BY <1>1, <1>2 DEF Outside, Widened
<1>5. BaseInv'
  BY <1>1, <1>2, <1>3 DEF BaseInv, CommandCurrent, WatcherCurrent, LatchIsBase, BaseFollows, WillRead
<1>6. SocketInv'
  BY <1>1, <1>3, <1>4 DEF SocketInv, ControlLatched, ListenerFollows, WillRead
<1> QED
  BY <1>5, <1>6

LEMMA ConfigReadKeeps ==
  ASSUME TypeOK, BaseInv, SocketInv, NEW w \in Windows, ConfigRead(w)
  PROVE  BaseInv' /\ SocketInv'
<1>1. rift \in Rift /\ rift' \in Rift /\ rift' >= rift
  BY DEF TypeOK, Rift, ConfigRead, Widened
<1>2. /\ main.pc = "idle" /\ main'.pc = "rebase" /\ main'.ok = file.readable
      /\ main'.text = IF file.readable THEN file.text ELSE Absent
      /\ UNCHANGED <<file, wake, watcher, inner, listener>>
  BY DEF ConfigRead, Begin
<1>3. file.readable \in BOOLEAN
  BY DEF TypeOK, File
<1>4. BaseInv'
  BY <1>1, <1>2, <1>3 DEF Rift, BaseInv, CommandCurrent, WatcherCurrent, LatchIsBase, BaseFollows, WillRead
<1>5. SocketInv'
  BY <1>1, <1>2, <1>3 DEF Rift, SocketInv, ControlLatched, ListenerFollows, WillRead
<1> QED
  BY <1>4, <1>5

\* The base is replaced by what it already was, unless that is an overlap of level 3:
\* with the watcher at rest the base followed the file, and the text is the file's.
LEMMA RebaseKeeps ==
  ASSUME TypeOK, BaseInv, SocketInv, Rebase
  PROVE  BaseInv' /\ SocketInv'
<1>1. rift \in Rift /\ rift' \in Rift /\ rift' >= rift
  BY DEF TypeOK, Rift, Rebase, Widened
<1>2. rift' < 3 => ~wake /\ watcher.pc = "idle" /\ (main.ok \/ inner.latch = Absent)
  BY <1>1 DEF Rift, Rebase, Widened
<1>3. /\ main.pc = "rebase" /\ main'.pc = "idle"
      /\ inner'.last = ParseConfig(main.text) /\ inner'.latch = inner.latch
      /\ UNCHANGED <<file, wake, watcher, listener>>
  BY DEF Rebase, Rebased, Idle, TypeOK, ConfigInner
<1>4. ASSUME rift' < 3
      PROVE  /\ main.ok = file.readable /\ (main.ok => main.text = file.text)
             /\ ~WillRead /\ (inner.latch # Absent => inner.last = ParseConfig(inner.latch))
             /\ (file.readable => inner.last = ParseConfig(file.text))
             /\ (main.ok => inner'.last = inner.last)
  BY <1>1, <1>2, <1>3, <1>4
     DEF Rift, BaseInv, CommandCurrent, LatchIsBase, BaseFollows, WillRead
<1>5. BaseInv'
  <2> SUFFICES ASSUME rift' < 3
               PROVE  CommandCurrent' /\ WatcherCurrent' /\ LatchIsBase' /\ BaseFollows'
    BY DEF BaseInv
  <2>1. CommandCurrent' /\ WatcherCurrent'
    BY <1>2, <1>3 DEF CommandCurrent, WatcherCurrent
  <2>2. LatchIsBase'
    BY <1>2, <1>3, <1>4 DEF LatchIsBase
  <2>3. BaseFollows'
    BY <1>3, <1>4 DEF BaseFollows
  <2> QED
    BY <2>1, <2>2, <2>3
<1>6. SocketInv'
  <2> SUFFICES ASSUME rift' < 2
               PROVE  ControlLatched' /\ ListenerFollows'
    BY DEF SocketInv
  <2>1. rift' < 3 /\ rift < 2
    BY <1>1 DEF Rift
  <2>2. ControlLatched'
    BY <1>3 DEF ControlLatched
  <2>3. ListenerFollows'
    <3>1. listener = inner.last.rc \/ (inner.latch = Absent /\ ~file.readable)
      BY <1>2, <1>3, <1>4, <2>1 DEF SocketInv, ListenerFollows
    <3>2. CASE main.ok
      BY <1>3, <1>4, <2>1, <3>1, <3>2 DEF ListenerFollows
    <3>3. CASE ~main.ok
      BY <1>2, <1>3, <1>4, <2>1, <3>1, <3>3 DEF ListenerFollows
    <3> QED
      BY <3>2, <3>3
  <2> QED
    BY <2>2, <2>3
<1> QED
  BY <1>5, <1>6

LEMMA StartsKeep ==
  ASSUME TypeOK, BaseInv, SocketInv, NEW w \in Windows, ConfigWrite(w) \/ ConfigResetAll(w)
  PROVE  BaseInv' /\ SocketInv'
<1>1. rift \in Rift /\ rift' \in Rift /\ rift' >= rift
  BY RefuseWidens DEF TypeOK, Rift, ConfigWrite, ConfigResetAll
<1>2. /\ main.pc = "idle" /\ main'.pc \in {"idle", "rename"}
      /\ UNCHANGED <<file, wake, watcher, inner, listener>>
  BY DEF ConfigWrite, ConfigResetAll, Begin
<1>3. BaseInv'
  BY <1>1, <1>2 DEF Rift, BaseInv, CommandCurrent, WatcherCurrent, LatchIsBase, BaseFollows, WillRead
<1>4. SocketInv'
  BY <1>1, <1>2 DEF Rift, SocketInv, ControlLatched, ListenerFollows, WillRead
<1> QED
  BY <1>3, <1>4

LEMMA WriteAtomicKeeps ==
  ASSUME TypeOK, BaseInv, SocketInv, WriteAtomic
  PROVE  BaseInv' /\ SocketInv'
<1>1. rift \in Rift /\ rift' \in Rift /\ rift' >= rift
  BY RefuseWidens DEF TypeOK, Rift, WriteAtomic
<1>2. main.pc = "rename" /\ UNCHANGED <<watcher, inner, listener>>
  BY DEF WriteAtomic
<1>3. CASE wake' /\ file' = [text |-> main.text, readable |-> TRUE] /\ main' = [main EXCEPT !.pc = "latch"]
  <2>1. main'.pc = "latch" /\ main'.text = main.text /\ file'.text = main.text
    BY <1>3 DEF TypeOK, Command
  <2>2. BaseInv'
    BY <1>1, <1>2, <1>3, <2>1
       DEF Rift, BaseInv, CommandCurrent, WatcherCurrent, LatchIsBase, BaseFollows, WillRead
  <2>3. SocketInv'
    BY <1>1, <1>2, <1>3, <2>1 DEF Rift, SocketInv, ControlLatched, ListenerFollows, WillRead
  <2> QED
    BY <2>2, <2>3
<1>4. CASE main'.pc = "idle" /\ UNCHANGED <<file, wake>>
  <2>1. BaseInv'
    BY <1>1, <1>2, <1>4
       DEF Rift, BaseInv, CommandCurrent, WatcherCurrent, LatchIsBase, BaseFollows, WillRead
  <2>2. SocketInv'
    BY <1>1, <1>2, <1>4 DEF Rift, SocketInv, ControlLatched, ListenerFollows, WillRead
  <2> QED
    BY <2>1, <2>2
<1> QED
  BY <1>3, <1>4 DEF WriteAtomic, Idle

\* The write moves the base to what the file is.
LEMMA LatchKeeps ==
  ASSUME TypeOK, BaseInv, SocketInv, Latch
  PROVE  BaseInv' /\ SocketInv'
<1>1. /\ main.pc = "latch" /\ main'.pc = "control" /\ main'.text = main.text
      /\ inner'.latch = main.text /\ inner'.last = ParseConfig(main.text)
      /\ UNCHANGED <<file, wake, watcher, listener, rift>>
  BY DEF Latch, Latched, TypeOK, Command, ConfigInner
<1>2. BaseInv'
  BY <1>1 DEF BaseInv, CommandCurrent, WatcherCurrent, LatchIsBase, BaseFollows, WillRead
<1>3. SocketInv'
  BY <1>1 DEF SocketInv, ControlLatched, ListenerFollows
<1> QED
  BY <1>2, <1>3

\* The socket is served as the file says that was written: still the base's, or the
\* watcher has applied a later file and serves the socket itself.
LEMMA ApplyControlKeeps ==
  ASSUME TypeOK, BaseInv, SocketInv, ApplyControl
  PROVE  BaseInv' /\ SocketInv'
<1>1. /\ main.pc = "control" /\ main'.pc = "idle" /\ listener' = main.text.rc
      /\ UNCHANGED <<file, wake, watcher, inner, rift>>
  BY DEF ApplyControl, ServeControl, Idle
<1>2. BaseInv'
  BY <1>1 DEF BaseInv, CommandCurrent, WatcherCurrent, LatchIsBase, BaseFollows, WillRead
<1>3. SocketInv'
  <2> SUFFICES ASSUME rift < 2
               PROVE  ControlLatched' /\ ListenerFollows'
    BY <1>1 DEF SocketInv
  <2>1. rift < 3 /\ file.text = main.text /\ inner.latch \in {Absent, main.text}
    BY <1>1 DEF TypeOK, Rift, BaseInv, CommandCurrent, SocketInv, ControlLatched
  <2>2. ParseConfig(main.text).rc = main.text.rc
    BY Parses DEF TypeOK, Command
  <2>3. ControlLatched'
    BY <1>1 DEF ControlLatched
  <2>4. CASE inner.latch # Absent
    <3>1. inner.last = ParseConfig(main.text)
      BY <2>1, <2>4 DEF BaseInv, LatchIsBase
    <3>2. listener' = inner'.last.rc
      BY <1>1, <2>2, <3>1
    <3> QED
      BY <2>3, <3>2 DEF ListenerFollows
  <2>5. CASE inner.latch = Absent
    <3>1. file.readable => WillRead \/ inner.last = ParseConfig(main.text)
      BY <2>1 DEF BaseInv, BaseFollows
    <3>2. WillRead' = WillRead /\ inner'.latch = Absent /\ file'.readable = file.readable
      BY <1>1, <2>5 DEF WillRead
    <3>3. inner.last = ParseConfig(main.text) => listener' = inner'.last.rc
      BY <1>1, <2>2
    <3> QED
      BY <2>3, <3>1, <3>2, <3>3 DEF ListenerFollows
  <2> QED
    BY <2>3, <2>4, <2>5
<1> QED
  BY <1>2, <1>3

LEMMA ConfigOpenFileKeeps ==
  ASSUME TypeOK, BaseInv, SocketInv, ConfigOpenFile
  PROVE  BaseInv' /\ SocketInv'
<1>1. main.pc = "idle" /\ wake' /\ UNCHANGED <<watcher, inner, listener, main, rift>>
  BY DEF ConfigOpenFile
<1>2. BaseInv'
  BY <1>1 DEF BaseInv, CommandCurrent, WatcherCurrent, LatchIsBase, BaseFollows, WillRead
<1>3. SocketInv'
  BY <1>1 DEF SocketInv, ControlLatched, ListenerFollows, WillRead
<1> QED
  BY <1>2, <1>3

LEMMA WatcherWakesKeeps ==
  ASSUME TypeOK, BaseInv, SocketInv, WatcherWakes
  PROVE  BaseInv' /\ SocketInv'
<1>1. watcher.pc = "idle" /\ wake /\ UNCHANGED <<file, inner, listener, main, rift>>
  BY DEF WatcherWakes
<1>2. /\ watcher'.pc \in {"idle", "again", "apply"}
      /\ watcher'.pc = "apply" => watcher'.text = file.text /\ file.text # Absent /\ file.readable
      /\ file.readable => watcher'.pc \in {"again", "apply"}
  BY DEF WatcherWakes, Asleep
<1>3. BaseInv'
  BY <1>1, <1>2 DEF BaseInv, CommandCurrent, WatcherCurrent, LatchIsBase, BaseFollows, WillRead
<1>4. SocketInv'
  BY <1>1, <1>2 DEF SocketInv, ControlLatched, ListenerFollows, WillRead
<1> QED
  BY <1>3, <1>4

LEMMA ReadAgainKeeps ==
  ASSUME TypeOK, BaseInv, SocketInv, ReadAgain
  PROVE  BaseInv' /\ SocketInv'
<1>1. watcher.pc = "again" /\ UNCHANGED <<file, wake, inner, listener, main, rift>>
  BY DEF ReadAgain
<1>2. /\ watcher'.pc \in {"idle", "apply"}
      /\ watcher'.pc = "apply" => /\ file.readable
                                  /\ watcher'.text = IF file.text = Absent THEN Empty ELSE file.text
      /\ file.readable => watcher'.pc = "apply"
  BY DEF ReadAgain, Asleep
<1>3. watcher'.pc = "apply" => watcher'.text # Absent /\ ParseConfig(watcher'.text) = ParseConfig(file.text)
  BY <1>2, NoFileParses
<1>4. BaseInv'
  BY <1>1, <1>2, <1>3 DEF BaseInv, CommandCurrent, WatcherCurrent, LatchIsBase, BaseFollows, WillRead
<1>5. SocketInv'
  BY <1>1, <1>2 DEF SocketInv, ControlLatched, ListenerFollows, WillRead
<1> QED
  BY <1>4, <1>5

\* The echo of a write is dropped: then the base is what was read, by the latch.
\* Anything else becomes the base, and the latch is gone.
LEMMA ApplyKeeps ==
  ASSUME TypeOK, BaseInv, SocketInv, Apply
  PROVE  BaseInv' /\ SocketInv'
<1>1. watcher.pc = "apply" /\ UNCHANGED <<file, wake, listener, main, rift>>
  BY DEF Apply
<1>2. rift < 3 => /\ watcher.text # Absent
                  /\ wake \/ (file.readable /\ ParseConfig(watcher.text) = ParseConfig(file.text))
  BY <1>1 DEF BaseInv, WatcherCurrent
<1>3. CASE watcher.text = inner.latch /\ watcher' = Asleep /\ UNCHANGED inner
  <2>1. watcher'.pc = "idle"
    BY <1>3 DEF Asleep
  <2>2. rift < 3 => inner.last = ParseConfig(watcher.text)
    BY <1>2, <1>3 DEF BaseInv, LatchIsBase
  <2>3. BaseInv'
    BY <1>1, <1>2, <1>3, <2>1, <2>2
       DEF BaseInv, CommandCurrent, WatcherCurrent, LatchIsBase, BaseFollows, WillRead
  <2>4. SocketInv'
    BY <1>1, <1>2, <1>3, <2>1 DEF TypeOK, Rift, SocketInv, ControlLatched, ListenerFollows
  <2> QED
    BY <2>3, <2>4
<1>4. CASE inner' = Applied(watcher.text) /\ watcher'.pc = "emit"
  <2>1. inner'.last = ParseConfig(watcher.text) /\ inner'.latch = Absent
    BY <1>4 DEF Applied
  <2>2. BaseInv'
    BY <1>1, <1>2, <1>4, <2>1
       DEF BaseInv, CommandCurrent, WatcherCurrent, LatchIsBase, BaseFollows, WillRead
  <2>3. SocketInv'
    BY <1>1, <1>4, <2>1 DEF SocketInv, ControlLatched, ListenerFollows
  <2> QED
    BY <2>2, <2>3
<1> QED
  BY <1>3, <1>4 DEF Apply, TypeOK, WatcherThread

LEMMA EmitKeeps ==
  ASSUME TypeOK, BaseInv, SocketInv, Emit
  PROVE  BaseInv' /\ SocketInv'
<1>1. /\ watcher.pc = "emit" /\ watcher'.pc = "control"
      /\ UNCHANGED <<file, wake, inner, listener, main>>
  BY DEF Emit, TypeOK, WatcherThread
<1>2. rift \in Rift /\ rift' \in Rift /\ rift' >= rift
  BY DEF TypeOK, Rift, Emit, Widened
<1>3. BaseInv'
  BY <1>1, <1>2 DEF Rift, BaseInv, CommandCurrent, WatcherCurrent, LatchIsBase, BaseFollows, WillRead
<1>4. SocketInv'
  BY <1>1, <1>2 DEF Rift, SocketInv, ControlLatched, ListenerFollows
<1> QED
  BY <1>3, <1>4

\* The socket is served as the file says that was applied: that is the base, unless
\* the state has moved on since.
LEMMA FollowControlKeeps ==
  ASSUME TypeOK, BaseInv, SocketInv, FollowControl
  PROVE  BaseInv' /\ SocketInv'
<1>1. /\ watcher.pc = "control" /\ watcher'.pc = "idle" /\ listener' = watcher.text.rc
      /\ UNCHANGED <<file, wake, inner, main>>
  BY DEF FollowControl, Asleep
<1>2. rift \in Rift /\ rift' \in Rift /\ rift' >= rift
  BY DEF TypeOK, Rift, FollowControl, Widened
<1>3. rift' < 2 => inner = Applied(watcher.text)
  BY <1>2 DEF Rift, FollowControl, Widened
<1>4. rift' < 2 => listener' = inner.last.rc
  BY <1>1, <1>3, Parses DEF Applied, TypeOK, WatcherThread
<1>5. BaseInv'
  BY <1>1, <1>2 DEF Rift, BaseInv, CommandCurrent, WatcherCurrent, LatchIsBase, BaseFollows, WillRead
<1>6. SocketInv'
  BY <1>1, <1>2, <1>4 DEF Rift, SocketInv, ControlLatched, ListenerFollows
<1> QED
  BY <1>5, <1>6

\* A window leaves the backend alone.
LEMMA RuntimeRests ==
  ASSUME TypeOK, NEW w \in Windows, Runtime(w)
  PROVE  UNCHANGED backendVars /\ rift' \in Rift /\ rift' >= rift
<1>1. \A level \in 1..3 : \A b \in BOOLEAN : Widened(level, b) \in Rift /\ Widened(level, b) >= rift
  BY DEF TypeOK, Rift, Widened
<1>2. CASE \/ OpenWindow(w) \/ SubscribeToBus(w) \/ WriteSettled(w) \/ HandleEvent(w)
  BY <1>2 DEF OpenWindow, SubscribeToBus, WriteSettled, HandleEvent, TypeOK, Rift
<1>3. CASE Hydrate(w) \/ ResetAll(w)
  <2>1. \A condition \in BOOLEAN : Widened(1, condition) \in Rift /\ Widened(1, condition) >= rift
    BY <1>1
  <2>2. Missed \in BOOLEAN /\ Crossing(w) \in BOOLEAN
    BY DEF Missed, Crossing
  <2>3. rift \in Rift /\ rift >= rift
    BY DEF TypeOK, Rift
  <2>4. CASE Hydrate(w)
    BY <2>1, <2>2, <2>3, <2>4 DEF Hydrate
  <2>5. CASE ResetAll(w)
    BY <2>1, <2>2, <2>3, <2>5 DEF ResetAll
  <2> QED
    BY <1>3, <2>4, <2>5
<1>4. CASE \E theme \in VALUES : SetTheme(w, theme)
  BY <1>4 DEF SetTheme, TypeOK, Rift, Widened
<1> QED
  BY <1>2, <1>3, <1>4 DEF Runtime

\* At start the base and the socket are what the file says, if it can be read.
LEMMA InitKeeps == Init => BaseInv /\ SocketInv /\ WarningInv
<1> SUFFICES ASSUME Init
             PROVE  BaseInv /\ SocketInv /\ WarningInv
  OBVIOUS
<1> DEFINE text == IF file.readable THEN file.text ELSE Absent
<1>1. /\ inner.last = ParseConfig(text) /\ inner.latch = Absent /\ listener = text.rc
      /\ main.pc = "idle" /\ watcher.pc = "idle"
  BY DEF Init, Idle, Asleep
<1>2. text \in Text
  BY InitTyped, KnownTexts DEF TypeOK, File
<1>3. BaseInv
  BY <1>1 DEF BaseInv, CommandCurrent, WatcherCurrent, LatchIsBase, BaseFollows
<1>4. SocketInv
  <2> HIDE DEF text
  <2>1. ParseConfig(text).rc = text.rc
    BY <1>2, Parses
  <2> QED
    BY <1>1, <2>1 DEF SocketInv, ControlLatched, ListenerFollows
<1>5. WarningInv
  BY DEF Init, Closed, WarningInv
<1> QED
  BY <1>3, <1>4, <1>5

\* A warning is authored with the failure it speaks of, and goes when the setting
\* gets another value or the newest write succeeds.
LEMMA WarningKeeps ==
  ASSUME TypeOK, WarningInv, NEW w \in Windows, Runtime(w)
  PROVE  WarningInv'
<1>1. \A o \in Windows : windows[o].client => windows[o].failed /\ windows[o].fate = "failed"
  BY DEF WarningInv
<1>2. ASSUME NEW new, windows' = [windows EXCEPT ![w] = new],
             new.client => new.failed /\ new.fate = "failed"
      PROVE  WarningInv'
  BY <1>1, <1>2 DEF WarningInv, TypeOK
<1>3. CASE OpenWindow(w)
  <2>1. windows' = [windows EXCEPT ![w] = [windows[w] EXCEPT !.phase = "reading"]]
    BY <1>3 DEF OpenWindow
  <2> QED
    BY <1>1, <1>2, <2>1 DEF TypeOK, SettingsRuntime
<1>4. CASE SubscribeToBus(w)
  <2>1. windows' = [windows EXCEPT ![w] = [windows[w] EXCEPT !.phase = "up"]]
    BY <1>4 DEF SubscribeToBus
  <2> QED
    BY <1>1, <1>2, <2>1 DEF TypeOK, SettingsRuntime
<1>5. CASE ResetAll(w)
  <2>1. windows' = [windows EXCEPT ![w] = [windows[w] EXCEPT !.theme = "unset"]]
    BY <1>5 DEF ResetAll
  <2> QED
    BY <1>1, <1>2, <2>1 DEF TypeOK, SettingsRuntime
<1>6. CASE Hydrate(w)
  <2> PICK r \in replies[w] :
         LET seeded == [windows[w] EXCEPT !.phase = "seeded", !.client = FALSE, !.banner = r.warnings]
         IN \/ windows' = [windows EXCEPT ![w] = [seeded EXCEPT !.theme = r.text.theme]]
            \/ windows' = [windows EXCEPT ![w] = [seeded EXCEPT !.theme = DERIVED, !.ticket = Ticket(w)]]
    BY <1>6 DEF Hydrate
  <2> DEFINE seeded == [windows[w] EXCEPT !.phase = "seeded", !.client = FALSE, !.banner = r.warnings]
             present == [seeded EXCEPT !.theme = r.text.theme]
             derived == [seeded EXCEPT !.theme = DERIVED, !.ticket = Ticket(w)]
  <2>1. present.client = FALSE /\ derived.client = FALSE
    BY DEF TypeOK, SettingsRuntime
  <2>2. windows' = [windows EXCEPT ![w] = present] \/ windows' = [windows EXCEPT ![w] = derived]
    OBVIOUS
  <2> HIDE DEF seeded, present, derived
  <2> QED
    BY <1>2, <2>1, <2>2
<1>7. ASSUME NEW theme \in VALUES, SetTheme(w, theme)
      PROVE  WarningInv'
  <2> DEFINE new == [windows[w] EXCEPT !.theme = theme, !.ticket = Ticket(w), !.client = FALSE,
                                       !.failed = @ /\ ~windows[w].client, !.fate = "none"]
  <2>1. windows' = [windows EXCEPT ![w] = new]
    BY <1>7 DEF SetTheme
  <2>2. new.client = FALSE
    BY DEF TypeOK, SettingsRuntime
  <2> HIDE DEF new
  <2> QED
    BY <1>2, <2>1, <2>2
<1>8. CASE WriteSettled(w)
  <2> PICK r \in replies[w] :
         windows' = [windows EXCEPT ![w] = [Settled(w, r) EXCEPT !.fate = FateAfter(w, r)]]
    BY <1>8, Settles
  <2> DEFINE new == [Settled(w, r) EXCEPT !.fate = FateAfter(w, r)]
  <2>1. windows[w] \in SettingsRuntime /\ (windows[w].client => windows[w].failed /\ windows[w].fate = "failed")
    BY <1>1 DEF TypeOK
  <2>2. new.client => new.failed /\ new.fate = "failed"
    BY <2>1 DEF Settled, FateAfter, Newest, SettingsRuntime
  <2>3. windows' = [windows EXCEPT ![w] = new]
    OBVIOUS
  <2> HIDE DEF new
  <2> QED
    BY <1>2, <2>2, <2>3
<1>9. CASE HandleEvent(w)
  <2> DEFINE event == Head(queues[w])
             changed == [windows[w] EXCEPT !.theme = Taken(event.theme), !.client = FALSE,
                           !.fate = IF Taken(event.theme) = windows[w].theme THEN @ ELSE "none"]
             warned == [windows[w] EXCEPT !.banner = event.set]
  <2>1. windows' = [windows EXCEPT ![w] = changed] \/ windows' = [windows EXCEPT ![w] = warned]
    BY <1>9 DEF HandleEvent
  <2>2. windows[w] \in SettingsRuntime
    BY DEF TypeOK
  <2>3. changed.client = FALSE
    BY <2>2 DEF SettingsRuntime
  <2>4. warned.client => warned.failed /\ warned.fate = "failed"
    BY <1>1, <2>2 DEF SettingsRuntime
  <2> HIDE DEF changed, warned
  <2> QED
    BY <1>2, <2>1, <2>3, <2>4
<1> QED
  BY <1>3, <1>4, <1>5, <1>6, <1>7, <1>8, <1>9 DEF Runtime

-----------------------------------------------------------------------------
(* The theorems.                                                           *)

LEMMA InitGood == Init => IInv
BY InitTyped, InitKeeps DEF IInv

LEMMA NextTyped ==
  ASSUME TypeOK, Next
  PROVE  TypeOK'
<1>1. CASE FromOutside
  BY <1>1, FromOutsideIs, OutsideTyped
<1>2. ASSUME NEW w \in Windows, ConfigRead(w) \/ ConfigWrite(w) \/ ConfigResetAll(w)
      PROVE  TypeOK'
  BY <1>2, ConfigReadTyped, ConfigWriteTyped, ConfigResetTyped
<1>3. CASE MainThread
  BY <1>2, <1>3, RebaseTyped, WriteAtomicTyped, LatchTyped, ApplyControlTyped,
     ConfigOpenFileTyped, EmitWarningsTyped DEF MainThread
<1>4. CASE Watcher
  BY <1>4, WatcherWakesTyped, ReadAgainTyped, ApplyTyped, EmitTyped, FollowControlTyped DEF Watcher
<1>5. ASSUME NEW w \in Windows, Runtime(w)
      PROVE  TypeOK'
  BY <1>5, OpenWindowTyped, HydrateTyped, SubscribeTyped, ResetAllTyped, SetThemeTyped,
     WriteSettledTyped, HandleEventTyped DEF Runtime
<1> QED
  BY <1>1, <1>3, <1>4, <1>5 DEF Next

LEMMA NextKeeps ==
  ASSUME TypeOK, BaseInv, SocketInv, Next
  PROVE  BaseInv' /\ SocketInv'
<1>1. CASE FromOutside
  BY <1>1, FromOutsideIs, OutsideKeeps
<1>2. ASSUME NEW w \in Windows, ConfigRead(w) \/ ConfigWrite(w) \/ ConfigResetAll(w)
      PROVE  BaseInv' /\ SocketInv'
  BY <1>2, ConfigReadKeeps, StartsKeep
<1>3. CASE EmitConfigWarnings
  BY <1>3, BackendRests DEF EmitConfigWarnings, TypeOK, Rift
<1>4. CASE MainThread
  BY <1>2, <1>3, <1>4, RebaseKeeps, WriteAtomicKeeps, LatchKeeps, ApplyControlKeeps,
     ConfigOpenFileKeeps DEF MainThread
<1>5. CASE Watcher
  BY <1>5, WatcherWakesKeeps, ReadAgainKeeps, ApplyKeeps, EmitKeeps, FollowControlKeeps DEF Watcher
<1>6. ASSUME NEW w \in Windows, Runtime(w)
      PROVE  BaseInv' /\ SocketInv'
  BY <1>6, RuntimeRests, BackendRests
<1> QED
  BY <1>1, <1>4, <1>5, <1>6 DEF Next

\* Only a settings runtime changes what a window says.
LEMMA NextWarns ==
  ASSUME TypeOK, WarningInv, Next
  PROVE  WarningInv'
<1>1. CASE FromOutside \/ MainThread \/ Watcher
  <2>1. UNCHANGED windows
    BY <1>1 DEF FromOutside, EditorSaves, FileRemoved, PermissionsChange, Outside, MainThread,
       ConfigRead, ConfigWrite, ConfigResetAll, Rebase, WriteAtomic, Latch, ApplyControl,
       ConfigOpenFile, EmitConfigWarnings, Watcher, WatcherWakes, ReadAgain, Apply, Emit, FollowControl
  <2> QED
    BY <2>1 DEF WarningInv
<1>2. ASSUME NEW w \in Windows, Runtime(w)
      PROVE  WarningInv'
  BY <1>2, WarningKeeps
<1> QED
  BY <1>1, <1>2 DEF Next

LEMMA NextGood ==
  ASSUME IInv, [Next]_vars
  PROVE  IInv'
<1>1. CASE Next
  BY <1>1, NextTyped, NextKeeps, NextWarns DEF IInv
<1>2. CASE UNCHANGED vars
  <2>1. TypeOK' /\ WarningInv'
    BY <1>2 DEF IInv, TypeOK, WarningInv, vars
  <2>2. UNCHANGED backendVars /\ rift' \in Rift /\ rift' >= rift
    BY <1>2 DEF vars, backendVars, IInv, TypeOK, Rift
  <2> QED
    BY <2>1, <2>2, BackendRests DEF IInv
<1> QED
  BY <1>1, <1>2

\* The inductive invariant holds of every behaviour, for every set of theme values,
\* every files at start and every amount of work.
THEOREM Invariant == Spec => []IInv
BY InitGood, NextGood, PTL DEF Spec

\* Every variable keeps its type, and a window never holds a theme it could not show
\* (settingsStore.ts coerces what the bus and the file bring).
THEOREM TypeCorrect == Spec => []TypeOK
<1>1. IInv => TypeOK
  BY DEF IInv
<1> QED
  BY Invariant, <1>1, PTL

\* The diff base is what the file says whenever nobody is on the way to it, whatever
\* echoes were dropped and whatever bursts became one wake (config_io.rs, fs_watch.rs).
THEOREM BaseMatchesFile == Spec => []LastMatchesFile
<1>1. IInv => LastMatchesFile
  <2> SUFFICES ASSUME IInv, BackendQuiet, file.readable, rift < 3
               PROVE  inner.last = FileConfig
    BY DEF LastMatchesFile
  <2> QED
    BY DEF IInv, BaseInv, BaseFollows, WillRead, BackendQuiet, FileConfig
<1> QED
  BY Invariant, <1>1, PTL

\* The control socket is served exactly when the file enables it, whoever wrote the
\* file and whoever applied it (apply_remote_control from a command and the watcher).
THEOREM SocketMatchesFile == Spec => []SocketFollowsFile
<1>1. IInv => SocketFollowsFile
  <2> SUFFICES ASSUME IInv, BackendQuiet, file.readable, rift < 2
               PROVE  listener = file.text.rc
    BY DEF SocketFollowsFile
  <2>1. rift < 3 /\ ~WillRead
    BY DEF IInv, TypeOK, Rift, BackendQuiet, WillRead
  <2>2. inner.last = ParseConfig(file.text)
    BY <2>1 DEF IInv, BaseInv, BaseFollows
  <2>3. listener = inner.last.rc
    BY <2>1 DEF IInv, SocketInv, ListenerFollows, BackendQuiet
  <2>4. ParseConfig(file.text).rc = file.text.rc
    BY Parses DEF IInv, TypeOK, File
  <2> QED
    BY <2>2, <2>3, <2>4
<1> QED
  BY Invariant, <1>1, PTL

\* A window that says a setting could not be saved speaks of its newest write, which
\* was refused: not of an older one that settled late (settingsStore.ts persist).
THEOREM WarningsSpeakOfNewest == Spec => []WarningIsNewest
<1>1. IInv => WarningIsNewest
  BY DEF IInv, WarningInv, WarningIsNewest
<1> QED
  BY Invariant, <1>1, PTL

-----------------------------------------------------------------------------
(***************************************************************************)
(* The windows of ConfigSync converge: without overlap each is on the way  *)
(* to the theme of the newest write or of the diff base, whatever is       *)
(* queued, being written or about to be emitted.                           *)
(***************************************************************************)

(* What the events in a queue lead to.                                     *)

Change(events, i) == events[i].kind = "changed"

\* A window that shows one theme shows the other when it has handled the events: the
\* last change among them says so.
Leads(shown, events, theme) ==
  \/ /\ \A i \in DOMAIN events : ~Change(events, i)
     /\ shown = theme
  \/ \E i \in DOMAIN events :
       /\ Change(events, i) /\ Coerce(events[i].theme) = theme
       /\ \A j \in DOMAIN events : j > i => ~Change(events, j)

ChangeTo(theme) == [kind |-> "changed", theme |-> theme]
WarningOf(set) == [kind |-> "warnings", set |-> set]

LEMMA CoerceTypes ==
  /\ \A theme \in ConfigTheme : Coerce(theme) \in VALUES
  /\ \A theme \in VALUES : Coerce(theme) = theme /\ theme # "unset" /\ theme # "white"
  /\ Coerce("white") = DERIVED
BY ConfigTextAssumption DEF ConfigTheme, Coerce

LEMMA LeadsNowhere ==
  ASSUME NEW a, NEW b
  PROVE  Leads(a, <<>>, b) <=> a = b
BY DEF Leads

LEMMA LeadsToChange ==
  ASSUME NEW q \in Seq(Event), NEW shown, NEW theme \in VALUES
  PROVE  Leads(shown, q \o <<ChangeTo(theme)>>, theme)
<1> DEFINE events == q \o <<ChangeTo(theme)>>
           n == Len(q) + 1
<1>1. n \in DOMAIN events /\ events[n] = ChangeTo(theme) /\ \A j \in DOMAIN events : ~(j > n)
  OBVIOUS
<1>2. Change(events, n) /\ Coerce(events[n].theme) = theme
  BY <1>1, CoerceTypes DEF Change, ChangeTo
<1> HIDE DEF events, n
<1>3. Leads(shown, events, theme)
  BY <1>1, <1>2 DEF Leads
<1> QED
  BY <1>3 DEF events

LEMMA LeadsOn ==
  ASSUME NEW q \in Seq(Event), NEW e \in Seq(Event), NEW a, NEW b, NEW c,
         Leads(a, q, b), Leads(b, e, c)
  PROVE  Leads(a, q \o e, c)
<1> DEFINE both == q \o e
<1>1. /\ \A i \in DOMAIN q : i \in DOMAIN both /\ both[i] = q[i]
      /\ \A i \in DOMAIN e : Len(q) + i \in DOMAIN both /\ both[Len(q) + i] = e[i]
      /\ DOMAIN both = 1..(Len(q) + Len(e)) /\ DOMAIN q = 1..Len(q) /\ DOMAIN e = 1..Len(e)
      /\ Len(q) \in Nat /\ Len(e) \in Nat
  OBVIOUS
<1> HIDE DEF both
<1>2. ASSUME NEW j \in DOMAIN both, j > Len(q)
      PROVE  \E i \in DOMAIN e : j = Len(q) + i
  <2>1. j - Len(q) \in DOMAIN e /\ j = Len(q) + (j - Len(q))
    BY <1>1, <1>2
  <2> QED
    BY <2>1
<1>3. CASE \E i \in DOMAIN e : /\ Change(e, i) /\ Coerce(e[i].theme) = c
                               /\ \A j \in DOMAIN e : j > i => ~Change(e, j)
  <2> PICK i \in DOMAIN e : /\ Change(e, i) /\ Coerce(e[i].theme) = c
                            /\ \A j \in DOMAIN e : j > i => ~Change(e, j)
    BY <1>3
  <2>1. Len(q) + i \in DOMAIN both /\ Change(both, Len(q) + i) /\ Coerce(both[Len(q) + i].theme) = c
    BY <1>1 DEF Change
  <2>2. ASSUME NEW j \in DOMAIN both, j > Len(q) + i
        PROVE  ~Change(both, j)
    <3>1. j > Len(q)
      BY <1>1, <2>2
    <3> PICK k \in DOMAIN e : j = Len(q) + k
      BY <1>2, <3>1
    <3>2. k > i
      BY <1>1, <2>2
    <3> QED
      BY <1>1, <3>2 DEF Change
  <2> QED
    BY <2>1, <2>2 DEF Leads, both
<1>4. CASE (\A i \in DOMAIN e : ~Change(e, i)) /\ b = c
  <2>1. ASSUME NEW j \in DOMAIN both, j > Len(q)
        PROVE  ~Change(both, j)
    BY <1>1, <1>2, <1>4, <2>1 DEF Change
  <2>2. CASE (\A i \in DOMAIN q : ~Change(q, i)) /\ a = b
    <3>1. \A j \in DOMAIN both : j <= Len(q) => j \in DOMAIN q
      BY <1>1
    <3>2. \A j \in DOMAIN both : j <= Len(q) \/ j > Len(q)
      BY <1>1
    <3>3. \A j \in DOMAIN both : ~Change(both, j)
      BY <1>1, <2>1, <2>2, <3>1, <3>2 DEF Change
    <3> QED
      BY <1>4, <2>2, <3>3 DEF Leads, both
  <2>3. CASE \E i \in DOMAIN q : /\ Change(q, i) /\ Coerce(q[i].theme) = b
                                 /\ \A j \in DOMAIN q : j > i => ~Change(q, j)
    <3> PICK i \in DOMAIN q : /\ Change(q, i) /\ Coerce(q[i].theme) = b
                              /\ \A j \in DOMAIN q : j > i => ~Change(q, j)
      BY <2>3
    <3>1. i \in DOMAIN both /\ Change(both, i) /\ Coerce(both[i].theme) = c
      BY <1>1, <1>4 DEF Change
    <3>2. ASSUME NEW j \in DOMAIN both, j > i
          PROVE  ~Change(both, j)
      <4>1. CASE j > Len(q)
        BY <2>1, <4>1
      <4>2. CASE j \in DOMAIN q
        BY <1>1, <3>2, <4>2 DEF Change
      <4> QED
        BY <1>1, <4>1, <4>2
    <3> QED
      BY <3>1, <3>2 DEF Leads, both
  <2> QED
    BY <2>2, <2>3 DEF Leads
<1> QED
  BY <1>3, <1>4 DEF Leads

LEMMA LeadsPastWarning ==
  ASSUME NEW q \in Seq(Event), NEW a, NEW b, Leads(a, q, b), NEW set \in Warnings
  PROVE  Leads(a, q \o <<WarningOf(set)>>, b)
<1>1. <<WarningOf(set)>> \in Seq(Event)
  BY EventTypes DEF WarningOf
<1>2. Leads(b, <<WarningOf(set)>>, b)
  BY DEF Leads, Change, WarningOf
<1> QED
  BY <1>1, <1>2, LeadsOn

\* One event handled.
LEMMA LeadsFromHead ==
  ASSUME NEW q \in Seq(Event), q # <<>>, NEW a, NEW b, Leads(a, q, b)
  PROVE  Leads(IF Head(q).kind = "changed" THEN Coerce(Head(q).theme) ELSE a, Tail(q), b)
<1> DEFINE rest == Tail(q)
           next == IF Head(q).kind = "changed" THEN Coerce(Head(q).theme) ELSE a
<1>1. /\ 1 \in DOMAIN q /\ Head(q) = q[1]
      /\ \A i \in DOMAIN rest : i + 1 \in DOMAIN q /\ rest[i] = q[i + 1] /\ i \in Nat /\ i >= 1
      /\ \A i \in DOMAIN q : i \in Nat /\ i >= 1 /\ (i > 1 => i - 1 \in DOMAIN rest)
  OBVIOUS
<1> HIDE DEF rest
<1>2. CASE (\A i \in DOMAIN q : ~Change(q, i)) /\ a = b
  <2>1. next = b /\ \A i \in DOMAIN rest : ~Change(rest, i)
    BY <1>1, <1>2 DEF Change
  <2> QED
    BY <2>1 DEF Leads, rest
<1>3. CASE \E i \in DOMAIN q : /\ Change(q, i) /\ Coerce(q[i].theme) = b
                               /\ \A j \in DOMAIN q : j > i => ~Change(q, j)
  <2> PICK i \in DOMAIN q : /\ Change(q, i) /\ Coerce(q[i].theme) = b
                            /\ \A j \in DOMAIN q : j > i => ~Change(q, j)
    BY <1>3
  <2>1. \A j \in DOMAIN rest : j + 1 > i => ~Change(rest, j)
    BY <1>1 DEF Change
  <2>2. CASE i = 1
    <3>1. next = b
      BY <1>1, <2>2 DEF Change
    <3>2. \A j \in DOMAIN rest : j + 1 > 1
      BY <1>1
    <3> QED
      BY <2>1, <2>2, <3>1, <3>2 DEF Leads, rest
  <2>3. CASE i > 1
    <3>1. i - 1 \in DOMAIN rest /\ (i - 1) + 1 = i
      BY <1>1, <2>3
    <3>2. Change(rest, i - 1) /\ Coerce(rest[i - 1].theme) = b
      BY <1>1, <3>1 DEF Change
    <3>3. \A j \in DOMAIN rest : j > i - 1 => j + 1 > i
      BY <1>1
    <3> QED
      BY <2>1, <3>1, <3>2, <3>3 DEF Leads, rest
  <2> QED
    BY <1>1, <2>2, <2>3
<1> QED
  BY <1>2, <1>3 DEF Leads

\* What the watcher emits leads from the old diff base to the new one.
LEMMA LeadsToBase ==
  ASSUME TypeOK, NEW text \in Text
  PROVE  Leads(Coerce(inner.last.theme), EmissionsFor(text), Coerce(ParseConfig(text).theme))
<1> DEFINE theme == ParseConfig(text).theme
           warning == WarningOf(WarningsOf(HasWarnings(text), FALSE))
<1>1. warning.kind = "warnings"
  BY DEF WarningOf
<1>2. EmissionsFor(text) = (IF theme # inner.last.theme THEN <<ChangeTo(theme)>> ELSE <<>>) \o <<warning>>
  BY DEF EmissionsFor, ChangeTo, WarningOf
<1>3. ChangeTo(theme).kind = "changed" /\ ChangeTo(theme).theme = theme
  BY DEF ChangeTo
<1> HIDE DEF theme, warning
<1>4. CASE theme = inner.last.theme
  <2>1. EmissionsFor(text) = <<warning>>
    BY <1>2, <1>4
  <2>2. Leads(Coerce(theme), <<warning>>, Coerce(theme))
    BY <1>1 DEF Leads, Change
  <2> QED
    BY <1>4, <2>1, <2>2 DEF theme
<1>5. CASE theme # inner.last.theme
  <2> DEFINE events == <<ChangeTo(theme)>>
  <2>1. events \in Seq(Event)
    BY Parses, EventTypes DEF Config, ChangeTo, theme
  <2>2. DOMAIN events = {1} /\ events[1] = ChangeTo(theme)
    OBVIOUS
  <2>3. EmissionsFor(text) = events \o <<warning>>
    BY <1>2, <1>5
  <2> HIDE DEF events
  <2>4. Leads(Coerce(inner.last.theme), events, Coerce(theme))
    BY <1>3, <2>2 DEF Leads, Change
  <2>5. WarningsOf(HasWarnings(text), FALSE) \in Warnings
    BY Parses, WarningTypes
  <2> QED
    BY <2>1, <2>3, <2>4, <2>5, LeadsPastWarning DEF theme, warning
<1> QED
  BY <1>4, <1>5

-----------------------------------------------------------------------------
(* A window reads the file once: its read is asked for, being carried out  *)
(* or answered, and until it is handled the window has nothing else.       *)

IsRead(r) == r.call.cmd = "read"
BeingRead(w) == main.pc = "rebase" /\ main.win = w
BeingWritten(w) == main.pc \in {"rename", "latch"} /\ main.win = w

MainCall ==
  /\ main.pc = "rebase" => main.call.cmd = "read"
  /\ main.pc \in {"rename", "latch", "control"} => IsWrite(main.call)

ReadOf(w) ==
  /\ BeingRead(w) => windows[w].phase = "reading" /\ calls[w] = <<>>
  /\ \A r \in replies[w] : IsRead(r) => /\ windows[w].phase = "reading" /\ calls[w] = <<>>
                                        /\ ~BeingRead(w)
                                        /\ \A s \in replies[w] : IsRead(s) => s = r
  /\ \A i \in DOMAIN calls[w] :
       calls[w][i].cmd = "read" => /\ windows[w].phase = "reading" /\ calls[w] = <<NoCall>>
                                   /\ ~BeingWritten(w)
  /\ windows[w].phase = "closed" => calls[w] = <<>> /\ ~BeingWritten(w)
  /\ windows[w].phase # "up" => queues[w] = <<>>

ReadInv ==
  /\ MainCall /\ \A w \in Windows : ReadOf(w)
  /\ windows["settings"].phase # "closed" => Up("main")

\* What leaves the calls, the replies, the queues, the windows and the command alone.
LEMMA ReadsRest ==
  ASSUME ReadInv, UNCHANGED <<main, calls, replies, queues, windows>>
  PROVE  ReadInv'
BY DEF ReadInv, MainCall, ReadOf, BeingRead, BeingWritten, Up

\* The command at the head of the calls is taken over by the main thread.
LEMMA BegunReads ==
  ASSUME TypeOK, ReadInv, NEW w \in Windows, NEW cmd, Begin(w, cmd),
         replies' = replies \/ (\E r : r.call.cmd # "read" /\ replies' = [replies EXCEPT ![w] = @ \cup {r}]),
         UNCHANGED <<queues, windows>>,
         \/ cmd # "read" /\ main'.pc = "rename" /\ main'.win = w /\ main'.call.cmd = cmd
         \/ cmd # "read" /\ UNCHANGED main
         \/ cmd = "read" /\ main'.pc = "rebase" /\ main'.win = w /\ main'.call.cmd = cmd
  PROVE  ReadInv'
<1>1. main.pc = "idle" /\ calls[w] # <<>> /\ calls[w] \in Seq(Call) /\ Head(calls[w]) = calls[w][1]
      /\ calls[w][1].cmd = cmd /\ 1 \in DOMAIN calls[w]
  BY DEF Begin, TypeOK
<1>2. calls' = [calls EXCEPT ![w] = Tail(calls[w])]
  BY DEF Begin
<1>3. \A o \in Windows : ReadOf(o)
  BY DEF ReadInv
<1>4. MainCall'
  BY <1>1, <1>3 DEF MainCall, IsWrite
<1>5. ASSUME NEW o \in Windows, o # w
      PROVE  ReadOf(o)'
  <2>1. calls'[o] = calls[o] /\ replies'[o] = replies[o] /\ ~BeingRead(o)' /\ ~BeingRead(o)
        /\ ~BeingWritten(o)'
    BY <1>1, <1>2, <1>5 DEF BeingRead, BeingWritten, TypeOK
  <2> QED
    BY <1>3, <2>1 DEF ReadOf
<1>6. ReadOf(w)'
  <2>1. calls'[w] = Tail(calls[w]) /\ windows[w].phase # "closed"
    BY <1>1, <1>2, <1>3 DEF TypeOK, ReadOf
  <2>2. \A r \in replies[w] : ~IsRead(r)
    BY <1>1, <1>3 DEF ReadOf
  <2>3. \A r \in replies'[w] : ~IsRead(r)
    BY <2>2 DEF IsRead, TypeOK
  <2>4. CASE cmd = "read"
    <3>1. calls[w] = <<NoCall>> /\ windows[w].phase = "reading"
      BY <1>1, <1>3, <2>4 DEF ReadOf
    <3>2. Tail(<<NoCall>>) = <<>>
      OBVIOUS
    <3>3. calls'[w] = <<>>
      BY <2>1, <3>1, <3>2, Zenon
    <3> QED
      BY <1>3, <2>3, <3>1, <3>3 DEF ReadOf
  <2>5. CASE cmd # "read"
    <3>1. ~BeingRead(w)'
      BY <1>1, <2>5 DEF BeingRead
    <3>2. \A i \in DOMAIN calls'[w] : i + 1 \in DOMAIN calls[w] /\ calls'[w][i] = calls[w][i + 1]
      BY <1>1, <2>1
    <3>3. \A i \in DOMAIN calls[w] : calls[w][i].cmd # "read"
      <4> SUFFICES ASSUME NEW i \in DOMAIN calls[w], calls[w][i].cmd = "read"
                   PROVE  FALSE
        OBVIOUS
      <4>1. calls[w] = <<NoCall>>
        BY <1>3 DEF ReadOf
      <4> QED
        BY <1>1, <2>5, <4>1 DEF NoCall
    <3> QED
      BY <1>3, <2>1, <2>3, <3>1, <3>2, <3>3 DEF ReadOf
  <2> QED
    BY <2>4, <2>5
<1> QED
  BY <1>3, <1>4, <1>5, <1>6 DEF ReadInv, Up

LEMMA ConfigReadReads ==
  ASSUME TypeOK, ReadInv, NEW w \in Windows, ConfigRead(w)
  PROVE  ReadInv'
<1>1. main'.pc = "rebase" /\ main'.win = w /\ main'.call.cmd = "read" /\ Begin(w, "read")
  BY DEF ConfigRead, Begin
<1>2. UNCHANGED <<replies, queues, windows>>
  BY DEF ConfigRead
<1> QED
  BY <1>1, <1>2, BegunReads

\* A refused command answers with what is no read.
LEMMA Refused ==
  ASSUME TypeOK, NEW w \in Windows, NEW call, IsWrite(call), Refuse(w, call)
  PROVE  replies' = replies \/ (\E r : r.call.cmd # "read" /\ replies' = [replies EXCEPT ![w] = @ \cup {r}])
<1> DEFINE r == [call |-> call, ok |-> FALSE, text |-> Absent, warnings |-> {}]
<1>1. r.call.cmd # "read"
  BY DEF IsWrite
<1>2. replies' = replies \/ replies' = [replies EXCEPT ![w] = @ \cup {r}]
  BY DEF Refuse, Answer, TypeOK
<1> HIDE DEF r
<1> QED
  BY <1>1, <1>2

LEMMA ConfigWriteReads ==
  ASSUME TypeOK, ReadInv, NEW w \in Windows, ConfigWrite(w)
  PROVE  ReadInv'
<1>1. Begin(w, "write") /\ Head(calls[w]).cmd = "write" /\ UNCHANGED <<queues, windows>>
  BY DEF ConfigWrite, Begin
<1>2. CASE main'.pc = "rename" /\ main'.win = w /\ main'.call = Head(calls[w]) /\ UNCHANGED replies
  BY <1>1, <1>2, BegunReads
<1>3. CASE Refuse(w, Head(calls[w])) /\ UNCHANGED main
  <2>1. replies' = replies \/ (\E r : r.call.cmd # "read" /\ replies' = [replies EXCEPT ![w] = @ \cup {r}])
    BY <1>1, <1>3, Refused DEF IsWrite
  <2> QED
    BY <1>1, <1>3, <2>1, BegunReads
<1> QED
  BY <1>2, <1>3 DEF ConfigWrite

LEMMA ConfigResetReads ==
  ASSUME TypeOK, ReadInv, NEW w \in Windows, ConfigResetAll(w)
  PROVE  ReadInv'
<1>1. Begin(w, "reset") /\ Head(calls[w]).cmd = "reset" /\ UNCHANGED <<replies, queues, windows>>
  BY DEF ConfigResetAll, Begin
<1>2. main'.pc = "rename" /\ main'.win = w /\ main'.call = Head(calls[w])
  BY DEF ConfigResetAll
<1> QED
  BY <1>1, <1>2, BegunReads

\* The command of a window ends or goes on.
LEMMA WritingReads ==
  ASSUME TypeOK, ReadInv, WriteAtomic \/ Latch \/ ApplyControl
  PROVE  ReadInv'
<1>1. main.pc \in {"rename", "latch", "control"} /\ IsWrite(main.call) /\ main.win \in Windows
  BY DEF WriteAtomic, Latch, ApplyControl, ReadInv, MainCall, TypeOK, Command
<1>2. UNCHANGED <<calls, queues, windows>>
  BY DEF WriteAtomic, Latch, ApplyControl
<1>3. \/ main'.pc = "idle"
      \/ /\ main'.pc \in {"latch", "control"} /\ main'.call = main.call /\ main'.win = main.win
         /\ main'.pc = "latch" => main.pc = "rename"
  <2>1. \/ main' = Idle
        \/ main.pc = "rename" /\ main' = [main EXCEPT !.pc = "latch"]
        \/ main' = [main EXCEPT !.pc = "control"]
    BY DEF WriteAtomic, Latch, ApplyControl
  <2>2. main \in Command
    BY DEF TypeOK
  <2> QED
    BY <2>1, <2>2 DEF Idle, Command
<1>4. replies' = replies \/ (\E r : r.call.cmd # "read" /\ replies' = [replies EXCEPT ![main.win] = @ \cup {r}])
  <2>1. CASE WriteAtomic
    BY <1>1, <2>1, Refused DEF WriteAtomic
  <2>2. CASE Latch
    BY <2>2 DEF Latch
  <2>3. CASE ApplyControl
    <3> DEFINE r == [call |-> main.call, ok |-> TRUE, text |-> Absent, warnings |-> {}]
    <3>1. r.call.cmd # "read"
      BY <1>1 DEF IsWrite
    <3>2. replies' = replies \/ replies' = [replies EXCEPT ![main.win] = @ \cup {r}]
      BY <2>3 DEF ApplyControl, Answer, TypeOK
    <3> HIDE DEF r
    <3> QED
      BY <3>1, <3>2
  <2> QED
    BY <2>1, <2>2, <2>3
<1>5. MainCall'
  BY <1>1, <1>3 DEF MainCall
<1>6. ASSUME NEW w \in Windows
      PROVE  ReadOf(w)'
  <2>1. ~BeingRead(w) /\ ~BeingRead(w)' /\ (BeingWritten(w)' => BeingWritten(w))
    BY <1>1, <1>3 DEF BeingRead, BeingWritten
  <2>2. \A r \in replies'[w] : IsRead(r) => r \in replies[w]
    BY <1>4 DEF IsRead, TypeOK
  <2>3. ReadOf(w)
    BY DEF ReadInv
  <2> QED
    BY <1>2, <2>1, <2>2, <2>3 DEF ReadOf
<1> QED
  BY <1>2, <1>5, <1>6 DEF ReadInv, Up

\* The read is answered.
LEMMA RebaseReads ==
  ASSUME TypeOK, ReadInv, Rebase
  PROVE  ReadInv'
<1> DEFINE answer == [call |-> main.call, ok |-> TRUE, text |-> main.text,
                      warnings |-> WarningsOf(HasWarnings(main.text), ~main.ok)]
<1>1. main.pc = "rebase" /\ main.call.cmd = "read" /\ main.win \in Windows /\ main'.pc = "idle"
      /\ UNCHANGED <<calls, queues, windows>>
  BY DEF Rebase, Idle, ReadInv, MainCall, TypeOK, Command
<1>2. replies' = [replies EXCEPT ![main.win] = @ \cup {answer}]
  BY <1>1 DEF Rebase, Answer
<1> HIDE DEF answer
<1>3. MainCall'
  BY <1>1 DEF MainCall
<1>4. ASSUME NEW w \in Windows
      PROVE  ReadOf(w)'
  <2>1. ReadOf(w) /\ ~BeingRead(w)' /\ ~BeingWritten(w)'
    BY <1>1 DEF ReadInv, BeingRead, BeingWritten
  <2>2. CASE w # main.win
    <3>1. replies'[w] = replies[w] /\ ~BeingRead(w)
      BY <1>2, <2>2 DEF TypeOK, BeingRead
    <3> QED
      BY <1>1, <2>1, <3>1 DEF ReadOf
  <2>3. CASE w = main.win
    <3>1. BeingRead(w) /\ windows[w].phase = "reading" /\ calls[w] = <<>>
      BY <1>1, <2>1, <2>3 DEF BeingRead, ReadOf
    <3>2. \A r \in replies'[w] : IsRead(r) => r = answer
      BY <1>2, <2>1, <2>3, <3>1 DEF TypeOK, ReadOf
    <3> QED
      BY <1>1, <2>1, <3>1, <3>2 DEF ReadOf
  <2> QED
    BY <2>2, <2>3
<1> QED
  BY <1>1, <1>3, <1>4 DEF ReadInv, Up

\* Events reach the windows that listen.
LEMMA EmittedReads ==
  ASSUME TypeOK, ReadInv, NEW events, queues' = Emitted(events), UNCHANGED <<main, calls, replies, windows>>
  PROVE  ReadInv'
<1>1. ASSUME NEW w \in Windows
      PROVE  ReadOf(w)'
  <2>1. ReadOf(w)
    BY DEF ReadInv
  <2>2. windows[w].phase # "up" => queues'[w] = queues[w]
    BY DEF Emitted, Up
  <2> QED
    BY <2>1, <2>2 DEF ReadOf, BeingRead, BeingWritten
<1> QED
  BY <1>1 DEF ReadInv, MainCall, Up

LEMMA OpenWindowReads ==
  ASSUME TypeOK, ReadInv, NEW w \in Windows, OpenWindow(w)
  PROVE  ReadInv'
<1>1. /\ windows[w].phase = "closed" /\ (w # "main" => Up("main"))
      /\ calls' = [calls EXCEPT ![w] = Append(calls[w], NoCall)]
      /\ windows' = [windows EXCEPT ![w] = [windows[w] EXCEPT !.phase = "reading"]]
      /\ UNCHANGED <<main, replies, queues>>
  BY DEF OpenWindow, backendVars
<1>2. ReadOf(w) /\ windows[w] \in SettingsRuntime
  BY DEF ReadInv, TypeOK
<1>3. calls[w] = <<>> /\ ~BeingRead(w) /\ ~BeingWritten(w) /\ queues[w] = <<>>
      /\ \A r \in replies[w] : ~IsRead(r)
  BY <1>1, <1>2 DEF ReadOf
<1>4. windows'[w].phase = "reading" /\ calls'[w] = <<NoCall>>
  <2>1. Append(<<>>, NoCall) = <<NoCall>>
    OBVIOUS
  <2> QED
    BY <1>1, <1>2, <1>3, <2>1 DEF TypeOK, SettingsRuntime
<1>5. ReadOf(w)'
  BY <1>1, <1>3, <1>4 DEF ReadOf, BeingRead, BeingWritten
<1>6. ASSUME NEW o \in Windows, o # w
      PROVE  ReadOf(o)'
  <2>1. calls'[o] = calls[o] /\ windows'[o] = windows[o] /\ ReadOf(o)
    BY <1>1, <1>6 DEF TypeOK, ReadInv
  <2> QED
    BY <1>1, <2>1 DEF ReadOf, BeingRead, BeingWritten
<1>7. windows'["settings"].phase # "closed" => Up("main")'
  <2>1. Up("main") => w # "main"
    BY <1>1 DEF Up
  <2>2. CASE w = "settings"
    BY <1>1, <2>1, <2>2 DEF Up, TypeOK, Windows
  <2>3. CASE w = "main"
    BY <1>1, <2>1, <2>3 DEF ReadInv, TypeOK, Windows
  <2> QED
    BY <2>2, <2>3 DEF Windows
<1> QED
  BY <1>1, <1>5, <1>6, <1>7 DEF ReadInv, MainCall

\* A window that is up sets: what it invokes is no read.
LEMMA SettingReads ==
  ASSUME TypeOK, ReadInv, NEW w \in Windows, Up(w), NEW new, new.phase = "up",
         NEW call, call.cmd # "read", NEW events,
         windows' = [windows EXCEPT ![w] = new],
         calls' = [calls EXCEPT ![w] = Append(calls[w], call)],
         queues' = Emitted(events), UNCHANGED <<main, replies>>
  PROVE  ReadInv'
<1>1. \A o \in Windows : windows'[o].phase = windows[o].phase
  BY DEF TypeOK, Up
<1>2. ASSUME NEW o \in Windows
      PROVE  ReadOf(o)'
  <2>1. ReadOf(o) /\ (windows[o].phase # "up" => queues'[o] = queues[o])
    BY DEF ReadInv, Emitted, Up
  <2>2. CASE o # w
    <3>1. calls'[o] = calls[o]
      BY <2>2 DEF TypeOK
    <3> QED
      BY <1>1, <2>1, <3>1 DEF ReadOf, BeingRead, BeingWritten
  <2>3. CASE o = w
    <3>1. windows[w].phase = "up" /\ calls[w] \in Seq(Call)
      BY DEF Up, TypeOK
    <3>2. \A i \in DOMAIN calls[w] : calls[w][i].cmd # "read"
      BY <2>1, <2>3, <3>1 DEF ReadOf
    <3>3. calls'[w] = Append(calls[w], call)
      BY DEF TypeOK
    <3>4. \A i \in DOMAIN calls'[w] : calls'[w][i].cmd # "read"
      <4> SUFFICES ASSUME NEW i \in DOMAIN calls'[w]
                   PROVE  calls'[w][i].cmd # "read"
        OBVIOUS
      <4>1. calls'[w][i] = call \/ (i \in DOMAIN calls[w] /\ calls'[w][i] = calls[w][i])
        BY <3>1, <3>3
      <4> QED
        BY <3>2, <4>1
    <3>5. ~BeingRead(w)' /\ \A r \in replies'[w] : ~IsRead(r)
      BY <2>1, <2>3, <3>1 DEF ReadOf, BeingRead, BeingWritten
    <3> QED
      BY <1>1, <2>3, <3>1, <3>4, <3>5 DEF ReadOf
  <2> QED
    BY <2>2, <2>3
<1> QED
  BY <1>1, <1>2 DEF ReadInv, MainCall, Up, Windows

LEMMA SetThemeReads ==
  ASSUME TypeOK, ReadInv, NEW w \in Windows, NEW theme \in VALUES, SetTheme(w, theme)
  PROVE  ReadInv'
<1> DEFINE new == [windows[w] EXCEPT !.theme = theme, !.ticket = Ticket(w), !.client = FALSE,
                                     !.failed = @ /\ ~windows[w].client, !.fate = "none"]
           call == [cmd |-> "write", theme |-> theme, ticket |-> Ticket(w)]
           events == <<[kind |-> "changed", theme |-> theme]>>
<1>1. /\ Up(w) /\ windows' = [windows EXCEPT ![w] = new] /\ queues' = Emitted(events)
      /\ calls' = [calls EXCEPT ![w] = Append(calls[w], call)] /\ UNCHANGED <<main, replies>>
  BY DEF SetTheme, Persisted, backendVars
<1>2. new.phase = "up" /\ call.cmd # "read"
  BY <1>1 DEF Up, TypeOK, SettingsRuntime
<1> HIDE DEF new, call, events
<1> QED
  BY <1>1, <1>2, SettingReads

LEMMA ResetAllReads ==
  ASSUME TypeOK, ReadInv, NEW w \in Windows, ResetAll(w)
  PROVE  ReadInv'
<1> DEFINE new == [windows[w] EXCEPT !.theme = "unset"]
           call == [cmd |-> "reset", theme |-> DERIVED, ticket |-> 0]
           events == <<[kind |-> "changed", theme |-> DERIVED]>>
<1>1. /\ Up(w) /\ windows' = [windows EXCEPT ![w] = new] /\ queues' = Emitted(events)
      /\ calls' = [calls EXCEPT ![w] = Append(calls[w], call)] /\ UNCHANGED <<main, replies>>
  BY DEF ResetAll, backendVars
<1>2. new.phase = "up" /\ call.cmd # "read"
  BY <1>1 DEF Up, TypeOK, SettingsRuntime
<1> HIDE DEF new, call, events
<1> QED
  BY <1>1, <1>2, SettingReads

\* The seeded window: it shows the theme that was read, or the derived one and writes it.
SeedOf(w, r) == [windows[w] EXCEPT !.phase = "seeded", !.client = FALSE, !.banner = r.warnings]

LEMMA Hydrates ==
  ASSUME NEW w \in Windows, Hydrate(w)
  PROVE  \E r \in replies[w] :
           /\ IsRead(r)
           /\ replies' = [replies EXCEPT ![w] = replies[w] \ {r}]
           /\ \/ /\ r.text.theme \in VALUES
                 /\ windows' = [windows EXCEPT ![w] = [SeedOf(w, r) EXCEPT !.theme = r.text.theme]]
                 /\ UNCHANGED <<calls, rift>>
              \/ /\ r.text.theme \notin VALUES
                 /\ windows' = [windows EXCEPT ![w] =
                                  [SeedOf(w, r) EXCEPT !.theme = DERIVED, !.ticket = Ticket(w)]]
                 /\ calls' = Persisted(w, DERIVED)
                 /\ rift' = Widened(1, Crossing(w))
           /\ UNCHANGED <<backendVars, queues, work>>
BY DEF Hydrate, SeedOf, IsRead

LEMMA HydrateReads ==
  ASSUME TypeOK, ReadInv, NEW w \in Windows, Hydrate(w)
  PROVE  ReadInv'
<1> PICK r \in replies[w] :
       /\ IsRead(r)
       /\ replies' = [replies EXCEPT ![w] = replies[w] \ {r}]
       /\ \/ /\ r.text.theme \in VALUES
             /\ windows' = [windows EXCEPT ![w] = [SeedOf(w, r) EXCEPT !.theme = r.text.theme]]
             /\ UNCHANGED <<calls, rift>>
          \/ /\ r.text.theme \notin VALUES
             /\ windows' = [windows EXCEPT ![w] =
                              [SeedOf(w, r) EXCEPT !.theme = DERIVED, !.ticket = Ticket(w)]]
             /\ calls' = Persisted(w, DERIVED)
             /\ rift' = Widened(1, Crossing(w))
       /\ UNCHANGED <<backendVars, queues, work>>
  BY Hydrates
<1>1. ReadOf(w) /\ windows[w] \in SettingsRuntime /\ UNCHANGED <<main, queues>>
  BY DEF ReadInv, TypeOK, backendVars
<1>2. windows[w].phase = "reading" /\ calls[w] = <<>> /\ ~BeingRead(w) /\ queues[w] = <<>>
      /\ \A s \in replies'[w] : ~IsRead(s)
  BY <1>1 DEF ReadOf, TypeOK
<1>3. windows'[w].phase = "seeded"
  <2>1. [SeedOf(w, r) EXCEPT !.theme = r.text.theme].phase = "seeded"
    BY <1>1 DEF SeedOf, SettingsRuntime
  <2>2. [SeedOf(w, r) EXCEPT !.theme = DERIVED, !.ticket = Ticket(w)].phase = "seeded"
    BY <1>1 DEF SeedOf, SettingsRuntime
  <2> QED
    BY <2>1, <2>2 DEF TypeOK
<1>4. \A i \in DOMAIN calls'[w] : calls'[w][i].cmd # "read"
  <2> DEFINE call == [cmd |-> "write", theme |-> DERIVED, ticket |-> Ticket(w)]
  <2>1. Append(<<>>, call) = <<call>> /\ call.cmd = "write"
    OBVIOUS
  <2>2. calls'[w] = <<>> \/ calls'[w] = Append(<<>>, call)
    BY <1>2 DEF Persisted, TypeOK
  <2> HIDE DEF call
  <2>3. CASE calls'[w] = <<>>
    BY <2>3
  <2>4. CASE calls'[w] = <<call>>
    BY <2>1, <2>4
  <2> QED
    BY <2>1, <2>2, <2>3, <2>4
<1>5. ReadOf(w)'
  BY <1>1, <1>2, <1>3, <1>4 DEF ReadOf, BeingRead, BeingWritten
<1>6. ASSUME NEW o \in Windows, o # w
      PROVE  ReadOf(o)' /\ windows'[o] = windows[o]
  <2>1. calls'[o] = calls[o] /\ windows'[o] = windows[o] /\ replies'[o] = replies[o] /\ ReadOf(o)
    BY <1>6 DEF TypeOK, ReadInv, Persisted
  <2> QED
    BY <1>1, <2>1 DEF ReadOf, BeingRead, BeingWritten
<1>7. windows'["settings"].phase # "closed" => Up("main")'
  <2>1. Up("main") => w # "main"
    BY <1>2 DEF Up
  <2>2. windows["settings"].phase # "closed" => Up("main")
    BY DEF ReadInv
  <2>3. CASE w = "settings"
    BY <1>2, <1>6, <2>2, <2>3 DEF Up, Windows
  <2>4. CASE w = "main"
    BY <1>6, <2>1, <2>2, <2>4 DEF Windows
  <2> QED
    BY <2>3, <2>4 DEF Windows
<1> QED
  BY <1>1, <1>5, <1>6, <1>7 DEF ReadInv, MainCall

LEMMA SubscribeReads ==
  ASSUME TypeOK, ReadInv, NEW w \in Windows, SubscribeToBus(w)
  PROVE  ReadInv'
<1>1. /\ windows[w].phase = "seeded" /\ windows[w] \in SettingsRuntime
      /\ windows' = [windows EXCEPT ![w] = [windows[w] EXCEPT !.phase = "up"]]
      /\ UNCHANGED <<main, calls, replies, queues>>
  BY DEF SubscribeToBus, backendVars, TypeOK
<1>2. windows'[w].phase = "up" /\ \A o \in Windows : o # w => windows'[o] = windows[o]
  BY <1>1 DEF TypeOK, SettingsRuntime
<1>3. ASSUME NEW o \in Windows
      PROVE  ReadOf(o)'
  <2>1. ReadOf(o)
    BY DEF ReadInv
  <2>2. CASE o = w
    BY <1>1, <1>2, <2>1, <2>2 DEF ReadOf, BeingRead, BeingWritten
  <2>3. CASE o # w
    BY <1>1, <1>2, <2>1, <2>3 DEF ReadOf, BeingRead, BeingWritten
  <2> QED
    BY <2>2, <2>3
<1>4. windows'["settings"].phase # "closed" => Up("main")'
  BY <1>1, <1>2 DEF ReadInv, Up, Windows
<1> QED
  BY <1>1, <1>3, <1>4 DEF ReadInv, MainCall

\* A window handles a reply to a write, or an event: its phase and its calls stay.
LEMMA HandlingReads ==
  ASSUME TypeOK, ReadInv, NEW w \in Windows, WriteSettled(w) \/ HandleEvent(w)
  PROVE  ReadInv'
<1>1. UNCHANGED <<main, calls>>
  BY DEF WriteSettled, HandleEvent, backendVars
<1>2. \A o \in Windows : replies'[o] \subseteq replies[o] /\ (queues[o] = <<>> => queues'[o] = <<>>)
  <2>1. CASE WriteSettled(w)
    BY <2>1 DEF WriteSettled, TypeOK
  <2>2. CASE HandleEvent(w)
    <3>1. queues[w] # <<>> /\ queues' = [queues EXCEPT ![w] = Tail(queues[w])] /\ replies' = replies
      BY <2>2 DEF HandleEvent
    <3> QED
      BY <3>1 DEF TypeOK
  <2> QED
    BY <2>1, <2>2
<1>3. \A o \in Windows : windows'[o].phase = windows[o].phase
  <2>1. windows \in [Windows -> SettingsRuntime] /\ windows[w] \in SettingsRuntime
    BY DEF TypeOK
  <2>2. CASE WriteSettled(w)
    <3> PICK r \in replies[w] :
           windows' = [windows EXCEPT ![w] = [Settled(w, r) EXCEPT !.fate = FateAfter(w, r)]]
      BY <2>2, Settles
    <3>1. [Settled(w, r) EXCEPT !.fate = FateAfter(w, r)].phase = windows[w].phase
      BY <2>1 DEF Settled, SettingsRuntime
    <3> QED
      BY <2>1, <3>1
  <2>3. CASE HandleEvent(w)
    <3> DEFINE event == Head(queues[w])
               changed == [windows[w] EXCEPT !.theme = Taken(event.theme), !.client = FALSE,
                             !.fate = IF Taken(event.theme) = windows[w].theme THEN @ ELSE "none"]
               warned == [windows[w] EXCEPT !.banner = event.set]
    <3>1. windows' = [windows EXCEPT ![w] = changed] \/ windows' = [windows EXCEPT ![w] = warned]
      BY <2>3 DEF HandleEvent
    <3>2. changed.phase = windows[w].phase /\ warned.phase = windows[w].phase
      BY <2>1 DEF SettingsRuntime
    <3> HIDE DEF changed, warned
    <3> QED
      BY <2>1, <3>1, <3>2
  <2> QED
    BY <2>2, <2>3
<1>4. ASSUME NEW o \in Windows
      PROVE  ReadOf(o)'
  <2>1. ReadOf(o)
    BY DEF ReadInv
  <2> QED
    BY <1>1, <1>2, <1>3, <2>1 DEF ReadOf, BeingRead, BeingWritten
<1> QED
  BY <1>1, <1>3, <1>4 DEF ReadInv, MainCall, Up, Windows

LEMMA InitReads == Init => ReadInv
<1> SUFFICES ASSUME Init
             PROVE  ReadInv
  OBVIOUS
<1>1. MainCall
  BY DEF Init, Idle, MainCall
<1>2. ASSUME NEW w \in Windows
      PROVE  ReadOf(w)
  BY DEF Init, Idle, Closed, ReadOf, BeingRead, BeingWritten
<1> QED
  BY <1>1, <1>2 DEF ReadInv, Init, Closed, Windows

LEMMA NextReads ==
  ASSUME TypeOK, ReadInv, Next
  PROVE  ReadInv'
<1>1. CASE FromOutside \/ Watcher \/ ConfigOpenFile
  <2>1. CASE Emit
    BY <2>1, EmittedReads DEF Emit
  <2>2. CASE FromOutside \/ WatcherWakes \/ ReadAgain \/ Apply \/ FollowControl \/ ConfigOpenFile
    <3>1. UNCHANGED <<main, calls, replies, queues, windows>>
      BY <2>2 DEF FromOutside, EditorSaves, FileRemoved, PermissionsChange, Outside, ConfigOpenFile,
         WatcherWakes, ReadAgain, Apply, FollowControl
    <3> QED
      BY <3>1, ReadsRest
  <2> QED
    BY <1>1, <2>1, <2>2 DEF Watcher
<1>2. ASSUME NEW w \in Windows, ConfigRead(w) \/ ConfigWrite(w) \/ ConfigResetAll(w)
      PROVE  ReadInv'
  BY <1>2, ConfigReadReads, ConfigWriteReads, ConfigResetReads
<1>3. CASE EmitConfigWarnings
  BY <1>3, EmittedReads DEF EmitConfigWarnings, backendVars
<1>4. CASE MainThread
  BY <1>1, <1>2, <1>3, <1>4, RebaseReads, WritingReads DEF MainThread
<1>5. ASSUME NEW w \in Windows, Runtime(w)
      PROVE  ReadInv'
  BY <1>5, OpenWindowReads, HydrateReads, SubscribeReads, ResetAllReads, SetThemeReads,
     HandlingReads DEF Runtime
<1> QED
  BY <1>1, <1>4, <1>5 DEF Next

-----------------------------------------------------------------------------
(* The inductive invariant of a behaviour without overlap.                 *)

\* A write or a reset of the window has not reached the diff base.
Unlatched(w) ==
  \/ \E i \in DOMAIN calls[w] : IsWrite(calls[w][i])
  \/ BeingWritten(w)
Unwritten == \E w \in Windows : Unlatched(w)

Asked(call) == IF call.cmd = "reset" THEN DERIVED ELSE call.theme
NewestCall(w) == IF calls[w] # <<>> THEN calls[w][Len(calls[w])] ELSE main.call

\* The theme that every window will have: the newest write's, or the diff base's.
Aim(theme) ==
  \/ ~Unwritten /\ theme = Coerce(inner.last.theme)
  \/ \E w \in Windows : Unlatched(w) /\ theme = Asked(NewestCall(w))

\* What the watcher is about to tell is no longer so: telling it is an overlap.
Telling == IF watcher.pc = "emit" THEN watcher.events ELSE <<>>
Overtaken == watcher.pc = "emit" /\ (Unwritten \/ inner # Applied(watcher.text))

\* One window at a time writes, and none between a read of the file and its handling.
OneWriter == \A w, o \in Windows : Unlatched(w) /\ Unlatched(o) => w = o
NoWriteDuringRead ==
  \A w \in Windows : BeingRead(w) \/ (\E r \in replies[w] : IsRead(r)) => ~Unwritten

\* What is about to be the diff base is what was asked for.
TextAsAsked ==
  main.pc \in {"rename", "latch"} =>
    main.text # Absent /\ Coerce(ParseConfig(main.text).theme) = Asked(main.call)

\* Every window that has read shows the aim once it has handled the events that travel
\* and those that the watcher is about to send; so will one whose read is answered.
Shows(w, theme) ==
  \/ windows[w].phase \in {"seeded", "up"} /\ theme = Shown(w)
  \/ \E r \in replies[w] : IsRead(r) /\ theme = Coerce(ParseConfig(r.text).theme)
Reaches(w, theme, aim) ==
  \E seen \in VALUES : Leads(theme, queues[w], seen) /\ Leads(seen, Telling, aim)
OnTheWay ==
  \A w \in Windows : \A theme, aim \in VALUES : Shows(w, theme) /\ Aim(aim) => Reaches(w, theme, aim)

InStep == OneWriter /\ NoWriteDuringRead /\ TextAsAsked /\ (~Overtaken => OnTheWay)
ThemeInv == rift = 0 => InStep

-----------------------------------------------------------------------------
(* The parts that an action leaves alone.                                  *)

LEMMA AimTypes ==
  ASSUME TypeOK
  PROVE  /\ Coerce(inner.last.theme) \in VALUES
         /\ \A w \in Windows : Asked(NewestCall(w)) \in VALUES /\ Shown(w) \in VALUES
<1>1. inner.last.theme \in ConfigTheme
  BY DEF TypeOK, ConfigInner, Config
<1>2. ASSUME NEW w \in Windows
      PROVE  NewestCall(w) \in Call
  <2>1. calls[w] \in Seq(Call) /\ main.call \in Call
    BY DEF TypeOK, Command
  <2>2. calls[w] # <<>> => calls[w][Len(calls[w])] \in Call
    BY <2>1
  <2> QED
    BY <2>1, <2>2 DEF NewestCall
<1>3. \A call \in Call : Asked(call) \in VALUES
  BY ConfigTextAssumption DEF Call, Asked
<1>4. \A w \in Windows : Shown(w) \in VALUES
  BY ConfigTextAssumption DEF TypeOK, SettingsRuntime, Shown
<1> QED
  BY <1>1, <1>2, <1>3, <1>4, CoerceTypes

\* Nothing of a window's writes has changed.
LEMMA AimRests ==
  ASSUME UNCHANGED calls, inner'.last.theme = inner.last.theme,
         main'.pc \in {"rename", "latch"} <=> main.pc \in {"rename", "latch"},
         main.pc \in {"rename", "latch"} => main'.win = main.win /\ main'.call = main.call
  PROVE  /\ \A w \in Windows : Unlatched(w)' <=> Unlatched(w)
         /\ Unwritten' <=> Unwritten
         /\ \A theme : Aim(theme)' <=> Aim(theme)
<1>1. \A w \in Windows : Unlatched(w)' <=> Unlatched(w)
  BY DEF Unlatched, BeingWritten
<1>2. Unwritten' <=> Unwritten
  BY <1>1 DEF Unwritten
<1>3. ASSUME NEW w \in Windows, Unlatched(w)
      PROVE  Asked(NewestCall(w))' = Asked(NewestCall(w))
  <2>1. CASE calls[w] # <<>>
    BY <2>1 DEF NewestCall, Asked
  <2>2. CASE calls[w] = <<>>
    BY <1>3, <2>2 DEF NewestCall, Asked, Unlatched, BeingWritten
  <2> QED
    BY <2>1, <2>2
<1> QED
  BY <1>1, <1>2, <1>3 DEF Aim

\* The watcher alone has moved, and neither has nor had anything to tell.
LEMMA InStepRests ==
  ASSUME InStep, UNCHANGED <<inner, main, calls, replies, queues, windows>>,
         UNCHANGED watcher \/ (watcher.pc # "emit" /\ watcher'.pc # "emit")
  PROVE  InStep'
<1>1. /\ \A w \in Windows : Unlatched(w)' <=> Unlatched(w)
      /\ Unwritten' <=> Unwritten
      /\ \A theme : Aim(theme)' <=> Aim(theme)
  BY AimRests
<1>2. OneWriter' /\ NoWriteDuringRead' /\ TextAsAsked'
  BY <1>1 DEF InStep, OneWriter, NoWriteDuringRead, TextAsAsked, BeingRead
<1>3. Telling' = Telling
  BY DEF Telling
<1>4. Overtaken' <=> Overtaken
  BY <1>1 DEF Overtaken, Applied
<1>5. OnTheWay => OnTheWay'
  BY <1>1, <1>3 DEF OnTheWay, Shows, Reaches, Shown
<1> QED
  BY <1>2, <1>4, <1>5 DEF InStep

-----------------------------------------------------------------------------
(* The commands.                                                           *)

\* A window reads while no other writes.
LEMMA ConfigReadInStep ==
  ASSUME TypeOK, ReadInv, InStep, NEW w \in Windows, ConfigRead(w), rift' = 0
  PROVE  InStep'
<1>1. /\ Begin(w, "read") /\ main.pc = "idle" /\ main'.pc = "rebase" /\ main'.win = w
      /\ UNCHANGED <<inner, watcher, replies, queues, windows>>
  BY DEF ConfigRead, Begin
<1>2. \A o \in Windows \ {w} : ~Writing(o)
  BY DEF ConfigRead, Widened, TypeOK, Rift
<1>3. calls[w] \in Seq(Call) /\ 1 \in DOMAIN calls[w] /\ calls[w][1].cmd = "read"
      /\ calls' = [calls EXCEPT ![w] = Tail(calls[w])]
  BY <1>1 DEF Begin, TypeOK
<1>4. calls[w] = <<NoCall>>
  BY <1>3 DEF ReadInv, ReadOf
<1>5. calls'[w] = <<>>
  <2>1. Tail(<<NoCall>>) = <<>>
    OBVIOUS
  <2>2. calls'[w] = Tail(calls[w])
    BY <1>3 DEF TypeOK
  <2> QED
    BY <1>4, <2>1, <2>2, Zenon
<1>6. ASSUME NEW o \in Windows
      PROVE  ~Unlatched(o) /\ ~Unlatched(o)'
  <2>1. CASE o # w
    <3>1. calls'[o] = calls[o] /\ \A i \in DOMAIN calls[o] : ~IsWrite(calls[o][i])
      BY <1>2, <1>3, <2>1 DEF TypeOK, Writing
    <3> QED
      BY <1>1, <3>1 DEF Unlatched, BeingWritten
  <2>2. CASE o = w
    <3>1. \A i \in DOMAIN calls[w] : calls[w][i] = NoCall
      BY <1>4
    <3> QED
      BY <1>1, <1>5, <2>2, <3>1 DEF Unlatched, BeingWritten, IsWrite, NoCall
  <2> QED
    BY <2>1, <2>2
<1>7. ~Unwritten /\ ~Unwritten' /\ Telling' = Telling /\ (Overtaken' <=> Overtaken)
  BY <1>1, <1>6 DEF Unwritten, Telling, Overtaken, Applied
<1>8. \A theme : Aim(theme)' <=> Aim(theme)
  BY <1>1, <1>6, <1>7 DEF Aim
<1>9. OneWriter' /\ NoWriteDuringRead' /\ TextAsAsked'
  BY <1>1, <1>6, <1>7 DEF OneWriter, NoWriteDuringRead, TextAsAsked
<1>10. OnTheWay => OnTheWay'
  BY <1>1, <1>7, <1>8 DEF OnTheWay, Shows, Reaches, Shown
<1> QED
  BY <1>7, <1>9, <1>10 DEF InStep

\* The answer of a read is what the diff base is, and nothing is told meanwhile.
LEMMA RebaseInStep ==
  ASSUME TypeOK, ReadInv, InStep, Rebase, rift' = 0
  PROVE  InStep'
<1> DEFINE answer == [call |-> main.call, ok |-> TRUE, text |-> main.text,
                      warnings |-> WarningsOf(HasWarnings(main.text), ~main.ok)]
<1>1. /\ main.pc = "rebase" /\ main'.pc = "idle" /\ main.call.cmd = "read" /\ main.win \in Windows
      /\ inner'.last = ParseConfig(main.text)
      /\ UNCHANGED <<watcher, calls, queues, windows>>
  BY DEF Rebase, Rebased, Idle, ReadInv, MainCall, TypeOK, Command, ConfigInner
<1>2. watcher.pc = "idle" /\ ParseConfig(main.text) = inner.last
  <2>1. Widened(3, TRUE) # 0
    BY DEF Widened, TypeOK, Rift
  <2>2. ~(wake \/ watcher.pc # "idle" \/ (~main.ok /\ inner.latch # Absent))
        /\ Widened(1, ParseConfig(main.text) # inner.last) = 0
    BY <2>1 DEF Rebase
  <2>3. ParseConfig(main.text) = inner.last
    BY <2>2 DEF Widened, TypeOK, Rift
  <2> QED
    BY <2>2, <2>3
<1>3. replies' = [replies EXCEPT ![main.win] = replies[main.win] \cup {answer}]
  BY <1>1 DEF Rebase, Answer
<1>4. answer.text = main.text
  OBVIOUS
<1> HIDE DEF answer
<1>5. /\ \A w \in Windows : Unlatched(w)' <=> Unlatched(w)
      /\ Unwritten' <=> Unwritten
      /\ \A theme : Aim(theme)' <=> Aim(theme)
  BY <1>1, <1>2, AimRests
<1>6. ~Unwritten /\ Telling = <<>> /\ Telling' = <<>> /\ ~Overtaken
  BY <1>1, <1>2 DEF InStep, NoWriteDuringRead, BeingRead, Telling, Overtaken
<1>7. OneWriter' /\ NoWriteDuringRead' /\ TextAsAsked'
  BY <1>1, <1>5, <1>6 DEF InStep, OneWriter, NoWriteDuringRead, TextAsAsked
<1>8. ASSUME NEW w \in Windows, NEW theme \in VALUES, NEW aim \in VALUES, Shows(w, theme)', Aim(aim)'
      PROVE  Reaches(w, theme, aim)'
  <2>1. aim = Coerce(inner.last.theme)
    BY <1>5, <1>6, <1>8 DEF Aim, Unwritten
  <2>2. CASE Shows(w, theme)
    BY <1>1, <1>5, <1>6, <1>8, <2>2 DEF InStep, OnTheWay, Reaches
  <2>3. CASE ~Shows(w, theme)
    <3> PICK r \in replies'[w] : IsRead(r) /\ theme = Coerce(ParseConfig(r.text).theme)
      BY <1>1, <1>8, <2>3 DEF Shows, Shown, IsRead
    <3>1. w = main.win /\ r = answer
      BY <1>3, <2>3 DEF Shows, TypeOK
    <3>2. theme = aim
      BY <1>2, <1>4, <2>1, <3>1
    <3>3. queues[w] = <<>>
      BY <1>1, <3>1 DEF ReadInv, ReadOf, BeingRead
    <3> QED
      BY <1>1, <1>6, <3>2, <3>3, LeadsNowhere DEF Reaches
  <2> QED
    BY <2>2, <2>3
<1> QED
  BY <1>7, <1>8 DEF InStep, OnTheWay

\* A command goes on or ends: neither what is written nor what is being read changes.
LEMMA MainMoves ==
  ASSUME InStep, UNCHANGED <<inner, watcher, calls, queues, windows>>,
         main'.pc \in {"rename", "latch"} <=> main.pc \in {"rename", "latch"},
         main.pc \in {"rename", "latch"} =>
           main'.win = main.win /\ main'.call = main.call /\ main'.text = main.text,
         main'.pc # "rebase",
         \A w \in Windows : \A r \in replies'[w] : IsRead(r) => r \in replies[w]
  PROVE  InStep'
<1>1. /\ \A w \in Windows : Unlatched(w)' <=> Unlatched(w)
      /\ Unwritten' <=> Unwritten
      /\ \A theme : Aim(theme)' <=> Aim(theme)
  BY AimRests
<1>2. OneWriter' /\ TextAsAsked'
  BY <1>1 DEF InStep, OneWriter, TextAsAsked
<1>3. NoWriteDuringRead'
  BY <1>1 DEF InStep, NoWriteDuringRead, BeingRead
<1>4. Telling' = Telling /\ (Overtaken' <=> Overtaken)
  BY <1>1 DEF Telling, Overtaken, Applied
<1>5. \A w \in Windows : \A theme : Shows(w, theme)' => Shows(w, theme)
  BY DEF Shows, Shown
<1>6. OnTheWay => OnTheWay'
  BY <1>1, <1>4, <1>5 DEF OnTheWay, Reaches
<1> QED
  BY <1>2, <1>3, <1>4, <1>6 DEF InStep

LEMMA RefusalOverlaps ==
  ASSUME TypeOK, NEW w, NEW call, Refuse(w, call)
  PROVE  rift' # 0
<1>1. Widened(1, TRUE) # 0
  BY DEF Widened, TypeOK, Rift
<1> QED
  BY <1>1 DEF Refuse

LEMMA TailOfCalls ==
  ASSUME NEW s \in Seq(Call), s # <<>>
  PROVE  /\ Head(s) = s[1] /\ Tail(s) \in Seq(Call) /\ 1 \in DOMAIN s
         /\ \/ Tail(s) = <<>> /\ Len(s) = 1
            \/ Tail(s) # <<>> /\ Tail(s)[Len(Tail(s))] = s[Len(s)]
<1> DEFINE t == Tail(s)
<1>1. /\ Head(s) = s[1] /\ t \in Seq(Call) /\ Len(s) \in Nat /\ Len(s) >= 1
      /\ Len(t) = Len(s) - 1 /\ 1 \in DOMAIN s
      /\ \A i \in 1..Len(t) : t[i] = s[i + 1]
  OBVIOUS
<1> HIDE DEF t
<1>2. (Len(t) = 0 => t = <<>>) /\ (Len(t) > 0 => t # <<>>)
  BY <1>1
<1>3. Len(t) = 0 => Len(s) = 1
  BY <1>1
<1>4. ASSUME Len(t) > 0
      PROVE  t[Len(t)] = s[Len(s)]
  <2>1. Len(t) \in 1..Len(t) /\ Len(t) + 1 = Len(s)
    BY <1>1, <1>4
  <2> QED
    BY <1>1, <2>1
<1>5. Len(t) = 0 \/ Len(t) > 0
  BY <1>1
<1> QED
  BY <1>1, <1>2, <1>3, <1>4, <1>5, Zenon DEF t

LEMMA WriteAtomicInStep ==
  ASSUME TypeOK, InStep, WriteAtomic, rift' = 0
  PROVE  InStep'
<1>1. ~Refuse(main.win, main.call)
  BY RefusalOverlaps
<1>2. main.pc = "rename" /\ main' = [main EXCEPT !.pc = "latch"]
      /\ UNCHANGED <<inner, watcher, calls, queues, windows, replies>>
  BY <1>1 DEF WriteAtomic
<1>3. main'.pc = "latch" /\ main'.win = main.win /\ main'.call = main.call /\ main'.text = main.text
  BY <1>2 DEF TypeOK, Command
<1> QED
  BY <1>2, <1>3, MainMoves

LEMMA ApplyControlInStep ==
  ASSUME TypeOK, ReadInv, InStep, ApplyControl
  PROVE  InStep'
<1> DEFINE r == [call |-> main.call, ok |-> TRUE, text |-> Absent, warnings |-> {}]
<1>1. /\ main.pc = "control" /\ main'.pc = "idle" /\ IsWrite(main.call)
      /\ UNCHANGED <<inner, watcher, calls, queues, windows>>
  BY DEF ApplyControl, Idle, ReadInv, MainCall
<1>2. replies' = replies \/ replies' = [replies EXCEPT ![main.win] = replies[main.win] \cup {r}]
  BY DEF ApplyControl, Answer, TypeOK
<1>3. ~IsRead(r)
  BY <1>1 DEF IsRead, IsWrite
<1> HIDE DEF r
<1>4. \A w \in Windows : \A s \in replies'[w] : s \in replies[w] \/ s = r
  <2>1. replies \in [Windows -> SUBSET Result]
    BY DEF TypeOK
  <2>2. CASE replies' = [replies EXCEPT ![main.win] = replies[main.win] \cup {r}]
    <3>1. \A w \in Windows : replies'[w] = replies[w] \/ replies'[w] = replies[w] \cup {r}
      BY <2>1, <2>2
    <3> QED
      BY <3>1
  <2> QED
    BY <1>2, <2>2
<1>5. \A w \in Windows : \A s \in replies'[w] : IsRead(s) => s \in replies[w]
  BY <1>3, <1>4
<1> QED
  BY <1>1, <1>5, MainMoves

\* The text of a write or of a reset says what was asked for.
LEMMA TextsAsAsked ==
  ASSUME NEW call \in Call, NEW text, TypeOK,
         \/ call.cmd = "write" /\ text = EditDocument(Source, call.theme)
         \/ call.cmd = "reset" /\ text = Template
  PROVE  text # Absent /\ Coerce(ParseConfig(text).theme) = Asked(call)
<1>1. Source \in Text
  BY KnownTexts DEF Source, TypeOK, File
<1>2. CASE call.cmd = "write" /\ text = EditDocument(Source, call.theme)
  <2>1. call.theme \in VALUES
    BY DEF Call
  <2>2. text.theme = call.theme
    BY <1>1, <1>2 DEF EditDocument, Text
  <2>3. text # Absent
    BY <2>1, <2>2, ConfigTextAssumption DEF Absent
  <2> QED
    BY <1>2, <2>1, <2>2, <2>3, CoerceTypes DEF ParseConfig, Asked
<1>3. CASE call.cmd = "reset" /\ text = Template
  <2>1. ParseConfig(Template).theme = "white" /\ Template # Absent
    BY ConfigTextAssumption DEF ParseConfig, Template, Absent
  <2> QED
    BY <1>3, <2>1, CoerceTypes DEF Asked
<1> QED
  BY <1>2, <1>3

\* A write or a reset starts: it was the window's, and it still is not latched.
LEMMA StartInStep ==
  ASSUME TypeOK, ReadInv, InStep, NEW w \in Windows, ConfigWrite(w) \/ ConfigResetAll(w), rift' = 0
  PROVE  InStep'
<1> DEFINE call == Head(calls[w])
<1>1. /\ main.pc = "idle" /\ calls[w] # <<>> /\ IsWrite(call)
      /\ calls' = [calls EXCEPT ![w] = Tail(calls[w])]
      /\ UNCHANGED <<inner, watcher, queues, windows>>
  BY DEF ConfigWrite, ConfigResetAll, Begin, IsWrite
<1>2. calls[w] \in Seq(Call) /\ call \in Call
  BY <1>1 DEF TypeOK
<1>3. ~Refuse(w, call)
  BY RefusalOverlaps
<1>4. /\ main'.pc = "rename" /\ main'.win = w /\ main'.call = call /\ UNCHANGED replies
      /\ main'.text # Absent /\ Coerce(ParseConfig(main'.text).theme) = Asked(call)
  <2>1. CASE ConfigWrite(w)
    <3>1. main' = [pc |-> "rename", win |-> w, call |-> call, ok |-> TRUE,
                   text |-> EditDocument(Source, call.theme)] /\ UNCHANGED replies /\ call.cmd = "write"
      BY <1>3, <2>1 DEF ConfigWrite, Begin
    <3> QED
      BY <1>2, <3>1, TextsAsAsked
  <2>2. CASE ConfigResetAll(w)
    <3>1. main' = [pc |-> "rename", win |-> w, call |-> call, ok |-> TRUE, text |-> Template]
          /\ UNCHANGED replies /\ call.cmd = "reset"
      BY <2>2 DEF ConfigResetAll, Begin
    <3> QED
      BY <1>2, <3>1, TextsAsAsked
  <2> QED
    BY <2>1, <2>2
<1>5. call = calls[w][1] /\ 1 \in DOMAIN calls[w] /\ calls'[w] = Tail(calls[w])
  BY <1>1, <1>2, TailOfCalls DEF TypeOK
<1> HIDE DEF call
<1>6. Unlatched(w) /\ Unlatched(w)'
  BY <1>1, <1>4, <1>5 DEF Unlatched, BeingWritten
<1>7. NewestCall(w)' = NewestCall(w)
  <2>1. CASE calls'[w] = <<>> /\ Len(calls[w]) = 1
    BY <1>1, <1>4, <1>5, <2>1 DEF NewestCall
  <2>2. CASE calls'[w] # <<>> /\ calls'[w][Len(calls'[w])] = calls[w][Len(calls[w])]
    BY <1>1, <2>2 DEF NewestCall
  <2> QED
    BY <1>1, <1>2, <1>5, <2>1, <2>2, TailOfCalls
<1>8. ASSUME NEW o \in Windows, o # w
      PROVE  (Unlatched(o)' <=> Unlatched(o)) /\ (Unlatched(o) => NewestCall(o)' = NewestCall(o))
  <2>1. calls'[o] = calls[o] /\ ~BeingWritten(o) /\ ~BeingWritten(o)'
    BY <1>1, <1>4, <1>8 DEF TypeOK, BeingWritten
  <2>2. calls[o] = <<>> => ~Unlatched(o)
    BY <2>1 DEF Unlatched
  <2> QED
    BY <2>1, <2>2 DEF Unlatched, NewestCall
<1>9. /\ \A o \in Windows : Unlatched(o)' <=> Unlatched(o)
      /\ Unwritten /\ Unwritten'
  BY <1>6, <1>8 DEF Unwritten
<1>10. \A theme : Aim(theme)' <=> Aim(theme)
  BY <1>6, <1>7, <1>8, <1>9 DEF Aim, Asked
<1>11. OneWriter' /\ TextAsAsked'
  BY <1>4, <1>9 DEF InStep, OneWriter, TextAsAsked
<1>12. NoWriteDuringRead'
  BY <1>4, <1>9 DEF InStep, NoWriteDuringRead, BeingRead
<1>13. Telling' = Telling /\ (Overtaken' <=> Overtaken)
  BY <1>1, <1>9 DEF Telling, Overtaken, Applied
<1>14. OnTheWay => OnTheWay'
  BY <1>1, <1>4, <1>10, <1>13 DEF OnTheWay, Shows, Reaches, Shown
<1> QED
  BY <1>11, <1>12, <1>13, <1>14 DEF InStep

\* The base is moved to what was asked for: the aim stays, whether it was the newest
\* or another follows it.
LEMMA LatchInStep ==
  ASSUME TypeOK, ReadInv, InStep, Latch
  PROVE  InStep'
<1> DEFINE u == main.win
<1>1. /\ main.pc = "latch" /\ main'.pc = "control" /\ main'.win = u
      /\ main.text # Absent /\ Coerce(ParseConfig(main.text).theme) = Asked(main.call)
      /\ inner'.last = ParseConfig(main.text) /\ inner'.latch = main.text
      /\ u \in Windows /\ UNCHANGED <<watcher, calls, replies, queues, windows>>
  BY DEF Latch, Latched, InStep, TextAsAsked, TypeOK, Command, ConfigInner
<1> HIDE DEF u
<1>2. Unlatched(u) /\ Unwritten
  BY <1>1 DEF Unlatched, BeingWritten, Unwritten, u
<1>3. ASSUME NEW w \in Windows, Unlatched(w)'
      PROVE  Unlatched(w) /\ w = u /\ NewestCall(w)' = NewestCall(w)
  <2>1. \E i \in DOMAIN calls[w] : IsWrite(calls[w][i])
    BY <1>1, <1>3 DEF Unlatched, BeingWritten
  <2>2. Unlatched(w)
    BY <2>1 DEF Unlatched
  <2>3. calls[w] # <<>>
    BY <2>1
  <2> QED
    BY <1>1, <1>2, <2>2, <2>3 DEF InStep, OneWriter, NewestCall
<1>4. OneWriter' /\ TextAsAsked'
  BY <1>1, <1>3 DEF InStep, OneWriter, TextAsAsked
<1>5. NoWriteDuringRead'
  BY <1>1, <1>2 DEF InStep, NoWriteDuringRead, BeingRead
<1>6. CASE watcher.pc = "emit"
  <2>1. inner' # Applied(watcher.text)
    BY <1>1 DEF Applied
  <2>2. Overtaken'
    BY <1>1, <1>6, <2>1 DEF Overtaken, Applied
  <2> QED
    BY <1>4, <1>5, <2>2 DEF InStep
<1>7. CASE watcher.pc # "emit"
  <2>1. OnTheWay /\ Telling' = Telling
    BY <1>1, <1>7 DEF InStep, Overtaken, Telling
  <2>2. ASSUME NEW aim, Aim(aim)'
        PROVE  Aim(aim)
    <3>1. CASE \E w \in Windows : Unlatched(w)' /\ aim = Asked(NewestCall(w))'
      <4> PICK w \in Windows : Unlatched(w)' /\ aim = Asked(NewestCall(w))'
        BY <3>1
      <4> QED
        BY <1>3 DEF Aim, Asked
    <3>2. CASE ~Unwritten' /\ aim = Coerce(inner'.last.theme)
      <4>1. calls[u] = <<>>
        <5> SUFFICES ASSUME calls[u] # <<>>
                     PROVE  FALSE
          OBVIOUS
        <5>1. 1 \in DOMAIN calls[u] /\ calls[u][1] \in Call
          BY <1>1, TailOfCalls DEF TypeOK
        <5>2. ~IsWrite(calls[u][1])
          BY <1>1, <3>2, <5>1 DEF Unwritten, Unlatched
        <5>3. calls[u][1].cmd = "read"
          BY <5>2 DEF IsWrite
        <5> QED
          BY <1>1, <5>1, <5>3 DEF ReadInv, ReadOf, BeingWritten, u
      <4>2. aim = Asked(NewestCall(u))
        BY <1>1, <3>2, <4>1 DEF NewestCall
      <4> QED
        BY <1>1, <1>2, <4>2 DEF Aim
    <3> QED
      BY <2>2, <3>1, <3>2 DEF Aim
  <2>3. OnTheWay'
    BY <1>1, <2>1, <2>2 DEF OnTheWay, Shows, Reaches, Shown
  <2> QED
    BY <1>4, <1>5, <2>3 DEF InStep
<1> QED
  BY <1>6, <1>7

\* Warnings change no theme.
LEMMA WarningsInStep ==
  ASSUME TypeOK, InStep, EmitConfigWarnings
  PROVE  InStep'
<1> DEFINE set == WarningsOf(inner.warned, inner.unreadable)
<1>1. queues' = Emitted(<<WarningOf(set)>>) /\ UNCHANGED <<inner, main, watcher, calls, replies, windows>>
  BY DEF EmitConfigWarnings, WarningOf, backendVars
<1>2. set \in Warnings
  BY WarningTypes DEF TypeOK, ConfigInner
<1> HIDE DEF set
<1>3. /\ \A w \in Windows : Unlatched(w)' <=> Unlatched(w)
      /\ Unwritten' <=> Unwritten
      /\ \A theme : Aim(theme)' <=> Aim(theme)
  BY <1>1, AimRests
<1>4. OneWriter' /\ NoWriteDuringRead' /\ TextAsAsked'
  BY <1>1, <1>3 DEF InStep, OneWriter, NoWriteDuringRead, TextAsAsked, BeingRead
<1>5. Telling' = Telling /\ (Overtaken' <=> Overtaken)
  BY <1>1, <1>3 DEF Telling, Overtaken, Applied
<1>6. \A w \in Windows : \A theme : Shows(w, theme)' <=> Shows(w, theme)
  BY <1>1 DEF Shows, Shown
<1>7. ASSUME NEW w \in Windows, NEW theme, NEW aim, Reaches(w, theme, aim)
      PROVE  Reaches(w, theme, aim)'
  <2> PICK seen \in VALUES : Leads(theme, queues[w], seen) /\ Leads(seen, Telling, aim)
    BY <1>7 DEF Reaches
  <2>1. queues[w] \in Seq(Event)
    BY DEF TypeOK
  <2>2. queues'[w] = queues[w] \/ queues'[w] = queues[w] \o <<WarningOf(set)>>
    BY <1>1 DEF Emitted
  <2>3. Leads(theme, queues'[w], seen)
    BY <1>2, <2>1, <2>2, LeadsPastWarning
  <2> QED
    BY <1>5, <2>3 DEF Reaches
<1>8. OnTheWay => OnTheWay'
  BY <1>3, <1>6, <1>7 DEF OnTheWay
<1> QED
  BY <1>4, <1>5, <1>8 DEF InStep

-----------------------------------------------------------------------------
(* The watcher.                                                            *)

\* What the watcher applies becomes the aim, and what it is to tell leads there.
LEMMA ApplyInStep ==
  ASSUME TypeOK, InStep, Apply
  PROVE  InStep'
<1>1. watcher.pc = "apply" /\ watcher.text \in Text /\ UNCHANGED <<main, calls, replies, queues, windows>>
  BY DEF Apply, TypeOK, WatcherThread
<1>2. CASE watcher' = Asleep /\ UNCHANGED inner
  BY <1>1, <1>2, InStepRests DEF Asleep
<1>3. CASE /\ inner' = Applied(watcher.text)
           /\ watcher' = [watcher EXCEPT !.pc = "emit", !.events = EmissionsFor(watcher.text)]
  <2>1. watcher'.pc = "emit" /\ watcher'.text = watcher.text /\ watcher'.events = EmissionsFor(watcher.text)
    BY <1>3 DEF TypeOK, WatcherThread
  <2>2. inner'.last = ParseConfig(watcher.text)
    BY <1>3 DEF Applied
  <2>3. (\A w \in Windows : Unlatched(w)' <=> Unlatched(w)) /\ (Unwritten' <=> Unwritten)
    BY <1>1 DEF Unlatched, BeingWritten, Unwritten
  <2>4. OneWriter' /\ NoWriteDuringRead' /\ TextAsAsked'
    BY <1>1, <2>3 DEF InStep, OneWriter, NoWriteDuringRead, TextAsAsked, BeingRead
  <2>5. CASE Unwritten
    <3>1. Overtaken'
      BY <2>1, <2>3, <2>5 DEF Overtaken
    <3> QED
      BY <2>4, <3>1 DEF InStep
  <2>6. CASE ~Unwritten
    <3> DEFINE old == Coerce(inner.last.theme)
               new == Coerce(ParseConfig(watcher.text).theme)
               told == EmissionsFor(watcher.text)
    <3>1. OnTheWay /\ Telling = <<>> /\ Telling' = told
      BY <1>1, <2>1 DEF InStep, Overtaken, Telling
    <3>2. Leads(old, told, new)
      BY <1>1, LeadsToBase
    <3>3. old \in VALUES /\ Aim(old)
      BY <2>6, AimTypes DEF Aim
    <3>4. \A aim : Aim(aim)' => aim = new
      BY <2>2, <2>3, <2>6 DEF Aim, Unwritten
    <3> HIDE DEF old, new, told
    <3>5. ASSUME NEW w \in Windows, NEW theme \in VALUES, NEW aim \in VALUES, Shows(w, theme)', Aim(aim)'
          PROVE  Reaches(w, theme, aim)'
      <4>1. Shows(w, theme)
        BY <1>1, <3>5 DEF Shows, Shown
      <4> PICK seen \in VALUES : Leads(theme, queues[w], seen) /\ Leads(seen, <<>>, old)
        BY <3>1, <3>3, <4>1 DEF OnTheWay, Reaches
      <4>2. seen = old
        BY LeadsNowhere
      <4>3. Leads(seen, Telling', aim)
        BY <3>1, <3>2, <3>4, <3>5, <4>2
      <4> QED
        BY <1>1, <4>3 DEF Reaches
    <3> QED
      BY <2>4, <3>5 DEF InStep, OnTheWay
  <2> QED
    BY <2>5, <2>6
<1> QED
  BY <1>2, <1>3 DEF Apply

\* Told without overlap: every window listens and nobody writes.
LEMMA EmitInStep ==
  ASSUME TypeOK, ReadInv, InStep, Emit, rift' = 0
  PROVE  InStep'
<1>1. /\ watcher.pc = "emit" /\ watcher'.pc = "control" /\ queues' = Emitted(watcher.events)
      /\ watcher.events \in Seq(Event)
      /\ UNCHANGED <<inner, main, calls, replies, windows>>
  BY DEF Emit, TypeOK, WatcherThread
<1>2. inner = Applied(watcher.text) /\ ~Missed /\ \A w \in Windows : ~Writing(w)
  <2>1. Widened(2, TRUE) # 0
    BY DEF Widened, TypeOK, Rift
  <2>2. inner = Applied(watcher.text) /\ Widened(1, Missed \/ \E w \in Windows : Writing(w)) = 0
    BY <2>1 DEF Emit
  <2> QED
    BY <2>2 DEF Widened, TypeOK, Rift
<1>3. \A w \in Windows : ~Unlatched(w)
  BY <1>2 DEF Writing, Unlatched, BeingWritten, ReadInv, MainCall
<1>4. ~Unwritten /\ ~Overtaken /\ Telling = watcher.events /\ Telling' = <<>> /\ ~Overtaken'
  BY <1>1, <1>2, <1>3 DEF Unwritten, Overtaken, Telling
<1>5. /\ \A w \in Windows : Unlatched(w)' <=> Unlatched(w)
      /\ Unwritten' <=> Unwritten
      /\ \A theme : Aim(theme)' <=> Aim(theme)
  BY <1>1, AimRests
<1>6. OneWriter' /\ NoWriteDuringRead' /\ TextAsAsked'
  BY <1>1, <1>5 DEF InStep, OneWriter, NoWriteDuringRead, TextAsAsked, BeingRead
<1>7. ASSUME NEW w \in Windows, NEW theme \in VALUES, NEW aim \in VALUES, Shows(w, theme)', Aim(aim)'
      PROVE  Reaches(w, theme, aim)'
  <2>1. Shows(w, theme)
    BY <1>1, <1>7 DEF Shows, Shown
  <2>2. ~Opening(w)
    BY <1>2 DEF Missed
  <2>3. Up(w)
    BY <2>1, <2>2 DEF Shows, Opening, Up, ReadInv, ReadOf
  <2>4. queues'[w] = queues[w] \o watcher.events /\ queues[w] \in Seq(Event)
    BY <1>1, <2>3 DEF Emitted, TypeOK
  <2> PICK seen \in VALUES : Leads(theme, queues[w], seen) /\ Leads(seen, watcher.events, aim)
    BY <1>4, <1>5, <1>7, <2>1 DEF InStep, OnTheWay, Reaches
  <2>5. Leads(theme, queues'[w], aim)
    BY <1>1, <2>4, LeadsOn
  <2> QED
    BY <1>4, <1>7, <2>5, LeadsNowhere DEF Reaches
<1> QED
  BY <1>6, <1>7 DEF InStep, OnTheWay

-----------------------------------------------------------------------------
(* The windows.                                                            *)

\* Only the queues, the windows and the replies of the windows have moved.
LEMMA BackendInStep ==
  ASSUME InStep, UNCHANGED <<inner, main, watcher, calls>>,
         \A w \in Windows : \A r \in replies'[w] : IsRead(r) => r \in replies[w],
         \A w \in Windows : \A theme, aim \in VALUES :
           ~Overtaken /\ Shows(w, theme)' /\ Aim(aim) =>
             \E seen \in VALUES : Leads(theme, queues'[w], seen) /\ Leads(seen, Telling, aim)
  PROVE  InStep'
<1>1. /\ \A w \in Windows : Unlatched(w)' <=> Unlatched(w)
      /\ Unwritten' <=> Unwritten
      /\ \A theme : Aim(theme)' <=> Aim(theme)
  BY AimRests
<1>2. OneWriter' /\ NoWriteDuringRead' /\ TextAsAsked'
  BY <1>1 DEF InStep, OneWriter, NoWriteDuringRead, TextAsAsked, BeingRead
<1>3. Telling' = Telling /\ (Overtaken' <=> Overtaken)
  BY <1>1 DEF Telling, Overtaken, Applied
<1>4. ~Overtaken => OnTheWay'
  BY <1>1, <1>3 DEF OnTheWay, Reaches
<1> QED
  BY <1>2, <1>3, <1>4 DEF InStep

LEMMA SubscribeInStep ==
  ASSUME TypeOK, InStep, NEW w \in Windows, SubscribeToBus(w)
  PROVE  InStep'
<1>1. /\ windows[w].phase = "seeded" /\ windows[w] \in SettingsRuntime
      /\ windows' = [windows EXCEPT ![w] = [windows[w] EXCEPT !.phase = "up"]]
      /\ UNCHANGED <<inner, main, watcher, calls, replies, queues>>
  BY DEF SubscribeToBus, backendVars, TypeOK
<1>2. /\ windows'[w].phase = "up" /\ windows'[w].theme = windows[w].theme
      /\ \A o \in Windows : o # w => windows'[o] = windows[o]
  BY <1>1 DEF TypeOK, SettingsRuntime
<1>3. \A o \in Windows : \A theme : Shows(o, theme)' => Shows(o, theme)
  BY <1>1, <1>2 DEF Shows, Shown
<1> QED
  BY <1>1, <1>3, BackendInStep DEF InStep, OnTheWay, Reaches

LEMMA WriteSettledInStep ==
  ASSUME TypeOK, InStep, NEW w \in Windows, WriteSettled(w)
  PROVE  InStep'
<1> PICK r \in replies[w] :
       /\ replies' = [replies EXCEPT ![w] = @ \ {r}]
       /\ windows' = [windows EXCEPT ![w] = [Settled(w, r) EXCEPT !.fate = FateAfter(w, r)]]
       /\ UNCHANGED <<backendVars, calls, queues, rift, work>>
  BY Settles
<1> DEFINE new == [Settled(w, r) EXCEPT !.fate = FateAfter(w, r)]
<1>1. UNCHANGED <<inner, main, watcher, calls, queues>>
  BY DEF backendVars
<1>2. new.phase = windows[w].phase /\ new.theme = windows[w].theme
  BY DEF Settled, TypeOK, SettingsRuntime
<1>3. windows' = [windows EXCEPT ![w] = new]
  OBVIOUS
<1> HIDE DEF new
<1>4. \A o \in Windows : windows'[o].phase = windows[o].phase /\ windows'[o].theme = windows[o].theme
  BY <1>2, <1>3 DEF TypeOK
<1>5. \A o \in Windows : replies'[o] \subseteq replies[o]
  BY DEF TypeOK
<1>6. \A o \in Windows : \A theme : Shows(o, theme)' => Shows(o, theme)
  BY <1>4, <1>5 DEF Shows, Shown
<1> QED
  BY <1>1, <1>5, <1>6, BackendInStep DEF InStep, OnTheWay, Reaches

\* A window that opens asks for the file, and shows nothing yet.
LEMMA OpenWindowInStep ==
  ASSUME TypeOK, ReadInv, InStep, NEW w \in Windows, OpenWindow(w)
  PROVE  InStep'
<1>1. /\ windows[w].phase = "closed" /\ windows[w] \in SettingsRuntime
      /\ calls' = [calls EXCEPT ![w] = Append(calls[w], NoCall)]
      /\ windows' = [windows EXCEPT ![w] = [windows[w] EXCEPT !.phase = "reading"]]
      /\ UNCHANGED <<inner, main, watcher, replies, queues>>
  BY DEF OpenWindow, backendVars, TypeOK
<1>2. calls[w] = <<>> /\ ~BeingWritten(w)
  BY <1>1 DEF ReadInv, ReadOf
<1>3. calls'[w] = <<NoCall>> /\ windows'[w].phase = "reading"
  <2>1. Append(<<>>, NoCall) = <<NoCall>>
    OBVIOUS
  <2> QED
    BY <1>1, <1>2, <2>1 DEF TypeOK, SettingsRuntime
<1>4. ~Unlatched(w) /\ ~Unlatched(w)'
  <2>1. \A i \in DOMAIN calls'[w] : calls'[w][i] = NoCall
    BY <1>3
  <2> QED
    BY <1>1, <1>2, <2>1 DEF Unlatched, BeingWritten, IsWrite, NoCall
<1>5. ASSUME NEW o \in Windows, o # w
      PROVE  /\ calls'[o] = calls[o] /\ windows'[o] = windows[o]
             /\ (Unlatched(o)' <=> Unlatched(o)) /\ NewestCall(o)' = NewestCall(o)
  <2>1. calls'[o] = calls[o] /\ windows'[o] = windows[o]
    BY <1>1, <1>5 DEF TypeOK
  <2>2. Unlatched(o)' <=> Unlatched(o)
    BY <1>1, <2>1 DEF Unlatched, BeingWritten
  <2>3. NewestCall(o)' = NewestCall(o)
    <3>1. CASE calls[o] = <<>>
      BY <1>1, <2>1, <3>1 DEF NewestCall
    <3>2. CASE calls[o] # <<>>
      BY <2>1, <3>2, Zenon DEF NewestCall
    <3> QED
      BY <3>1, <3>2
  <2> QED
    BY <2>1, <2>2, <2>3
<1>6. /\ \A o \in Windows : Unlatched(o)' <=> Unlatched(o)
      /\ Unwritten' <=> Unwritten
  BY <1>4, <1>5 DEF Unwritten
<1>7. \A theme : Aim(theme)' <=> Aim(theme)
  BY <1>1, <1>4, <1>5, <1>6 DEF Aim, Asked
<1>8. OneWriter' /\ NoWriteDuringRead' /\ TextAsAsked'
  BY <1>1, <1>6 DEF InStep, OneWriter, NoWriteDuringRead, TextAsAsked, BeingRead
<1>9. Telling' = Telling /\ (Overtaken' <=> Overtaken)
  BY <1>1, <1>6 DEF Telling, Overtaken, Applied
<1>10. ASSUME NEW o \in Windows, NEW theme, Shows(o, theme)'
       PROVE  Shows(o, theme)
  BY <1>1, <1>3, <1>5, <1>10 DEF Shows, Shown
<1>11. OnTheWay => OnTheWay'
  BY <1>1, <1>7, <1>9, <1>10 DEF OnTheWay, Reaches
<1> QED
  BY <1>8, <1>9, <1>11 DEF InStep

\* A window writes, and no other does: its write is the aim from now on.
LEMMA WriterAims ==
  ASSUME TypeOK, InStep, NEW w \in Windows, NEW call, IsWrite(call), ~Crossing(w), MainCall,
         UNCHANGED <<inner, main, watcher>>,
         calls' = [calls EXCEPT ![w] = Append(calls[w], call)]
  PROVE  /\ Unwritten' /\ OneWriter' /\ TextAsAsked'
         /\ \A aim : Aim(aim)' <=> aim = Asked(call)
         /\ Overtaken' <=> watcher.pc = "emit"
<1>1. calls[w] \in Seq(Call) /\ calls'[w] = Append(calls[w], call)
  BY DEF TypeOK
<1>2. calls'[w] # <<>> /\ calls'[w][Len(calls'[w])] = call /\ Len(calls'[w]) \in DOMAIN calls'[w]
  BY <1>1
<1>3. Unlatched(w)' /\ NewestCall(w)' = call
  BY <1>2 DEF Unlatched, NewestCall
<1>4. ASSUME NEW o \in Windows, o # w
      PROVE  ~Unlatched(o)'
  <2>1. calls'[o] = calls[o] /\ ~Writing(o)
    BY <1>4 DEF TypeOK, Crossing
  <2> QED
    BY <2>1 DEF Writing, Unlatched, BeingWritten, MainCall
<1>5. Unwritten' /\ OneWriter'
  BY <1>3, <1>4 DEF Unwritten, OneWriter
<1>6. TextAsAsked'
  BY DEF InStep, TextAsAsked
<1>7. \A aim : Aim(aim)' <=> aim = Asked(call)
  BY <1>3, <1>4, <1>5 DEF Aim, Asked
<1>8. Overtaken' <=> watcher.pc = "emit"
  BY <1>5 DEF Overtaken
<1> QED
  BY <1>5, <1>6, <1>7, <1>8

\* A window that is up writes and tells the others, and they all listen.
LEMMA BroadcastInStep ==
  ASSUME TypeOK, ReadInv, InStep, NEW w \in Windows, Up(w), NEW call, IsWrite(call),
         NEW theme \in VALUES, theme = Asked(call), ~Missed, ~Crossing(w),
         calls' = [calls EXCEPT ![w] = Append(calls[w], call)],
         queues' = Emitted(<<ChangeTo(theme)>>),
         \A o \in Windows : windows'[o].phase = windows[o].phase,
         UNCHANGED <<inner, main, watcher, replies>>
  PROVE  InStep'
<1>1. /\ Unwritten' /\ OneWriter' /\ TextAsAsked'
      /\ \A aim : Aim(aim)' <=> aim = theme
      /\ Overtaken' <=> watcher.pc = "emit"
  BY WriterAims DEF ReadInv
<1>2. ASSUME NEW o \in Windows
      PROVE  ~BeingRead(o)' /\ \A r \in replies'[o] : ~IsRead(r)
  <2>1. windows[o].phase # "reading"
    BY DEF Missed, Opening
  <2> QED
    BY <2>1 DEF ReadInv, ReadOf, BeingRead
<1>3. NoWriteDuringRead'
  BY <1>2 DEF NoWriteDuringRead
<1>4. ASSUME ~Overtaken'
      PROVE  OnTheWay'
  <2>1. Telling' = <<>>
    BY <1>1, <1>4 DEF Telling
  <2>2. ASSUME NEW o \in Windows, NEW shown \in VALUES, NEW aim \in VALUES, Shows(o, shown)', Aim(aim)'
        PROVE  Reaches(o, shown, aim)'
    <3>1. Up(o) /\ aim = theme
      BY <1>1, <1>2, <2>2 DEF Shows, Missed, Opening, Up
    <3>2. queues'[o] = queues[o] \o <<ChangeTo(theme)>> /\ queues[o] \in Seq(Event)
      BY <3>1 DEF Emitted, TypeOK
    <3>3. Leads(shown, queues'[o], aim)
      BY <3>1, <3>2, LeadsToChange
    <3> QED
      BY <2>1, <3>3, LeadsNowhere DEF Reaches
  <2> QED
    BY <2>2 DEF OnTheWay
<1> QED
  BY <1>1, <1>3, <1>4 DEF InStep

LEMMA SetThemeInStep ==
  ASSUME TypeOK, ReadInv, InStep, NEW w \in Windows, NEW theme \in VALUES, SetTheme(w, theme), rift' = 0
  PROVE  InStep'
<1> DEFINE new == [windows[w] EXCEPT !.theme = theme, !.ticket = Ticket(w), !.client = FALSE,
                                     !.failed = @ /\ ~windows[w].client, !.fate = "none"]
           call == [cmd |-> "write", theme |-> theme, ticket |-> Ticket(w)]
<1>1. /\ Up(w) /\ windows' = [windows EXCEPT ![w] = new] /\ queues' = Emitted(<<ChangeTo(theme)>>)
      /\ calls' = [calls EXCEPT ![w] = Append(calls[w], call)]
      /\ UNCHANGED <<inner, main, watcher, replies>>
  BY DEF SetTheme, Persisted, ChangeTo, backendVars
<1>2. new.phase = windows[w].phase /\ IsWrite(call) /\ theme = Asked(call)
  BY DEF TypeOK, SettingsRuntime, IsWrite, Asked
<1>3. ~Missed /\ ~Crossing(w)
  BY DEF SetTheme, Widened, TypeOK, Rift
<1> HIDE DEF new, call
<1>4. \A o \in Windows : windows'[o].phase = windows[o].phase
  BY <1>1, <1>2 DEF TypeOK
<1> QED
  BY <1>1, <1>2, <1>3, <1>4, BroadcastInStep

LEMMA ResetAllInStep ==
  ASSUME TypeOK, ReadInv, InStep, NEW w \in Windows, ResetAll(w), rift' = 0
  PROVE  InStep'
<1> DEFINE new == [windows[w] EXCEPT !.theme = "unset"]
           call == [cmd |-> "reset", theme |-> DERIVED, ticket |-> 0]
<1>1. /\ Up(w) /\ windows' = [windows EXCEPT ![w] = new] /\ queues' = Emitted(<<ChangeTo(DERIVED)>>)
      /\ calls' = [calls EXCEPT ![w] = Append(calls[w], call)]
      /\ UNCHANGED <<inner, main, watcher, replies>>
  BY DEF ResetAll, ChangeTo, backendVars
<1>2. new.phase = windows[w].phase /\ IsWrite(call) /\ DERIVED = Asked(call) /\ DERIVED \in VALUES
  BY ConfigTextAssumption DEF TypeOK, SettingsRuntime, IsWrite, Asked
<1>3. ~Missed /\ ~Crossing(w)
  BY DEF ResetAll, Widened, TypeOK, Rift
<1> HIDE DEF new, call
<1>4. \A o \in Windows : windows'[o].phase = windows[o].phase
  BY <1>1, <1>2 DEF TypeOK
<1> QED
  BY <1>1, <1>2, <1>3, <1>4, BroadcastInStep

\* One event is handled: what is left of the queue leads where all of it led.
LEMMA HandleEventInStep ==
  ASSUME TypeOK, ReadInv, InStep, NEW w \in Windows, HandleEvent(w)
  PROVE  InStep'
<1> DEFINE event == Head(queues[w])
           changed == [windows[w] EXCEPT !.theme = Taken(event.theme), !.client = FALSE,
                         !.fate = IF Taken(event.theme) = windows[w].theme THEN @ ELSE "none"]
           warned == [windows[w] EXCEPT !.banner = event.set]
           next == IF event.kind = "changed" THEN Coerce(event.theme) ELSE Shown(w)
<1>1. /\ queues[w] # <<>> /\ queues[w] \in Seq(Event) /\ event \in Event
      /\ queues' = [queues EXCEPT ![w] = Tail(queues[w])]
      /\ UNCHANGED <<inner, main, watcher, calls, replies>>
  BY DEF HandleEvent, backendVars, TypeOK
<1>2. \/ event.kind = "changed" /\ windows' = [windows EXCEPT ![w] = changed]
      \/ event.kind = "warnings" /\ windows' = [windows EXCEPT ![w] = warned]
  BY DEF HandleEvent
<1>3. Up(w) /\ Shown(w) \in VALUES
  BY <1>1, AimTypes DEF ReadInv, ReadOf, Up
<1>4. changed.phase = "up" /\ changed.theme = Coerce(event.theme) /\ warned.phase = "up"
      /\ warned.theme = windows[w].theme
  BY <1>3 DEF TypeOK, SettingsRuntime, Up, Taken
<1>5. event.kind = "changed" => Coerce(event.theme) \in VALUES
  BY <1>1, CoerceTypes DEF Event
<1> HIDE DEF changed, warned, event
<1>6. windows'[w].phase = "up" /\ Shown(w)' = next
  BY <1>2, <1>4, <1>5, CoerceTypes DEF TypeOK, Shown
<1>7. ASSUME NEW o \in Windows, NEW theme \in VALUES, NEW aim \in VALUES,
             ~Overtaken, Shows(o, theme)', Aim(aim)
      PROVE  \E seen \in VALUES : Leads(theme, queues'[o], seen) /\ Leads(seen, Telling, aim)
  <2>1. CASE o # w
    <3>1. windows'[o] = windows[o] /\ queues'[o] = queues[o]
      BY <1>1, <1>2, <2>1 DEF TypeOK
    <3>2. Shows(o, theme)
      BY <1>1, <1>7, <3>1 DEF Shows, Shown
    <3> QED
      BY <1>7, <3>1, <3>2 DEF InStep, OnTheWay, Reaches
  <2>2. CASE o = w
    <3>1. theme = next
      BY <1>1, <1>3, <1>6, <1>7, <2>2 DEF Shows, ReadInv, ReadOf, Up
    <3>2. Shows(w, Shown(w))
      BY <1>3 DEF Shows, Up
    <3> PICK seen \in VALUES : Leads(Shown(w), queues[w], seen) /\ Leads(seen, Telling, aim)
      BY <1>3, <1>7, <3>2 DEF InStep, OnTheWay, Reaches
    <3>3. Leads(next, Tail(queues[w]), seen)
      BY <1>1, LeadsFromHead DEF event
    <3>4. queues'[w] = Tail(queues[w])
      BY <1>1 DEF TypeOK
    <3> QED
      BY <2>2, <3>1, <3>3, <3>4
  <2> QED
    BY <2>1, <2>2
<1> QED
  BY <1>1, <1>7, BackendInStep

\* A window has read what the base is, which is no news to the others; the derived
\* theme that it writes is what they show already.
LEMMA HydrateInStep ==
  ASSUME TypeOK, ReadInv, InStep, NEW w \in Windows, Hydrate(w), rift' = 0
  PROVE  InStep'
<1> PICK r \in replies[w] :
       /\ IsRead(r)
       /\ replies' = [replies EXCEPT ![w] = replies[w] \ {r}]
       /\ \/ /\ r.text.theme \in VALUES
             /\ windows' = [windows EXCEPT ![w] = [SeedOf(w, r) EXCEPT !.theme = r.text.theme]]
             /\ UNCHANGED <<calls, rift>>
          \/ /\ r.text.theme \notin VALUES
             /\ windows' = [windows EXCEPT ![w] =
                              [SeedOf(w, r) EXCEPT !.theme = DERIVED, !.ticket = Ticket(w)]]
             /\ calls' = Persisted(w, DERIVED)
             /\ rift' = Widened(1, Crossing(w))
       /\ UNCHANGED <<backendVars, queues, work>>
  BY Hydrates
<1> DEFINE read == Coerce(ParseConfig(r.text).theme)
           base == Coerce(inner.last.theme)
<1>1. UNCHANGED <<inner, main, watcher, queues>>
  BY DEF backendVars
<1>2. /\ windows[w] \in SettingsRuntime /\ windows[w].phase = "reading" /\ calls[w] = <<>>
      /\ queues[w] = <<>> /\ \A s \in replies'[w] : ~IsRead(s)
  BY DEF ReadInv, ReadOf, TypeOK
<1>3. ~Unwritten
  BY DEF InStep, NoWriteDuringRead
<1>4. Shows(w, read) /\ Aim(base) /\ base \in VALUES /\ (\A aim : Aim(aim) => aim = base)
  BY <1>3, AimTypes DEF Shows, Aim, Unwritten
<1>5. read \in VALUES /\ read = IF r.text.theme \in VALUES THEN r.text.theme ELSE DERIVED
  BY CoerceTypes, ConfigTextAssumption DEF ParseConfig
<1> HIDE DEF read, base
<1>6. windows'[w].phase = "seeded" /\ windows'[w].theme = read
  <2>1. SeedOf(w, r) \in [phase : {"seeded"}, theme : VALUES \cup {"unset"}, ticket : Nat, failed : BOOLEAN,
                          client : BOOLEAN, banner : {r.warnings}, fate : {"none", "ok", "failed"}]
    BY <1>2 DEF SeedOf, SettingsRuntime
  <2> DEFINE present == [SeedOf(w, r) EXCEPT !.theme = r.text.theme]
             derived == [SeedOf(w, r) EXCEPT !.theme = DERIVED, !.ticket = Ticket(w)]
  <2>2. present.phase = "seeded" /\ present.theme = r.text.theme
        /\ derived.phase = "seeded" /\ derived.theme = DERIVED
    BY <2>1
  <2>3. \/ r.text.theme \in VALUES /\ windows' = [windows EXCEPT ![w] = present]
        \/ r.text.theme \notin VALUES /\ windows' = [windows EXCEPT ![w] = derived]
    OBVIOUS
  <2> HIDE DEF present, derived
  <2> QED
    BY <1>5, <2>2, <2>3 DEF TypeOK
<1>7. Shown(w)' = read
  BY <1>5, <1>6, CoerceTypes DEF Shown
<1>8. ASSUME NEW o \in Windows, o # w
      PROVE  windows'[o] = windows[o] /\ replies'[o] = replies[o]
  BY <1>8 DEF TypeOK
<1>9. \A o \in Windows : \A s \in replies'[o] : IsRead(s) => s \in replies[o]
  BY <1>2, <1>8
<1>10. ASSUME NEW o \in Windows, NEW theme, Shows(o, theme)'
       PROVE  IF o = w THEN theme = read ELSE Shows(o, theme)
  <2>1. CASE o = w
    BY <1>2, <1>7, <1>10, <2>1 DEF Shows
  <2>2. CASE o # w
    BY <1>8, <1>10, <2>2 DEF Shows, Shown
  <2> QED
    BY <2>1, <2>2
<1>11. ASSUME ~Overtaken, NEW o \in Windows, NEW theme \in VALUES, Shows(o, theme)'
       PROVE  \E seen \in VALUES : Leads(theme, queues'[o], seen) /\ Leads(seen, Telling, base)
  <2>1. Shows(o, theme)
    BY <1>4, <1>10, <1>11
  <2> QED
    BY <1>1, <1>4, <1>11, <2>1 DEF InStep, OnTheWay, Reaches
<1>12. CASE r.text.theme \in VALUES
  <2>1. UNCHANGED calls
    BY <1>12
  <2> QED
    BY <1>1, <1>4, <1>9, <1>11, <2>1, BackendInStep
<1>13. CASE r.text.theme \notin VALUES
  <2> DEFINE call == [cmd |-> "write", theme |-> DERIVED, ticket |-> Ticket(w)]
  <2>1. calls' = [calls EXCEPT ![w] = Append(calls[w], call)]
    BY <1>13 DEF Persisted
  <2>2. ~Crossing(w)
    BY <1>13 DEF Widened, TypeOK, Rift
  <2>3. IsWrite(call) /\ Asked(call) = DERIVED
    BY DEF IsWrite, Asked
  <2> HIDE DEF call
  <2>4. /\ Unwritten' /\ OneWriter' /\ TextAsAsked'
        /\ \A aim : Aim(aim)' <=> aim = DERIVED
        /\ Overtaken' <=> watcher.pc = "emit"
    BY <1>1, <2>1, <2>2, <2>3, WriterAims DEF ReadInv
  <2>5. NoWriteDuringRead'
    <3> SUFFICES ASSUME NEW o \in Windows
                 PROVE  ~BeingRead(o)' /\ \A s \in replies'[o] : ~IsRead(s)
      BY DEF NoWriteDuringRead
    <3>1. CASE o = w
      BY <1>1, <1>2, <3>1 DEF ReadInv, ReadOf, BeingRead
    <3>2. CASE o # w
      <4>1. windows[o].phase # "reading"
        <5>1. ~Up(w)
          BY <1>2 DEF Up
        <5>2. w = "settings" => Up("main")
          BY <1>2 DEF ReadInv
        <5>3. w = "main" => windows["settings"].phase = "closed"
          BY <5>1 DEF ReadInv
        <5> QED
          BY <3>2, <5>2, <5>3 DEF Windows, Up
      <4> QED
        BY <1>1, <1>8, <3>2, <4>1 DEF ReadInv, ReadOf, BeingRead
    <3> QED
      BY <3>1, <3>2
  <2>6. ASSUME ~Overtaken'
        PROVE  OnTheWay'
    <3>1. watcher.pc # "emit" /\ ~Overtaken /\ Telling = <<>> /\ Telling' = <<>>
      BY <1>1, <2>4, <2>6 DEF Overtaken, Telling
    <3>2. base = DERIVED
      <4>1. read = DERIVED
        BY <1>5, <1>13
      <4> PICK seen \in VALUES : Leads(read, queues[w], seen) /\ Leads(seen, Telling, base)
        BY <1>4, <1>5, <3>1 DEF InStep, OnTheWay, Reaches
      <4> QED
        BY <1>2, <3>1, <4>1, LeadsNowhere
    <3>3. ASSUME NEW o \in Windows, NEW theme \in VALUES, NEW aim \in VALUES, Shows(o, theme)', Aim(aim)'
          PROVE  Reaches(o, theme, aim)'
      <4>1. aim = base
        BY <2>4, <3>2, <3>3
      <4> PICK seen \in VALUES : Leads(theme, queues'[o], seen) /\ Leads(seen, Telling, base)
        BY <1>11, <3>1, <3>3
      <4> QED
        BY <3>1, <4>1 DEF Reaches
    <3> QED
      BY <3>3 DEF OnTheWay
  <2> QED
    BY <2>4, <2>5, <2>6 DEF InStep
<1> QED
  BY <1>12, <1>13

-----------------------------------------------------------------------------
(* The theorem.                                                            *)

LEMMA InitInStep == Init => ThemeInv
<1> SUFFICES ASSUME Init
             PROVE  InStep
  BY DEF ThemeInv
<1>1. main.pc = "idle" /\ \A w \in Windows : calls[w] = <<>> /\ replies[w] = {} /\ windows[w].phase = "closed"
  BY DEF Init, Idle, Closed
<1>2. \A w \in Windows : ~Unlatched(w) /\ ~BeingRead(w) /\ \A theme : ~Shows(w, theme)
  BY <1>1 DEF Unlatched, BeingWritten, BeingRead, Shows
<1> QED
  BY <1>1, <1>2 DEF InStep, OneWriter, NoWriteDuringRead, TextAsAsked, OnTheWay

\* The overlap never falls, so a step that ends without one began without one.
LEMMA RiftGrows ==
  ASSUME TypeOK, Next
  PROVE  rift' \in Rift /\ rift' >= rift
<1>1. CASE FromOutside
  <2> PICK f \in File : Outside(f)
    BY <1>1, FromOutsideIs
  <2> QED
    BY DEF TypeOK, Rift, Outside, Widened
<1>2. CASE Watcher
  <2>1. CASE Emit
    BY <2>1 DEF TypeOK, Rift, Emit, Widened
  <2>2. CASE FollowControl
    BY <2>2 DEF TypeOK, Rift, FollowControl, Widened
  <2>3. CASE WatcherWakes \/ ReadAgain \/ Apply
    <3>1. rift' = rift
      BY <2>3 DEF WatcherWakes, ReadAgain, Apply
    <3> QED
      BY <3>1 DEF TypeOK, Rift
  <2> QED
    BY <1>2, <2>1, <2>2, <2>3 DEF Watcher
<1>3. CASE MainThread
  <2>1. ASSUME NEW w \in Windows, ConfigRead(w)
        PROVE  rift' \in Rift /\ rift' >= rift
    BY <2>1 DEF TypeOK, Rift, ConfigRead, Widened
  <2>2. ASSUME NEW w \in Windows, ConfigWrite(w) \/ ConfigResetAll(w)
        PROVE  rift' \in Rift /\ rift' >= rift
    BY <2>2, RefuseWidens DEF TypeOK, Rift, ConfigWrite, ConfigResetAll
  <2>3. CASE Rebase
    BY <2>3 DEF TypeOK, Rift, Rebase, Widened
  <2>4. CASE WriteAtomic
    BY <2>4, RefuseWidens DEF TypeOK, Rift, WriteAtomic
  <2>5. CASE Latch \/ ApplyControl \/ ConfigOpenFile \/ EmitConfigWarnings
    <3>1. rift' = rift
      BY <2>5 DEF Latch, ApplyControl, ConfigOpenFile, EmitConfigWarnings
    <3> QED
      BY <3>1 DEF TypeOK, Rift
  <2> QED
    BY <1>3, <2>1, <2>2, <2>3, <2>4, <2>5 DEF MainThread
<1>4. ASSUME NEW w \in Windows, Runtime(w)
      PROVE  rift' \in Rift /\ rift' >= rift
  BY <1>4, RuntimeRests
<1> QED
  BY <1>1, <1>2, <1>3, <1>4 DEF Next

LEMMA NextInStep ==
  ASSUME TypeOK, ReadInv, InStep, Next, rift' = 0
  PROVE  InStep'
<1>1. CASE FromOutside \/ ConfigOpenFile
  <2>1. UNCHANGED <<inner, main, watcher, calls, replies, queues, windows>>
    BY <1>1 DEF FromOutside, EditorSaves, FileRemoved, PermissionsChange, Outside, ConfigOpenFile
  <2> QED
    BY <2>1, InStepRests
<1>2. CASE WatcherWakes \/ ReadAgain \/ FollowControl
  <2>1. UNCHANGED <<inner, main, calls, replies, queues, windows>>
    BY <1>2 DEF WatcherWakes, ReadAgain, FollowControl
  <2>2. watcher.pc # "emit" /\ watcher'.pc # "emit"
    <3>1. CASE WatcherWakes
      BY <3>1 DEF WatcherWakes, Asleep
    <3>2. CASE ReadAgain
      BY <3>2 DEF ReadAgain, Asleep
    <3>3. CASE FollowControl
      BY <3>3 DEF FollowControl, Asleep
    <3> QED
      BY <1>2, <3>1, <3>2, <3>3
  <2> QED
    BY <2>1, <2>2, InStepRests
<1>3. CASE Watcher
  BY <1>2, <1>3, ApplyInStep, EmitInStep DEF Watcher
<1>4. ASSUME NEW w \in Windows, ConfigRead(w) \/ ConfigWrite(w) \/ ConfigResetAll(w)
      PROVE  InStep'
  BY <1>4, ConfigReadInStep, StartInStep
<1>5. CASE MainThread
  BY <1>1, <1>4, <1>5, RebaseInStep, WriteAtomicInStep, LatchInStep, ApplyControlInStep,
     WarningsInStep DEF MainThread
<1>6. ASSUME NEW w \in Windows, Runtime(w)
      PROVE  InStep'
  BY <1>6, OpenWindowInStep, HydrateInStep, SubscribeInStep, ResetAllInStep, SetThemeInStep,
     WriteSettledInStep, HandleEventInStep DEF Runtime
<1> QED
  BY <1>1, <1>3, <1>5, <1>6 DEF Next

ConvergenceInv == IInv /\ ReadInv /\ ThemeInv

\* The invariant behind convergence, for every behaviour.
THEOREM InvariantOfThemes == Spec => []ConvergenceInv
<1>1. Init => ConvergenceInv
  BY InitGood, InitReads, InitInStep DEF ConvergenceInv
<1>2. ConvergenceInv /\ [Next]_vars => ConvergenceInv'
  <2> SUFFICES ASSUME ConvergenceInv, [Next]_vars
               PROVE  ConvergenceInv'
    OBVIOUS
  <2>1. IInv' /\ TypeOK
    BY NextGood DEF ConvergenceInv, IInv
  <2>2. CASE Next
    <3>1. ReadInv'
      BY <2>1, <2>2, NextReads DEF ConvergenceInv
    <3>2. rift' = 0 => rift = 0
      BY <2>1, <2>2, RiftGrows DEF TypeOK, Rift
    <3>3. ThemeInv'
      BY <2>1, <2>2, <3>2, NextInStep DEF ConvergenceInv, ThemeInv
    <3> QED
      BY <2>1, <3>1, <3>3 DEF ConvergenceInv
  <2>3. CASE UNCHANGED vars
    <3>1. UNCHANGED <<inner, main, watcher, calls, replies, queues, windows, rift>>
      BY <2>3 DEF vars
    <3> QED
      BY <2>1, <3>1, ReadsRest, InStepRests DEF ConvergenceInv, ThemeInv
  <2> QED
    BY <2>2, <2>3
<1> QED
  BY <1>1, <1>2, PTL DEF Spec

\* When nothing is under way every window shows the theme that the file names, if no
\* two actors' steps overlapped on the way: no echo that was dropped, no burst that
\* became one wake, no materialized theme and no reset leaves a window behind
\* (config_io.rs emissions_for and the latch, settingsStore.ts hydrate and set).
THEOREM WindowsConverge == Spec => []Converged
<1>1. ConvergenceInv => Converged
  <2> SUFFICES ASSUME ConvergenceInv, Quiet, file.readable, rift = 0, NEW w \in Windows, Up(w)
               PROVE  Shown(w) = Coerce(FileConfig.theme)
    BY DEF Converged
  <2>1. /\ TypeOK /\ InStep /\ watcher.pc = "idle" /\ main.pc = "idle" /\ ~wake
        /\ \A o \in Windows : calls[o] = <<>> /\ queues[o] = <<>>
    BY DEF ConvergenceInv, IInv, ThemeInv, Quiet, BackendQuiet
  <2>2. ~Unwritten /\ ~Overtaken /\ Telling = <<>>
    BY <2>1 DEF Unwritten, Unlatched, BeingWritten, Overtaken, Telling
  <2>3. Shown(w) \in VALUES /\ Coerce(inner.last.theme) \in VALUES
        /\ Shows(w, Shown(w)) /\ Aim(Coerce(inner.last.theme))
    BY <2>1, <2>2, AimTypes DEF Shows, Up, Aim
  <2> PICK seen \in VALUES : Leads(Shown(w), queues[w], seen) /\ Leads(seen, Telling, Coerce(inner.last.theme))
    BY <2>1, <2>2, <2>3 DEF InStep, OnTheWay, Reaches
  <2>4. Shown(w) = Coerce(inner.last.theme)
    BY <2>1, <2>2, LeadsNowhere
  <2>5. inner.last = FileConfig
    BY <2>1 DEF ConvergenceInv, IInv, BaseInv, BaseFollows, WillRead, FileConfig, TypeOK, Rift
  <2> QED
    BY <2>4, <2>5
<1> QED
  BY InvariantOfThemes, <1>1, PTL
=============================================================================
