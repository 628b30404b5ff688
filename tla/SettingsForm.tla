----------------------------- MODULE SettingsForm ------------------------------
(***************************************************************************)
(* One row of the settings window: the control and its React state, the    *)
(* setting that it shows, and what its page asks the backend for.  The     *)
(* rows share no state: a behaviour follows the one that Init picks.       *)
(*                                                                         *)
(*   font    a list of bundled fonts, loaded before they are set, and a    *)
(*           field for others                                              *)
(*   shell   a list of installed shells, a field, and the kind of shell    *)
(*           that the rows below it depend on                              *)
(*   size    a number, typed or stepped                                    *)
(*   confirm one of several, set at once; any row of that kind             *)
(*   follow  like confirm, but it hears of changes from elsewhere          *)
(*   status  what became of the shell enhancements; set by nobody here     *)
(*                                                                         *)
(* A page is mounted when it is shown and its state dropped when another   *)
(* one is, or when the search starts or ends.                              *)
(***************************************************************************)
EXTENDS Integers, Sequences, FiniteSets

CONSTANTS LISTED, OTHERS,  \* fonts or shells: in the list, and not
          KIND,            \* the kind of each shell
          MIN_SIZE, MAX_SIZE, TYPED,  \* the range of the number; what may be typed for it
          MAX_CHOICES, MAX_MOUNTS     \* bounds: choices here and elsewhere, times the page is shown

VARIABLES
  row,
  mounted, mount,    \* the page is shown; how many times it was
  stored,            \* this window's snapshot of the setting
  file,              \* the value the backend has
  news,              \* settings:changed, or the status event, on its way: [value, from]
  hearing,           \* the page's listener is subscribed
  shown, custom,     \* the row's value, and its Custom mode
  listing,           \* the shells the list has
  draft, focused,    \* the text of the field, if there is one
  asked, loads,      \* fontRequestRef of every mount; the fonts on their way
  revision, queries, kind,   \* questions to the backend, and the answer shown
  choices,           \* how many were made
  chosen,            \* history: the last of them
  surprised, applied \* history: a change the row does not hear of; the last answer taken

values == <<stored, file, news, choices, chosen>>
control == <<shown, custom, draft, focused>>
questions == <<revision, queries, kind, applied>>
page == <<mounted, mount, hearing, listing>>
vars == <<row, values, control, questions, page, asked, loads, surprised>>

Rows == {"font", "shell", "size", "confirm", "follow", "status"}
System == ""
Custom == "custom"
NoField == <<>>
Text(v) == <<v>>
Junk == <<System, System>>   \* no number
Unknown == "unknown"

Values(r) ==
  CASE r \in {"font", "shell"} -> {System} \cup LISTED \cup OTHERS
    [] r = "size" -> MIN_SIZE..MAX_SIZE
    [] OTHER -> LISTED

Texts == IF row = "size" THEN {Text(n) : n \in TYPED} \cup {Junk} ELSE {Text(v) : v \in Values(row)}

-----------------------------------------------------------------------------
(* The controls.                                                           *)

IsListed(v) == v \in (IF row = "font" THEN LISTED ELSE listing)

\* fontSelection, shellSelection
Selection == IF custom \/ (shown # System /\ ~IsListed(shown)) THEN Custom ELSE shown

HasField == mounted /\ (row = "size" \/ (row \in {"font", "shell"} /\ Selection = Custom))

\* What the field is given to show.
FieldValue == IF row # "size" /\ IsListed(shown) THEN Text(System) ELSE Text(shown)

\* (mutation) the field keeps what was typed
KeepDraft ==
  /\ draft' = IF ~HasField' THEN NoField ELSE IF HasField THEN draft ELSE FieldValue'
  /\ focused' = (focused /\ HasField')

\* The field starts from its value, and again from every new one.
Redraft ==
  /\ draft' = IF ~HasField' THEN NoField
              ELSE IF HasField /\ FieldValue' = FieldValue THEN draft ELSE FieldValue'
  /\ focused' = (focused /\ HasField')

\* (mutation) what was typed is what is committed
AnyNumber(n) == n

\* The field keeps to the range too, as what it shows is not read back.
Clamped(n) == CASE n < MIN_SIZE -> MIN_SIZE [] n > MAX_SIZE -> MAX_SIZE [] OTHER -> n

TypeOK ==
  /\ row \in Rows /\ {mounted, hearing, custom, focused, surprised} \subseteq BOOLEAN
  /\ {stored, file, chosen, shown} \subseteq Values(row) /\ draft \in Texts \cup {NoField, FieldValue}
  /\ \A n \in DOMAIN news : news[n].value \in Values(row) /\ news[n].from \in 0..MAX_MOUNTS
  /\ listing \in {{}, LISTED} /\ mount \in 0..MAX_MOUNTS /\ choices \in 0..MAX_CHOICES
  /\ asked \in [1..MAX_MOUNTS -> Nat] /\ revision \in Nat /\ applied \in 0..revision
  /\ \A l \in loads : l.mount \in 1..mount /\ l.family \in LISTED
  /\ \A q \in queries : q.revision \in 0..revision

Init ==
  /\ row \in Rows /\ mounted = FALSE /\ mount = 0 /\ hearing = FALSE /\ listing = {}
  /\ stored \in Values(row) /\ file = stored /\ chosen = stored /\ shown = stored /\ news = <<>>
  /\ custom = FALSE /\ draft = NoField /\ focused = FALSE
  /\ asked = [m \in 1..MAX_MOUNTS |-> 0] /\ loads = {}
  /\ revision = 0 /\ queries = {} /\ kind = Unknown /\ applied = 0
  /\ choices = 0 /\ surprised = FALSE

Unanswered == "unanswered"
Question(n) == [revision |-> n, answer |-> Unanswered]

Mount ==
  /\ ~mounted /\ mount < MAX_MOUNTS /\ UNCHANGED row
  /\ mounted' = TRUE /\ mount' = mount + 1 /\ hearing' = FALSE /\ listing' = {}
  /\ shown' = stored
  /\ custom' = (row = "font" /\ stored # System /\ ~IsListed(stored))
  /\ Redraft
  /\ revision' = 1 /\ applied' = 0 /\ kind' = Unknown
  /\ queries' = IF row \in {"shell", "status"} THEN {Question(1)} ELSE {}
  /\ surprised' = FALSE
  /\ chosen' = stored
  /\ UNCHANGED <<stored, file, news, choices, asked, loads>>

\* By its sidebar, the menu or the search.  The answers still to come are dropped, the fonts on
\* their way are not.
Unmount ==
  /\ mounted /\ mounted' = FALSE /\ hearing' = FALSE /\ queries' = {}
  /\ draft' = NoField /\ focused' = FALSE
  /\ UNCHANGED <<row, mount, listing, values, shown, custom, revision, kind, applied, asked, loads,
                 surprised>>

Subscribed ==
  /\ mounted /\ ~hearing /\ row \in {"follow", "status"} /\ hearing' = TRUE
  /\ UNCHANGED <<row, mounted, mount, listing, values, control, questions, asked, loads, surprised>>

\* The answer to shells_list, once per mount.
ListShells ==
  /\ mounted /\ row = "shell" /\ listing = {} /\ listing' = LISTED
  /\ UNCHANGED <<row, mounted, mount, hearing, shown, custom>> /\ Redraft
  /\ UNCHANGED <<values, questions, asked, loads, surprised>>

\* coerce: a number is kept in its range, whoever sets it.
Coerced(v) ==
  IF row # "size" THEN v
  ELSE CASE v < MIN_SIZE -> MIN_SIZE [] v > MAX_SIZE -> MAX_SIZE [] OTHER -> v

\* settings.set: the snapshot, the file and the broadcast.
Set(v) ==
  /\ stored' = Coerced(v) /\ file' = Coerced(v)
  /\ news' = Append(news, [value |-> Coerced(v), from |-> mount])

Choosing == mounted /\ choices < MAX_CHOICES /\ choices' = choices + 1

\* The effect over shellRevision asks again, and its cleanup cancels the question before.
AskAgain ==
  /\ revision' = revision + 1 /\ queries' = queries \cup {Question(revision + 1)}
  /\ UNCHANGED <<kind, applied>>

-----------------------------------------------------------------------------
(* Choices.                                                                *)

\* Any toggle, select or segmented control that is set at once; the one selected already is not
\* a choice.
Choose(v) ==
  /\ Choosing /\ row \in {"confirm", "follow"} /\ v # shown
  /\ shown' = v /\ chosen' = v /\ Set(v)
  /\ UNCHANGED <<row, custom, draft, focused, questions, page, asked, loads, surprised>>

\* onShellSelect
SelectShell(v) ==
  /\ Choosing /\ row = "shell" /\ ~focused
  /\ v \in {System, Custom} \cup listing /\ v # Selection
  /\ custom' = (v = Custom) /\ UNCHANGED <<row, page>>
  /\ IF v = Custom
     THEN UNCHANGED <<shown, chosen, stored, file, news, questions>>
     ELSE shown' = v /\ chosen' = v /\ Set(v) /\ AskAgain
  /\ Redraft /\ UNCHANGED <<asked, loads, surprised>>

Supersede == asked' = [asked EXCEPT ![mount] = @ + 1]

\* onFontSelect: a bundled font is set once it is loaded, unless there is a newer choice by then.
SelectFont(v) ==
  /\ Choosing /\ row = "font" /\ ~focused
  /\ v \in {System, Custom} \cup LISTED /\ v # Selection
  /\ Supersede
  /\ custom' = (v = Custom) /\ UNCHANGED <<row, page>>
  /\ chosen' = IF v = Custom THEN shown ELSE v
  /\ IF v \in LISTED
     THEN loads' = loads \cup {[mount |-> mount, request |-> asked[mount] + 1, family |-> v]}
     ELSE UNCHANGED loads
  /\ IF v = System THEN shown' = v /\ Set(v) ELSE UNCHANGED <<shown, stored, file, news>>
  /\ Redraft /\ UNCHANGED <<questions, surprised>>

\* (mutation) whatever font is there is set
FontLoadedAny(l) ==
  /\ l \in loads /\ loads' = loads \ {l} /\ UNCHANGED <<row, page, custom>>
  /\ IF l.mount = mount /\ mounted
     THEN shown' = l.family /\ UNCHANGED surprised ELSE surprised' = TRUE /\ UNCHANGED shown
  /\ Set(l.family)
  /\ Redraft /\ UNCHANGED <<choices, chosen, questions, asked>>

\* ensureFontLoaded is done, by its timeout at the latest.  Only a newer choice of the same
\* mount supersedes it: one that outlives its page still sets the font.
FontLoaded(l) ==
  /\ l \in loads /\ loads' = loads \ {l} /\ UNCHANGED <<row, page, custom>>
  /\ IF asked[l.mount] # l.request THEN UNCHANGED <<shown, stored, file, news, surprised>>
     ELSE /\ IF l.mount = mount /\ mounted
             THEN shown' = l.family /\ UNCHANGED surprised ELSE surprised' = TRUE /\ UNCHANGED shown
          /\ Set(l.family)
  /\ Redraft /\ UNCHANGED <<choices, chosen, questions, asked>>

Type(text) ==
  /\ HasField /\ choices < MAX_CHOICES /\ text \in Texts /\ text # draft
  /\ draft' = text /\ focused' = TRUE
  /\ UNCHANGED <<row, values, shown, custom, questions, page, asked, loads, surprised>>

\* onCommit of the fields of font and shell
CommitText(text) ==
  /\ row \in {"font", "shell"} /\ Text(text) # FieldValue
  /\ Choosing /\ UNCHANGED <<row, page>>
  /\ shown' = text /\ chosen' = text /\ Set(text)
  /\ custom' = (text # System /\ ~IsListed(text))
  /\ IF row = "font" THEN Supersede /\ UNCHANGED questions ELSE AskAgain /\ UNCHANGED asked
  /\ Redraft /\ UNCHANGED <<loads, surprised>>

CommitNumber(n) ==
  /\ row = "size" /\ Clamped(n) # shown
  /\ Choosing /\ UNCHANGED <<row, page, custom>>
  /\ shown' = Clamped(n) /\ chosen' = Clamped(n)
  /\ Set(Clamped(n))
  /\ draft' = Text(shown') /\ UNCHANGED <<focused, questions, asked, loads, surprised>>

\* What is no number, or the value that is there already, takes the field back.
Revert ==
  /\ row = "size" /\ draft # FieldValue /\ (draft # Junk => Clamped(draft[1]) = shown)
  /\ draft' = FieldValue
  /\ UNCHANGED <<row, values, shown, custom, focused, questions, page, asked, loads, surprised>>

\* Enter; and what the blur does before the field loses the focus.
Commit ==
  /\ HasField /\ focused
  /\ \/ CommitText(draft[1])
     \/ draft # Junk /\ CommitNumber(draft[1])
     \/ Revert

\* After that, or with nothing to commit.
Blur ==
  /\ focused /\ draft = FieldValue /\ focused' = FALSE
  /\ UNCHANGED <<row, values, shown, custom, draft, questions, page, asked, loads, surprised>>

\* The buttons of the stepper; to reach them the field is left.
Step(n) ==
  /\ row = "size" /\ mounted /\ ~focused /\ n \in {shown - 1, shown + 1} \cap MIN_SIZE..MAX_SIZE
  /\ CommitNumber(n)

-----------------------------------------------------------------------------
(* The rest of the program.                                                *)

\* Another window or the config file has the setting changed, or a session the status.
ChangedElsewhere(v) ==
  /\ mount > 0 /\ choices < MAX_CHOICES /\ choices' = choices + 1 /\ v # file
  /\ file' = v /\ news' = Append(news, [value |-> v, from |-> 0])
  /\ UNCHANGED <<row, stored, chosen, control, questions, page, asked, loads, surprised>>

\* (mutation) the toggle does not hear of it
DeliverToStore ==
  /\ news # <<>> /\ news' = Tail(news)
  /\ stored' = Head(news).value
  /\ UNCHANGED <<row, shown, custom, draft, focused, file, choices, chosen, questions, page, asked,
                 loads, surprised>>

\* The snapshot takes every event, its own broadcasts too; of the controls only the toggle that
\* listens does, and the status asks again.
Deliver ==
  /\ news # <<>> /\ news' = Tail(news)
  /\ stored' = Head(news).value
  /\ IF row = "follow" /\ hearing THEN shown' = Head(news).value ELSE UNCHANGED shown
  /\ IF row = "follow" /\ hearing THEN chosen' = Head(news).value ELSE UNCHANGED chosen
  /\ IF row = "status" /\ hearing THEN AskAgain ELSE UNCHANGED questions
  /\ surprised' = (surprised \/ (mounted /\ ~hearing /\ Head(news).from # mount))
  /\ UNCHANGED <<row, custom, draft, focused, file, choices, page, asked, loads>>

Answer(q) ==
  /\ q \in queries /\ q.answer = Unanswered
  /\ queries' = (queries \ {q})
                \cup {[q EXCEPT !.answer = IF row = "shell" THEN KIND[file] ELSE file]}
  /\ UNCHANGED <<row, values, control, revision, kind, applied, page, asked, loads, surprised>>

\* (mutation) any answer is taken
ReceiveAny(q) ==
  /\ q \in queries /\ q.answer # Unanswered /\ queries' = queries \ {q}
  /\ kind' = q.answer /\ applied' = q.revision
  /\ UNCHANGED <<row, values, control, revision, page, asked, loads, surprised>>

\* The kind of shell is taken from the last question only, the status from any.
Receive(q) ==
  /\ q \in queries /\ q.answer # Unanswered /\ queries' = queries \ {q}
  /\ IF row = "status" \/ q.revision = revision
     THEN kind' = q.answer /\ applied' = q.revision ELSE UNCHANGED <<kind, applied>>
  /\ UNCHANGED <<row, values, control, revision, page, asked, loads, surprised>>

Next ==
  \/ Mount \/ Unmount \/ Subscribed \/ ListShells
  \/ \E v \in Values(row) : Choose(v) \/ ChangedElsewhere(v)
  \/ \E v \in {System, Custom} \cup LISTED : SelectShell(v) \/ SelectFont(v)
  \/ \E l \in loads : FontLoaded(l)
  \/ \E text \in Texts : Type(text)
  \/ Commit \/ Blur
  \/ \E n \in MIN_SIZE..MAX_SIZE : Step(n)
  \/ Deliver
  \/ \E q \in queries : Answer(q) \/ Receive(q)

Spec == Init /\ [][Next]_vars

-----------------------------------------------------------------------------
(* Properties.                                                             *)

AtRest == mounted /\ loads = {} /\ queries = {} /\ news = <<>> /\ ~surprised

(* Once nothing is on its way, the row shows the setting, which is the     *)
(* file's and the last choice that was made, whatever order fonts loaded   *)
(* in; the kind of shell that hides or shows the rows below is that of the *)
(* shell in the file, and the status the backend's, if its last answer     *)
(* came last; and a field that is not being typed in shows the value it    *)
(* stands for.  Excepted are changes that the row does not hear of: from   *)
(* elsewhere where there is no listener, or by a font that outlived its    *)
(* page.                                                                   *)
FormSettles ==
  AtRest =>
    /\ row # "status" => shown = stored /\ stored = file /\ stored = chosen
    /\ row = "shell" => kind = KIND[file]
    /\ row = "status" /\ applied = revision => kind = file
    /\ HasField /\ ~focused => draft = FieldValue

=============================================================================
