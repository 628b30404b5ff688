---------------------------- MODULE MachinesProofs ----------------------------
(***************************************************************************)
(* What TLAPS proves of the run of all the machines, for every value of    *)
(* the constants of those it names: the proofs of the components hold of   *)
(* each machine where the run has it, beside all the others.  The machine  *)
(* is the same seen from MCMachines and from the module of its proofs (the *)
(* lemmas Same...); its invariant then holds whenever it is the one that   *)
(* was picked, as the others leave its variables alone.                    *)
(***************************************************************************)
EXTENDS MCMachines, TLAPS

Parts == INSTANCE ComponentProofs WITH
  VERSIONS <- TREE_VERSIONS, tree <- trees, changes <- jobs, shown <- heard, missed <- unheard,
  page <- mainPage, listener <- hook, replies <- batches, tabs <- openTabs, lost <- lostPaths,
  SIZES <- {1, 2}, FONTS <- {"f", "g"}, THEMES <- {"t", "u"}, LINES <- {0, 1}, MAX_ALTERED <- 1,
  STORED <- [font : {"f"}, theme : {"t"}, lines : {0, 1}, write : {"allow", "deny"}],
  frame <- fitFrame, saved <- stored, ear <- listener, altered <- changes, unseen <- missed,
  unread <- lost, registry <- theme
Windows == INSTANCE WindowProofs WITH
  OFFERED <- VERSIONS, focus <- keyboard, watch <- gestureMachine,
  onScreen <- mounted, stored <- snapshot, news <- broadcasts, hearing <- subscribed,
  value <- shown, sort <- kind, applied <- answered
Control == INSTANCE ControlProofs WITH
  listener <- server, pending <- waiters, asked <- requested

-----------------------------------------------------------------------------
(* Each machine is the one that its proofs are about.                      *)

LEMMA SamePoller ==
  /\ Poller!Init <=> Parts!Poller!Init
  /\ Poller!Next <=> Parts!Poller!Next
  /\ Poller!vars = Parts!Poller!vars
  /\ Poller!NeverStranded <=> Parts!Poller!NeverStranded
  /\ Poller!PanesTrue <=> Parts!Poller!PanesTrue
BY DEF
     Poller!vars, Poller!Shell, Poller!Unknown, Poller!Fronts, Poller!Names, Poller!Fates,
     Poller!Registered, Poller!Activity, Poller!Hint, Poller!Pane, Poller!Blank, Poller!Empty,
     Poller!Init, Poller!Insert, Poller!NotifySessionOpened, Poller!Attach, Poller!End,
     Poller!JobChanges, Poller!ResolvesTitles, Poller!Snapshot, Poller!Block,
     Poller!WaitWhileEmpty, Poller!Leaders, Poller!Carry, Poller!Changed, Poller!InOrder,
     Poller!BusyNow, Poller!Rises, Poller!EnrichedTitles, Poller!Resolve, Poller!Emit,
     Poller!Heard, Poller!Handle, Poller!Next, Poller!NeverStranded, Poller!PanesTrue,
     Poller!Cardinality, Poller!Range, Poller!Restrict, Parts!Poller!vars, Parts!Poller!Shell,
     Parts!Poller!Unknown, Parts!Poller!Fronts, Parts!Poller!Names, Parts!Poller!Fates,
     Parts!Poller!Registered, Parts!Poller!Activity, Parts!Poller!Hint, Parts!Poller!Pane,
     Parts!Poller!Blank, Parts!Poller!Empty, Parts!Poller!Init, Parts!Poller!Insert,
     Parts!Poller!NotifySessionOpened, Parts!Poller!Attach, Parts!Poller!End,
     Parts!Poller!JobChanges, Parts!Poller!ResolvesTitles, Parts!Poller!Snapshot,
     Parts!Poller!Block, Parts!Poller!WaitWhileEmpty, Parts!Poller!Leaders, Parts!Poller!Carry,
     Parts!Poller!Changed, Parts!Poller!InOrder, Parts!Poller!BusyNow, Parts!Poller!Rises,
     Parts!Poller!EnrichedTitles, Parts!Poller!Resolve, Parts!Poller!Emit, Parts!Poller!Heard,
     Parts!Poller!Handle, Parts!Poller!Next, Parts!Poller!NeverStranded,
     Parts!Poller!PanesTrue, Parts!Poller!Cardinality, Parts!Poller!Range,
     Parts!Poller!Restrict

LEMMA SameFinder ==
  /\ Finder!Init <=> Parts!Finder!Init
  /\ Finder!Next <=> Parts!Finder!Next
  /\ Finder!vars = Parts!Finder!vars
  /\ Finder!OpenedOnce <=> Parts!Finder!OpenedOnce
  /\ Finder!QueueDrained <=> Parts!Finder!QueueDrained
BY DEF
     Finder!vars, Finder!None, Finder!Home, Finder!Elements, Finder!Batches, Finder!Init,
     Finder!Webview, Finder!Drains, Finder!Enqueue, Finder!Nudge, Finder!Take,
     Finder!TakeForNobody, Finder!Fetch, Finder!Fetched, Finder!Opens, Finder!Mount,
     Finder!Registered, Finder!Resolved, Finder!Heard, Finder!Deliver, Finder!Reload,
     Finder!Next, Finder!OpenedOnce, Finder!QueueDrained, Finder!Cardinality,
     Parts!Finder!vars, Parts!Finder!None, Parts!Finder!Home, Parts!Finder!Elements,
     Parts!Finder!Batches, Parts!Finder!Init, Parts!Finder!Webview, Parts!Finder!Drains,
     Parts!Finder!Enqueue, Parts!Finder!Nudge, Parts!Finder!Take, Parts!Finder!TakeForNobody,
     Parts!Finder!Fetch, Parts!Finder!Fetched, Parts!Finder!Opens, Parts!Finder!Mount,
     Parts!Finder!Registered, Parts!Finder!Resolved, Parts!Finder!Heard, Parts!Finder!Deliver,
     Parts!Finder!Reload, Parts!Finder!Next, Parts!Finder!OpenedOnce,
     Parts!Finder!QueueDrained, Parts!Finder!Cardinality

LEMMA SameTrees ==
  /\ Trees!Init <=> Parts!Trees!Init
  /\ Trees!Next <=> Parts!Trees!Next
  /\ Trees!vars = Parts!Trees!vars
  /\ Trees!MarkerMeansWhole <=> Parts!Trees!MarkerMeansWhole
  /\ Trees!TreesKept <=> Parts!Trees!TreesKept
BY DEF
     Trees!vars, Trees!BUILDERS, Trees!None, Trees!Missing, Trees!Whole, Trees!Idle,
     Trees!Init, Trees!At, Trees!Goes, Trees!Own, Trees!Underway, Trees!There, Trees!Errs,
     Trees!Lookup, Trees!Stage, Trees!Place, Trees!Rename, Trees!Blocked, Trees!Install,
     Trees!Removes, Trees!Emptied, Trees!RemovesDirectory, Trees!Opens, Trees!Clear,
     Trees!Others, Trees!CompleteOthers, Trees!Newest, Trees!Sweep, Trees!Remove, Trees!Start,
     Trees!Dies, Trees!Next, Trees!Present, Trees!CutTrees, Trees!MarkerMeansWhole,
     Trees!TreesKept, Trees!Cardinality, Parts!Trees!vars, Parts!Trees!BUILDERS,
     Parts!Trees!None, Parts!Trees!Missing, Parts!Trees!Whole, Parts!Trees!Idle,
     Parts!Trees!Init, Parts!Trees!At, Parts!Trees!Goes, Parts!Trees!Own, Parts!Trees!Underway,
     Parts!Trees!There, Parts!Trees!Errs, Parts!Trees!Lookup, Parts!Trees!Stage,
     Parts!Trees!Place, Parts!Trees!Rename, Parts!Trees!Blocked, Parts!Trees!Install,
     Parts!Trees!Removes, Parts!Trees!Emptied, Parts!Trees!RemovesDirectory, Parts!Trees!Opens,
     Parts!Trees!Clear, Parts!Trees!Others, Parts!Trees!CompleteOthers, Parts!Trees!Newest,
     Parts!Trees!Sweep, Parts!Trees!Remove, Parts!Trees!Start, Parts!Trees!Dies,
     Parts!Trees!Next, Parts!Trees!Present, Parts!Trees!CutTrees, Parts!Trees!MarkerMeansWhole,
     Parts!Trees!TreesKept, Parts!Trees!Cardinality

LEMMA SameKeyboard ==
  /\ Keyboard!Init <=> Windows!Keyboard!Init
  /\ Keyboard!Next <=> Windows!Keyboard!Next
  /\ Keyboard!vars = Windows!Keyboard!vars
  /\ Keyboard!KeyboardOwner <=> Windows!Keyboard!KeyboardOwner
BY DEF
     Keyboard!vars, Keyboard!None, Keyboard!PaneIds, Keyboard!TabIds, Keyboard!Nobody,
     Keyboard!NoQuestion, Keyboard!Terminal, Keyboard!Init, Keyboard!Members, Keyboard!Tabs,
     Keyboard!Current, Keyboard!Overlays, Keyboard!Free, Keyboard!Inputs, Keyboard!MayHold,
     Keyboard!ActivationDeps, Keyboard!FocusDeps, Keyboard!FocusFocusedPane, Keyboard!Blurred,
     Keyboard!Taken, Keyboard!Handed, Keyboard!Commit, Keyboard!Opened, Keyboard!Split,
     Keyboard!Activated, Keyboard!Focused, Keyboard!CloseTab, Keyboard!ClosePane,
     Keyboard!Gated, Keyboard!Closing, Keyboard!Moving, Keyboard!MenuCommands,
     Keyboard!OpenSearch, Keyboard!CloseSearch, Keyboard!Commands, Keyboard!Menu, Keyboard!Key,
     Keyboard!Remote, Keyboard!PalettePick, Keyboard!PickerPick, Keyboard!Confirm,
     Keyboard!CancelQuestion, Keyboard!AskQuit, Keyboard!PtyExit, Keyboard!Deliver,
     Keyboard!ClickPane, Keyboard!ClickFind, Keyboard!ClickTab, Keyboard!DoubleClickTab,
     Keyboard!ClickClose, Keyboard!Hover, Keyboard!EndRename, Keyboard!EndBadge,
     Keyboard!EscapeFind, Keyboard!CancelOverlay, Keyboard!WindowBlur, Keyboard!Next,
     Keyboard!KeyboardOwner, Windows!Keyboard!vars, Windows!Keyboard!None,
     Windows!Keyboard!PaneIds, Windows!Keyboard!TabIds, Windows!Keyboard!Nobody,
     Windows!Keyboard!NoQuestion, Windows!Keyboard!Terminal, Windows!Keyboard!Init,
     Windows!Keyboard!Members, Windows!Keyboard!Tabs, Windows!Keyboard!Current,
     Windows!Keyboard!Overlays, Windows!Keyboard!Free, Windows!Keyboard!Inputs,
     Windows!Keyboard!MayHold, Windows!Keyboard!ActivationDeps, Windows!Keyboard!FocusDeps,
     Windows!Keyboard!FocusFocusedPane, Windows!Keyboard!Blurred, Windows!Keyboard!Taken,
     Windows!Keyboard!Handed, Windows!Keyboard!Commit, Windows!Keyboard!Opened,
     Windows!Keyboard!Split, Windows!Keyboard!Activated, Windows!Keyboard!Focused,
     Windows!Keyboard!CloseTab, Windows!Keyboard!ClosePane, Windows!Keyboard!Gated,
     Windows!Keyboard!Closing, Windows!Keyboard!Moving, Windows!Keyboard!MenuCommands,
     Windows!Keyboard!OpenSearch, Windows!Keyboard!CloseSearch, Windows!Keyboard!Commands,
     Windows!Keyboard!Menu, Windows!Keyboard!Key, Windows!Keyboard!Remote,
     Windows!Keyboard!PalettePick, Windows!Keyboard!PickerPick, Windows!Keyboard!Confirm,
     Windows!Keyboard!CancelQuestion, Windows!Keyboard!AskQuit, Windows!Keyboard!PtyExit,
     Windows!Keyboard!Deliver, Windows!Keyboard!ClickPane, Windows!Keyboard!ClickFind,
     Windows!Keyboard!ClickTab, Windows!Keyboard!DoubleClickTab, Windows!Keyboard!ClickClose,
     Windows!Keyboard!Hover, Windows!Keyboard!EndRename, Windows!Keyboard!EndBadge,
     Windows!Keyboard!EscapeFind, Windows!Keyboard!CancelOverlay, Windows!Keyboard!WindowBlur,
     Windows!Keyboard!Next, Windows!Keyboard!KeyboardOwner

LEMMA SameActivity ==
  /\ Activity!Init <=> Windows!Activity!Init
  /\ Activity!Next <=> Windows!Activity!Next
  /\ Activity!vars = Windows!Activity!vars
  /\ Activity!GuardSeesJob <=> Windows!Activity!GuardSeesJob
  /\ Activity!LineFresh <=> Windows!Activity!LineFresh
  /\ Activity!SessionCounted <=> Windows!Activity!SessionCounted
<1>1. /\ Activity!Fresh = Windows!Activity!Fresh /\ Activity!NoMeta = Windows!Activity!NoMeta
      /\ Activity!Names = Windows!Activity!Names /\ Activity!Markers = Windows!Activity!Markers
      /\ Activity!NoTimer = Windows!Activity!NoTimer /\ Activity!NoName = Windows!Activity!NoName
  BY DEF Activity!Fresh, Windows!Activity!Fresh, Activity!NoMeta, Windows!Activity!NoMeta,
     Activity!Names, Windows!Activity!Names, Activity!Markers, Windows!Activity!Markers,
     Activity!NoTimer, Windows!Activity!NoTimer, Activity!NoName, Windows!Activity!NoName
<1>2. /\ \A a : Activity!Busy(a) = Windows!Activity!Busy(a)
      /\ \A a : Activity!Visible(a) = Windows!Activity!Visible(a)
      /\ \A a : Activity!NoWindow(a) = Windows!Activity!NoWindow(a)
      /\ \A a : Activity!OpenWindow(a) = Windows!Activity!OpenWindow(a)
      /\ \A a : Activity!LightActive(a) = Windows!Activity!LightActive(a)
      /\ \A m : Activity!ClassifyInvocation(m) = Windows!Activity!ClassifyInvocation(m)
      /\ \A a : Activity!ShowIn(a) = Windows!Activity!ShowIn(a) /\ Activity!HideIn(a) = Windows!Activity!HideIn(a)
      /\ \A n, limit : Activity!Older(n, limit) = Windows!Activity!Older(n, limit)
      /\ \A S : Activity!Soonest(S) = Windows!Activity!Soonest(S)
  BY DEF Activity!Busy, Windows!Activity!Busy, Activity!Visible, Windows!Activity!Visible,
     Activity!NoWindow, Windows!Activity!NoWindow, Activity!OpenWindow, Windows!Activity!OpenWindow,
     Activity!LightActive, Windows!Activity!LightActive,
     Activity!ClassifyInvocation, Windows!Activity!ClassifyInvocation,
     Activity!ShowIn, Windows!Activity!ShowIn, Activity!HideIn, Windows!Activity!HideIn,
     Activity!Older, Windows!Activity!Older, Activity!Soonest, Windows!Activity!Soonest
<1>3. /\ \A a, m : Activity!FreshEpoch(a, m) = Windows!Activity!FreshEpoch(a, m)
      /\ \A a : Activity!AdvanceClass(a) = Windows!Activity!AdvanceClass(a)
      /\ \A a : Activity!ClassDeadlines(a) = Windows!Activity!ClassDeadlines(a)
      /\ \A a, large : Activity!Echo(a, large) = Windows!Activity!Echo(a, large)
  BY <1>1, <1>2 DEF Activity!FreshEpoch, Windows!Activity!FreshEpoch,
     Activity!AdvanceClass, Windows!Activity!AdvanceClass, Activity!LightOff, Windows!Activity!LightOff,
     Activity!ClassDeadlines, Windows!Activity!ClassDeadlines, Activity!Echo, Windows!Activity!Echo
<1>4. /\ \A a, busy, m : Activity!OnBusyChange(a, busy, m) = Windows!Activity!OnBusyChange(a, busy, m)
      /\ \A a : Activity!OnDeadline(a) = Windows!Activity!OnDeadline(a)
      /\ \A a, m : Activity!OnClassifyMetadata(a, m) = Windows!Activity!OnClassifyMetadata(a, m)
      /\ \A a, submitted : Activity!OnInput(a, submitted) = Windows!Activity!OnInput(a, submitted)
      /\ \A a, large : Activity!OnOutput(a, large) = Windows!Activity!OnOutput(a, large)
      /\ \A a, force : Activity!OnManualToggle(a, force) = Windows!Activity!OnManualToggle(a, force)
  BY <1>1, <1>2, <1>3 DEF Activity!OnBusyChange, Windows!Activity!OnBusyChange,
     Activity!OnDeadline, Windows!Activity!OnDeadline,
     Activity!OnClassifyMetadata, Windows!Activity!OnClassifyMetadata,
     Activity!OnInput, Windows!Activity!OnInput, Activity!OnOutput, Windows!Activity!OnOutput,
     Activity!OnManualToggle, Windows!Activity!OnManualToggle
<1>5. \A t : Activity!Apply(t) <=> Windows!Activity!Apply(t)
  BY <1>1, <1>2, <1>3 DEF Activity!Apply, Windows!Activity!Apply
<1>6. Activity!Next <=> Windows!Activity!Next
  <2>1. (Activity!TimerFires <=> Windows!Activity!TimerFires) /\ (Activity!FlashEnds <=> Windows!Activity!FlashEnds)
    BY <1>1, <1>4, <1>5 DEF Activity!TimerFires, Windows!Activity!TimerFires,
       Activity!FlashEnds, Windows!Activity!FlashEnds, Activity!Quiet, Windows!Activity!Quiet
  <2>2. Activity!Tick <=> Windows!Activity!Tick
    BY DEF Activity!Tick, Windows!Activity!Tick, Activity!NoTimer, Windows!Activity!NoTimer,
       Activity!Visible, Windows!Activity!Visible, Activity!Older, Windows!Activity!Older
  <2>3. Activity!ToggleActivity <=> Windows!Activity!ToggleActivity
    <3>1. /\ Activity!LightActive(line) = Windows!Activity!LightActive(line) /\ Activity!Flashing = Windows!Activity!Flashing
          /\ \A force : Activity!Apply(Activity!OnManualToggle(line, force))
                          <=> Windows!Activity!Apply(Windows!Activity!OnManualToggle(line, force))
      BY <1>1, <1>2, <1>4, <1>5 DEF Activity!Flashing, Windows!Activity!Flashing
    <3> QED BY <1>1, <3>1 DEF Activity!ToggleActivity, Windows!Activity!ToggleActivity
  <2>4. Activity!Dispose <=> Windows!Activity!Dispose
    BY <1>1 DEF Activity!Dispose, Windows!Activity!Dispose
  <2>5. \A busy, m : Activity!SessionActivity(busy, m) <=> Windows!Activity!SessionActivity(busy, m)
    BY <1>1, <1>4, <1>5 DEF Activity!SessionActivity, Windows!Activity!SessionActivity
  <2>6. \A name : Activity!TitleHint(name) <=> Windows!Activity!TitleHint(name)
    BY <1>1, <1>4, <1>5 DEF Activity!TitleHint, Windows!Activity!TitleHint
  <2>7. \A marker : Activity!PromptMarker(marker) <=> Windows!Activity!PromptMarker(marker)
    <3>1. \A busy : Activity!Apply(Activity!OnBusyChange(line, busy, Activity!NoMeta))
                      <=> Windows!Activity!Apply(Windows!Activity!OnBusyChange(line, busy, Windows!Activity!NoMeta))
      BY <1>1, <1>4, <1>5
    <3>2. \A marker : Activity!StepPrompt(marker) = Windows!Activity!StepPrompt(marker)
      BY DEF Activity!StepPrompt, Windows!Activity!StepPrompt
    <3> QED BY <1>1, <3>1, <3>2 DEF Activity!PromptMarker, Windows!Activity!PromptMarker
  <2>8. \A submitted : Activity!Input(submitted) <=> Windows!Activity!Input(submitted)
    BY <1>4, <1>5 DEF Activity!Input, Windows!Activity!Input, Activity!Quiet, Windows!Activity!Quiet
  <2>9. \A large : Activity!Output(large) <=> Windows!Activity!Output(large)
    BY <1>4, <1>5 DEF Activity!Output, Windows!Activity!Output, Activity!Quiet, Windows!Activity!Quiet
  <2> QED
    BY <1>1, <2>1, <2>2, <2>3, <2>4, <2>5, <2>6, <2>7, <2>8, <2>9 DEF Activity!Next,
       Windows!Activity!Next
<1>7. Activity!Init <=> Windows!Activity!Init
  BY <1>1 DEF Activity!Init, Windows!Activity!Init
<1> QED
  BY <1>2, <1>6, <1>7 DEF Activity!vars, Windows!Activity!vars, Activity!GuardSeesJob,
     Windows!Activity!GuardSeesJob, Activity!LineFresh, Windows!Activity!LineFresh,
     Activity!SessionCounted, Windows!Activity!SessionCounted, Activity!Counted,
     Windows!Activity!Counted

LEMMA SameUpdate ==
  /\ Update!Init <=> Windows!Updater!Init
  /\ Update!Next <=> Windows!Updater!Next
  /\ Update!vars = Windows!Updater!vars
  /\ Update!MirrorSettles <=> Windows!Updater!MirrorSettles
BY DEF
     Update!authority, Update!projection, Update!bounded, Update!vars, Update!None,
     Update!Offers, Update!Statuses, Update!States, Update!Commands, Update!InitialUpdateState,
     Update!Init, Update!CheckStarted, Update!FoundUpToDate, Update!FoundAvailable,
     Update!DownloadStarted, Update!DownloadReady, Update!Failed, Update!Skipped,
     Update!IsCardVisible, Update!ShouldAutoCheck, Update!Send, Update!Dispatch,
     Update!CheckNow, Update!Schedule, Update!Serve, Update!CheckResolves, Update!Download,
     Update!DownloadEnds, Update!Restart, Update!Skip, Update!SetAutoCheck, Update!TakeMessage,
     Update!Connect, Update!CloseSettings, Update!TakeSnapshot, Update!Offered, Update!Click,
     Update!ToggleAutoCheck, Update!ToggleAutoDownload, Update!Next, Update!MirrorSettles,
     Windows!Updater!authority, Windows!Updater!projection, Windows!Updater!bounded,
     Windows!Updater!vars, Windows!Updater!None, Windows!Updater!Offers,
     Windows!Updater!Statuses, Windows!Updater!States, Windows!Updater!Commands,
     Windows!Updater!InitialUpdateState, Windows!Updater!Init, Windows!Updater!CheckStarted,
     Windows!Updater!FoundUpToDate, Windows!Updater!FoundAvailable,
     Windows!Updater!DownloadStarted, Windows!Updater!DownloadReady, Windows!Updater!Failed,
     Windows!Updater!Skipped, Windows!Updater!IsCardVisible, Windows!Updater!ShouldAutoCheck,
     Windows!Updater!Send, Windows!Updater!Dispatch, Windows!Updater!CheckNow,
     Windows!Updater!Schedule, Windows!Updater!Serve, Windows!Updater!CheckResolves,
     Windows!Updater!Download, Windows!Updater!DownloadEnds, Windows!Updater!Restart,
     Windows!Updater!Skip, Windows!Updater!SetAutoCheck, Windows!Updater!TakeMessage,
     Windows!Updater!Connect, Windows!Updater!CloseSettings, Windows!Updater!TakeSnapshot,
     Windows!Updater!Offered, Windows!Updater!Click, Windows!Updater!ToggleAutoCheck,
     Windows!Updater!ToggleAutoDownload, Windows!Updater!Next, Windows!Updater!MirrorSettles

LEMMA SameCopy ==
  /\ Copy!Init <=> Windows!Copy!Init
  /\ Copy!Next <=> Windows!Copy!Next
  /\ Copy!vars = Windows!Copy!vars
  /\ Copy!GestureOutcome <=> Windows!Copy!GestureOutcome
BY DEF
     Copy!vars, Copy!Nothing, Copy!Empty, Copy!Selections, Copy!Detached, Copy!Attached,
     Copy!Idle, Copy!Delivered, Copy!Init, Copy!ClearPending, Copy!Aborted, Copy!OnPointerDown,
     Copy!OnSelectionChange, Copy!OnPointerUp, Copy!OnCancel, Copy!OnCaptureLost, Copy!On,
     Copy!CopyIfNew, Copy!Press, Copy!Select, Copy!Reflow, Copy!Release, Copy!Cancel,
     Copy!Blur, Copy!Steal, Copy!Deliver, Copy!DebounceFires, Copy!DeferredFires,
     Copy!SoftAbortFires, Copy!Toggle, Copy!CopyCommand, Copy!OtherWrites, Copy!Next,
     Copy!GestureOutcome, Windows!Copy!vars, Windows!Copy!Nothing, Windows!Copy!Empty,
     Windows!Copy!Selections, Windows!Copy!Detached, Windows!Copy!Attached, Windows!Copy!Idle,
     Windows!Copy!Delivered, Windows!Copy!Init, Windows!Copy!ClearPending,
     Windows!Copy!Aborted, Windows!Copy!OnPointerDown, Windows!Copy!OnSelectionChange,
     Windows!Copy!OnPointerUp, Windows!Copy!OnCancel, Windows!Copy!OnCaptureLost,
     Windows!Copy!On, Windows!Copy!CopyIfNew, Windows!Copy!Press, Windows!Copy!Select,
     Windows!Copy!Reflow, Windows!Copy!Release, Windows!Copy!Cancel, Windows!Copy!Blur,
     Windows!Copy!Steal, Windows!Copy!Deliver, Windows!Copy!DebounceFires,
     Windows!Copy!DeferredFires, Windows!Copy!SoftAbortFires, Windows!Copy!Toggle,
     Windows!Copy!CopyCommand, Windows!Copy!OtherWrites, Windows!Copy!Next,
     Windows!Copy!GestureOutcome

LEMMA SameForm ==
  /\ Form!Init <=> Windows!Form!Init
  /\ Form!Next <=> Windows!Form!Next
  /\ Form!vars = Windows!Form!vars
  /\ Form!FormSettles <=> Windows!Form!FormSettles
BY DEF
     Form!values, Form!control, Form!questions, Form!page, Form!vars, Form!Rows, Form!System,
     Form!Custom, Form!NoField, Form!Text, Form!Junk, Form!Unknown, Form!Values, Form!Texts,
     Form!IsListed, Form!Selection, Form!HasField, Form!FieldValue, Form!Redraft, Form!Clamped,
     Form!Init, Form!Unanswered, Form!Question, Form!Mount, Form!Unmount, Form!Subscribed,
     Form!ListShells, Form!Coerced, Form!Set, Form!Choosing, Form!AskAgain, Form!Choose,
     Form!SelectShell, Form!Supersede, Form!SelectFont, Form!FontLoaded, Form!Type,
     Form!CommitText, Form!CommitNumber, Form!Revert, Form!Commit, Form!Blur, Form!Step,
     Form!ChangedElsewhere, Form!Deliver, Form!Answer, Form!Receive, Form!Next, Form!AtRest,
     Form!FormSettles, Windows!Form!values, Windows!Form!control, Windows!Form!questions,
     Windows!Form!page, Windows!Form!vars, Windows!Form!Rows, Windows!Form!System,
     Windows!Form!Custom, Windows!Form!NoField, Windows!Form!Text, Windows!Form!Junk,
     Windows!Form!Unknown, Windows!Form!Values, Windows!Form!Texts, Windows!Form!IsListed,
     Windows!Form!Selection, Windows!Form!HasField, Windows!Form!FieldValue,
     Windows!Form!Redraft, Windows!Form!Clamped, Windows!Form!Init, Windows!Form!Unanswered,
     Windows!Form!Question, Windows!Form!Mount, Windows!Form!Unmount, Windows!Form!Subscribed,
     Windows!Form!ListShells, Windows!Form!Coerced, Windows!Form!Set, Windows!Form!Choosing,
     Windows!Form!AskAgain, Windows!Form!Choose, Windows!Form!SelectShell,
     Windows!Form!Supersede, Windows!Form!SelectFont, Windows!Form!FontLoaded,
     Windows!Form!Type, Windows!Form!CommitText, Windows!Form!CommitNumber,
     Windows!Form!Revert, Windows!Form!Commit, Windows!Form!Blur, Windows!Form!Step,
     Windows!Form!ChangedElsewhere, Windows!Form!Deliver, Windows!Form!Answer,
     Windows!Form!Receive, Windows!Form!Next, Windows!Form!AtRest, Windows!Form!FormSettles

LEMMA SameFind ==
  /\ Find!Init <=> Windows!Find!Init
  /\ Find!Next <=> Windows!Find!Next
  /\ Find!vars = Windows!Find!vars
  /\ Find!FindSettles <=> Windows!Find!FindSettles
BY DEF
     Find!vars, Find!Empty, Find!Plain, Find!Terms, Find!FindState, Find!Init,
     Find!IsSearchable, Find!Unlit, Find!WithError, Find!SetResults, Find!FindNext, Find!Open,
     Find!Change, Find!Type, Find!ToggleCase, Find!ToggleRegex, Find!DebounceFires, Find!Press,
     Find!Recolor, Find!Results, Find!Close, Find!Next, Find!FindSettles, Find!NothingToFind,
     Windows!Find!vars, Windows!Find!Empty, Windows!Find!Plain, Windows!Find!Terms,
     Windows!Find!FindState, Windows!Find!Init, Windows!Find!IsSearchable, Windows!Find!Unlit,
     Windows!Find!WithError, Windows!Find!SetResults, Windows!Find!FindNext, Windows!Find!Open,
     Windows!Find!Change, Windows!Find!Type, Windows!Find!ToggleCase, Windows!Find!ToggleRegex,
     Windows!Find!DebounceFires, Windows!Find!Press, Windows!Find!Recolor,
     Windows!Find!Results, Windows!Find!Close, Windows!Find!Next, Windows!Find!FindSettles,
     Windows!Find!NothingToFind

(* The keymap is merged and read in the same way.                          *)
LEMMA SameMerged ==
  ASSUME NEW f
  PROVE  UserFiles!Merged(f) = Parts!Files!Merged(f)
BY Zenon DEF
     UserFiles!MODIFIERS, UserFiles!KEY_ALIASES, UserFiles!IsKeyToken, UserFiles!KeyToken,
     UserFiles!KeysIn, UserFiles!Parses, UserFiles!ParseChord, UserFiles!ToSet,
     UserFiles!ValidBinding, UserFiles!Without, UserFiles!With, UserFiles!Merged,
     UserFiles!FoldLeft, UserFiles!MapThenFoldSet, UserFiles!Max, Parts!Files!MODIFIERS,
     Parts!Files!KEY_ALIASES, Parts!Files!IsKeyToken, Parts!Files!KeyToken, Parts!Files!KeysIn,
     Parts!Files!Parses, Parts!Files!ParseChord, Parts!Files!ToSet, Parts!Files!ValidBinding,
     Parts!Files!Without, Parts!Files!With, Parts!Files!Merged, Parts!Files!FoldLeft,
     Parts!Files!MapThenFoldSet, Parts!Files!Max

LEMMA SameBound ==
  ASSUME NEW chord
  PROVE  UserFiles!Bound(chord) = Parts!Files!Bound(chord)
BY Zenon DEF
     UserFiles!MODIFIERS, UserFiles!KEY_ALIASES, UserFiles!IsKeyToken, UserFiles!KeyToken,
     UserFiles!KeysIn, UserFiles!Parses, UserFiles!ParseChord, UserFiles!ToSet,
     UserFiles!ValidBinding, UserFiles!Entries, UserFiles!Bound, Parts!Files!MODIFIERS,
     Parts!Files!KEY_ALIASES, Parts!Files!IsKeyToken, Parts!Files!KeyToken, Parts!Files!KeysIn,
     Parts!Files!Parses, Parts!Files!ParseChord, Parts!Files!ToSet, Parts!Files!ValidBinding,
     Parts!Files!Entries, Parts!Files!Bound

LEMMA SameFiles ==
  /\ UserFiles!Init <=> Parts!Files!Init
  /\ UserFiles!Next <=> Parts!Files!Next
  /\ UserFiles!vars = Parts!Files!vars
  /\ UserFiles!CatalogsSettle <=> Parts!Files!CatalogsSettle
<1>1. UserFiles!Init <=> Parts!Files!Init
  BY DEF
     UserFiles!Closed, UserFiles!Default, UserFiles!NoTokens, UserFiles!Absent,
     UserFiles!ThemeFiles, UserFiles!Unanswered, UserFiles!ThemeIds, UserFiles!Contents,
     UserFiles!ResolveTheme, UserFiles!Init, Parts!Files!Closed, Parts!Files!Default,
     Parts!Files!NoTokens, Parts!Files!Absent, Parts!Files!ThemeFiles, Parts!Files!Unanswered,
     Parts!Files!ThemeIds, Parts!Files!Contents, Parts!Files!ResolveTheme, Parts!Files!Init
<1>2. UserFiles!Next <=> Parts!Files!Next
  <2>1. \A f : UserFiles!Write(f) <=> Parts!Files!Write(f)
    BY DEF
       UserFiles!painting, UserFiles!Write, Parts!Files!painting, Parts!Files!Write
  <2>2. UserFiles!Subscribed <=> Parts!Files!Subscribed
    BY DEF
       UserFiles!painting, UserFiles!Subscribed, Parts!Files!painting, Parts!Files!Subscribed
  <2>3. UserFiles!Signal <=> Parts!Files!Signal
    BY DEF
       UserFiles!painting, UserFiles!Issue, UserFiles!Unanswered, UserFiles!Signal,
       Parts!Files!painting, Parts!Files!Issue, Parts!Files!Unanswered, Parts!Files!Signal
  <2>4. \A r : UserFiles!Answer(r) <=> Parts!Files!Answer(r)
    BY DEF
       UserFiles!painting, UserFiles!Unanswered, UserFiles!Answer, Parts!Files!painting,
       Parts!Files!Unanswered, Parts!Files!Answer
  <2>5. \A r : UserFiles!RebuildKeymap(r) <=> Parts!Files!RebuildKeymap(r)
    BY SameMerged DEF
       UserFiles!painting, UserFiles!Received, UserFiles!Unanswered, UserFiles!RebuildKeymap,
       Parts!Files!painting, Parts!Files!Received, Parts!Files!Unanswered,
       Parts!Files!RebuildKeymap
  <2>6. \A r : UserFiles!ShowScripts(r) <=> Parts!Files!ShowScripts(r)
    BY DEF
       UserFiles!painting, UserFiles!Received, UserFiles!Unanswered, UserFiles!ShowScripts,
       Parts!Files!painting, Parts!Files!Received, Parts!Files!Unanswered,
       Parts!Files!ShowScripts
  <2>7. \A r : UserFiles!ReloadThemes(r) <=> Parts!Files!ReloadThemes(r)
    BY DEF
       UserFiles!Received, UserFiles!Unanswered, UserFiles!Registered, UserFiles!HotReload,
       UserFiles!Absent, UserFiles!NoTokens, UserFiles!ReloadThemes, Parts!Files!Received,
       Parts!Files!Unanswered, Parts!Files!Registered, Parts!Files!HotReload,
       Parts!Files!Absent, Parts!Files!NoTokens, Parts!Files!ReloadThemes
  <2>8. \A id : UserFiles!SelectTheme(id) <=> Parts!Files!SelectTheme(id)
    BY DEF
       UserFiles!reading, UserFiles!IsRegistered, UserFiles!SelectTheme, Parts!Files!reading,
       Parts!Files!IsRegistered, Parts!Files!SelectTheme
  <2>9. \A id : UserFiles!SelectElsewhere(id) <=> Parts!Files!SelectElsewhere(id)
    BY DEF
       UserFiles!reading, UserFiles!SelectElsewhere, Parts!Files!reading,
       Parts!Files!SelectElsewhere
  <2>10. UserFiles!OpenPicker <=> Parts!Files!OpenPicker
    BY DEF
       UserFiles!painting, UserFiles!Issue, UserFiles!Unanswered, UserFiles!Closed,
       UserFiles!OpenPicker, Parts!Files!painting, Parts!Files!Issue, Parts!Files!Unanswered,
       Parts!Files!Closed, Parts!Files!OpenPicker
  <2>11. UserFiles!ClosePicker <=> Parts!Files!ClosePicker
    BY DEF
       UserFiles!painting, UserFiles!Closed, UserFiles!ClosePicker, Parts!Files!painting,
       Parts!Files!Closed, Parts!Files!ClosePicker
  <2>12. UserFiles!Paint <=> Parts!Files!Paint
    BY DEF
       UserFiles!reading, UserFiles!PaintTerminal, UserFiles!IsRegistered,
       UserFiles!ResolveTheme, UserFiles!Default, UserFiles!NoTokens, UserFiles!Paint,
       Parts!Files!reading, Parts!Files!PaintTerminal, Parts!Files!IsRegistered,
       Parts!Files!ResolveTheme, Parts!Files!Default, Parts!Files!NoTokens, Parts!Files!Paint
  <2>13. \A c : UserFiles!Contents(c) = Parts!Files!Contents(c)
    BY DEF UserFiles!Contents, UserFiles!ThemeFiles, Parts!Files!Contents, Parts!Files!ThemeFiles
  <2>14. UserFiles!ThemeIds = Parts!Files!ThemeIds
    BY DEF UserFiles!ThemeIds, Parts!Files!ThemeIds
  <2> QED BY <2>1, <2>2, <2>3, <2>4, <2>5, <2>6, <2>7, <2>8, <2>9, <2>10, <2>11, <2>12, <2>13,
            <2>14 DEF UserFiles!Next, Parts!Files!Next
<1>3. UserFiles!vars = Parts!Files!vars
  BY DEF
     UserFiles!reading, UserFiles!painting, UserFiles!vars, Parts!Files!reading,
     Parts!Files!painting, Parts!Files!vars
<1>4. UserFiles!CatalogsSettle <=> Parts!Files!CatalogsSettle
  <2>1. \A mods, key : UserFiles!ChordFromEvent(mods, key) = Parts!Files!ChordFromEvent(mods, key)
    BY Zenon DEF
       UserFiles!ChordFromEvent, UserFiles!KeyToken, UserFiles!KEY_ALIASES,
       Parts!Files!ChordFromEvent, Parts!Files!KeyToken, Parts!Files!KEY_ALIASES
  <2>2. \A chord : UserFiles!Resolve(chord, "terminal") = Parts!Files!Resolve(chord, "terminal")
    BY DEF
       UserFiles!Resolve, UserFiles!IsEditable, UserFiles!PALETTE_ONLY_COMMANDS,
       Parts!Files!Resolve, Parts!Files!IsEditable, Parts!Files!PALETTE_ONLY_COMMANDS
  <2> QED
    BY <2>1, <2>2, SameBound DEF
       UserFiles!PALETTE_ONLY_COMMANDS, UserFiles!Held, UserFiles!ResolveTheme,
       UserFiles!IsRegistered, UserFiles!Default, UserFiles!NoTokens, UserFiles!Settled,
       UserFiles!Closed, UserFiles!CatalogsSettle, Parts!Files!PALETTE_ONLY_COMMANDS,
       Parts!Files!Held, Parts!Files!ResolveTheme, Parts!Files!IsRegistered,
       Parts!Files!Default, Parts!Files!NoTokens, Parts!Files!Settled, Parts!Files!Closed,
       Parts!Files!CatalogsSettle
<1> QED BY <1>1, <1>2, <1>3, <1>4

(* The terminal that the proofs are about may do what either of the run may. *)
LEMMA WithinHost ==
  /\ Host!Init => Parts!Host!Init
  /\ Host!Next => Parts!Host!Next
  /\ Host!vars = Parts!Host!vars
  /\ Host!GridSettles <=> Parts!Host!GridSettles
  /\ Host!BarFresh <=> Parts!Host!BarFresh
  /\ Host!OptionsFollow <=> Parts!Host!OptionsFollow
  /\ Host!NothingOutlives <=> Parts!Host!NothingOutlives
BY DEF
     Host!layout, Host!fonts, Host!settings, Host!view, Host!vars, Host!Hidden, Host!NoBar,
     Host!NoLines, Host!NoFit, Host!Mounted, Host!Misses, Host!Broadcasts, Host!Chosen,
     Host!Init, Host!Tick, Host!Fit, Host!Paint, Host!Recompute, Host!Mount, Host!Unmount,
     Host!Listen, Host!HostResizes, Host!Observe, Host!Frame, Host!FaceLoads, Host!FontsReady,
     Host!ChangeSetting, Host!Trimmed, Host!ApplySetting, Host!Output, Host!Scroll,
     Host!ViewportScrolls, Host!SwitchBuffer, Host!ClipboardRequest, Host!NoticeEnds,
     Host!Next, Host!GridSettles, Host!BarFresh, Host!OptionsFollow, Host!NothingOutlives,
     Parts!Host!layout, Parts!Host!fonts, Parts!Host!settings, Parts!Host!view,
     Parts!Host!vars, Parts!Host!Hidden, Parts!Host!NoBar, Parts!Host!NoLines,
     Parts!Host!NoFit, Parts!Host!Mounted, Parts!Host!Misses, Parts!Host!Broadcasts,
     Parts!Host!Chosen, Parts!Host!Init, Parts!Host!Tick, Parts!Host!Fit, Parts!Host!Paint,
     Parts!Host!Recompute, Parts!Host!Mount, Parts!Host!Unmount, Parts!Host!Listen,
     Parts!Host!HostResizes, Parts!Host!Observe, Parts!Host!Frame, Parts!Host!FaceLoads,
     Parts!Host!FontsReady, Parts!Host!ChangeSetting, Parts!Host!Trimmed,
     Parts!Host!ApplySetting, Parts!Host!Output, Parts!Host!Scroll, Parts!Host!ViewportScrolls,
     Parts!Host!SwitchBuffer, Parts!Host!ClipboardRequest, Parts!Host!NoticeEnds,
     Parts!Host!Next, Parts!Host!GridSettles, Parts!Host!BarFresh, Parts!Host!OptionsFollow,
     Parts!Host!NothingOutlives

LEMMA WithinView ==
  /\ View!Init => Parts!Host!Init
  /\ View!Next => Parts!Host!Next
  /\ View!vars = Parts!Host!vars
  /\ View!GridSettles <=> Parts!Host!GridSettles
  /\ View!BarFresh <=> Parts!Host!BarFresh
  /\ View!OptionsFollow <=> Parts!Host!OptionsFollow
  /\ View!NothingOutlives <=> Parts!Host!NothingOutlives
BY DEF
     View!layout, View!fonts, View!settings, View!view, View!vars, View!Hidden, View!NoBar,
     View!NoLines, View!NoFit, View!Mounted, View!Misses, View!Broadcasts, View!Chosen,
     View!Init, View!Tick, View!Fit, View!Paint, View!Recompute, View!Mount, View!Unmount,
     View!Listen, View!HostResizes, View!Observe, View!Frame, View!FaceLoads, View!FontsReady,
     View!ChangeSetting, View!Trimmed, View!ApplySetting, View!Output, View!Scroll,
     View!ViewportScrolls, View!SwitchBuffer, View!ClipboardRequest, View!NoticeEnds,
     View!Next, View!GridSettles, View!BarFresh, View!OptionsFollow, View!NothingOutlives,
     Parts!Host!layout, Parts!Host!fonts, Parts!Host!settings, Parts!Host!view,
     Parts!Host!vars, Parts!Host!Hidden, Parts!Host!NoBar, Parts!Host!NoLines,
     Parts!Host!NoFit, Parts!Host!Mounted, Parts!Host!Misses, Parts!Host!Broadcasts,
     Parts!Host!Chosen, Parts!Host!Init, Parts!Host!Tick, Parts!Host!Fit, Parts!Host!Paint,
     Parts!Host!Recompute, Parts!Host!Mount, Parts!Host!Unmount, Parts!Host!Listen,
     Parts!Host!HostResizes, Parts!Host!Observe, Parts!Host!Frame, Parts!Host!FaceLoads,
     Parts!Host!FontsReady, Parts!Host!ChangeSetting, Parts!Host!Trimmed,
     Parts!Host!ApplySetting, Parts!Host!Output, Parts!Host!Scroll, Parts!Host!ViewportScrolls,
     Parts!Host!SwitchBuffer, Parts!Host!ClipboardRequest, Parts!Host!NoticeEnds,
     Parts!Host!Next, Parts!Host!GridSettles, Parts!Host!BarFresh, Parts!Host!OptionsFollow,
     Parts!Host!NothingOutlives

LEMMA SameSocket ==
  /\ Socket!Init <=> Control!Socket!Init
  /\ Socket!Next <=> Control!Socket!Next
  /\ Socket!vars = Control!Socket!vars
  /\ Socket!SocketOwned <=> Control!Socket!SocketOwned
  /\ Socket!OnlyCrashesLeave <=> Control!Socket!OnlyCrashesLeave
  /\ Socket!WantFollowed <=> Control!Socket!WantFollowed
BY DEF
     Socket!vars, Socket!Nobody, Socket!Down, Socket!Steps, Socket!Process, Socket!Init,
     Socket!Goes, Socket!At, Socket!Reconcile, Socket!Apply, Socket!Quit, Socket!Unlink,
     Socket!Release, Socket!AcceptorDropsLock, Socket!AcceptorDies, Socket!Stat, Socket!Fails,
     Socket!Refuse, Socket!TakeLockLate, Socket!TakeLock, Socket!RemoveStale,
     Socket!ChmodFails, Socket!Bind, Socket!Spawned, Socket!SpawnFailsLeaving,
     Socket!SpawnFails, Socket!Refused, Socket!Crash, Socket!Next, Socket!Holds, Socket!Serves,
     Socket!SocketOwned, Socket!OnlyCrashesLeave, Socket!WantFollowed, Control!Socket!vars,
     Control!Socket!Nobody, Control!Socket!Down, Control!Socket!Steps, Control!Socket!Process,
     Control!Socket!Init, Control!Socket!Goes, Control!Socket!At, Control!Socket!Reconcile,
     Control!Socket!Apply, Control!Socket!Quit, Control!Socket!Unlink, Control!Socket!Release,
     Control!Socket!AcceptorDropsLock, Control!Socket!AcceptorDies, Control!Socket!Stat,
     Control!Socket!Fails, Control!Socket!Refuse, Control!Socket!TakeLockLate,
     Control!Socket!TakeLock, Control!Socket!RemoveStale, Control!Socket!ChmodFails,
     Control!Socket!Bind, Control!Socket!Spawned, Control!Socket!SpawnFailsLeaving,
     Control!Socket!SpawnFails, Control!Socket!Refused, Control!Socket!Crash,
     Control!Socket!Next, Control!Socket!Holds, Control!Socket!Serves,
     Control!Socket!SocketOwned, Control!Socket!OnlyCrashesLeave, Control!Socket!WantFollowed

LEMMA SameChannel ==
  /\ Channel!Init <=> Control!Init
  /\ Channel!Next <=> Control!Next
  /\ Channel!vars = Control!vars
  /\ Channel!OwnAnswer <=> Control!OwnAnswer
  /\ Channel!SendersWaited <=> Control!SendersWaited
  /\ Channel!OneLineMore <=> Control!OneLineMore
  /\ Channel!SlotsCounted <=> Control!SlotsCounted
BY DEF
     Channel!vars, Channel!Worker, Channel!Phases, Channel!Ids, Channel!Init, Channel!In,
     Channel!Goes, Channel!Becomes, Channel!Rests, Channel!Ends, Channel!Stopped,
     Channel!Webview, Channel!History, Channel!Bridge, Channel!Switch, Channel!Stop,
     Channel!StartCounting, Channel!Start, Channel!AcceptorDies, Channel!Connect,
     Channel!AcceptLeaking, Channel!Accept, Channel!Dropped, Channel!CheckStopOnce,
     Channel!CheckStop, Channel!ReadEnds, Channel!BlankLine, Channel!Serves,
     Channel!AnswerHere, Channel!AskWebview, Channel!Receive, Channel!TimesOut,
     Channel!KeepSender, Channel!ForgetSender, Channel!Write, Channel!WriteEnds,
     Channel!Registers, Channel!Handle, Channel!ControlResponse, Channel!Next,
     Channel!OwnAnswer, Channel!SendersWaited, Channel!OneLineMore, Channel!SlotsCounted,
     Channel!Cardinality, Control!vars, Control!Worker, Control!Phases, Control!Ids,
     Control!Init, Control!In, Control!Goes, Control!Becomes, Control!Rests, Control!Ends,
     Control!Stopped, Control!Webview, Control!History, Control!Bridge, Control!Switch,
     Control!Stop, Control!StartCounting, Control!Start, Control!AcceptorDies, Control!Connect,
     Control!AcceptLeaking, Control!Accept, Control!Dropped, Control!CheckStopOnce,
     Control!CheckStop, Control!ReadEnds, Control!BlankLine, Control!Serves,
     Control!AnswerHere, Control!AskWebview, Control!Receive, Control!TimesOut,
     Control!KeepSender, Control!ForgetSender, Control!Write, Control!WriteEnds,
     Control!Registers, Control!Handle, Control!ControlResponse, Control!Next,
     Control!OwnAnswer, Control!SendersWaited, Control!OneLineMore, Control!SlotsCounted,
     Control!Cardinality

-----------------------------------------------------------------------------
(* The invariants, each of its machine.                                    *)

PollerHolds == machine = "poller" => Parts!PollerInv

LEMMA PollerMachine == Spec => []PollerHolds
<1>0. Parts!PollerConstants
  BY PollerAssumption DEF Parts!PollerConstants, Parts!IsFiniteSet, IsFiniteSet,
              Parts!Poller!Unknown, Parts!Poller!Fronts,
              Parts!Poller!Shell
<1>1. Init => PollerHolds
  BY <1>0, SamePoller, Parts!PollerStart DEF Init, PollerInit, PollerHolds
<1>2. PollerHolds /\ [Next]_vars => PollerHolds'
  <2> SUFFICES ASSUME PollerHolds, [Next]_vars, machine' = "poller"
               PROVE  Parts!PollerInv'
    BY DEF PollerHolds
  <2>1. machine = "poller" /\ [Poller!Next]_(Poller!vars)
    BY DEF Next, vars, pollerVars, Poller!vars
  <2>2. Parts!PollerInv /\ [Parts!Poller!Next]_(Parts!Poller!vars)
    BY <2>1, SamePoller DEF PollerHolds, Poller!vars, Parts!Poller!vars
  <2> QED BY <1>0, <2>2, Parts!PollerStep
<1> QED BY <1>1, <1>2, PTL DEF Spec

FinderHolds == machine = "services" => Parts!FinderInv

LEMMA FinderMachine == Spec => []FinderHolds
<1>1. Init => FinderHolds
  BY SameFinder, Parts!FinderStart DEF Init, FinderInit, FinderHolds
<1>2. FinderHolds /\ [Next]_vars => FinderHolds'
  <2> SUFFICES ASSUME FinderHolds, [Next]_vars, machine' = "services"
               PROVE  Parts!FinderInv'
    BY DEF FinderHolds
  <2>1. machine = "services" /\ [Finder!Next]_(Finder!vars)
    BY DEF Next, vars, servicesVars, Finder!vars
  <2>2. Parts!FinderInv /\ [Parts!Finder!Next]_(Parts!Finder!vars)
    BY <2>1, SameFinder DEF FinderHolds, Finder!vars, Parts!Finder!vars
  <2> QED BY <2>2, Parts!FinderStep
<1> QED BY <1>1, <1>2, PTL DEF Spec

TreesHolds == machine = "versions" => Parts!TreesInv

LEMMA TreesMachine == Spec => []TreesHolds
<1>0. Parts!TreesConstants
  BY TreesAssumption DEF Parts!TreesConstants, Parts!IsFiniteSet, IsFiniteSet,
              Parts!Trees!None
<1>1. Init => TreesHolds
  BY <1>0, SameTrees, Parts!TreesStart DEF Init, VersionsInit, TreesHolds
<1>2. TreesHolds /\ [Next]_vars => TreesHolds'
  <2> SUFFICES ASSUME TreesHolds, [Next]_vars, machine' = "versions"
               PROVE  Parts!TreesInv'
    BY DEF TreesHolds
  <2>1. machine = "versions" /\ [Trees!Next]_(Trees!vars)
    BY DEF Next, vars, versionVars, Trees!vars
  <2>2. Parts!TreesInv /\ [Parts!Trees!Next]_(Parts!Trees!vars)
    BY <2>1, SameTrees DEF TreesHolds, Trees!vars, Parts!Trees!vars
  <2> QED BY <1>0, <2>2, Parts!TreesStep
<1> QED BY <1>1, <1>2, PTL DEF Spec

KeyboardHolds == machine = "keyboard" => Windows!KeyboardInv

LEMMA KeyboardMachine == Spec => []KeyboardHolds
<1>0. Windows!KeyboardConstants
  BY KeyboardAssumption DEF Windows!KeyboardConstants
<1>1. Init => KeyboardHolds
  BY <1>0, SameKeyboard, Windows!KeyboardStart DEF Init, KeyboardInit, KeyboardHolds
<1>2. KeyboardHolds /\ [Next]_vars => KeyboardHolds'
  <2> SUFFICES ASSUME KeyboardHolds, [Next]_vars, machine' = "keyboard"
               PROVE  Windows!KeyboardInv'
    BY DEF KeyboardHolds
  <2>1. machine = "keyboard" /\ [Keyboard!Next]_(Keyboard!vars)
    BY DEF Next, vars, keyboardVars, Keyboard!vars
  <2>2. Windows!KeyboardInv /\ [Windows!Keyboard!Next]_(Windows!Keyboard!vars)
    BY <2>1, SameKeyboard DEF KeyboardHolds, Keyboard!vars, Windows!Keyboard!vars
  <2> QED BY <1>0, <2>2, Windows!KeyboardStep
<1> QED BY <1>1, <1>2, PTL DEF Spec

ActivityHolds == machine = "activity" => Windows!ActivityInv

LEMMA ActivityMachine == Spec => []ActivityHolds
<1>0. Windows!ActivityConstants
  BY ActivityAssumption DEF Windows!ActivityConstants, Windows!Activity!Names
<1>1. Init => ActivityHolds
  BY <1>0, SameActivity, Windows!ActivityStart DEF Init, ActivityInit, ActivityHolds
<1>2. ActivityHolds /\ [Next]_vars => ActivityHolds'
  <2> SUFFICES ASSUME ActivityHolds, [Next]_vars, machine' = "activity"
               PROVE  Windows!ActivityInv'
    BY DEF ActivityHolds
  <2>1. machine = "activity" /\ [Activity!Next]_(Activity!vars)
    BY DEF Next, vars, activityVars, Activity!vars
  <2>2. Windows!ActivityInv /\ [Windows!Activity!Next]_(Windows!Activity!vars)
    BY <2>1, SameActivity DEF ActivityHolds, Activity!vars, Windows!Activity!vars
  <2> QED BY <1>0, <2>2, Windows!ActivityStep
<1> QED BY <1>1, <1>2, PTL DEF Spec

UpdateHolds == machine = "update" => Windows!UpdaterInv

LEMMA UpdateMachine == Spec => []UpdateHolds
<1>1. Init => UpdateHolds
  BY SameUpdate, Windows!UpdaterStart DEF Init, UpdateInit, UpdateHolds
<1>2. UpdateHolds /\ [Next]_vars => UpdateHolds'
  <2> SUFFICES ASSUME UpdateHolds, [Next]_vars, machine' = "update"
               PROVE  Windows!UpdaterInv'
    BY DEF UpdateHolds
  <2>1. machine = "update" /\ [Update!Next]_(Update!vars)
    BY DEF Next, vars, updateVars, Update!vars, Update!authority, Update!projection, Update!bounded
  <2>2. Windows!UpdaterInv /\ [Windows!Updater!Next]_(Windows!Updater!vars)
    BY <2>1, SameUpdate DEF UpdateHolds, Update!vars, Windows!Updater!vars, Update!authority,
       Update!projection, Update!bounded, Windows!Updater!authority, Windows!Updater!projection,
       Windows!Updater!bounded
  <2> QED BY <2>2, Windows!UpdaterStep
<1> QED BY <1>1, <1>2, PTL DEF Spec

CopyHolds == machine = "copy" => Windows!CopyInv

LEMMA CopyMachine == Spec => []CopyHolds
<1>0. Windows!CopyConstants
  BY CopyAssumption DEF Windows!CopyConstants, Windows!Copy!Nothing, Windows!Copy!Empty
<1>1. Init => CopyHolds
  BY <1>0, SameCopy, Windows!CopyStart DEF Init, CopyInit, CopyHolds
<1>2. CopyHolds /\ [Next]_vars => CopyHolds'
  <2> SUFFICES ASSUME CopyHolds, [Next]_vars, machine' = "copy"
               PROVE  Windows!CopyInv'
    BY DEF CopyHolds
  <2>1. machine = "copy" /\ [Copy!Next]_(Copy!vars)
    BY DEF Next, vars, copyVars, Copy!vars
  <2>2. Windows!CopyInv /\ [Windows!Copy!Next]_(Windows!Copy!vars)
    BY <2>1, SameCopy DEF CopyHolds, Copy!vars, Windows!Copy!vars
  <2> QED BY <1>0, <2>2, Windows!CopyStep
<1> QED BY <1>1, <1>2, PTL DEF Spec

FormHolds == machine = "form" => Windows!FormInv

LEMMA FormMachine == Spec => []FormHolds
<1>0. Windows!FormConstants
  BY FormAssumption DEF Windows!FormConstants, Windows!Form!System, Windows!Form!Custom
<1>1. Init => FormHolds
  BY <1>0, SameForm, Windows!FormStart DEF Init, FormInit, FormHolds
<1>2. FormHolds /\ [Next]_vars => FormHolds'
  <2> SUFFICES ASSUME FormHolds, [Next]_vars, machine' = "form"
               PROVE  Windows!FormInv'
    BY DEF FormHolds
  <2>1. machine = "form" /\ [Form!Next]_(Form!vars)
    BY DEF Next, vars, formVars, Form!vars, Form!values, Form!control, Form!questions, Form!page
  <2>2. Windows!FormInv /\ [Windows!Form!Next]_(Windows!Form!vars)
    BY <2>1, SameForm DEF FormHolds, Form!vars, Windows!Form!vars, Form!values, Form!control,
       Form!questions, Form!page, Windows!Form!values, Windows!Form!control,
       Windows!Form!questions, Windows!Form!page
  <2> QED BY <1>0, <2>2, Windows!FormStep
<1> QED BY <1>1, <1>2, PTL DEF Spec

FindHolds == machine = "find" => Windows!FindInv

LEMMA FindMachine == Spec => []FindHolds
<1>0. MAX_MATCHES \in Nat
  BY FindAssumption
<1>1. Init => FindHolds
  BY <1>0, SameFind, Windows!FindStart DEF Init, FindInit, FindHolds
<1>2. FindHolds /\ [Next]_vars => FindHolds'
  <2> SUFFICES ASSUME FindHolds, [Next]_vars, machine' = "find"
               PROVE  Windows!FindInv'
    BY DEF FindHolds
  <2>1. machine = "find" /\ [Find!Next]_(Find!vars)
    BY DEF Next, vars, findVars, Find!vars
  <2>2. Windows!FindInv /\ [Windows!Find!Next]_(Windows!Find!vars)
    BY <2>1, SameFind DEF FindHolds, Find!vars, Windows!Find!vars
  <2> QED BY <1>0, <2>2, Windows!FindStep
<1> QED BY <1>1, <1>2, PTL DEF Spec

FilesHolds == machine = "catalogs" => Parts!FilesInv

LEMMA FilesMachine == Spec => []FilesHolds
<1>1. Init => FilesHolds
  BY SameFiles, Parts!FilesStart DEF Init, CatalogInit, FilesHolds
<1>2. FilesHolds /\ [Next]_vars => FilesHolds'
  <2> SUFFICES ASSUME FilesHolds, [Next]_vars, machine' = "catalogs"
               PROVE  Parts!FilesInv'
    BY DEF FilesHolds
  <2>1. machine = "catalogs" /\ [UserFiles!Next]_(UserFiles!vars)
    BY DEF Next, vars, catalogVars, UserFiles!vars, UserFiles!reading, UserFiles!painting
  <2>2. Parts!FilesInv /\ [Parts!Files!Next]_(Parts!Files!vars)
    BY <2>1, SameFiles DEF FilesHolds, UserFiles!vars, UserFiles!reading, UserFiles!painting,
       Parts!Files!vars, Parts!Files!reading, Parts!Files!painting
  <2> QED BY <2>2, Parts!FilesStep
<1> QED BY <1>1, <1>2, PTL DEF Spec

HostHolds == machine \in {"host", "view"} => Parts!HostInv

LEMMA HostMachine == Spec => []HostHolds
<1>0. Parts!HostConstants
  BY DEF Parts!HostConstants, Parts!Settings
<1>1. Init => HostHolds
  BY <1>0, WithinHost, WithinView, Parts!HostStart DEF Init, HostInit, HostHolds
<1>2. HostHolds /\ [Next]_vars => HostHolds'
  <2> SUFFICES ASSUME HostHolds, [Next]_vars, machine' \in {"host", "view"}
               PROVE  Parts!HostInv'
    BY DEF HostHolds
  <2>1. Parts!HostInv
    BY DEF HostHolds, Next, vars
  <2>2. Host!Next \/ View!Next \/ UNCHANGED hostVars
    BY DEF Next, vars
  <2>3. UNCHANGED hostVars => UNCHANGED Parts!Host!vars
    BY DEF hostVars, Parts!Host!vars, Parts!Host!layout, Parts!Host!fonts, Parts!Host!settings,
       Parts!Host!view
  <2>4. [Parts!Host!Next]_(Parts!Host!vars)
    BY <2>2, <2>3, WithinHost, WithinView
  <2> QED BY <2>1, <2>4, Parts!HostStep
<1> QED BY <1>1, <1>2, PTL DEF Spec

SocketHolds == machine = "socket" => Control!SocketInv

LEMMA SocketMachine == Spec => []SocketHolds
<1>0. Control!Socket!Nobody \notin INSTANCES /\ MAX_BINDS \in Nat /\ MAX_APPLIES \in Nat
  BY SocketAssumption DEF Control!Socket!Nobody
<1>1. Init => SocketHolds
  BY <1>0, SameSocket, Control!InitOwned DEF Init, SocketInit, SocketHolds
<1>2. SocketHolds /\ [Next]_vars => SocketHolds'
  <2> SUFFICES ASSUME SocketHolds, [Next]_vars, machine' = "socket"
               PROVE  Control!SocketInv'
    BY DEF SocketHolds
  <2>1. machine = "socket" /\ [Socket!Next]_(Socket!vars)
    BY DEF Next, vars, socketVars, Socket!vars
  <2>2. Control!SocketInv /\ [Control!Socket!Next]_(Control!Socket!vars)
    BY <2>1, SameSocket DEF SocketHolds, Socket!vars, Control!Socket!vars
  <2> QED BY <1>0, <2>2, Control!StepKeeps
<1> QED BY <1>1, <1>2, PTL DEF Spec

ChannelHolds == machine = "channel" => Control!IInv

LEMMA ChannelMachine == Spec => []ChannelHolds
<1>0. Control!Bounded
  BY ChannelAssumption DEF Control!Bounded, Control!IsFiniteSet, IsFiniteSet
<1>1. Init => ChannelHolds
  BY <1>0, SameChannel, Control!Initially DEF Init, ChannelInit, ChannelHolds
<1>2. ChannelHolds /\ [Next]_vars => ChannelHolds'
  <2> SUFFICES ASSUME ChannelHolds, [Next]_vars, machine' = "channel"
               PROVE  Control!IInv'
    BY DEF ChannelHolds
  <2>1. machine = "channel" /\ [Channel!Next]_(Channel!vars)
    BY DEF Next, vars, channelVars, Channel!vars
  <2>2. Control!IInv /\ [Control!Next]_(Control!vars)
    BY <2>1, SameChannel DEF ChannelHolds, Channel!vars, Control!vars
  <2> QED BY <1>0, <2>2, Control!Stepwise
<1> QED BY <1>1, <1>2, PTL DEF Spec

-----------------------------------------------------------------------------
(* The poller never sleeps past a session, and a change that it could tell *)
(* is told to every pane that was there to hear it (poll_iteration,        *)
(* onSessionActivity, onTitleHint): for any sessions, jobs and bounds.     *)
THEOREM PollerAlwaysTrue == Spec => []PollerTrue
<1>1. PollerHolds => PollerTrue
  BY SamePoller, Parts!PollerTells DEF PollerHolds, PollerTrue
<1> QED BY <1>1, PollerMachine, PTL

(* The keyboard is where the window shows it, for any number of tabs and   *)
(* panes (focusFocusedPane, readyFor, the inputs that take the focus).     *)
THEOREM KeyboardAlwaysOwned == Spec => []KeyboardOwner
<1>1. KeyboardHolds => KeyboardOwner
  BY SameKeyboard DEF KeyboardHolds, KeyboardOwner, Windows!KeyboardInv
<1> QED BY <1>1, KeyboardMachine, PTL

(* The close guard sees the job that a detector reports, the line is lit   *)
(* as lightActive says now, and a lit AI session is counted, for any       *)
(* delays and metadata (isBusy, applyActivityTransition, setForeground).   *)
THEOREM ActivityAlwaysTrue == Spec => []ActivityTrue
<1>1. ActivityHolds => ActivityTrue
  BY SameActivity DEF ActivityHolds, ActivityTrue, Windows!ActivityInv
<1> QED BY <1>1, ActivityMachine, PTL

(* The settings window's copy of the update state catches up with the      *)
(* authority's, and every row with the setting that it shows, for any      *)
(* versions, fonts, shells and bounds (useUpdateMirror, TerminalSettings). *)
THEOREM MirrorAlwaysSettles == Spec => []MirrorSettles
<1>1. UpdateHolds => (machine = "update" => Update!MirrorSettles)
  BY SameUpdate, Windows!UpdaterTells DEF UpdateHolds
<1>2. FormHolds => (machine = "form" => Form!FormSettles)
  BY SameForm, Windows!FormTells DEF FormHolds
<1>3. UpdateHolds /\ FormHolds => MirrorSettles
  BY <1>1, <1>2 DEF MirrorSettles
<1> QED BY <1>3, UpdateMachine, FormMachine, PTL

(* A terminal at rest is fitted to its size and font, shows the scrollbar  *)
(* of its buffer and has the stored options, nothing outlives it, and once *)
(* the debounce is over its find bar has the highlights of the query shown *)
(* (TerminalView, its teardown, FindBar).                                  *)
THEOREM TerminalAlwaysSettles == Spec => []TerminalSettles
<1>1. HostHolds => (machine \in {"host", "view"} =>
                      Host!GridSettles /\ Host!BarFresh /\ Host!OptionsFollow /\ Host!NothingOutlives)
  BY WithinHost, Parts!FollowedAre DEF HostHolds, Parts!HostInv
<1>2. FindHolds => (machine = "find" => Find!FindSettles)
  BY SameFind DEF FindHolds, Windows!FindInv
<1>3. HostHolds /\ FindHolds => TerminalSettles
  BY <1>1, <1>2 DEF TerminalSettles
<1> QED BY <1>3, HostMachine, FindMachine, PTL

(* Keymap, open picker and theme show the files once their reads are done, *)
(* for any files, listings, palettes and default keys (rebuildKeymap,      *)
(* ScriptPicker, themeHotReload.ts).                                       *)
THEOREM CatalogsAlwaysSettle == Spec => []CatalogsSettle
<1>0. Parts!FilesConstants
  BY FilesAssumption DEF Parts!FilesConstants
<1>1. FilesHolds => CatalogsSettle
  BY <1>0, SameFiles, Parts!FilesTell DEF FilesHolds, CatalogsSettle
<1> QED BY <1>1, FilesMachine, PTL

(* What the outside hands to the program is served once and by the right   *)
(* party, for any number of instances, clients, directories and versions   *)
(* (the control socket and its channel, the services queue, the            *)
(* enhancement trees).                                                     *)
THEOREM OutsideAlwaysServed == Spec => []OutsideServed
<1>1. SocketHolds => (machine = "socket" => Socket!SocketOwned /\ Socket!OnlyCrashesLeave /\ Socket!WantFollowed)
  BY SameSocket DEF SocketHolds, Control!SocketInv
<1>2. FinderHolds => (machine = "services" => Finder!OpenedOnce /\ Finder!QueueDrained)
  BY SameFinder, Parts!FinderOpens DEF FinderHolds
<1>3. TreesHolds => (machine = "versions" => Trees!MarkerMeansWhole /\ Trees!TreesKept)
  BY SameTrees, Parts!TreesTell DEF TreesHolds
<1>4. ChannelHolds => (machine = "channel" => Channel!OwnAnswer /\ Channel!SendersWaited /\ Channel!OneLineMore /\ Channel!SlotsCounted)
  <2> SUFFICES ASSUME Control!IInv
               PROVE  Control!OwnAnswer /\ Control!SendersWaited /\ Control!OneLineMore /\ Control!SlotsCounted
    BY SameChannel DEF ChannelHolds
  <2> QED
    BY DEF Control!IInv, Control!Waited, Control!OwnAnswer, Control!Traced, Control!Asking,
           Control!Serving, Control!In, Control!Stopping, Control!OneLineMore
<1> QED
  <2>1. SocketHolds /\ FinderHolds /\ TreesHolds /\ ChannelHolds => OutsideServed
    BY <1>1, <1>2, <1>3, <1>4 DEF OutsideServed
  <2> QED BY <2>1, SocketMachine, FinderMachine, TreesMachine, ChannelMachine, PTL

===============================================================================
