-------------------------------- MODULE Updates -------------------------------
(***************************************************************************)
(* The updater across two windows: the authority in the main window, with  *)
(* its reducer, its pending handle, its schedule and its automatic         *)
(* download (updateState.ts, useUpdate.ts, useUpdateAuthority.ts), and the *)
(* settings window's projection of it, which shows snapshots and sends     *)
(* commands (useUpdateMirror.ts, the buttons of AboutSettings.tsx).        *)
(*                                                                         *)
(* The two directions of the event bus are two queues; a check and a       *)
(* download are promises that resolve whenever they do.                    *)
(***************************************************************************)
EXTENDS Naturals, Sequences

CONSTANTS VERSIONS,     \* versions that the endpoint may offer
          MAX_COMMANDS, \* bound: what the user clicks in the settings window
          MAX_OPENINGS  \* bound: how often that window is opened

VARIABLES
  up,         \* UpdateState of the authority
  pending,    \* pendingRef: the version whose handle the last check left
  checks,     \* checks awaiting the endpoint
  downloads,  \* per version, the downloads under way
  autoDone,   \* autoDownloadedVersion
  scheduled,  \* didSchedule
  prefs,      \* update.autoCheck, update.autoDownload as stored
  served,     \* the authority's two listeners are registered
  mirror,     \* the projection's copy of the state
  connected,  \* its listener is registered
  told,       \* history: a snapshot was sent since it opened, no message of its lost after
  toMain, toSettings,  \* commands and requests; snapshots
  clicks, openings     \* for the bounds

authority == <<up, pending, checks, downloads, autoDone, scheduled, prefs, served>>
projection == <<mirror, connected, told>>
bounded == <<clicks, openings>>
vars == <<authority, projection, toMain, toSettings, bounded>>

None == "none"
Offers == VERSIONS \cup {None}
Statuses == {"idle", "checking", "up-to-date", "available", "downloading", "ready", "error"}
States == [status : Statuses, info : Offers, dismissed : Offers, auto : BOOLEAN]
Commands == [type : {"checkNow", "download", "restart", "skip"}]
            \cup [type : {"setAutoCheck"}, enabled : BOOLEAN] \cup [type : {"request"}]

TypeOK ==
  /\ up \in States /\ mirror \in States
  /\ pending \in Offers /\ autoDone \in Offers
  /\ checks \in Nat /\ downloads \in [VERSIONS -> Nat]
  /\ prefs \in [autoCheck : BOOLEAN, autoDownload : BOOLEAN]
  /\ {scheduled, served, connected, told} \subseteq BOOLEAN
  /\ toMain \in Seq(Commands) /\ toSettings \in Seq(States)
  /\ clicks \in 0..MAX_COMMANDS /\ openings \in 0..MAX_OPENINGS

InitialUpdateState(auto) == [status |-> "idle", info |-> None, dismissed |-> None, auto |-> auto]

Init ==
  /\ prefs \in [autoCheck : BOOLEAN, autoDownload : BOOLEAN]
  /\ up = InitialUpdateState(prefs.autoCheck) /\ mirror = up
  /\ pending = None /\ checks = 0 /\ downloads = [v \in VERSIONS |-> 0] /\ autoDone = None
  /\ scheduled = FALSE /\ served = FALSE /\ connected = FALSE /\ told = FALSE
  /\ toMain = <<>> /\ toSettings = <<>> /\ clicks = 0 /\ openings = 0

-----------------------------------------------------------------------------
(* The reducer; a transition it does not know returns the state.           *)

CheckStarted(s) == [s EXCEPT !.status = "checking"]
FoundUpToDate(s) == [s EXCEPT !.status = "up-to-date", !.info = None]
FoundAvailable(s, v) == [s EXCEPT !.status = "available", !.info = v]
DownloadStarted(s) == IF s.status = "available" THEN [s EXCEPT !.status = "downloading"] ELSE s
DownloadReady(s) == IF s.status = "downloading" THEN [s EXCEPT !.status = "ready"] ELSE s
Failed(s) == [s EXCEPT !.status = "error"]
Skipped(s, v) == [s EXCEPT !.status = "idle", !.info = None, !.dismissed = v]

IsCardVisible(s) ==
  s.info # None /\ s.dismissed # s.info /\ s.status \in {"available", "downloading", "ready"}

\* shouldAutoCheck: due is what the frequency says of the last check.
ShouldAutoCheck(due) == prefs.autoCheck /\ due

-----------------------------------------------------------------------------
(* The authority.                                                          *)

\* A snapshot to a window that does not listen is lost.
Send(snapshots) ==
  IF connected
  THEN toSettings' = toSettings \o snapshots /\ told' = TRUE
  ELSE UNCHANGED <<toSettings, told>>

\* The effects of a new state: the broadcast, and the automatic download once per version.
\* handle is pendingRef by then, running the downloads under way, changed whether the
\* reducer made a new state (React stays silent on the same one).
Dispatch(s, changed, handle, running) ==
  LET auto == /\ changed /\ s.status = "available" /\ s.info # None /\ prefs.autoDownload
              /\ s.dismissed # s.info /\ autoDone # s.info
      starts == auto /\ handle # None
      next == IF starts THEN DownloadStarted(s) ELSE s
  IN /\ up' = next
     /\ autoDone' = IF auto THEN s.info ELSE autoDone
     /\ downloads' = IF starts THEN [running EXCEPT ![handle] = @ + 1] ELSE running
     /\ IF changed THEN Send(IF starts THEN <<s, next>> ELSE <<s>>)
        ELSE UNCHANGED <<toSettings, told>>

\* checkNow, after the stamp of lastCheckAt.
CheckNow ==
  /\ checks' = checks + 1
  /\ Dispatch(CheckStarted(up), TRUE, pending, downloads)
  /\ UNCHANGED <<pending, prefs>>

\* The startup decision, once per mount.
Schedule(due) ==
  /\ ~scheduled /\ scheduled' = TRUE
  /\ IF ShouldAutoCheck(due) THEN CheckNow
     ELSE UNCHANGED <<up, pending, checks, downloads, autoDone, prefs, toSettings, told>>
  /\ UNCHANGED <<served, mirror, connected, toMain, bounded>>

Serve ==
  /\ ~served /\ served' = TRUE
  /\ UNCHANGED <<up, pending, checks, downloads, autoDone, scheduled, prefs, projection,
                 toMain, toSettings, bounded>>

\* The endpoint answers a check with a version, with nothing or with an error.
CheckResolves(answer) ==
  /\ checks > 0 /\ checks' = checks - 1
  /\ pending' = IF answer = "error" THEN pending ELSE answer
  /\ Dispatch(CASE answer = "error" -> Failed(up)
                [] answer = None -> FoundUpToDate(up)
                [] OTHER -> FoundAvailable(up, answer), TRUE, pending', downloads)
  /\ UNCHANGED <<scheduled, prefs, served, mirror, connected, toMain, bounded>>

\* download: the handle is driven also when the reducer ignored the start.
Download ==
  /\ IF pending = None
     THEN UNCHANGED <<up, autoDone, downloads, toSettings, told>>
     ELSE Dispatch(DownloadStarted(up), up.status = "available", pending,
                   [downloads EXCEPT ![pending] = @ + 1])
  /\ UNCHANGED <<pending, checks, prefs>>

DownloadEnds(v, ok) ==
  /\ downloads[v] > 0
  /\ Dispatch(IF ok THEN DownloadReady(up) ELSE Failed(up), ok => up.status = "downloading",
              pending, [downloads EXCEPT ![v] = @ - 1])
  /\ UNCHANGED <<pending, checks, scheduled, prefs, served, mirror, connected, toMain, bounded>>

\* A relaunch ends this process; a failed one is reported.
Restart ==
  /\ Dispatch(Failed(up), TRUE, pending, downloads)
  /\ UNCHANGED <<pending, checks, prefs>>

Skip ==
  /\ IF pending = None THEN UNCHANGED <<up, autoDone, downloads, toSettings, told>>
     ELSE Dispatch(Skipped(up, pending), TRUE, pending, downloads)
  /\ UNCHANGED <<pending, checks, prefs>>

SetAutoCheck(enabled) ==
  /\ prefs' = [prefs EXCEPT !.autoCheck = enabled]
  /\ Dispatch([up EXCEPT !.auto = enabled], TRUE, pending, downloads)
  /\ UNCHANGED <<pending, checks>>

\* A message on the bus reaches the authority, or nobody while it does not serve.
TakeMessage ==
  /\ toMain # <<>> /\ toMain' = Tail(toMain)
  /\ LET cmd == Head(toMain) IN
     \/ /\ ~served /\ told' = FALSE
        /\ UNCHANGED <<up, pending, checks, downloads, autoDone, prefs, toSettings>>
     \/ /\ served /\ cmd.type = "request" /\ Send(<<up>>)
        /\ UNCHANGED <<up, pending, checks, downloads, autoDone, prefs>>
     \/ served /\ cmd.type = "checkNow" /\ CheckNow
     \/ served /\ cmd.type = "download" /\ Download
     \/ served /\ cmd.type = "restart" /\ Restart
     \/ served /\ cmd.type = "skip" /\ Skip
     \/ served /\ cmd.type = "setAutoCheck" /\ SetAutoCheck(cmd.enabled)
  /\ UNCHANGED <<scheduled, served, mirror, connected, bounded>>

-----------------------------------------------------------------------------
(* The settings window.                                                    *)

\* The listener is registered first, then a snapshot is asked for.
Connect ==
  /\ ~connected /\ openings < MAX_OPENINGS
  /\ openings' = openings + 1 /\ connected' = TRUE
  /\ toMain' = Append(toMain, [type |-> "request"])
  /\ UNCHANGED <<authority, mirror, told, toSettings, clicks>>

CloseSettings ==
  /\ connected
  /\ connected' = FALSE /\ told' = FALSE /\ toSettings' = <<>>
  /\ mirror' = InitialUpdateState(prefs.autoCheck)
  /\ UNCHANGED <<authority, toMain, bounded>>

\* (mutation) the optimistic toggle outlives the snapshot
TakeMerged ==
  /\ toSettings # <<>>
  /\ mirror' = [Head(toSettings) EXCEPT !.auto = mirror.auto] /\ toSettings' = Tail(toSettings)
  /\ UNCHANGED <<authority, connected, told, toMain, bounded>>

TakeSnapshot ==
  /\ toSettings # <<>>
  /\ mirror' = Head(toSettings) /\ toSettings' = Tail(toSettings)
  /\ UNCHANGED <<authority, connected, told, toMain, bounded>>

\* Which buttons the About page offers for what it shows.
Offered(cmd) ==
  CASE cmd = "checkNow" -> mirror.status \notin {"checking", "downloading", "ready"}
    [] cmd \in {"download", "skip"} -> IsCardVisible(mirror) /\ mirror.status = "available"
    [] cmd = "restart" -> IsCardVisible(mirror) /\ mirror.status = "ready"

Click(cmd) ==
  /\ connected /\ clicks < MAX_COMMANDS /\ Offered(cmd)
  /\ clicks' = clicks + 1
  /\ toMain' = Append(toMain, [type |-> cmd])
  /\ UNCHANGED <<authority, projection, toSettings, openings>>

\* The toggle answers at once; the reset of everything is the same with the default.
ToggleAutoCheck(enabled) ==
  /\ connected /\ clicks < MAX_COMMANDS
  /\ clicks' = clicks + 1
  /\ mirror' = [mirror EXCEPT !.auto = enabled]
  /\ toMain' = Append(toMain, [type |-> "setAutoCheck", enabled |-> enabled])
  /\ UNCHANGED <<authority, connected, told, toSettings, openings>>

ToggleAutoDownload ==
  /\ connected /\ clicks < MAX_COMMANDS
  /\ clicks' = clicks + 1
  /\ prefs' = [prefs EXCEPT !.autoDownload = ~@]
  /\ UNCHANGED <<up, pending, checks, downloads, autoDone, scheduled, served, projection,
                 toMain, toSettings, openings>>

Next ==
  \/ \E due \in BOOLEAN : Schedule(due)
  \/ Serve \/ TakeMessage
  \/ \E answer \in Offers \cup {"error"} : CheckResolves(answer)
  \/ \E v \in VERSIONS, ok \in BOOLEAN : DownloadEnds(v, ok)
  \/ Connect \/ CloseSettings \/ TakeSnapshot \/ ToggleAutoDownload
  \/ \E cmd \in {"checkNow", "download", "restart", "skip"} : Click(cmd)
  \/ \E enabled \in BOOLEAN : ToggleAutoCheck(enabled)

Spec == Init /\ [][Next]_vars

-----------------------------------------------------------------------------
(* Properties.                                                             *)

(* Once the bus is quiet a projection that was told anything, and lost no  *)
(* message since, shows the authority's state: opened in the middle of a   *)
(* check or a download, with optimistic toggles overtaken by older         *)
(* snapshots, with commands that cross broadcasts ("late subscribers       *)
(* converge from any point").                                              *)
MirrorSettles ==
  connected /\ told /\ toMain = <<>> /\ toSettings = <<>> => mirror = up

=============================================================================
