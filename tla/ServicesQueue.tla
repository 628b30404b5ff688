---------------------------- MODULE ServicesQueue ----------------------------
(***************************************************************************)
(* Directories that the Finder hands over ("New Termixion Tab Here"): the  *)
(* queue of services_io.rs, its nudge, and the drains of the main window:  *)
(* one before the page is mounted, one when the listener is registered and *)
(* one per nudge.  The page may be mounted twice (StrictMode) and reloaded *)
(* (ErrorBoundary); the queue outlives it.                                 *)
(***************************************************************************)
EXTENDS Naturals, Sequences, FiniteSets

CONSTANTS PATHS,       \* directories, each of which is handed over once
          MAX_RELOADS  \* bound: reloads of the page

VARIABLES
  queue,     \* PendingOpenPaths
  provider,  \* the provider's callback: idle, or with the path it holds
  page,      \* the page: before its first drain, waiting for it, mounted
  boot,      \* serviceBootPaths
  booted,    \* bootedRef
  listener,  \* the live registration: none, asked for, registered, resolved
  stale,     \* nudges on their way to a handler that was torn down
  nudges,    \* nudges on their way to the live one
  takes,     \* take_pending_open_paths calls of the drains on their way
  orphans,   \* those of a page that was reloaded, whose replies nobody gets
  replies,   \* batches taken, on their way back to the drains
  tabs,      \* what this page opened: paths, and "home" for the tab of a plain boot
  reloads,   \* so far
  remounted, \* StrictMode has replayed the effects of this page
  opened,    \* history: how often a tab was opened for each path, in any page
  lost       \* history: paths taken for a page that was reloaded before it opened them

vars == <<queue, provider, page, boot, booted, listener, stale, nudges, takes, orphans, replies,
          tabs, reloads, remounted, opened, lost>>

None == "none"
Home == "home"
Elements(q) == {q[n] : n \in DOMAIN q}
Batches == UNION {[1..n -> PATHS] : n \in 0..Cardinality(PATHS)}

TypeOK ==
  /\ queue \in Batches /\ boot \in Batches /\ replies \subseteq Batches
  /\ provider \in [at : {"idle", "queued"}, handed : SUBSET PATHS]
  /\ page \in {"loading", "fetching", "fetched", "mounted"} /\ booted \in BOOLEAN
  /\ listener \in {None, "asked", "registered", "resolved"}
  /\ stale \in Nat /\ nudges \in Nat /\ takes \in Nat /\ orphans \in Nat
  /\ tabs \in Seq(PATHS \cup {Home})
  /\ reloads \in 0..MAX_RELOADS /\ remounted \in BOOLEAN
  /\ opened \in [PATHS -> Nat] /\ lost \subseteq PATHS

Init ==
  /\ queue = <<>> /\ provider = [at |-> "idle", handed |-> {}]
  /\ page = "loading" /\ boot = <<>> /\ booted = FALSE
  /\ listener = None /\ stale = 0 /\ nudges = 0 /\ takes = 0 /\ orphans = 0 /\ replies = {}
  /\ tabs = <<>> /\ reloads = 0 /\ remounted = FALSE
  /\ opened = [p \in PATHS |-> 0] /\ lost = {}

Webview == <<page, boot, booted, tabs, reloads, remounted, opened, lost>>
Drains == <<takes, orphans, replies>>

-----------------------------------------------------------------------------
(* The back end.                                                           *)

\* Handing over p: in the queue first, ...
Enqueue(p) ==
  /\ provider.at = "idle" /\ p \notin provider.handed
  /\ queue' = Append(queue, p)
  /\ provider' = [at |-> "queued", handed |-> provider.handed \cup {p}]
  /\ UNCHANGED <<listener, stale, nudges, Drains, Webview>>

\* ... then the nudge, which nobody hears before the listener is registered.
Nudge ==
  /\ provider.at = "queued"
  /\ provider' = [provider EXCEPT !.at = "idle"]
  /\ nudges' = IF listener \in {"registered", "resolved"} THEN nudges + 1 ELSE nudges
  /\ UNCHANGED <<queue, listener, stale, Drains, Webview>>

\* (mutation) a take reads the queue and leaves it
TakeReading == /\ takes > 0 /\ takes' = takes - 1 /\ replies' = replies \cup {queue}
               /\ UNCHANGED <<queue, provider, listener, stale, nudges, orphans, Webview>>

\* take: everything so far, and the queue is empty.
Take ==
  /\ takes > 0 /\ takes' = takes - 1
  /\ replies' = IF queue = <<>> THEN replies ELSE replies \cup {queue}
  /\ queue' = <<>>
  /\ UNCHANGED <<provider, listener, stale, nudges, orphans, Webview>>

\* The same for a page that is gone.
TakeForNobody ==
  /\ orphans > 0 /\ orphans' = orphans - 1
  /\ queue' = <<>> /\ lost' = lost \cup Elements(queue)
  /\ UNCHANGED <<provider, page, boot, booted, listener, stale, nudges, takes, replies, tabs,
                 reloads, remounted, opened>>

-----------------------------------------------------------------------------
(* The boot of the page (boot.tsx) and the effects of App.                 *)

Fetch ==
  /\ page = "loading" /\ page' = "fetching"
  /\ boot' = queue /\ queue' = <<>>
  /\ UNCHANGED <<provider, booted, listener, stale, nudges, Drains, tabs, reloads, remounted,
                 opened, lost>>

Fetched ==
  /\ page = "fetching" /\ page' = "fetched"
  /\ UNCHANGED <<queue, provider, boot, booted, listener, stale, nudges, Drains, tabs, reloads,
                 remounted, opened, lost>>

\* deliverServicePaths: a tab per path, in one block.
Opens(paths) ==
  /\ tabs' = tabs \o paths
  /\ opened' = [p \in PATHS |-> opened[p] + Cardinality({n \in DOMAIN paths : paths[n] = p})]

\* (mutation) the replayed effects boot again
MountReplaying ==
  /\ page = "fetched" \/ (page = "mounted" /\ ~remounted)
  /\ page' = "mounted" /\ booted' = TRUE /\ remounted' = (page = "mounted")
  /\ IF boot # <<>> THEN Opens(boot) ELSE tabs' = <<Home>> /\ UNCHANGED opened
  /\ listener' = "asked" /\ stale' = stale + nudges /\ nudges' = 0
  /\ UNCHANGED <<queue, provider, boot, Drains, reloads, lost>>

\* The mount's effects: boot once, with the home tab if nothing was fetched, and ask for the
\* listener.  StrictMode tears the first registration down and asks again.
Mount ==
  /\ page = "fetched" \/ (page = "mounted" /\ ~remounted)
  /\ page' = "mounted" /\ booted' = TRUE /\ remounted' = (page = "mounted")
  /\ IF booted THEN UNCHANGED <<tabs, opened>>
     ELSE IF boot # <<>> THEN Opens(boot)
     ELSE tabs' = <<Home>> /\ UNCHANGED opened
  /\ listener' = "asked" /\ stale' = stale + nudges /\ nudges' = 0
  /\ UNCHANGED <<queue, provider, boot, Drains, reloads, lost>>

Registered ==
  /\ listener = "asked" /\ listener' = "registered"
  /\ UNCHANGED <<queue, provider, stale, nudges, Drains, Webview>>

\* (mutation) the registration only listens
ResolvedListening ==
  /\ listener = "registered" /\ listener' = "resolved"
  /\ UNCHANGED <<queue, provider, stale, nudges, Drains, Webview>>

\* The registration's promise resolves: the observer nudges itself.
Resolved ==
  /\ listener = "registered" /\ listener' = "resolved" /\ takes' = takes + 1
  /\ UNCHANGED <<queue, provider, stale, nudges, orphans, replies, Webview>>

\* A nudge arrives: a drain, unless its handler was torn down.
Heard ==
  /\ \/ nudges > 0 /\ nudges' = nudges - 1 /\ takes' = takes + 1 /\ UNCHANGED stale
     \/ stale > 0 /\ stale' = stale - 1 /\ UNCHANGED <<nudges, takes>>
  /\ UNCHANGED <<queue, provider, listener, orphans, replies, Webview>>

Deliver(paths) ==
  /\ paths \in replies /\ replies' = replies \ {paths}
  /\ Opens(paths)
  /\ UNCHANGED <<queue, provider, page, boot, booted, listener, stale, nudges, takes, orphans,
                 reloads, remounted, lost>>

\* The page is reloaded: what it has taken and not opened goes with it.
Reload ==
  /\ page = "mounted" /\ reloads < MAX_RELOADS
  /\ reloads' = reloads + 1 /\ page' = "loading" /\ booted' = FALSE /\ remounted' = FALSE
  /\ boot' = <<>> /\ listener' = None /\ nudges' = 0 /\ stale' = 0 /\ takes' = 0
  /\ orphans' = orphans + takes
  /\ lost' = lost \cup UNION {Elements(batch) : batch \in replies} /\ replies' = {}
  /\ tabs' = <<>>
  /\ UNCHANGED <<queue, provider, opened>>

Next ==
  \/ \E p \in PATHS : Enqueue(p)
  \/ Nudge \/ Take \/ TakeForNobody \/ Fetch \/ Fetched \/ Mount \/ Registered
  \/ Resolved \/ Heard \/ Reload
  \/ \E paths \in replies : Deliver(paths)

Spec == Init /\ [][Next]_vars

-----------------------------------------------------------------------------
(* Properties.                                                             *)

(* A directory that was handed over is opened once, by whichever drain     *)
(* took it, or goes with the page that asked for it: never twice, however  *)
(* the drains overlap and the effects are replayed.                        *)
OpenedOnce ==
  LET held == Elements(queue) \cup (UNION {Elements(batch) : batch \in replies})
              \cup (IF booted THEN {} ELSE Elements(boot))
  IN \A p \in provider.handed : IF p \in held \cup lost THEN opened[p] = 0 ELSE opened[p] = 1

(* With the page up and nothing on its way no directory waits in the       *)
(* queue: a nudge that was lost is made up for by the drain of the         *)
(* registration or of the boot.                                            *)
QueueDrained ==
  provider.at = "idle" /\ listener = "resolved" /\ nudges = 0 /\ takes = 0 => queue = <<>>

=============================================================================
