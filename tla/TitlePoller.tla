----------------------------- MODULE TitlePoller -----------------------------
(***************************************************************************)
(* The foreground poller (poller.rs): it samples what runs in front in     *)
(* every session, reports changes of the busy state on every tick and of   *)
(* the name on every TITLE_EVERY-th, and parks while there is no session.  *)
(* Sessions open, are attached to a pane and end meanwhile, jobs come and  *)
(* go between its reads, and a read may fail; the webview ignores what is  *)
(* about a session that no pane has (usePaneActivity.ts).                  *)
(***************************************************************************)
EXTENDS Naturals, Sequences, FiniteSets, Functions

CONSTANTS SESSIONS,
          JOBS,        \* what may run in front of a shell, by its name
          TITLE_EVERY, \* ticks from one title pass to the next
          MAX_CHANGES, \* bound: jobs that start or end
          MAX_EVENTS,  \* bound: events the webview may be behind
          MAX_OPEN     \* bound: sessions registered at once

VARIABLES
  session,   \* per session: not yet open, registered (and notified), gone
  front,     \* per session: what leads the foreground of its terminal
  changes,   \* jobs that started or ended so far
  latch,     \* PollerGate.has_sessions
  poller,    \* where the thread is: its step, tick, snapshot and the leaders of this iteration
  prevTitles,\* the names last hinted
  prevBusy,  \* the busy states last reported
  outbox,    \* events of this iteration to emit
  inbox,     \* events the webview has not handled
  shown,     \* what the webview has for the session's pane, once it is attached
  missed,    \* history: what was last reported of the session came before the attach, per kind
  current    \* history: the last iteration read everything, names too, and nothing changed since

vars == <<session, front, changes, latch, poller, prevTitles, prevBusy, outbox, inbox, shown,
          missed, current>>

Shell == "shell"
Unknown == "?"
Fronts == JOBS \cup {Shell}
Names == Fronts \cup {Unknown}
Fates == {"unopened", "inserted", "live", "gone"}
Registered == {s \in SESSIONS : session[s] \in {"inserted", "live"}}

Activity(s, busy, name) == [kind |-> "activity", of |-> s, busy |-> busy, name |-> name]
Hint(s, name) == [kind |-> "hint", of |-> s, busy |-> FALSE, name |-> name]
Events == [kind : {"activity", "hint"}, of : SESSIONS, busy : BOOLEAN, name : Names]
Pane == [attached : BOOLEAN, busy : BOOLEAN, title : Names, foreground : Names]

TypeOK ==
  /\ session \in [SESSIONS -> Fates] /\ front \in [SESSIONS -> Fronts]
  /\ changes \in 0..MAX_CHANGES /\ latch \in BOOLEAN /\ current \in BOOLEAN
  /\ poller.at \in {"snapshot", "sample", "resolve", "emit", "empty", "parked"}
  /\ poller.tick \in 0..(TITLE_EVERY - 1) /\ poller.snap \subseteq SESSIONS
  /\ poller.leaders \in [poller.snap -> Names]
  /\ DOMAIN prevTitles \subseteq SESSIONS /\ Range(prevTitles) \subseteq Fronts
  /\ DOMAIN prevBusy \subseteq SESSIONS /\ Range(prevBusy) \subseteq BOOLEAN
  /\ outbox \in Seq(Events) /\ inbox \in Seq(Events)
  /\ shown \in [SESSIONS -> Pane] /\ missed \in [SESSIONS -> SUBSET {"activity", "hint"}]

Blank == [attached |-> FALSE, busy |-> FALSE, title |-> Unknown, foreground |-> Unknown]
Empty == [s \in {} |-> Unknown]

Init ==
  /\ session = [s \in SESSIONS |-> "unopened"] /\ front = [s \in SESSIONS |-> Shell]
  /\ changes = 0 /\ latch = FALSE /\ current = FALSE
  /\ poller = [at |-> "snapshot", tick |-> 0, snap |-> {}, leaders |-> Empty]
  /\ prevTitles = Empty /\ prevBusy = Empty
  /\ outbox = <<>> /\ inbox = <<>>
  /\ shown = [s \in SESSIONS |-> Blank] /\ missed = [s \in SESSIONS |-> {}]

-----------------------------------------------------------------------------
(* Sessions and what runs in them.                                         *)

\* open_pty: the session is in the registry, ...
Insert(s) ==
  /\ session[s] = "unopened" /\ Cardinality(Registered) < MAX_OPEN
  /\ session' = [session EXCEPT ![s] = "inserted"] /\ current' = FALSE
  /\ UNCHANGED <<front, changes, latch, poller, prevTitles, prevBusy, outbox, inbox, shown, missed>>

\* (mutation) the poller is woken, and nothing is left for one that is about to wait
NotifyWaiting(s) ==
  /\ session[s] = "inserted"
  /\ session' = [session EXCEPT ![s] = "live"] /\ latch' = (latch \/ poller.at = "parked")
  /\ UNCHANGED <<front, changes, poller, prevTitles, prevBusy, outbox, inbox, shown, missed, current>>

\* ... then the latch is set and the poller woken.
NotifySessionOpened(s) ==
  /\ session[s] = "inserted"
  /\ session' = [session EXCEPT ![s] = "live"] /\ latch' = TRUE
  /\ UNCHANGED <<front, changes, poller, prevTitles, prevBusy, outbox, inbox, shown, missed, current>>

\* The reply to open_pty is handled and committed.
Attach(s) ==
  /\ session[s] = "live" /\ ~shown[s].attached
  /\ shown' = [shown EXCEPT ![s].attached = TRUE]
  /\ UNCHANGED <<session, front, changes, latch, poller, prevTitles, prevBusy, outbox, inbox,
                 missed, current>>

\* The session ends and leaves the registry; its pane goes.
End(s) ==
  /\ session[s] = "live"
  /\ session' = [session EXCEPT ![s] = "gone"] /\ shown' = [shown EXCEPT ![s] = Blank]
  /\ UNCHANGED <<front, changes, latch, poller, prevTitles, prevBusy, outbox, inbox, missed, current>>

JobChanges(s, job) ==
  /\ s \in Registered /\ job # front[s] /\ changes < MAX_CHANGES
  /\ front' = [front EXCEPT ![s] = job] /\ changes' = changes + 1 /\ current' = FALSE
  /\ UNCHANGED <<session, latch, poller, prevTitles, prevBusy, outbox, inbox, shown, missed>>

-----------------------------------------------------------------------------
(* run_title_poller.                                                       *)

ResolvesTitles == poller.tick = 0

\* The ids, under the registry's lock; an empty world is forgotten.
Snapshot ==
  /\ poller.at = "snapshot"
  /\ IF Registered = {}
     THEN /\ poller' = [at |-> "empty", tick |-> 0, snap |-> {}, leaders |-> Empty]
          /\ prevTitles' = Empty /\ prevBusy' = Empty
     ELSE /\ poller' = [poller EXCEPT !.at = "sample", !.snap = Registered,
                                      !.leaders = [s \in Registered |-> Unknown]]
          /\ UNCHANGED <<prevTitles, prevBusy>>
  /\ UNCHANGED <<session, front, changes, latch, outbox, inbox, shown, missed, current>>

\* wait_while_empty: blocks until the latch is set, and consumes it.
Block ==
  /\ poller.at = "empty" /\ ~latch
  /\ poller' = [poller EXCEPT !.at = "parked"]
  /\ UNCHANGED <<session, front, changes, latch, prevTitles, prevBusy, outbox, inbox, shown, missed,
                 current>>

WaitWhileEmpty ==
  /\ poller.at \in {"empty", "parked"} /\ latch
  /\ latch' = FALSE /\ poller' = [poller EXCEPT !.at = "snapshot"]
  /\ UNCHANGED <<session, front, changes, prevTitles, prevBusy, outbox, inbox, shown, missed, current>>

\* The one call for the leaders: a row for each session of ok.
Leaders(ok) ==
  /\ poller.at = "sample" /\ ok \subseteq poller.snap \cap Registered
  /\ poller' = [poller EXCEPT !.at = "resolve",
                              !.leaders = [s \in poller.snap |-> IF s \in ok THEN front[s] ELSE Unknown]]
  /\ current' = (ok = poller.snap /\ ResolvesTitles)
  /\ UNCHANGED <<session, front, changes, latch, prevTitles, prevBusy, outbox, inbox, shown, missed>>

\* What a pass carries on: what it resolved now, else what it had, of sessions still there.
Carry(now, prev) ==
  [s \in DOMAIN now \cup (DOMAIN prev \cap poller.snap) |->
     IF s \in DOMAIN now THEN now[s] ELSE prev[s]]
Changed(now, prev) == {s \in DOMAIN now : s \notin DOMAIN prev \/ prev[s] # now[s]}

\* The events of a set of sessions, in some order of theirs.
InOrder(ids, Event(_)) ==
  LET order == CHOOSE q \in [1..Cardinality(ids) -> ids] : Range(q) = ids
  IN [n \in 1..Cardinality(ids) |-> Event(order[n])]

BusyNow == [s \in {t \in poller.snap : poller.leaders[t] # Unknown} |-> poller.leaders[s] # Shell]

\* rises_of: busy now, and not busy in the last report.
Rises == {s \in DOMAIN BusyNow : BusyNow[s] /\ ~(s \in DOMAIN prevBusy /\ prevBusy[s])}

\* (mutation) a rise leaves the name that was hinted last
EnrichKeeping == prevTitles

\* enrich_rises: a rise makes the next title pass hint the name again.
EnrichedTitles == Restrict(prevTitles, DOMAIN prevTitles \ Rises)

\* poll_iteration after its sample: the rises with the metadata of whoever leads now, if
\* that can be read (of read); on a title tick the names of the leaders sampled, of named.
Resolve(read, named) ==
  /\ poller.at = "resolve" /\ read \subseteq Rises
  /\ named \subseteq IF ResolvesTitles THEN DOMAIN BusyNow ELSE {}
  /\ LET titles == EnrichedTitles
         names == [s \in named |-> poller.leaders[s]]
         Reported(s) == Activity(s, BusyNow[s], IF s \in read THEN front[s] ELSE Unknown)
         Hinted(s) == Hint(s, names[s])
     IN /\ outbox' = InOrder(Changed(BusyNow, prevBusy), Reported)
                     \o InOrder(Changed(names, titles), Hinted)
        /\ prevBusy' = Carry(BusyNow, prevBusy)
        /\ prevTitles' = IF ResolvesTitles THEN Carry(names, titles) ELSE titles
  /\ poller' = [poller EXCEPT !.at = "emit"]
  /\ current' = (current /\ named = poller.snap)
  /\ UNCHANGED <<session, front, changes, latch, inbox, shown, missed>>

\* The events are emitted, then the thread sleeps for a tick.
Emit ==
  /\ poller.at = "emit" /\ Len(inbox) + Len(outbox) <= MAX_EVENTS
  /\ inbox' = inbox \o outbox /\ outbox' = <<>>
  /\ poller' = [poller EXCEPT !.at = "snapshot", !.tick = (@ + 1) % TITLE_EVERY]
  /\ UNCHANGED <<session, front, changes, latch, prevTitles, prevBusy, shown, missed, current>>

-----------------------------------------------------------------------------
(* The webview.                                                            *)

\* onSessionActivity: a rise with a name and every fall move the foreground slot.
\* onTitleHint: the name is the title's process source and corrects the slot.
Heard(pane, e) ==
  CASE e.kind = "hint" -> [pane EXCEPT !.title = e.name, !.foreground = e.name]
    [] e.kind = "activity" /\ ~e.busy -> [pane EXCEPT !.busy = FALSE, !.foreground = Unknown]
    [] OTHER -> [pane EXCEPT !.busy = TRUE,
                             !.foreground = IF e.name = Unknown THEN @ ELSE e.name]

\* No pane has the session (yet, or any more): the event is dropped.
Handle ==
  /\ inbox # <<>>
  /\ inbox' = Tail(inbox)
  /\ LET e == Head(inbox)
     IN IF shown[e.of].attached
        THEN /\ shown' = [shown EXCEPT ![e.of] = Heard(@, e)]
             /\ missed' = [missed EXCEPT ![e.of] = @ \ {e.kind}]
        ELSE /\ missed' = [missed EXCEPT ![e.of] = @ \cup {e.kind}]
             /\ UNCHANGED shown
  /\ UNCHANGED <<session, front, changes, latch, poller, prevTitles, prevBusy, outbox, current>>

Next ==
  \/ \E s \in SESSIONS :
       Insert(s) \/ NotifySessionOpened(s) \/ Attach(s) \/ End(s)
       \/ \E job \in Fronts : JobChanges(s, job)
  \/ Snapshot \/ Block \/ WaitWhileEmpty \/ Emit \/ Handle
  \/ \E ok \in SUBSET SESSIONS : Leaders(ok)
  \/ \E read, named \in SUBSET SESSIONS : Resolve(read, named)

Spec == Init /\ [][Next]_vars

-----------------------------------------------------------------------------
(* Properties.                                                             *)

(* The poller never sleeps past a session: while it is parked, a session   *)
(* in the registry has the latch set, or its open_pty is about to set it   *)
(* ("makes a missed wake impossible").                                     *)
NeverStranded ==
  poller.at = "parked" => \A s \in SESSIONS : session[s] = "live" => latch

(* A title pass that read everything leaves the panes right, once its      *)
(* events are handled and while nothing changed: busy as the session is,   *)
(* the name in front as its title and, while a job runs, as the foreground *)
(* program, although events are sent on changes only and a rise may have   *)
(* come without its name.  What was reported before the pane was attached  *)
(* is lost until it changes again, and is excepted.                        *)
PanesTrue ==
  current /\ poller.at = "snapshot" /\ inbox = <<>> =>
    \A s \in poller.snap : shown[s].attached =>
      LET pane == shown[s] IN
      /\ "activity" \notin missed[s] => pane.busy = (front[s] # Shell)
      /\ "hint" \notin missed[s] =>
           /\ pane.title = front[s]
           /\ front[s] # Shell => pane.foreground = front[s]

=============================================================================
