-------------------------- MODULE ComponentProofs --------------------------
(***************************************************************************)
(* What TLAPS proves of the machines that are fed by a queue of events and *)
(* that no other module composes with: the title and process poller, the   *)
(* services queue, the enhancement trees, the terminal and the catalogs of  *)
(* the user's files.  Each has its constants' assumption where it needs    *)
(* one, its inductive invariant, that the initial states have it and every *)
(* step keeps it, and a theorem of what follows.                           *)
(***************************************************************************)
EXTENDS Integers, FiniteSetTheorems, SequenceTheorems, WellFoundedInduction, TLAPS

CONSTANTS
  SESSIONS, JOBS, TITLE_EVERY, MAX_CHANGES, MAX_EVENTS, MAX_OPEN,  \* TitlePoller
  PATHS, MAX_RELOADS,                                              \* ServicesQueue
  VERSIONS, INSTALLED, MAX_CALLS, MAX_OVERLAP,                     \* Enhancements
  SIZES, FONTS, THEMES, LINES, STORED, MAX_ALTERED,                \* TerminalHost
  CHARACTERS, DEFAULTS, KEY_FILES, LISTINGS, PALETTES, MAX_READS   \* Catalogs

VARIABLES
  session, front, changes, latch, poller, prevTitles, prevBusy, outbox, inbox, shown, missed, current,
  queue, provider, page, boot, booted, listener, stale, nudges, takes, orphans, replies, tabs,
  reloads, remounted, opened, lost,
  tree, builder, builds, cut, shell,
  life, host, observed, frame, faces, ready, saved, bus, ear, options, grid, buffer, scrolled, bar,
  notice, altered, unseen,
  catalog, disk, signal, hearing, unread, reads, issued, applied, newest, keymap, picker, registry,
  setting, news, terminal, chrome

Poller == INSTANCE TitlePoller
Finder == INSTANCE ServicesQueue
Trees == INSTANCE Enhancements
Host == INSTANCE TerminalHost WITH
  stored <- saved, listener <- ear, changes <- altered, missed <- unseen, MAX_CHANGES <- MAX_ALTERED
Files == INSTANCE Catalogs WITH lost <- unread, theme <- registry

-----------------------------------------------------------------------------
(* Queues of events: what the last event that touches something leaves it. *)

\* An event of G is on its way, and whatever of T comes after it is of G too.
Last(q, T, G) ==
  \E n \in 1..Len(q) : q[n] \in G /\ \A m \in n..Len(q) : q[m] \in T => q[m] \in G
None(q, T) == \A n \in 1..Len(q) : q[n] \notin T

(* What is appended behind.                                                *)
LEMMA BehindNone ==
  ASSUME NEW S, NEW q \in Seq(S), NEW r \in Seq(S), NEW T, NEW G, None(r, T)
  PROVE  /\ Last(q, T, G) => Last(q \o r, T, G)
         /\ None(q, T) => None(q \o r, T)
<1> DEFINE w == q \o r
<1>1. /\ Len(q) \in Nat /\ Len(r) \in Nat /\ Len(w) = Len(q) + Len(r)
      /\ \A i \in 1..Len(q) : w[i] = q[i]
      /\ \A i \in 1..Len(w) : i > Len(q) => w[i] = r[i - Len(q)] /\ i - Len(q) \in 1..Len(r)
  BY ConcatProperties, LenProperties
<1> HIDE DEF w
<1>2. \A i \in 1..Len(w) : i > Len(q) => w[i] \notin T
  BY <1>1 DEF None
<1>3. ASSUME Last(q, T, G)
      PROVE  Last(w, T, G)
  <2>1. PICK n \in 1..Len(q) : q[n] \in G /\ \A m \in n..Len(q) : q[m] \in T => q[m] \in G
    BY <1>3 DEF Last
  <2>2. n \in 1..Len(w) /\ w[n] \in G
    BY <1>1, <2>1
  <2>3. \A m \in n..Len(w) : w[m] \in T => w[m] \in G
    BY <1>1, <1>2, <2>1
  <2> QED BY <2>2, <2>3 DEF Last
<1>4. None(q, T) => None(w, T)
  BY <1>1, <1>2 DEF None
<1> QED BY <1>3, <1>4 DEF w

LEMMA BehindLast ==
  ASSUME NEW S, NEW q \in Seq(S), NEW r \in Seq(S), NEW T, NEW G, Last(r, T, G)
  PROVE  Last(q \o r, T, G)
<1> DEFINE w == q \o r
<1>1. /\ Len(q) \in Nat /\ Len(r) \in Nat /\ Len(w) = Len(q) + Len(r)
      /\ \A i \in 1..Len(w) : i > Len(q) => w[i] = r[i - Len(q)]
  BY ConcatProperties, LenProperties
<1> HIDE DEF w
<1>2. PICK n \in 1..Len(r) : r[n] \in G /\ \A m \in n..Len(r) : r[m] \in T => r[m] \in G
  BY DEF Last
<1>3. Len(q) + n \in 1..Len(w) /\ w[Len(q) + n] \in G
  BY <1>1, <1>2
<1>4. ASSUME NEW m \in (Len(q) + n)..Len(w), w[m] \in T
      PROVE  w[m] \in G
  <2>1. m - Len(q) \in n..Len(r) /\ w[m] = r[m - Len(q)]
    BY <1>1, <1>2
  <2> QED BY <1>2, <1>4, <2>1
<1> QED BY <1>3, <1>4 DEF Last, w

(* What is taken from the front.                                           *)
LEMMA TailLast ==
  ASSUME NEW S, NEW q \in Seq(S), q # <<>>, NEW T, NEW G
  PROVE  /\ Last(q, T, G) => Last(Tail(q), T, G) \/ (None(Tail(q), T) /\ Head(q) \in G)
         /\ None(q, T) => None(Tail(q), T) /\ Head(q) \notin T
<1> DEFINE t == Tail(q)
           h == Head(q)
<1>1. /\ Len(q) \in Nat /\ Len(q) >= 1 /\ Len(t) = Len(q) - 1 /\ h = q[1]
      /\ \A i \in 1..Len(t) : t[i] = q[i + 1]
  BY HeadTailProperties, LenProperties, EmptySeq
<1> HIDE DEF t, h
<1>2. ASSUME Last(q, T, G)
      PROVE  Last(t, T, G) \/ (None(t, T) /\ h \in G)
  <2>1. PICK n \in 1..Len(q) : q[n] \in G /\ \A m \in n..Len(q) : q[m] \in T => q[m] \in G
    BY <1>2 DEF Last
  <2>2. CASE n = 1
    <3>1. h \in G /\ \A m \in 1..Len(t) : t[m] \in T => t[m] \in G
      BY <1>1, <2>1, <2>2
    <3>2. CASE None(t, T)
      BY <3>1, <3>2
    <3>3. CASE ~None(t, T)
      <4>1. PICK k \in 1..Len(t) : t[k] \in T
        BY <3>3 DEF None
      <4>2. t[k] \in G /\ \A m \in k..Len(t) : t[m] \in T => t[m] \in G
        BY <1>1, <3>1, <4>1
      <4> QED BY <4>2 DEF Last
    <3> QED BY <3>2, <3>3
  <2>3. CASE n # 1
    <3>1. n - 1 \in 1..Len(t) /\ t[n - 1] \in G
      BY <1>1, <2>1, <2>3
    <3>2. \A m \in (n - 1)..Len(t) : t[m] \in T => t[m] \in G
      BY <1>1, <2>1, <2>3
    <3> QED BY <3>1, <3>2 DEF Last
  <2> QED BY <2>2, <2>3
<1>3. None(q, T) => None(t, T) /\ h \notin T
  BY <1>1 DEF None
<1> QED BY <1>2, <1>3 DEF t, h

LEMMA AppendIs ==
  ASSUME NEW S, NEW q \in Seq(S), NEW e \in S
  PROVE  <<e>> \in Seq(S) /\ Append(q, e) = q \o <<e>>
OBVIOUS

LEMMA TailOfConcat ==
  ASSUME NEW S, NEW q \in Seq(S), NEW r \in Seq(S), q # <<>>
  PROVE  Tail(q) \o r = Tail(q \o r) /\ Head(q \o r) = Head(q) /\ q \o r # <<>>
OBVIOUS

-----------------------------------------------------------------------------
(* The poller.                                                             *)

\* What the constants are: finitely many sessions, and no job is called as an unread name is.
PollerConstants ==
  /\ IsFiniteSet(SESSIONS) /\ Poller!Unknown \notin Poller!Fronts
  /\ TITLE_EVERY \in Nat \ {0} /\ MAX_CHANGES \in Nat

Partial(V) == UNION {[D -> V] : D \in SUBSET SESSIONS}
PollerRecord ==
  [at : {"snapshot", "sample", "resolve", "emit", "empty", "parked"}, tick : 0..(TITLE_EVERY - 1),
   snap : SUBSET SESSIONS, leaders : Partial(Poller!Names)]

\* The sessions and the webview.
SessionTyped ==
  /\ session \in [SESSIONS -> Poller!Fates] /\ front \in [SESSIONS -> Poller!Fronts]
  /\ latch \in BOOLEAN /\ shown \in [SESSIONS -> Poller!Pane]
  /\ missed \in [SESSIONS -> SUBSET {"activity", "hint"}]

\* The thread.
ThreadTyped ==
  /\ poller \in PollerRecord /\ poller.leaders \in [poller.snap -> Poller!Names]
  /\ prevTitles \in Partial(Poller!Names) /\ prevBusy \in Partial(BOOLEAN)
  /\ outbox \in Seq(Poller!Events) /\ inbox \in Seq(Poller!Events)
  /\ outbox # <<>> => poller.at = "emit"

\* It waits with an empty snapshot, and never past a session.
Awake ==
  poller.at \in {"empty", "parked"} =>
    poller.snap = {} /\ \A s \in SESSIONS : session[s] = "live" => latch

\* Only a session that runs has a pane.
Attached == \A s \in SESSIONS : shown[s].attached => session[s] = "live"

\* Events still to be handled, and those of one session, of one kind and with one content.
Queue == inbox \o outbox
EventsOf(s) == {e \in Poller!Events : e.of = s}
Reports(s) == {e \in EventsOf(s) : e.kind = "activity"}
Hints(s) == {e \in EventsOf(s) : e.kind = "hint"}
Saying(s, busy) == {e \in Reports(s) : e.busy = busy}
Naming(s, name) == {e \in Hints(s) : e.name = name}

Excepted(s, kind) == session[s] = "gone" \/ kind \in missed[s]

\* What was last reported is on its way to the pane or has arrived there: the busy state, ...
BusyTold ==
  \A s \in DOMAIN prevBusy :
    \/ Last(Queue, Reports(s), Saying(s, prevBusy[s]))
    \/ /\ None(Queue, Reports(s))
       /\ Excepted(s, "activity") \/ (shown[s].attached /\ shown[s].busy = prevBusy[s])

\* ... the name, ...
NameTold ==
  \A s \in DOMAIN prevTitles :
    \/ Last(Queue, Hints(s), Naming(s, prevTitles[s]))
    \/ /\ None(Queue, Hints(s))
       /\ Excepted(s, "hint") \/ (shown[s].attached /\ shown[s].title = prevTitles[s])

\* ... and, while a job runs, the name as the foreground program.
FrontTold ==
  \A s \in DOMAIN prevTitles \cap DOMAIN prevBusy : prevBusy[s] =>
    \/ Last(Queue, EventsOf(s), Naming(s, prevTitles[s]))
    \/ /\ None(Queue, EventsOf(s))
       /\ Excepted(s, "hint") \/ (shown[s].attached /\ shown[s].foreground = prevTitles[s])

\* What an iteration that read everything has read, and then reported, is so.
Fresh ==
  /\ current /\ poller.at = "resolve" =>
       poller.tick = 0 /\ \A s \in poller.snap : poller.leaders[s] = front[s]
  /\ current /\ poller.at \in {"emit", "snapshot"} =>
       \A s \in poller.snap :
         /\ s \in DOMAIN prevBusy /\ prevBusy[s] = (front[s] # Poller!Shell)
         /\ s \in DOMAIN prevTitles /\ prevTitles[s] = front[s]

PollerInv ==
  /\ SessionTyped /\ ThreadTyped /\ Awake /\ Attached
  /\ BusyTold /\ NameTold /\ FrontTold /\ Fresh

(* Cardinality is the same in every module.                                *)
LEMMA SameCardinality ==
  ASSUME NEW S
  PROVE  Poller!Cardinality(S) = Cardinality(S)
BY DEF Poller!Cardinality, Cardinality

(* A set of sessions is put in an order that has them all.                 *)
OrderOf(ids) == CHOOSE q \in [1..Poller!Cardinality(ids) -> ids] : Poller!Range(q) = ids

LEMMA OrderCovers ==
  ASSUME PollerConstants, NEW ids \in SUBSET SESSIONS
  PROVE  /\ Poller!Cardinality(ids) \in Nat
         /\ OrderOf(ids) \in [1..Poller!Cardinality(ids) -> ids]
         /\ \A s \in ids : \E n \in 1..Poller!Cardinality(ids) : OrderOf(ids)[n] = s
<1>1. IsFiniteSet(ids)
  BY FS_Subset DEF PollerConstants
<1>2. Poller!Cardinality(ids) \in Nat /\ ExistsBijection(1..Poller!Cardinality(ids), ids)
  BY <1>1, FS_CardinalityType, SameCardinality
<1>3. PICK f \in [1..Poller!Cardinality(ids) -> ids] : \A s \in ids : \E n \in 1..Poller!Cardinality(ids) : f[n] = s
  BY <1>2 DEF ExistsBijection, Bijection, Surjection
<1>4. Poller!Range(f) = ids
  BY <1>3 DEF Poller!Range
<1>5. OrderOf(ids) \in [1..Poller!Cardinality(ids) -> ids] /\ Poller!Range(OrderOf(ids)) = ids
  BY <1>3, <1>4 DEF OrderOf
<1> QED BY <1>2, <1>5 DEF Poller!Range

LEMMA PollerStart ==
  ASSUME PollerConstants, Poller!Init
  PROVE  PollerInv
<1> USE DEF Poller!Init, PollerConstants
<1>1. SessionTyped
  BY DEF SessionTyped, Poller!Fates, Poller!Fronts, Poller!Names, Poller!Pane, Poller!Blank
<1>2. Poller!Empty \in [{} -> Poller!Names] /\ Poller!Empty \in [{} -> BOOLEAN] /\ DOMAIN Poller!Empty = {}
  BY DEF Poller!Empty
<1>3. Poller!Empty \in Partial(Poller!Names) /\ Poller!Empty \in Partial(BOOLEAN)
  BY <1>2 DEF Partial
<1>4. ThreadTyped
  BY <1>2, <1>3 DEF ThreadTyped, PollerRecord
<1>5. Awake /\ Attached
  BY DEF Awake, Attached, Poller!Blank
<1>6. BusyTold /\ NameTold /\ FrontTold /\ Fresh
  BY <1>2 DEF BusyTold, NameTold, FrontTold, Fresh
<1> QED BY <1>1, <1>4, <1>5, <1>6 DEF PollerInv

(* The events of a set of sessions, in their order.                        *)
Ordered(ids, ev) == [n \in 1..Poller!Cardinality(ids) |-> ev[OrderOf(ids)[n]]]

LEMMA OrderedHasAll ==
  ASSUME PollerConstants, NEW ids \in SUBSET SESSIONS,
         NEW ev \in [ids -> Poller!Events], \A s \in ids : ev[s].of = s
  PROVE  /\ Ordered(ids, ev) \in Seq(Poller!Events)
         /\ \A n \in 1..Len(Ordered(ids, ev)) :
              Ordered(ids, ev)[n].of \in ids /\ Ordered(ids, ev)[n] = ev[Ordered(ids, ev)[n].of]
         /\ \A s \in ids : \E n \in 1..Len(Ordered(ids, ev)) : Ordered(ids, ev)[n] = ev[s]
<1> DEFINE order == OrderOf(ids)
           size == Poller!Cardinality(ids)
           q == Ordered(ids, ev)
<1>1. /\ size \in Nat /\ order \in [1..size -> ids]
      /\ \A s \in ids : \E n \in 1..size : order[n] = s
  BY OrderCovers
<1>2. q = [n \in 1..size |-> ev[order[n]]]
  BY DEF Ordered
<1> HIDE DEF order, size, q
<1>3. q \in [1..size -> Poller!Events]
  BY <1>1, <1>2
<1>4. q \in Seq(Poller!Events) /\ Len(q) = size
  BY <1>1, <1>3
<1>5. \A n \in 1..size : q[n] = ev[order[n]] /\ order[n] \in ids
  BY <1>1, <1>2
<1>6. \A s \in ids : \E n \in 1..size : q[n] = ev[s]
  BY <1>1, <1>5
<1>7. \A n \in 1..size : q[n].of \in ids /\ q[n] = ev[q[n].of]
  BY <1>5
<1> QED BY <1>4, <1>6, <1>7 DEF q

LEMMA OrderedLast ==
  ASSUME PollerConstants, NEW ids \in SUBSET SESSIONS,
         NEW ev \in [ids -> Poller!Events], \A s \in ids : ev[s].of = s,
         NEW s \in SESSIONS, NEW T \in SUBSET EventsOf(s), NEW G
  PROVE  /\ s \notin ids \/ ev[s] \notin T => None(Ordered(ids, ev), T)
         /\ s \in ids /\ ev[s] \in G => Last(Ordered(ids, ev), T, G)
<1> DEFINE q == Ordered(ids, ev)
<1>1. /\ \A n \in 1..Len(q) : q[n].of \in ids /\ q[n] = ev[q[n].of]
      /\ \A t \in ids : \E n \in 1..Len(q) : q[n] = ev[t]
      /\ q \in Seq(Poller!Events)
  BY OrderedHasAll
<1> HIDE DEF q
<1>2. \A n \in 1..Len(q) : q[n] \in T => s \in ids /\ q[n] = ev[s]
  BY <1>1 DEF EventsOf
<1>3. s \notin ids \/ ev[s] \notin T => None(q, T)
  BY <1>2 DEF None
<1>4. ASSUME s \in ids, ev[s] \in G
      PROVE  Last(q, T, G)
  <2>1. PICK n \in 1..Len(q) : q[n] = ev[s]
    BY <1>1, <1>4
  <2>2. Len(q) \in Nat
    BY <1>1
  <2>3. \A m \in n..Len(q) : q[m] \in T => q[m] \in G
    BY <1>2, <1>4, <2>1, <2>2
  <2> QED BY <1>4, <2>1, <2>3 DEF Last
<1> QED BY <1>3, <1>4 DEF q

(* One pass of the poller: what it has for a session, and what it emits.   *)
RisesReport(read) ==
  [s \in Poller!Changed(Poller!BusyNow, prevBusy) |->
     Poller!Activity(s, Poller!BusyNow[s], IF s \in read THEN front[s] ELSE Poller!Unknown)]
NamesNow(named) == [s \in named |-> poller.leaders[s]]
NamesReport(named) ==
  [s \in Poller!Changed(NamesNow(named), Poller!EnrichedTitles) |->
     Poller!Hint(s, NamesNow(named)[s])]

LEMMA PassTyped ==
  ASSUME PollerConstants, SessionTyped, ThreadTyped,
         NEW named \in SUBSET DOMAIN Poller!BusyNow, NEW read
  PROVE  /\ Poller!BusyNow \in [DOMAIN Poller!BusyNow -> BOOLEAN]
         /\ DOMAIN Poller!BusyNow \in SUBSET SESSIONS
         /\ prevBusy \in [DOMAIN prevBusy -> BOOLEAN] /\ DOMAIN prevBusy \subseteq SESSIONS
         /\ prevTitles \in [DOMAIN prevTitles -> Poller!Names] /\ DOMAIN prevTitles \subseteq SESSIONS
         /\ NamesNow(named) \in [named -> Poller!Names]
         /\ Poller!EnrichedTitles \in [DOMAIN Poller!EnrichedTitles -> Poller!Names]
         /\ DOMAIN Poller!EnrichedTitles = DOMAIN prevTitles \ Poller!Rises
         /\ \A s \in DOMAIN Poller!EnrichedTitles : Poller!EnrichedTitles[s] = prevTitles[s]
<1>1. DOMAIN Poller!BusyNow = {t \in poller.snap : poller.leaders[t] # Poller!Unknown}
  BY DEF Poller!BusyNow
<1>2. poller.snap \in SUBSET SESSIONS
  BY DEF ThreadTyped, PollerRecord
<1>3. Poller!BusyNow \in [DOMAIN Poller!BusyNow -> BOOLEAN]
  BY <1>1 DEF Poller!BusyNow
<1>4. prevBusy \in [DOMAIN prevBusy -> BOOLEAN] /\ DOMAIN prevBusy \subseteq SESSIONS
  BY DEF ThreadTyped, Partial
<1>5. prevTitles \in [DOMAIN prevTitles -> Poller!Names] /\ DOMAIN prevTitles \subseteq SESSIONS
  BY DEF ThreadTyped, Partial
<1>6. NamesNow(named) \in [named -> Poller!Names]
  BY <1>1 DEF ThreadTyped, NamesNow
<1>7. /\ DOMAIN Poller!EnrichedTitles = DOMAIN prevTitles \ Poller!Rises
      /\ \A s \in DOMAIN Poller!EnrichedTitles : Poller!EnrichedTitles[s] = prevTitles[s]
      /\ Poller!EnrichedTitles \in [DOMAIN Poller!EnrichedTitles -> Poller!Names]
  BY <1>5 DEF Poller!EnrichedTitles, Poller!Restrict
<1> QED BY <1>1, <1>2, <1>3, <1>4, <1>5, <1>6, <1>7

LEMMA ReportsTyped ==
  ASSUME PollerConstants, SessionTyped, ThreadTyped,
         NEW named \in SUBSET DOMAIN Poller!BusyNow, NEW read \in SUBSET SESSIONS
  PROVE  /\ DOMAIN RisesReport(read) = Poller!Changed(Poller!BusyNow, prevBusy)
         /\ DOMAIN RisesReport(read) \in SUBSET SESSIONS
         /\ RisesReport(read) \in [DOMAIN RisesReport(read) -> Poller!Events]
         /\ \A s \in DOMAIN RisesReport(read) :
              RisesReport(read)[s].of = s /\ RisesReport(read)[s] \in Saying(s, Poller!BusyNow[s])
         /\ DOMAIN NamesReport(named) = Poller!Changed(NamesNow(named), Poller!EnrichedTitles)
         /\ DOMAIN NamesReport(named) \in SUBSET SESSIONS
         /\ NamesReport(named) \in [DOMAIN NamesReport(named) -> Poller!Events]
         /\ \A s \in DOMAIN NamesReport(named) :
              NamesReport(named)[s].of = s /\ NamesReport(named)[s] \in Naming(s, NamesNow(named)[s])
<1>1. /\ DOMAIN RisesReport(read) = Poller!Changed(Poller!BusyNow, prevBusy)
      /\ DOMAIN NamesReport(named) = Poller!Changed(NamesNow(named), Poller!EnrichedTitles)
  BY DEF RisesReport, NamesReport
<1>2. /\ Poller!Changed(Poller!BusyNow, prevBusy) \subseteq DOMAIN Poller!BusyNow
      /\ DOMAIN Poller!BusyNow \in SUBSET SESSIONS
  BY PassTyped DEF Poller!Changed
<1>3. /\ Poller!Changed(NamesNow(named), Poller!EnrichedTitles) \subseteq named
      /\ named \in SUBSET SESSIONS
  BY PassTyped DEF Poller!Changed
<1>4. ASSUME NEW s \in Poller!Changed(Poller!BusyNow, prevBusy)
      PROVE  /\ RisesReport(read)[s] \in Poller!Events /\ RisesReport(read)[s].of = s
             /\ RisesReport(read)[s] \in Saying(s, Poller!BusyNow[s])
  <2> DEFINE b == Poller!BusyNow[s]
             m == IF s \in read THEN front[s] ELSE Poller!Unknown
  <2>1. s \in SESSIONS /\ b \in BOOLEAN
    BY <1>2, PassTyped
  <2>2. m \in Poller!Names
    BY <2>1 DEF SessionTyped, Poller!Names
  <2>3. RisesReport(read)[s] = Poller!Activity(s, b, m)
    BY DEF RisesReport
  <2> HIDE DEF b, m
  <2>4. Poller!Activity(s, b, m) \in Poller!Events
    BY <2>1, <2>2 DEF Poller!Activity, Poller!Events
  <2>5. /\ Poller!Activity(s, b, m).of = s /\ Poller!Activity(s, b, m).kind = "activity"
        /\ Poller!Activity(s, b, m).busy = b
    BY DEF Poller!Activity
  <2> QED BY <2>3, <2>4, <2>5 DEF Saying, Reports, EventsOf, b
<1>5. ASSUME NEW s \in Poller!Changed(NamesNow(named), Poller!EnrichedTitles)
      PROVE  /\ NamesReport(named)[s] \in Poller!Events /\ NamesReport(named)[s].of = s
             /\ NamesReport(named)[s] \in Naming(s, NamesNow(named)[s])
  <2> DEFINE m == NamesNow(named)[s]
  <2>1. s \in SESSIONS /\ m \in Poller!Names
    BY <1>3, PassTyped
  <2>2. NamesReport(named)[s] = Poller!Hint(s, m)
    BY DEF NamesReport
  <2> HIDE DEF m
  <2>3. Poller!Hint(s, m) \in Poller!Events
    BY <2>1 DEF Poller!Hint, Poller!Events
  <2>4. Poller!Hint(s, m).of = s /\ Poller!Hint(s, m).kind = "hint" /\ Poller!Hint(s, m).name = m
    BY DEF Poller!Hint
  <2> QED BY <2>2, <2>3, <2>4 DEF Naming, Hints, EventsOf, m
<1>6. RisesReport(read) \in [DOMAIN RisesReport(read) -> Poller!Events]
  BY <1>1, <1>4 DEF RisesReport
<1>7. NamesReport(named) \in [DOMAIN NamesReport(named) -> Poller!Events]
  BY <1>1, <1>5 DEF NamesReport
<1> QED BY <1>1, <1>2, <1>3, <1>4, <1>5, <1>6, <1>7

Raised == Poller!Changed(Poller!BusyNow, prevBusy)
Renamed(named) == Poller!Changed(NamesNow(named), Poller!EnrichedTitles)
Emitted(read, named) ==
  Ordered(Raised, RisesReport(read)) \o Ordered(Renamed(named), NamesReport(named))

LEMMA PassEmits ==
  ASSUME PollerConstants, SessionTyped, ThreadTyped,
         NEW read \in SUBSET SESSIONS, NEW named \in SUBSET DOMAIN Poller!BusyNow, NEW s \in SESSIONS
  PROVE  /\ Emitted(read, named) \in Seq(Poller!Events)
         /\ s \in Raised => Last(Emitted(read, named), Reports(s), Saying(s, Poller!BusyNow[s]))
         /\ s \notin Raised => None(Emitted(read, named), Reports(s))
         /\ s \in Renamed(named) =>
              /\ Last(Emitted(read, named), Hints(s), Naming(s, poller.leaders[s]))
              /\ Last(Emitted(read, named), EventsOf(s), Naming(s, poller.leaders[s]))
         /\ s \notin Renamed(named) => None(Emitted(read, named), Hints(s))
         /\ s \notin Raised \cup Renamed(named) => None(Emitted(read, named), EventsOf(s))
<1> DEFINE acts == Ordered(Raised, RisesReport(read))
           hints == Ordered(Renamed(named), NamesReport(named))
           say == Saying(s, Poller!BusyNow[s])
           name == Naming(s, poller.leaders[s])
<1>1. /\ Raised \in SUBSET SESSIONS /\ RisesReport(read) \in [Raised -> Poller!Events]
      /\ \A t \in Raised : RisesReport(read)[t].of = t
      /\ s \in Raised => RisesReport(read)[s] \in say
  BY ReportsTyped DEF Raised
<1>2. /\ Renamed(named) \in SUBSET SESSIONS /\ NamesReport(named) \in [Renamed(named) -> Poller!Events]
      /\ \A t \in Renamed(named) : NamesReport(named)[t].of = t
      /\ s \in Renamed(named) => NamesReport(named)[s] \in Naming(s, NamesNow(named)[s])
  BY ReportsTyped DEF Renamed
<1>3. s \in Renamed(named) => NamesReport(named)[s] \in name
  BY <1>2 DEF Renamed, Poller!Changed, NamesNow
<1>4. /\ say \subseteq Reports(s) /\ name \subseteq Hints(s)
      /\ Reports(s) \in SUBSET EventsOf(s) /\ Hints(s) \in SUBSET EventsOf(s)
      /\ EventsOf(s) \in SUBSET EventsOf(s)
      /\ \A e \in Reports(s) : e \notin Hints(s)
  BY DEF Saying, Naming, Reports, Hints
<1> HIDE DEF say, name
<1>5. acts \in Seq(Poller!Events) /\ hints \in Seq(Poller!Events)
  BY <1>1, <1>2, OrderedHasAll
<1>6. /\ s \in Raised => Last(acts, Reports(s), say)
      /\ s \notin Raised => None(acts, Reports(s))
  BY <1>1, <1>4, OrderedLast
<1>7. None(acts, Hints(s))
  BY <1>1, <1>4, OrderedLast
<1>8. s \notin Raised => None(acts, EventsOf(s))
  BY <1>1, <1>4, OrderedLast
<1>9. None(hints, Reports(s))
  BY <1>2, <1>3, <1>4, OrderedLast
<1>10. /\ s \in Renamed(named) => Last(hints, Hints(s), name) /\ Last(hints, EventsOf(s), name)
       /\ s \notin Renamed(named) => None(hints, Hints(s)) /\ None(hints, EventsOf(s))
  BY <1>2, <1>3, <1>4, OrderedLast
<1> HIDE DEF acts, hints
<1>11. acts \o hints \in Seq(Poller!Events)
  BY <1>5
<1>12. /\ s \in Raised => Last(acts \o hints, Reports(s), say)
       /\ s \notin Raised => None(acts \o hints, Reports(s))
  BY <1>5, <1>6, <1>9, BehindNone
<1>13. s \in Renamed(named) => Last(acts \o hints, Hints(s), name) /\ Last(acts \o hints, EventsOf(s), name)
  BY <1>5, <1>10, BehindLast
<1>14. s \notin Renamed(named) => None(acts \o hints, Hints(s))
  BY <1>5, <1>7, <1>10, BehindNone
<1>15. s \notin Raised \cup Renamed(named) => None(acts \o hints, EventsOf(s))
  BY <1>5, <1>8, <1>10, BehindNone
<1>16. Emitted(read, named) = acts \o hints
  BY DEF Emitted, acts, hints
<1> QED BY <1>11, <1>12, <1>13, <1>14, <1>15, <1>16 DEF say, name

(* What the pass leaves as last reported.                                  *)
LEMMA PassKeeps ==
  ASSUME PollerConstants, SessionTyped, ThreadTyped, NEW read \in SUBSET SESSIONS,
         NEW named \in SUBSET SESSIONS, Poller!Resolve(read, named)
  PROVE  /\ named \in SUBSET DOMAIN Poller!BusyNow
         /\ outbox' = Emitted(read, named)
         /\ prevBusy' \in Partial(BOOLEAN) /\ prevTitles' \in Partial(Poller!Names)
         /\ DOMAIN Poller!BusyNow \subseteq DOMAIN prevBusy'
         /\ \A s \in DOMAIN prevBusy' :
              /\ s \in DOMAIN Poller!BusyNow => prevBusy'[s] = Poller!BusyNow[s]
              /\ s \notin DOMAIN Poller!BusyNow => s \in DOMAIN prevBusy /\ prevBusy'[s] = prevBusy[s]
         /\ named \subseteq DOMAIN prevTitles'
         /\ \A s \in DOMAIN prevTitles' :
              /\ s \in named => prevTitles'[s] = poller.leaders[s]
              /\ s \notin named => /\ s \in DOMAIN prevTitles \ Poller!Rises
                                   /\ prevTitles'[s] = prevTitles[s]
<1>1. named \in SUBSET DOMAIN Poller!BusyNow
  BY DEF Poller!Resolve
<1>2. outbox' = Emitted(read, named)
  <2> DEFINE r == OrderOf(Raised)
             h == OrderOf(Renamed(named))
  <2>1. outbox' = [n \in 1..Poller!Cardinality(Raised) |->
                     Poller!Activity(r[n], Poller!BusyNow[r[n]],
                                     IF r[n] \in read THEN front[r[n]] ELSE Poller!Unknown)]
                  \o [n \in 1..Poller!Cardinality(Renamed(named)) |-> Poller!Hint(h[n], NamesNow(named)[h[n]])]
    BY DEF Poller!Resolve, Poller!InOrder, OrderOf, Raised, Renamed, NamesNow
  <2>2. /\ Raised \in SUBSET SESSIONS /\ DOMAIN RisesReport(read) = Raised
        /\ Renamed(named) \in SUBSET SESSIONS /\ DOMAIN NamesReport(named) = Renamed(named)
    BY <1>1, ReportsTyped DEF Raised, Renamed
  <2>3. /\ \A n \in 1..Poller!Cardinality(Raised) : r[n] \in Raised
        /\ \A n \in 1..Poller!Cardinality(Renamed(named)) : h[n] \in Renamed(named)
    BY <2>2, OrderCovers
  <2> HIDE DEF r, h
  <2>4. \A n \in 1..Poller!Cardinality(Raised) :
          RisesReport(read)[r[n]]
          = Poller!Activity(r[n], Poller!BusyNow[r[n]],
                            IF r[n] \in read THEN front[r[n]] ELSE Poller!Unknown)
    BY <2>3 DEF RisesReport, Raised
  <2>5. \A n \in 1..Poller!Cardinality(Renamed(named)) :
          NamesReport(named)[h[n]] = Poller!Hint(h[n], NamesNow(named)[h[n]])
    BY <2>3 DEF NamesReport, Renamed
  <2>6. /\ Ordered(Raised, RisesReport(read))
           = [n \in 1..Poller!Cardinality(Raised) |->
                Poller!Activity(r[n], Poller!BusyNow[r[n]],
                                IF r[n] \in read THEN front[r[n]] ELSE Poller!Unknown)]
        /\ Ordered(Renamed(named), NamesReport(named))
           = [n \in 1..Poller!Cardinality(Renamed(named)) |-> Poller!Hint(h[n], NamesNow(named)[h[n]])]
    BY <2>4, <2>5 DEF Ordered, r, h
  <2> QED BY <2>1, <2>6 DEF Emitted
<1>3. /\ Poller!BusyNow \in [DOMAIN Poller!BusyNow -> BOOLEAN]
      /\ DOMAIN Poller!BusyNow \in SUBSET SESSIONS
      /\ prevBusy \in [DOMAIN prevBusy -> BOOLEAN] /\ DOMAIN prevBusy \subseteq SESSIONS
      /\ prevTitles \in [DOMAIN prevTitles -> Poller!Names] /\ DOMAIN prevTitles \subseteq SESSIONS
      /\ NamesNow(named) \in [named -> Poller!Names]
      /\ Poller!EnrichedTitles \in [DOMAIN Poller!EnrichedTitles -> Poller!Names]
      /\ DOMAIN Poller!EnrichedTitles = DOMAIN prevTitles \ Poller!Rises
      /\ \A s \in DOMAIN Poller!EnrichedTitles : Poller!EnrichedTitles[s] = prevTitles[s]
  BY <1>1, PassTyped
<1>4. prevBusy' = Poller!Carry(Poller!BusyNow, prevBusy)
  BY DEF Poller!Resolve
<1>5. /\ DOMAIN prevBusy' = DOMAIN Poller!BusyNow \cup (DOMAIN prevBusy \cap poller.snap)
      /\ \A s \in DOMAIN prevBusy' :
           prevBusy'[s] = IF s \in DOMAIN Poller!BusyNow THEN Poller!BusyNow[s] ELSE prevBusy[s]
  BY <1>4 DEF Poller!Carry
<1>6. prevBusy' \in [DOMAIN prevBusy' -> BOOLEAN] /\ DOMAIN prevBusy' \in SUBSET SESSIONS
  BY <1>3, <1>4, <1>5 DEF Poller!Carry
<1>7. CASE Poller!ResolvesTitles
  <2>1. prevTitles' = Poller!Carry(NamesNow(named), Poller!EnrichedTitles)
    BY <1>7 DEF Poller!Resolve, NamesNow
  <2>2. /\ DOMAIN prevTitles' = named \cup (DOMAIN Poller!EnrichedTitles \cap poller.snap)
        /\ \A s \in DOMAIN prevTitles' :
             prevTitles'[s] = IF s \in named THEN poller.leaders[s] ELSE Poller!EnrichedTitles[s]
    BY <1>3, <2>1 DEF Poller!Carry, NamesNow
  <2>3. prevTitles' \in [DOMAIN prevTitles' -> Poller!Names] /\ DOMAIN prevTitles' \in SUBSET SESSIONS
    BY <1>3, <2>1, <2>2 DEF Poller!Carry
  <2>4. \A s \in DOMAIN prevTitles' : s \notin named =>
          s \in DOMAIN prevTitles \ Poller!Rises /\ prevTitles'[s] = prevTitles[s]
    BY <1>3, <2>2
  <2>5. prevBusy' \in Partial(BOOLEAN) /\ prevTitles' \in Partial(Poller!Names)
    BY <1>6, <2>3 DEF Partial
  <2> QED BY <1>1, <1>2, <1>5, <2>2, <2>4, <2>5
<1>8. CASE ~Poller!ResolvesTitles
  <2>1. prevTitles' = Poller!EnrichedTitles /\ named = {}
    BY <1>8 DEF Poller!Resolve
  <2>2. prevBusy' \in Partial(BOOLEAN) /\ prevTitles' \in Partial(Poller!Names)
    BY <1>3, <1>6, <2>1 DEF Partial
  <2> QED BY <1>1, <1>2, <1>3, <1>5, <2>1, <2>2
<1> QED BY <1>7, <1>8

LEMMA HeardTyped ==
  ASSUME NEW pane \in Poller!Pane, NEW e \in Poller!Events
  PROVE  /\ Poller!Heard(pane, e) \in Poller!Pane
         /\ Poller!Heard(pane, e).attached = pane.attached
         /\ e.kind = "activity" => Poller!Heard(pane, e).busy = e.busy
         /\ e.kind = "activity" => Poller!Heard(pane, e).title = pane.title
         /\ e.kind = "hint" => /\ Poller!Heard(pane, e).title = e.name
                               /\ Poller!Heard(pane, e).foreground = e.name
                               /\ Poller!Heard(pane, e).busy = pane.busy
<1>1. Poller!Unknown \in Poller!Names
  BY DEF Poller!Names
<1>2. e.kind \in {"activity", "hint"} /\ e.busy \in BOOLEAN /\ e.name \in Poller!Names
  BY DEF Poller!Events
<1>3. CASE e.kind = "hint"
  BY <1>2, <1>3 DEF Poller!Heard, Poller!Pane
<1>4. CASE e.kind = "activity" /\ e.busy = FALSE
  BY <1>1, <1>4 DEF Poller!Heard, Poller!Pane
<1>5. CASE e.kind = "activity" /\ e.busy = TRUE
  BY <1>2, <1>5 DEF Poller!Heard, Poller!Pane
<1> QED BY <1>2, <1>3, <1>4, <1>5

(* The types.                                                              *)
LEMMA SessionsKeepType ==
  ASSUME PollerConstants, SessionTyped, ThreadTyped, Poller!Next
  PROVE  SessionTyped'
<1> USE DEF SessionTyped
<1>1. ASSUME NEW s \in SESSIONS, Poller!Insert(s)
      PROVE  SessionTyped'
  BY <1>1 DEF Poller!Insert, Poller!Fates
<1>2. ASSUME NEW s \in SESSIONS, Poller!NotifySessionOpened(s)
      PROVE  SessionTyped'
  BY <1>2 DEF Poller!NotifySessionOpened, Poller!Fates
<1>3. ASSUME NEW s \in SESSIONS, Poller!Attach(s)
      PROVE  SessionTyped'
  <2>1. [shown[s] EXCEPT !.attached = TRUE] \in Poller!Pane
    BY DEF Poller!Pane
  <2> QED BY <1>3, <2>1 DEF Poller!Attach
<1>4. ASSUME NEW s \in SESSIONS, Poller!End(s)
      PROVE  SessionTyped'
  <2>1. Poller!Blank \in Poller!Pane
    BY DEF Poller!Pane, Poller!Blank, Poller!Names
  <2> QED BY <1>4, <2>1 DEF Poller!End, Poller!Fates
<1>5. ASSUME NEW s \in SESSIONS, NEW job \in Poller!Fronts, Poller!JobChanges(s, job)
      PROVE  SessionTyped'
  BY <1>5 DEF Poller!JobChanges
<1>6. CASE Poller!Handle
  <2> DEFINE e == Head(inbox)
  <2>1. e \in Poller!Events
    BY <1>6, HeadTailProperties DEF Poller!Handle, ThreadTyped
  <2>2. e.of \in SESSIONS /\ e.kind \in {"activity", "hint"}
    BY <2>1 DEF Poller!Events
  <2>3. Poller!Heard(shown[e.of], e) \in Poller!Pane
    BY <2>1, <2>2, HeardTyped
  <2>4. UNCHANGED <<session, front, latch>>
    BY <1>6 DEF Poller!Handle
  <2>5. \/ /\ shown' = [shown EXCEPT ![e.of] = Poller!Heard(shown[e.of], e)]
           /\ missed' = [missed EXCEPT ![e.of] = missed[e.of] \ {e.kind}]
        \/ /\ shown' = shown
           /\ missed' = [missed EXCEPT ![e.of] = missed[e.of] \cup {e.kind}]
    BY <1>6 DEF Poller!Handle
  <2> HIDE DEF e
  <2> QED BY <2>2, <2>3, <2>4, <2>5
<1>7. CASE Poller!WaitWhileEmpty
  BY <1>7 DEF Poller!WaitWhileEmpty
<1>8. CASE Poller!Snapshot \/ Poller!Block \/ Poller!Emit
  BY <1>8 DEF Poller!Snapshot, Poller!Block, Poller!Emit
<1>9. ASSUME NEW ok \in SUBSET SESSIONS, Poller!Leaders(ok)
      PROVE  SessionTyped'
  BY <1>9 DEF Poller!Leaders
<1>10. ASSUME NEW read \in SUBSET SESSIONS, NEW named \in SUBSET SESSIONS, Poller!Resolve(read, named)
       PROVE  SessionTyped'
  BY <1>10 DEF Poller!Resolve
<1> QED BY <1>1, <1>2, <1>3, <1>4, <1>5, <1>6, <1>7, <1>8, <1>9, <1>10 DEF Poller!Next

LEMMA ThreadKeepsType ==
  ASSUME PollerConstants, SessionTyped, ThreadTyped, Poller!Next
  PROVE  ThreadTyped'
<1>0. /\ poller \in PollerRecord /\ poller.leaders \in [poller.snap -> Poller!Names]
      /\ poller.snap \in SUBSET SESSIONS /\ Poller!Registered \in SUBSET SESSIONS
      /\ Poller!Unknown \in Poller!Names
      /\ \A s \in SESSIONS : front[s] \in Poller!Names
      /\ inbox \in Seq(Poller!Events) /\ outbox \in Seq(Poller!Events)
  BY DEF ThreadTyped, PollerRecord, Poller!Registered, Poller!Names, SessionTyped
<1>1. ASSUME NEW s \in SESSIONS,
             \/ Poller!Insert(s) \/ Poller!NotifySessionOpened(s) \/ Poller!Attach(s) \/ Poller!End(s)
             \/ \E job \in Poller!Fronts : Poller!JobChanges(s, job)
      PROVE  ThreadTyped'
  BY <1>1 DEF ThreadTyped, Poller!Insert, Poller!NotifySessionOpened, Poller!Attach, Poller!End,
              Poller!JobChanges
<1>2. CASE Poller!Snapshot
  <2>1. CASE Poller!Registered = {}
    <3>1. /\ Poller!Empty \in [{} -> Poller!Names] /\ Poller!Empty \in [{} -> BOOLEAN]
      BY DEF Poller!Empty
    <3>2. Poller!Empty \in Partial(Poller!Names) /\ Poller!Empty \in Partial(BOOLEAN)
      BY <3>1 DEF Partial
    <3>3. /\ poller' = [at |-> "empty", tick |-> 0, snap |-> {}, leaders |-> Poller!Empty]
          /\ prevTitles' = Poller!Empty /\ prevBusy' = Poller!Empty
          /\ UNCHANGED <<inbox, outbox>> /\ poller.at = "snapshot"
      BY <1>2, <2>1 DEF Poller!Snapshot
    <3>4. poller' \in PollerRecord
      BY <3>2, <3>3 DEF PollerRecord, PollerConstants
    <3> QED BY <3>1, <3>2, <3>3, <3>4 DEF ThreadTyped
  <2>2. CASE Poller!Registered # {}
    <3> DEFINE none == [s \in Poller!Registered |-> Poller!Unknown]
    <3>1. none \in [Poller!Registered -> Poller!Names]
      BY <1>0
    <3>2. none \in Partial(Poller!Names)
      BY <1>0, <3>1 DEF Partial
    <3>3. /\ poller' = [poller EXCEPT !.at = "sample", !.snap = Poller!Registered, !.leaders = none]
          /\ UNCHANGED <<prevTitles, prevBusy, inbox, outbox>> /\ poller.at = "snapshot"
      BY <1>2, <2>2 DEF Poller!Snapshot
    <3> HIDE DEF none
    <3>4. poller' \in PollerRecord /\ poller'.snap = Poller!Registered /\ poller'.leaders = none
      BY <1>0, <3>2, <3>3 DEF PollerRecord
    <3> QED BY <3>1, <3>3, <3>4 DEF ThreadTyped
  <2> QED BY <2>1, <2>2
<1>3. CASE Poller!Block \/ Poller!WaitWhileEmpty
  BY <1>3 DEF ThreadTyped, PollerRecord, Poller!Block, Poller!WaitWhileEmpty
<1>4. ASSUME NEW ok \in SUBSET SESSIONS, Poller!Leaders(ok)
      PROVE  ThreadTyped'
  <2> DEFINE leads == [s \in poller.snap |-> IF s \in ok THEN front[s] ELSE Poller!Unknown]
  <2>1. leads \in [poller.snap -> Poller!Names]
    BY <1>0
  <2>2. leads \in Partial(Poller!Names)
    BY <1>0, <2>1 DEF Partial
  <2>3. /\ poller' = [poller EXCEPT !.at = "resolve", !.leaders = leads]
        /\ UNCHANGED <<prevTitles, prevBusy, inbox, outbox>> /\ poller.at = "sample"
    BY <1>4 DEF Poller!Leaders
  <2> HIDE DEF leads
  <2>4. poller' \in PollerRecord /\ poller'.snap = poller.snap /\ poller'.leaders = leads
    BY <1>0, <2>2, <2>3 DEF PollerRecord
  <2> QED BY <2>1, <2>3, <2>4 DEF ThreadTyped
<1>5. ASSUME NEW read \in SUBSET SESSIONS, NEW named \in SUBSET SESSIONS, Poller!Resolve(read, named)
      PROVE  ThreadTyped'
  <2>1. /\ named \in SUBSET DOMAIN Poller!BusyNow /\ outbox' = Emitted(read, named)
        /\ prevBusy' \in Partial(BOOLEAN) /\ prevTitles' \in Partial(Poller!Names)
    BY <1>5, PassKeeps
  <2>2. /\ Raised \in SUBSET SESSIONS /\ RisesReport(read) \in [Raised -> Poller!Events]
        /\ \A t \in Raised : RisesReport(read)[t].of = t
        /\ Renamed(named) \in SUBSET SESSIONS /\ NamesReport(named) \in [Renamed(named) -> Poller!Events]
        /\ \A t \in Renamed(named) : NamesReport(named)[t].of = t
    BY <2>1, ReportsTyped DEF Raised, Renamed
  <2>3. /\ Ordered(Raised, RisesReport(read)) \in Seq(Poller!Events)
        /\ Ordered(Renamed(named), NamesReport(named)) \in Seq(Poller!Events)
    BY <2>2, OrderedHasAll
  <2>4. outbox' \in Seq(Poller!Events)
    BY <2>1, <2>3 DEF Emitted
  <2>5. poller' = [poller EXCEPT !.at = "emit"] /\ UNCHANGED inbox
    BY <1>5 DEF Poller!Resolve
  <2>6. /\ poller' \in PollerRecord /\ poller'.snap = poller.snap /\ poller'.leaders = poller.leaders
        /\ poller'.at = "emit"
    BY <1>0, <2>5 DEF PollerRecord
  <2> QED BY <1>0, <2>1, <2>4, <2>5, <2>6 DEF ThreadTyped
<1>6. CASE Poller!Emit
  <2>1. /\ inbox' = inbox \o outbox /\ outbox' = <<>> /\ UNCHANGED <<prevTitles, prevBusy>>
        /\ poller' = [poller EXCEPT !.at = "snapshot", !.tick = (poller.tick + 1) % TITLE_EVERY]
    BY <1>6 DEF Poller!Emit
  <2>2. (poller.tick + 1) % TITLE_EVERY \in 0..(TITLE_EVERY - 1)
    BY DEF PollerConstants, ThreadTyped, PollerRecord
  <2>3. poller' \in PollerRecord /\ poller'.snap = poller.snap /\ poller'.leaders = poller.leaders
    BY <1>0, <2>1, <2>2 DEF PollerRecord
  <2>4. inbox' \in Seq(Poller!Events) /\ outbox' \in Seq(Poller!Events)
    BY <1>0, <2>1
  <2> QED BY <1>0, <2>1, <2>3, <2>4 DEF ThreadTyped
<1>7. CASE Poller!Handle
  <2>1. inbox' = Tail(inbox) /\ UNCHANGED <<poller, prevTitles, prevBusy, outbox>> /\ inbox # <<>>
    BY <1>7 DEF Poller!Handle
  <2>2. inbox' \in Seq(Poller!Events)
    BY <1>0, <2>1
  <2> QED BY <2>1, <2>2 DEF ThreadTyped
<1> QED BY <1>1, <1>2, <1>3, <1>4, <1>5, <1>6, <1>7 DEF Poller!Next

(* The gate and the panes.                                                 *)
LEMMA StaysAwake ==
  ASSUME PollerConstants, SessionTyped, ThreadTyped, Awake, Attached, Poller!Next
  PROVE  Awake' /\ Attached'
<1> USE DEF SessionTyped, ThreadTyped, PollerRecord, Awake, Attached
<1>1. ASSUME NEW s \in SESSIONS, Poller!Insert(s)
      PROVE  Awake' /\ Attached'
  BY <1>1 DEF Poller!Insert
<1>2. ASSUME NEW s \in SESSIONS, Poller!NotifySessionOpened(s)
      PROVE  Awake' /\ Attached'
  BY <1>2 DEF Poller!NotifySessionOpened
<1>3. ASSUME NEW s \in SESSIONS, Poller!Attach(s)
      PROVE  Awake' /\ Attached'
  BY <1>3 DEF Poller!Attach, Poller!Pane
<1>4. ASSUME NEW s \in SESSIONS, Poller!End(s)
      PROVE  Awake' /\ Attached'
  BY <1>4 DEF Poller!End, Poller!Blank
<1>5. ASSUME NEW s \in SESSIONS, NEW job \in Poller!Fronts, Poller!JobChanges(s, job)
      PROVE  Awake' /\ Attached'
  BY <1>5 DEF Poller!JobChanges
<1>6. CASE Poller!Snapshot
  <2>1. UNCHANGED <<session, shown>>
    BY <1>6 DEF Poller!Snapshot
  <2>2. CASE Poller!Registered = {}
    <3>1. poller'.snap = {}
      BY <1>6, <2>2 DEF Poller!Snapshot
    <3>2. \A s \in SESSIONS : session[s] # "live"
      BY <2>2 DEF Poller!Registered
    <3> QED BY <2>1, <3>1, <3>2
  <2>3. CASE Poller!Registered # {}
    <3>1. poller'.at = "sample"
      BY <1>6, <2>3 DEF Poller!Snapshot
    <3> QED BY <2>1, <3>1
  <2> QED BY <2>2, <2>3
<1>7. CASE Poller!Block
  BY <1>7 DEF Poller!Block
<1>8. CASE Poller!WaitWhileEmpty
  BY <1>8 DEF Poller!WaitWhileEmpty
<1>9. CASE Poller!Emit
  BY <1>9 DEF Poller!Emit
<1>10. CASE Poller!Handle
  <2> DEFINE e == Head(inbox)
  <2>1. e \in Poller!Events
    BY <1>10, HeadTailProperties DEF Poller!Handle
  <2>2. e.of \in SESSIONS
    BY <2>1 DEF Poller!Events
  <2>3. Poller!Heard(shown[e.of], e).attached = shown[e.of].attached
    BY <2>1, <2>2, HeardTyped
  <2>4. /\ shown' = [shown EXCEPT ![e.of] = Poller!Heard(shown[e.of], e)] \/ shown' = shown
        /\ UNCHANGED <<session, latch, poller>>
    BY <1>10 DEF Poller!Handle
  <2> HIDE DEF e
  <2>5. \A s \in SESSIONS : shown'[s].attached = shown[s].attached
    BY <2>2, <2>3, <2>4
  <2> QED BY <2>4, <2>5
<1>11. ASSUME NEW ok \in SUBSET SESSIONS, Poller!Leaders(ok)
       PROVE  Awake' /\ Attached'
  BY <1>11 DEF Poller!Leaders
<1>12. ASSUME NEW read \in SUBSET SESSIONS, NEW named \in SUBSET SESSIONS, Poller!Resolve(read, named)
       PROVE  Awake' /\ Attached'
  BY <1>12 DEF Poller!Resolve
<1> QED BY <1>1, <1>2, <1>3, <1>4, <1>5, <1>6, <1>7, <1>8, <1>9, <1>10, <1>11, <1>12 DEF Poller!Next

(* What was read is reported as it is.                                     *)
LEMMA StaysFresh ==
  ASSUME PollerConstants, SessionTyped, ThreadTyped, Awake, Fresh, Poller!Next
  PROVE  Fresh'
<1>1. ASSUME NEW s \in SESSIONS,
             Poller!NotifySessionOpened(s) \/ Poller!Attach(s) \/ Poller!End(s)
      PROVE  Fresh'
  BY <1>1 DEF Fresh, Poller!NotifySessionOpened, Poller!Attach, Poller!End
<1>2. ASSUME NEW s \in SESSIONS,
             Poller!Insert(s) \/ \E job \in Poller!Fronts : Poller!JobChanges(s, job)
      PROVE  Fresh'
  BY <1>2 DEF Fresh, Poller!Insert, Poller!JobChanges
<1>3. CASE Poller!Snapshot
  <2>1. poller'.at \in {"empty", "sample"}
    <3>1. CASE Poller!Registered = {}
      BY <1>3, <3>1 DEF Poller!Snapshot
    <3>2. CASE Poller!Registered # {}
      BY <1>3, <3>2 DEF Poller!Snapshot, ThreadTyped, PollerRecord
    <3> QED BY <3>1, <3>2
  <2> QED BY <2>1 DEF Fresh
<1>4. CASE Poller!Block
  BY <1>4 DEF Fresh, Poller!Block, ThreadTyped, PollerRecord
<1>5. CASE Poller!WaitWhileEmpty
  BY <1>5 DEF Fresh, Awake, Poller!WaitWhileEmpty, ThreadTyped, PollerRecord
<1>6. CASE Poller!Emit
  <2>1. /\ poller.at = "emit" /\ poller'.at = "snapshot" /\ poller'.snap = poller.snap
        /\ UNCHANGED <<front, prevTitles, prevBusy, current>>
    BY <1>6 DEF Poller!Emit, ThreadTyped, PollerRecord
  <2> QED BY <2>1 DEF Fresh
<1>7. CASE Poller!Handle
  BY <1>7 DEF Fresh, Poller!Handle
<1>8. ASSUME NEW ok \in SUBSET SESSIONS, Poller!Leaders(ok)
      PROVE  Fresh'
  <2>1. /\ poller'.at = "resolve" /\ poller'.snap = poller.snap /\ poller'.tick = poller.tick
        /\ poller'.leaders = [s \in poller.snap |-> IF s \in ok THEN front[s] ELSE Poller!Unknown]
        /\ UNCHANGED front
    BY <1>8 DEF Poller!Leaders, ThreadTyped, PollerRecord
  <2>2. current' => ok = poller.snap /\ poller.tick = 0
    BY <1>8 DEF Poller!Leaders, Poller!ResolvesTitles
  <2> QED BY <2>1, <2>2 DEF Fresh
<1>9. ASSUME NEW read \in SUBSET SESSIONS, NEW named \in SUBSET SESSIONS, Poller!Resolve(read, named)
      PROVE  Fresh'
  <2>1. /\ poller.at = "resolve" /\ poller'.at = "emit" /\ poller'.snap = poller.snap /\ UNCHANGED front
        /\ current' => current /\ named = poller.snap
    BY <1>9 DEF Poller!Resolve, ThreadTyped, PollerRecord
  <2>2. ASSUME current', NEW s \in poller.snap
        PROVE  /\ s \in DOMAIN prevBusy' /\ prevBusy'[s] = (front[s] # Poller!Shell)
               /\ s \in DOMAIN prevTitles' /\ prevTitles'[s] = front[s]
    <3>1. /\ s \in named /\ poller.leaders[s] = front[s]
      BY <2>1, <2>2 DEF Fresh
    <3>2. s \in DOMAIN Poller!BusyNow
      BY <1>9, <3>1 DEF Poller!Resolve
    <3>3. Poller!BusyNow[s] = (front[s] # Poller!Shell)
      BY <3>1, <3>2 DEF Poller!BusyNow
    <3>4. s \in DOMAIN prevBusy' /\ prevBusy'[s] = Poller!BusyNow[s]
      BY <1>9, <3>2, PassKeeps
    <3>5. s \in DOMAIN prevTitles' /\ prevTitles'[s] = poller.leaders[s]
      BY <1>9, <3>1, PassKeeps
    <3> QED BY <3>1, <3>3, <3>4, <3>5
  <2> QED BY <2>1, <2>2 DEF Fresh
<1> QED BY <1>1, <1>2, <1>3, <1>4, <1>5, <1>6, <1>7, <1>8, <1>9 DEF Poller!Next

(* What was last reported is on its way or has arrived.                    *)
Told == BusyTold /\ NameTold /\ FrontTold

LEMMA QuietTold ==
  ASSUME ThreadTyped, Told, Queue' = Queue, UNCHANGED <<prevBusy, prevTitles>>,
         \A s \in SESSIONS :
           /\ session[s] = "gone" => session'[s] = "gone"
           /\ missed'[s] = missed[s]
           /\ shown[s].attached => shown'[s] = shown[s] \/ session'[s] = "gone"
  PROVE  Told'
<1>1. DOMAIN prevBusy \subseteq SESSIONS /\ DOMAIN prevTitles \subseteq SESSIONS
  BY DEF ThreadTyped, Partial
<1>2. BusyTold'
  BY <1>1 DEF Told, BusyTold, Excepted, Last, None
<1>3. NameTold'
  BY <1>1 DEF Told, NameTold, Excepted, Last, None
<1>4. FrontTold'
  BY <1>1 DEF Told, FrontTold, Excepted, Last, None
<1> QED BY <1>2, <1>3, <1>4 DEF Told

LEMMA HandleTakes ==
  ASSUME SessionTyped, ThreadTyped, Poller!Handle
  PROVE  /\ Queue \in Seq(Poller!Events) /\ Queue # <<>> /\ Queue' = Tail(Queue)
         /\ Head(Queue) \in Poller!Events
         /\ \A s \in SESSIONS :
              /\ Head(Queue).of # s => shown'[s] = shown[s] /\ missed'[s] = missed[s]
              /\ Head(Queue).of = s /\ shown[s].attached =>
                   /\ shown'[s] = Poller!Heard(shown[s], Head(Queue))
                   /\ missed'[s] = missed[s] \ {Head(Queue).kind}
              /\ Head(Queue).of = s /\ ~shown[s].attached =>
                   /\ shown'[s] = shown[s]
                   /\ missed'[s] = missed[s] \cup {Head(Queue).kind}
<1>1. /\ inbox \in Seq(Poller!Events) /\ outbox \in Seq(Poller!Events) /\ inbox # <<>>
      /\ inbox' = Tail(inbox) /\ outbox' = outbox
  BY DEF ThreadTyped, Poller!Handle
<1>2. Queue' = Tail(Queue) /\ Head(Queue) = Head(inbox) /\ Queue # <<>> /\ Queue \in Seq(Poller!Events)
  BY <1>1, TailOfConcat DEF Queue
<1>3. Head(inbox) \in Poller!Events
  BY <1>1, HeadTailProperties
<1> DEFINE e == Head(inbox)
<1>4. IF shown[e.of].attached
      THEN /\ shown' = [shown EXCEPT ![e.of] = Poller!Heard(shown[e.of], e)]
           /\ missed' = [missed EXCEPT ![e.of] = missed[e.of] \ {e.kind}]
      ELSE /\ missed' = [missed EXCEPT ![e.of] = missed[e.of] \cup {e.kind}]
           /\ shown' = shown
  BY DEF Poller!Handle
<1>5. shown \in [SESSIONS -> Poller!Pane] /\ DOMAIN missed = SESSIONS
  BY DEF SessionTyped
<1> HIDE DEF e
<1>6. \A s \in SESSIONS :
         /\ e.of # s => shown'[s] = shown[s] /\ missed'[s] = missed[s]
         /\ e.of = s /\ shown[s].attached =>
              shown'[s] = Poller!Heard(shown[s], e) /\ missed'[s] = missed[s] \ {e.kind}
         /\ e.of = s /\ ~shown[s].attached =>
              shown'[s] = shown[s] /\ missed'[s] = missed[s] \cup {e.kind}
  BY <1>4, <1>5
<1> QED BY <1>2, <1>3, <1>6 DEF e

LEMMA HandleTold ==
  ASSUME SessionTyped, ThreadTyped, Told, Poller!Handle
  PROVE  Told'
<1> DEFINE e == Head(Queue)
<1>1. /\ Queue \in Seq(Poller!Events) /\ Queue # <<>> /\ Queue' = Tail(Queue) /\ e \in Poller!Events
      /\ \A s \in SESSIONS :
           /\ e.of # s => shown'[s] = shown[s] /\ missed'[s] = missed[s]
           /\ e.of = s /\ shown[s].attached =>
                shown'[s] = Poller!Heard(shown[s], e) /\ missed'[s] = missed[s] \ {e.kind}
           /\ e.of = s /\ ~shown[s].attached =>
                shown'[s] = shown[s] /\ missed'[s] = missed[s] \cup {e.kind}
  BY HandleTakes
<1>2. UNCHANGED <<session, prevBusy, prevTitles>>
  BY DEF Poller!Handle
<1>3. DOMAIN prevBusy \subseteq SESSIONS /\ DOMAIN prevTitles \subseteq SESSIONS
  BY DEF ThreadTyped, Partial
<1>4. e.kind \in {"activity", "hint"}
  BY <1>1 DEF Poller!Events
<1>5. \A s \in SESSIONS :
        /\ e.of = s /\ ~shown[s].attached => e.kind \in missed'[s]
        /\ \A k \in missed[s] : (e.of = s /\ e.kind = k) \/ k \in missed'[s]
        /\ e.of = s /\ shown[s].attached =>
             /\ shown'[s].attached
             /\ e.kind = "activity" => shown'[s].busy = e.busy
             /\ e.kind = "hint" => /\ shown'[s].title = e.name /\ shown'[s].foreground = e.name
                                   /\ shown'[s].busy = shown[s].busy
             /\ e.kind = "activity" => shown'[s].title = shown[s].title
  <2> TAKE s \in SESSIONS
  <2>1. shown[s] \in Poller!Pane
    BY DEF SessionTyped
  <2>2. e \in Poller!Events
    BY <1>1
  <2> HIDE DEF e
  <2>3. /\ Poller!Heard(shown[s], e).attached = shown[s].attached
        /\ e.kind = "activity" => Poller!Heard(shown[s], e).busy = e.busy
        /\ e.kind = "activity" => Poller!Heard(shown[s], e).title = shown[s].title
        /\ e.kind = "hint" => /\ Poller!Heard(shown[s], e).title = e.name
                              /\ Poller!Heard(shown[s], e).foreground = e.name
                              /\ Poller!Heard(shown[s], e).busy = shown[s].busy
    BY <2>1, <2>2, HeardTyped
  <2>4. /\ e.of # s => shown'[s] = shown[s] /\ missed'[s] = missed[s]
        /\ e.of = s /\ shown[s].attached =>
             shown'[s] = Poller!Heard(shown[s], e) /\ missed'[s] = missed[s] \ {e.kind}
        /\ e.of = s /\ ~shown[s].attached =>
             shown'[s] = shown[s] /\ missed'[s] = missed[s] \cup {e.kind}
    BY <1>1 DEF e
  <2> QED BY <2>3, <2>4
<1> HIDE DEF e
<1>6. BusyTold'
  <2> SUFFICES ASSUME NEW s \in DOMAIN prevBusy
               PROVE  \/ Last(Queue', Reports(s), Saying(s, prevBusy[s]))
                      \/ /\ None(Queue', Reports(s))
                         /\ \/ session[s] = "gone" \/ "activity" \in missed'[s]
                            \/ shown'[s].attached /\ shown'[s].busy = prevBusy[s]
    BY <1>2 DEF BusyTold, Excepted, Last, None
  <2>1. s \in SESSIONS
    BY <1>3
  <2>2. CASE Last(Queue, Reports(s), Saying(s, prevBusy[s]))
    <3>1. \/ Last(Queue', Reports(s), Saying(s, prevBusy[s]))
          \/ None(Queue', Reports(s)) /\ e \in Saying(s, prevBusy[s])
      BY <1>1, <2>2, TailLast DEF e
    <3>2. e \in Saying(s, prevBusy[s]) => e.of = s /\ e.kind = "activity" /\ e.busy = prevBusy[s]
      BY DEF Saying, Reports, EventsOf
    <3> QED BY <1>5, <2>1, <3>1, <3>2
  <2>3. CASE ~Last(Queue, Reports(s), Saying(s, prevBusy[s]))
    <3>1. /\ None(Queue, Reports(s))
          /\ \/ session[s] = "gone" \/ "activity" \in missed[s]
             \/ shown[s].attached /\ shown[s].busy = prevBusy[s]
      BY <2>3 DEF Told, BusyTold, Excepted
    <3>2. None(Queue', Reports(s)) /\ e \notin Reports(s)
      BY <1>1, <3>1, TailLast DEF e
    <3>3. e.of # s \/ e.kind = "hint"
      BY <1>1, <1>4, <3>2 DEF Reports, EventsOf
    <3> QED BY <1>1, <1>5, <2>1, <3>1, <3>2, <3>3
  <2> QED BY <2>2, <2>3
<1>7. NameTold'
  <2> SUFFICES ASSUME NEW s \in DOMAIN prevTitles
               PROVE  \/ Last(Queue', Hints(s), Naming(s, prevTitles[s]))
                      \/ /\ None(Queue', Hints(s))
                         /\ \/ session[s] = "gone" \/ "hint" \in missed'[s]
                            \/ shown'[s].attached /\ shown'[s].title = prevTitles[s]
    BY <1>2 DEF NameTold, Excepted, Last, None
  <2>1. s \in SESSIONS
    BY <1>3
  <2>2. CASE Last(Queue, Hints(s), Naming(s, prevTitles[s]))
    <3>1. \/ Last(Queue', Hints(s), Naming(s, prevTitles[s]))
          \/ None(Queue', Hints(s)) /\ e \in Naming(s, prevTitles[s])
      BY <1>1, <2>2, TailLast DEF e
    <3>2. e \in Naming(s, prevTitles[s]) => e.of = s /\ e.kind = "hint" /\ e.name = prevTitles[s]
      BY DEF Naming, Hints, EventsOf
    <3> QED BY <1>5, <2>1, <3>1, <3>2
  <2>3. CASE ~Last(Queue, Hints(s), Naming(s, prevTitles[s]))
    <3>1. /\ None(Queue, Hints(s))
          /\ \/ session[s] = "gone" \/ "hint" \in missed[s]
             \/ shown[s].attached /\ shown[s].title = prevTitles[s]
      BY <2>3 DEF Told, NameTold, Excepted
    <3>2. None(Queue', Hints(s)) /\ e \notin Hints(s)
      BY <1>1, <3>1, TailLast DEF e
    <3>3. e.of # s \/ e.kind = "activity"
      BY <1>1, <1>4, <3>2 DEF Hints, EventsOf
    <3> QED BY <1>1, <1>5, <2>1, <3>1, <3>2, <3>3
  <2> QED BY <2>2, <2>3
<1>8. FrontTold'
  <2> SUFFICES ASSUME NEW s \in DOMAIN prevTitles \cap DOMAIN prevBusy, prevBusy[s]
               PROVE  \/ Last(Queue', EventsOf(s), Naming(s, prevTitles[s]))
                      \/ /\ None(Queue', EventsOf(s))
                         /\ \/ session[s] = "gone" \/ "hint" \in missed'[s]
                            \/ shown'[s].attached /\ shown'[s].foreground = prevTitles[s]
    BY <1>2 DEF FrontTold, Excepted, Last, None
  <2>1. s \in SESSIONS
    BY <1>3
  <2>2. CASE Last(Queue, EventsOf(s), Naming(s, prevTitles[s]))
    <3>1. \/ Last(Queue', EventsOf(s), Naming(s, prevTitles[s]))
          \/ None(Queue', EventsOf(s)) /\ e \in Naming(s, prevTitles[s])
      BY <1>1, <2>2, TailLast DEF e
    <3>2. e \in Naming(s, prevTitles[s]) => e.of = s /\ e.kind = "hint" /\ e.name = prevTitles[s]
      BY DEF Naming, Hints, EventsOf
    <3> QED BY <1>5, <2>1, <3>1, <3>2
  <2>3. CASE ~Last(Queue, EventsOf(s), Naming(s, prevTitles[s]))
    <3>1. /\ None(Queue, EventsOf(s))
          /\ \/ session[s] = "gone" \/ "hint" \in missed[s]
             \/ shown[s].attached /\ shown[s].foreground = prevTitles[s]
      BY <2>3 DEF Told, FrontTold, Excepted
    <3>2. None(Queue', EventsOf(s)) /\ e \notin EventsOf(s)
      BY <1>1, <3>1, TailLast DEF e
    <3>3. e.of # s
      BY <1>1, <3>2 DEF EventsOf
    <3> QED BY <1>1, <2>1, <3>1, <3>2, <3>3
  <2> QED BY <2>2, <2>3
<1> QED BY <1>6, <1>7, <1>8 DEF Told

LEMMA ResolveTold ==
  ASSUME PollerConstants, SessionTyped, ThreadTyped, Told,
         NEW read \in SUBSET SESSIONS, NEW named \in SUBSET SESSIONS, Poller!Resolve(read, named)
  PROVE  Told'
<1> DEFINE out == Emitted(read, named)
<1>1. /\ named \in SUBSET DOMAIN Poller!BusyNow /\ outbox' = out
      /\ prevBusy' \in Partial(BOOLEAN) /\ prevTitles' \in Partial(Poller!Names)
      /\ \A s \in DOMAIN prevBusy' :
           /\ s \in DOMAIN Poller!BusyNow => prevBusy'[s] = Poller!BusyNow[s]
           /\ s \notin DOMAIN Poller!BusyNow => s \in DOMAIN prevBusy /\ prevBusy'[s] = prevBusy[s]
      /\ \A s \in DOMAIN prevTitles' :
           /\ s \in named => prevTitles'[s] = poller.leaders[s]
           /\ s \notin named => /\ s \in DOMAIN prevTitles \ Poller!Rises
                                /\ prevTitles'[s] = prevTitles[s]
  BY PassKeeps
<1>2. /\ inbox \in Seq(Poller!Events) /\ outbox = <<>> /\ inbox' = inbox
      /\ UNCHANGED <<session, shown, missed>>
  BY DEF ThreadTyped, Poller!Resolve
<1>3. Queue = inbox /\ Queue' = inbox \o out
  BY <1>1, <1>2 DEF Queue
<1>4. DOMAIN prevBusy' \subseteq SESSIONS /\ DOMAIN prevTitles' \subseteq SESSIONS
  BY <1>1 DEF Partial
<1>5. \A s \in SESSIONS :
        /\ out \in Seq(Poller!Events)
        /\ s \in Raised => Last(out, Reports(s), Saying(s, Poller!BusyNow[s]))
        /\ s \notin Raised => None(out, Reports(s))
        /\ s \in Renamed(named) => /\ Last(out, Hints(s), Naming(s, poller.leaders[s]))
                                   /\ Last(out, EventsOf(s), Naming(s, poller.leaders[s]))
        /\ s \notin Renamed(named) => None(out, Hints(s))
        /\ s \notin Raised \cup Renamed(named) => None(out, EventsOf(s))
  BY <1>1, PassEmits
<1>6. Raised \subseteq DOMAIN Poller!BusyNow /\ Renamed(named) \subseteq named
  BY DEF Raised, Renamed, Poller!Changed, NamesNow
<1>7. \A s \in DOMAIN Poller!BusyNow :
        s \notin Raised => s \in DOMAIN prevBusy /\ prevBusy[s] = Poller!BusyNow[s]
  BY DEF Raised, Poller!Changed
<1>8. \A s \in named : s \notin Renamed(named) =>
        s \in DOMAIN prevTitles \ Poller!Rises /\ prevTitles[s] = poller.leaders[s]
  <2>1. /\ DOMAIN Poller!EnrichedTitles = DOMAIN prevTitles \ Poller!Rises
        /\ \A s \in DOMAIN Poller!EnrichedTitles : Poller!EnrichedTitles[s] = prevTitles[s]
    BY <1>1, PassTyped
  <2> QED BY <2>1 DEF Renamed, Poller!Changed, NamesNow
<1> HIDE DEF out
<1>9. BusyTold'
  <2> SUFFICES ASSUME NEW s \in DOMAIN prevBusy'
               PROVE  \/ Last(Queue', Reports(s), Saying(s, prevBusy'[s]))
                      \/ /\ None(Queue', Reports(s))
                         /\ \/ session[s] = "gone" \/ "activity" \in missed[s]
                            \/ shown[s].attached /\ shown[s].busy = prevBusy'[s]
    BY <1>2 DEF BusyTold, Excepted, Last, None
  <2>1. s \in SESSIONS /\ out \in Seq(Poller!Events)
    BY <1>4, <1>5
  <2>2. CASE s \in Raised
    <3>1. Last(out, Reports(s), Saying(s, prevBusy'[s]))
      BY <1>1, <1>5, <1>6, <2>1, <2>2
    <3> QED BY <1>2, <1>3, <2>1, <3>1, BehindLast
  <2>3. CASE s \notin Raised
    <3>1. s \in DOMAIN prevBusy /\ prevBusy'[s] = prevBusy[s] /\ None(out, Reports(s))
      BY <1>1, <1>5, <1>7, <2>1, <2>3
    <3>2. \/ Last(Queue, Reports(s), Saying(s, prevBusy'[s]))
          \/ /\ None(Queue, Reports(s))
             /\ \/ session[s] = "gone" \/ "activity" \in missed[s]
                \/ shown[s].attached /\ shown[s].busy = prevBusy'[s]
      BY <3>1 DEF Told, BusyTold, Excepted
    <3>3. /\ Last(Queue, Reports(s), Saying(s, prevBusy'[s]))
             => Last(Queue', Reports(s), Saying(s, prevBusy'[s]))
          /\ None(Queue, Reports(s)) => None(Queue', Reports(s))
      BY <1>2, <1>3, <2>1, <3>1, BehindNone
    <3> QED BY <3>2, <3>3
  <2> QED BY <2>2, <2>3
<1>10. NameTold'
  <2> SUFFICES ASSUME NEW s \in DOMAIN prevTitles'
               PROVE  \/ Last(Queue', Hints(s), Naming(s, prevTitles'[s]))
                      \/ /\ None(Queue', Hints(s))
                         /\ \/ session[s] = "gone" \/ "hint" \in missed[s]
                            \/ shown[s].attached /\ shown[s].title = prevTitles'[s]
    BY <1>2 DEF NameTold, Excepted, Last, None
  <2>1. s \in SESSIONS /\ out \in Seq(Poller!Events)
    BY <1>4, <1>5
  <2>2. CASE s \in Renamed(named)
    <3>1. Last(out, Hints(s), Naming(s, prevTitles'[s]))
      BY <1>1, <1>5, <1>6, <2>1, <2>2
    <3> QED BY <1>2, <1>3, <2>1, <3>1, BehindLast
  <2>3. CASE s \notin Renamed(named)
    <3>1. s \in DOMAIN prevTitles /\ prevTitles'[s] = prevTitles[s] /\ None(out, Hints(s))
      BY <1>1, <1>5, <1>8, <2>1, <2>3
    <3>2. \/ Last(Queue, Hints(s), Naming(s, prevTitles'[s]))
          \/ /\ None(Queue, Hints(s))
             /\ \/ session[s] = "gone" \/ "hint" \in missed[s]
                \/ shown[s].attached /\ shown[s].title = prevTitles'[s]
      BY <3>1 DEF Told, NameTold, Excepted
    <3>3. /\ Last(Queue, Hints(s), Naming(s, prevTitles'[s]))
             => Last(Queue', Hints(s), Naming(s, prevTitles'[s]))
          /\ None(Queue, Hints(s)) => None(Queue', Hints(s))
      BY <1>2, <1>3, <2>1, <3>1, BehindNone
    <3> QED BY <3>2, <3>3
  <2> QED BY <2>2, <2>3
<1>11. FrontTold'
  <2> SUFFICES ASSUME NEW s \in DOMAIN prevTitles' \cap DOMAIN prevBusy', prevBusy'[s]
               PROVE  \/ Last(Queue', EventsOf(s), Naming(s, prevTitles'[s]))
                      \/ /\ None(Queue', EventsOf(s))
                         /\ \/ session[s] = "gone" \/ "hint" \in missed[s]
                            \/ shown[s].attached /\ shown[s].foreground = prevTitles'[s]
    BY <1>2 DEF FrontTold, Excepted, Last, None
  <2>1. s \in SESSIONS /\ out \in Seq(Poller!Events)
    BY <1>4, <1>5
  <2>2. CASE s \in Renamed(named)
    <3>1. Last(out, EventsOf(s), Naming(s, prevTitles'[s]))
      BY <1>1, <1>5, <1>6, <2>1, <2>2
    <3> QED BY <1>2, <1>3, <2>1, <3>1, BehindLast
  <2>3. CASE s \notin Renamed(named)
    <3>1. s \in DOMAIN prevTitles \ Poller!Rises /\ prevTitles'[s] = prevTitles[s]
      BY <1>1, <1>8, <2>1, <2>3
    <3>2. s \notin Raised /\ s \in DOMAIN prevBusy /\ prevBusy[s]
      <4>1. CASE s \in DOMAIN Poller!BusyNow
        <5>1. Poller!BusyNow[s] = prevBusy'[s]
          BY <1>1, <4>1
        <5>2. s \in DOMAIN prevBusy /\ prevBusy[s]
          BY <3>1, <4>1, <5>1 DEF Poller!Rises
        <5>3. prevBusy \in [DOMAIN prevBusy -> BOOLEAN] /\ Poller!BusyNow[s] \in BOOLEAN
          BY <1>1, <4>1, PassTyped
        <5>4. prevBusy[s] = Poller!BusyNow[s]
          BY <5>1, <5>2, <5>3
        <5> QED BY <5>2, <5>4 DEF Raised, Poller!Changed
      <4>2. CASE s \notin DOMAIN Poller!BusyNow
        BY <1>1, <1>6, <4>2
      <4> QED BY <4>1, <4>2
    <3>3. \/ Last(Queue, EventsOf(s), Naming(s, prevTitles'[s]))
          \/ /\ None(Queue, EventsOf(s))
             /\ \/ session[s] = "gone" \/ "hint" \in missed[s]
                \/ shown[s].attached /\ shown[s].foreground = prevTitles'[s]
      BY <3>1, <3>2 DEF Told, FrontTold, Excepted
    <3>4. None(out, EventsOf(s))
      BY <1>5, <2>1, <2>3, <3>2
    <3>5. /\ Last(Queue, EventsOf(s), Naming(s, prevTitles'[s]))
             => Last(Queue', EventsOf(s), Naming(s, prevTitles'[s]))
          /\ None(Queue, EventsOf(s)) => None(Queue', EventsOf(s))
      BY <1>2, <1>3, <2>1, <3>4, BehindNone
    <3> QED BY <3>3, <3>5
  <2> QED BY <2>2, <2>3
<1> QED BY <1>9, <1>10, <1>11 DEF Told

LEMMA StaysTold ==
  ASSUME PollerConstants, SessionTyped, ThreadTyped, Attached, Told, Poller!Next
  PROVE  Told'
<1>0. inbox \in Seq(Poller!Events) /\ outbox \in Seq(Poller!Events) /\ DOMAIN shown = SESSIONS
      /\ DOMAIN session = SESSIONS
  BY DEF ThreadTyped, SessionTyped
<1>1. ASSUME NEW s \in SESSIONS,
             \/ Poller!Insert(s) \/ Poller!NotifySessionOpened(s) \/ Poller!Attach(s) \/ Poller!End(s)
             \/ \E job \in Poller!Fronts : Poller!JobChanges(s, job)
      PROVE  Told'
  <2>1. UNCHANGED <<inbox, outbox, prevBusy, prevTitles, missed>>
    BY <1>1 DEF Poller!Insert, Poller!NotifySessionOpened, Poller!Attach, Poller!End, Poller!JobChanges
  <2>2. \A t \in SESSIONS : session[t] = "gone" => session'[t] = "gone"
    BY <1>0, <1>1 DEF Poller!Insert, Poller!NotifySessionOpened, Poller!Attach, Poller!End,
                      Poller!JobChanges
  <2>3. \A t \in SESSIONS : shown[t].attached => shown'[t] = shown[t] \/ session'[t] = "gone"
    BY <1>0, <1>1 DEF Poller!Insert, Poller!NotifySessionOpened, Poller!Attach, Poller!End,
                      Poller!JobChanges
  <2>4. Queue' = Queue
    BY <2>1 DEF Queue
  <2> QED BY <2>1, <2>2, <2>3, <2>4, QuietTold
<1>2. CASE Poller!Snapshot
  <2>1. UNCHANGED <<inbox, outbox, session, shown, missed>>
    BY <1>2 DEF Poller!Snapshot
  <2>2. CASE Poller!Registered = {}
    <3>1. DOMAIN prevBusy' = {} /\ DOMAIN prevTitles' = {}
      BY <1>2, <2>2 DEF Poller!Snapshot, Poller!Empty
    <3> QED BY <3>1 DEF Told, BusyTold, NameTold, FrontTold
  <2>3. CASE Poller!Registered # {}
    <3>1. UNCHANGED <<prevBusy, prevTitles>>
      BY <1>2, <2>3 DEF Poller!Snapshot
    <3>2. Queue' = Queue
      BY <2>1 DEF Queue
    <3> QED BY <2>1, <3>1, <3>2, QuietTold
  <2> QED BY <2>2, <2>3
<1>3. CASE Poller!Block \/ Poller!WaitWhileEmpty \/ \E ok \in SUBSET SESSIONS : Poller!Leaders(ok)
  <2>1. UNCHANGED <<inbox, outbox, session, shown, missed, prevBusy, prevTitles>>
    BY <1>3 DEF Poller!Block, Poller!WaitWhileEmpty, Poller!Leaders
  <2>2. Queue' = Queue
    BY <2>1 DEF Queue
  <2> QED BY <2>1, <2>2, QuietTold
<1>4. CASE Poller!Emit
  <2>1. /\ UNCHANGED <<session, shown, missed, prevBusy, prevTitles>>
        /\ inbox' = inbox \o outbox /\ outbox' = <<>>
    BY <1>4 DEF Poller!Emit
  <2>2. Queue' = Queue
    <3>1. inbox \o outbox \in Seq(Poller!Events)
      BY <1>0
    <3> QED BY <2>1, <3>1, ConcatEmptySeq DEF Queue
  <2> QED BY <2>1, <2>2, QuietTold
<1>5. CASE Poller!Handle
  BY <1>5, HandleTold
<1>6. ASSUME NEW read \in SUBSET SESSIONS, NEW named \in SUBSET SESSIONS, Poller!Resolve(read, named)
      PROVE  Told'
  BY <1>6, ResolveTold
<1> QED BY <1>1, <1>2, <1>3, <1>4, <1>5, <1>6 DEF Poller!Next

(* The poller's invariant is inductive, and it implies what a run checks.  *)
LEMMA PollerStep ==
  ASSUME PollerConstants, PollerInv, [Poller!Next]_(Poller!vars)
  PROVE  PollerInv'
<1>1. CASE Poller!Next
  <2>1. SessionTyped' /\ ThreadTyped'
    BY <1>1, SessionsKeepType, ThreadKeepsType DEF PollerInv
  <2>2. Awake' /\ Attached' /\ Fresh'
    BY <1>1, StaysAwake, StaysFresh DEF PollerInv
  <2>3. Told'
    BY <1>1, StaysTold DEF PollerInv, Told
  <2> QED BY <2>1, <2>2, <2>3 DEF PollerInv, Told
<1>2. CASE UNCHANGED Poller!vars
  <2>1. SessionTyped' /\ ThreadTyped' /\ Awake' /\ Attached' /\ Fresh'
    BY <1>2 DEF PollerInv, SessionTyped, ThreadTyped, Awake, Attached, Fresh, Poller!vars
  <2>2. Queue' = Queue
    BY <1>2 DEF Queue, Poller!vars
  <2>3. Told'
    BY <1>2, <2>2, QuietTold DEF PollerInv, Told, Poller!vars
  <2> QED BY <2>1, <2>3 DEF PollerInv, Told
<1> QED BY <1>1, <1>2

LEMMA PollerTells ==
  ASSUME PollerInv
  PROVE  Poller!NeverStranded /\ Poller!PanesTrue
<1>1. Poller!NeverStranded
  BY DEF PollerInv, Awake, Poller!NeverStranded
<1>2. ASSUME current, poller.at = "snapshot", inbox = <<>>, NEW s \in poller.snap, shown[s].attached
      PROVE  /\ "activity" \notin missed[s] => shown[s].busy = (front[s] # Poller!Shell)
             /\ "hint" \notin missed[s] =>
                  /\ shown[s].title = front[s]
                  /\ front[s] # Poller!Shell => shown[s].foreground = front[s]
  <2>1. Len(Queue) = 0
    BY <1>2 DEF PollerInv, ThreadTyped, Queue
  <2>2. s \in SESSIONS /\ session[s] # "gone"
    BY <1>2 DEF PollerInv, ThreadTyped, PollerRecord, Attached
  <2>3. /\ s \in DOMAIN prevBusy /\ prevBusy[s] = (front[s] # Poller!Shell)
        /\ s \in DOMAIN prevTitles /\ prevTitles[s] = front[s]
    BY <1>2 DEF PollerInv, Fresh
  <2>4. "activity" \notin missed[s] => shown[s].busy = prevBusy[s]
    BY <2>1, <2>2, <2>3 DEF PollerInv, BusyTold, Excepted, Last
  <2>5. "hint" \notin missed[s] => shown[s].title = prevTitles[s]
    BY <2>1, <2>2, <2>3 DEF PollerInv, NameTold, Excepted, Last
  <2>6. "hint" \notin missed[s] /\ prevBusy[s] => shown[s].foreground = prevTitles[s]
    BY <2>1, <2>2, <2>3 DEF PollerInv, FrontTold, Excepted, Last
  <2> QED BY <2>3, <2>4, <2>5, <2>6
<1>3. Poller!PanesTrue
  BY <1>2 DEF Poller!PanesTrue
<1> QED BY <1>1, <1>3

-----------------------------------------------------------------------------
(* The Finder's directories.                                               *)

\* The types, without the bounds.
FinderTyped ==
  /\ queue \in Seq(PATHS) /\ boot \in Seq(PATHS) /\ replies \in SUBSET Seq(PATHS)
  /\ provider \in [at : {"idle", "queued"}, handed : SUBSET PATHS]
  /\ page \in {"loading", "fetching", "fetched", "mounted"} /\ booted \in BOOLEAN
  /\ nudges \in Nat /\ takes \in Nat /\ stale \in Nat /\ orphans \in Nat
  /\ opened \in [PATHS -> Nat] /\ lost \in SUBSET PATHS

\* The page boots once, with what it fetched.
BootsOnce ==
  /\ booted <=> page = "mounted"
  /\ page = "loading" => boot = <<>>

\* A sequence that names nothing twice, and what a page that has not booted holds.
Distinct(q) == \A m, n \in DOMAIN q : q[m] = q[n] => m = n
Fetched == IF booted THEN {} ELSE Finder!Elements(boot)
Taken == UNION {Finder!Elements(batch) : batch \in replies}

Waiting == Finder!Elements(queue)

\* What was handed over is in one place at most, ...
OnePlace ==
  /\ Waiting \cap Taken = {} /\ Waiting \cap Fetched = {} /\ Fetched \cap Taken = {}
  /\ lost \cap (Waiting \cup Taken \cup Fetched) = {}
  /\ (Waiting \cup Taken \cup Fetched \cup lost) \subseteq provider.handed

\* ... and there once.
ThereOnce ==
  /\ Distinct(queue) /\ Distinct(boot) /\ \A batch \in replies : Distinct(batch)
  /\ \A a, b \in replies : a # b => Finder!Elements(a) \cap Finder!Elements(b) = {}

\* What is in none of them was opened once, if it was handed over.
OpenedOrHeld ==
  \A p \in PATHS :
    opened[p] = IF p \in provider.handed \ (Waiting \cup Taken \cup Fetched \cup lost) THEN 1 ELSE 0

FinderInv ==
  FinderTyped /\ BootsOnce /\ OnePlace /\ ThereOnce /\ OpenedOrHeld /\ Finder!QueueDrained

LEMMA SameCount ==
  ASSUME NEW S
  PROVE  Finder!Cardinality(S) = Cardinality(S)
BY DEF Finder!Cardinality, Cardinality

(* A batch in which nothing is twice is opened once.                       *)
LEMMA OpensOnce ==
  ASSUME FinderTyped, NEW paths \in Seq(PATHS), Distinct(paths), Finder!Opens(paths)
  PROVE  /\ opened' \in [PATHS -> Nat]
         /\ \A p \in PATHS : opened'[p] = IF p \in Finder!Elements(paths) THEN opened[p] + 1 ELSE opened[p]
<1> DEFINE places(p) == {n \in DOMAIN paths : paths[n] = p}
<1>1. opened' = [p \in PATHS |-> opened[p] + Cardinality(places(p))]
  BY SameCount DEF Finder!Opens
<1>2. ASSUME NEW p \in PATHS
      PROVE  /\ Cardinality(places(p)) = (IF p \in Finder!Elements(paths) THEN 1 ELSE 0)
             /\ opened[p] \in Nat
  <2>1. CASE p \in Finder!Elements(paths)
    <3>1. PICK n \in DOMAIN paths : paths[n] = p
      BY <2>1 DEF Finder!Elements
    <3>2. places(p) = {n}
      BY <3>1 DEF Distinct
    <3> QED BY <2>1, <3>2, FS_Singleton DEF FinderTyped
  <2>2. CASE p \notin Finder!Elements(paths)
    <3>1. places(p) = {}
      BY <2>2 DEF Finder!Elements
    <3> QED BY <2>2, <3>1, FS_EmptySet DEF FinderTyped
  <2> QED BY <2>1, <2>2
<1> HIDE DEF places
<1> QED BY <1>1, <1>2

LEMMA FinderStart ==
  ASSUME Finder!Init
  PROVE  FinderInv
<1>1. Waiting = {} /\ Fetched = {} /\ Taken = {} /\ lost = {} /\ provider.handed = {}
  BY DEF Finder!Init, Finder!Elements, Fetched, Taken, Waiting
<1>2. FinderTyped /\ BootsOnce
  <2>1. provider \in [at : {"idle", "queued"}, handed : SUBSET PATHS] /\ BootsOnce
    BY DEF Finder!Init, BootsOnce
  <2>2. queue \in Seq(PATHS) /\ boot \in Seq(PATHS) /\ replies \in SUBSET Seq(PATHS)
    BY DEF Finder!Init
  <2> QED BY <2>1, <2>2 DEF Finder!Init, FinderTyped
<1>3. OnePlace /\ ThereOnce
  BY <1>1 DEF OnePlace, ThereOnce, Finder!Init, Distinct
<1>4. OpenedOrHeld
  BY <1>1 DEF OpenedOrHeld, Finder!Init
<1>5. Finder!QueueDrained
  BY DEF Finder!QueueDrained, Finder!Init
<1> QED BY <1>2, <1>3, <1>4, <1>5 DEF FinderInv

(* The types, the boot and the drain.                                      *)
LEMMA FinderKeepsType ==
  ASSUME FinderTyped, BootsOnce, ThereOnce, Finder!QueueDrained, Finder!Next
  PROVE  FinderTyped' /\ BootsOnce' /\ Finder!QueueDrained'
<1> USE DEF FinderTyped, BootsOnce, Finder!QueueDrained, Finder!Webview, Finder!Drains
<1>1. ASSUME NEW p \in PATHS, Finder!Enqueue(p)
      PROVE  FinderTyped' /\ BootsOnce' /\ Finder!QueueDrained'
  <2>1. Append(queue, p) \in Seq(PATHS)
    OBVIOUS
  <2> QED BY <1>1, <2>1 DEF Finder!Enqueue
<1>2. CASE Finder!Nudge
  <2>1. provider' \in [at : {"idle", "queued"}, handed : SUBSET PATHS]
    BY <1>2 DEF Finder!Nudge
  <2>2. nudges' \in Nat /\ (listener' = "resolved" => nudges' # 0)
    BY <1>2 DEF Finder!Nudge
  <2> QED BY <1>2, <2>1, <2>2 DEF Finder!Nudge
<1>3. CASE Finder!Take
  <2>1. <<>> \in Seq(PATHS)
    OBVIOUS
  <2> QED BY <1>3, <2>1 DEF Finder!Take
<1>4. CASE Finder!TakeForNobody
  <2>1. <<>> \in Seq(PATHS) /\ Finder!Elements(queue) \in SUBSET PATHS
    BY DEF Finder!Elements
  <2> QED BY <1>4, <2>1 DEF Finder!TakeForNobody
<1>5. CASE Finder!Fetch
  <2>1. <<>> \in Seq(PATHS)
    OBVIOUS
  <2> QED BY <1>5, <2>1 DEF Finder!Fetch
<1>6. CASE Finder!Fetched \/ Finder!Registered \/ Finder!Resolved
  BY <1>6 DEF Finder!Fetched, Finder!Registered, Finder!Resolved
<1>7. CASE Finder!Heard
  BY <1>7 DEF Finder!Heard
<1>8. CASE Finder!Mount
  <2>1. opened' \in [PATHS -> Nat]
    <3>1. CASE Finder!Opens(boot)
      BY <3>1, OpensOnce DEF ThereOnce
    <3>2. CASE ~Finder!Opens(boot)
      BY <1>8, <3>2 DEF Finder!Mount
    <3> QED BY <3>1, <3>2
  <2> QED BY <1>8, <2>1 DEF Finder!Mount, Finder!None
<1>9. ASSUME NEW paths \in replies, Finder!Deliver(paths)
      PROVE  FinderTyped' /\ BootsOnce' /\ Finder!QueueDrained'
  <2>1. opened' \in [PATHS -> Nat]
    BY <1>9, OpensOnce DEF ThereOnce, Finder!Deliver
  <2> QED BY <1>9, <2>1 DEF Finder!Deliver
<1>10. CASE Finder!Reload
  <2>1. <<>> \in Seq(PATHS) /\ UNION {Finder!Elements(batch) : batch \in replies} \in SUBSET PATHS
    BY DEF Finder!Elements
  <2>2. lost' \in SUBSET PATHS
    BY <1>10, <2>1 DEF Finder!Reload
  <2>3. orphans' \in Nat
    BY <1>10 DEF Finder!Reload
  <2>4. UNCHANGED <<queue, provider, opened>> /\ boot' = <<>> /\ replies' = {} /\ listener' # "resolved"
    BY <1>10 DEF Finder!Reload, Finder!None
  <2>5. page' = "loading" /\ booted' = FALSE /\ nudges' = 0 /\ takes' = 0 /\ stale' = 0
    BY <1>10 DEF Finder!Reload
  <2>6. BootsOnce' /\ Finder!QueueDrained'
    BY <2>4, <2>5
  <2> QED BY <2>1, <2>2, <2>3, <2>4, <2>5, <2>6
<1> QED BY <1>1, <1>2, <1>3, <1>4, <1>5, <1>6, <1>7, <1>8, <1>9, <1>10 DEF Finder!Next

(* Where the paths are.                                                    *)
LEMMA PlacesStay ==
  ASSUME OnePlace, ThereOnce, OpenedOrHeld,
         UNCHANGED <<queue, boot, booted, replies, lost, opened>>, provider'.handed = provider.handed
  PROVE  OnePlace' /\ ThereOnce' /\ OpenedOrHeld'
<1>1. UNCHANGED <<Waiting, Taken, Fetched>>
  BY DEF Waiting, Taken, Fetched, Finder!Elements
<1>2. ThereOnce'
  BY DEF ThereOnce, Distinct, Finder!Elements
<1> QED BY <1>1, <1>2 DEF OnePlace, OpenedOrHeld

LEMMA PlacesKept ==
  ASSUME FinderTyped, BootsOnce, OnePlace, ThereOnce, OpenedOrHeld, Finder!Next
  PROVE  OnePlace' /\ ThereOnce' /\ OpenedOrHeld'
<1>0. /\ queue \in Seq(PATHS) /\ boot \in Seq(PATHS) /\ replies \in SUBSET Seq(PATHS)
      /\ opened \in [PATHS -> Nat] /\ provider.handed \in SUBSET PATHS
  BY DEF FinderTyped
<1>1. ASSUME NEW p \in PATHS, Finder!Enqueue(p)
      PROVE  OnePlace' /\ ThereOnce' /\ OpenedOrHeld'
  <2>1. /\ p \notin provider.handed /\ queue' = Append(queue, p)
        /\ provider'.handed = provider.handed \cup {p}
        /\ UNCHANGED <<boot, booted, replies, lost, opened>>
    BY <1>1 DEF Finder!Enqueue, Finder!Webview, Finder!Drains
  <2>2. /\ Len(queue) \in Nat /\ Len(queue') = Len(queue) + 1 /\ queue'[Len(queue) + 1] = p
        /\ \A n \in 1..Len(queue) : queue'[n] = queue[n]
        /\ DOMAIN queue = 1..Len(queue) /\ DOMAIN queue' = 1..(Len(queue) + 1)
    BY <1>0, <2>1
  <2>3. Waiting' = Waiting \cup {p}
    BY <2>2 DEF Waiting, Finder!Elements
  <2>4. UNCHANGED <<Taken, Fetched>>
    BY <2>1 DEF Taken, Fetched, Finder!Elements
  <2>5. \A n \in DOMAIN queue : queue[n] # p
    BY <2>1 DEF OnePlace, Waiting, Finder!Elements
  <2>6. \A m, n \in DOMAIN queue' : queue'[m] = queue'[n] => m = n
    BY <2>2, <2>5 DEF ThereOnce, Distinct
  <2>7. ThereOnce'
    BY <2>1, <2>6 DEF ThereOnce, Distinct, Finder!Elements
  <2> QED BY <2>1, <2>3, <2>4, <2>7 DEF OnePlace, OpenedOrHeld
<1>2. CASE Finder!Nudge \/ Finder!Fetched \/ Finder!Registered \/ Finder!Resolved \/ Finder!Heard
  <2>1. UNCHANGED <<queue, boot, booted, replies, lost, opened>> /\ provider'.handed = provider.handed
    BY <1>2 DEF Finder!Nudge, Finder!Fetched, Finder!Registered, Finder!Resolved, Finder!Heard,
                Finder!Webview, Finder!Drains, FinderTyped
  <2> QED BY <2>1, PlacesStay
<1>3. CASE Finder!Take
  <2>1. /\ replies' = (IF queue = <<>> THEN replies ELSE replies \cup {queue}) /\ queue' = <<>>
        /\ UNCHANGED <<boot, booted, lost, opened, provider>>
    BY <1>3 DEF Finder!Take, Finder!Webview
  <2>2. Waiting' = {} /\ UNCHANGED Fetched
    BY <2>1 DEF Waiting, Fetched, Finder!Elements
  <2>3. Taken' = Taken \cup Waiting
    BY <1>0, <2>1 DEF Waiting, Taken, Finder!Elements
  <2>4. \A a \in replies : Finder!Elements(a) \cap Finder!Elements(queue) = {}
    BY DEF OnePlace, Taken, Waiting
  <2>5. \A a \in replies' : Distinct(a)
    BY <2>1 DEF ThereOnce
  <2>6. \A a, b \in replies' : a # b => Finder!Elements(a) \cap Finder!Elements(b) = {}
    BY <2>1, <2>4 DEF ThereOnce
  <2>7. UNCHANGED boot /\ Distinct(boot) /\ queue' = <<>>
    BY <2>1 DEF ThereOnce
  <2>8. \A m, n \in DOMAIN queue' : queue'[m] = queue'[n] => m = n
    BY <2>7
  <2>9. ThereOnce'
    BY <2>5, <2>6, <2>7, <2>8 DEF ThereOnce, Distinct, Finder!Elements
  <2> QED BY <2>1, <2>2, <2>3, <2>9 DEF OnePlace, OpenedOrHeld
<1>4. CASE Finder!TakeForNobody
  <2>1. /\ queue' = <<>> /\ lost' = lost \cup Waiting
        /\ UNCHANGED <<boot, booted, replies, opened, provider>>
    BY <1>4 DEF Finder!TakeForNobody, Waiting
  <2>2. Waiting' = {} /\ UNCHANGED <<Taken, Fetched>>
    BY <2>1 DEF Waiting, Taken, Fetched, Finder!Elements
  <2>3. ThereOnce'
    BY <2>1 DEF ThereOnce, Distinct, Finder!Elements
  <2> QED BY <2>1, <2>2, <2>3 DEF OnePlace, OpenedOrHeld
<1>5. CASE Finder!Fetch
  <2>1. /\ queue' = <<>> /\ boot' = queue /\ boot = <<>> /\ ~booted
        /\ UNCHANGED <<booted, replies, lost, opened, provider>>
    BY <1>5 DEF Finder!Fetch, Finder!Drains, BootsOnce
  <2>2. Waiting' = {} /\ Fetched' = Waiting /\ UNCHANGED Taken /\ Fetched = {}
    BY <2>1 DEF Waiting, Taken, Fetched, Finder!Elements
  <2>3. ThereOnce'
    BY <2>1 DEF ThereOnce, Distinct, Finder!Elements
  <2> QED BY <2>1, <2>2, <2>3 DEF OnePlace, OpenedOrHeld
<1>6. CASE Finder!Mount
  <2>1. booted' = TRUE /\ UNCHANGED <<queue, boot, replies, lost, provider>>
    BY <1>6 DEF Finder!Mount, Finder!Drains
  <2>2. Fetched' = {} /\ UNCHANGED <<Waiting, Taken>>
    BY <2>1 DEF Fetched, Waiting, Taken, Finder!Elements
  <2>3. ThereOnce'
    BY <2>1 DEF ThereOnce, Distinct, Finder!Elements
  <2>4. \A p \in PATHS : opened'[p] = IF p \in Fetched THEN opened[p] + 1 ELSE opened[p]
    <3>1. CASE ~booted /\ boot # <<>>
      <4>1. Finder!Opens(boot) /\ Distinct(boot) /\ Fetched = Finder!Elements(boot)
        BY <1>6, <3>1 DEF Finder!Mount, ThereOnce, Fetched
      <4> QED BY <1>0, <4>1, OpensOnce
    <3>2. CASE booted \/ boot = <<>>
      <4>1. Fetched = {} /\ opened' = opened
        BY <1>6, <3>2 DEF Finder!Mount, Fetched, Finder!Elements
      <4> QED BY <4>1
    <3> QED BY <3>1, <3>2
  <2>5. \A p \in PATHS : p \in Fetched => opened[p] = 0 /\ p \in provider.handed
    BY DEF OpenedOrHeld, OnePlace
  <2>6. OnePlace'
    BY <2>1, <2>2 DEF OnePlace
  <2>7. OpenedOrHeld'
    BY <2>1, <2>2, <2>4, <2>5 DEF OnePlace, OpenedOrHeld
  <2> QED BY <2>3, <2>6, <2>7
<1>7. ASSUME NEW paths \in replies, Finder!Deliver(paths)
      PROVE  OnePlace' /\ ThereOnce' /\ OpenedOrHeld'
  <2> DEFINE these == Finder!Elements(paths)
  <2>1. /\ replies' = replies \ {paths} /\ Finder!Opens(paths)
        /\ UNCHANGED <<queue, boot, booted, lost, provider>>
    BY <1>7 DEF Finder!Deliver
  <2>2. UNCHANGED <<Waiting, Fetched>>
    BY <2>1 DEF Fetched, Waiting, Finder!Elements
  <2>3. these \subseteq Taken /\ Taken' = Taken \ these
    <3>1. \A a \in replies : a # paths => Finder!Elements(a) \cap these = {}
      BY DEF ThereOnce
    <3>2. Taken' = UNION {Finder!Elements(batch) : batch \in replies \ {paths}}
      BY <2>1 DEF Taken, Finder!Elements
    <3> HIDE DEF these
    <3>3. Taken = UNION {Finder!Elements(batch) : batch \in replies} /\ these = Finder!Elements(paths)
      BY DEF Taken, these
    <3> QED BY <3>1, <3>2, <3>3
  <2>4. ThereOnce'
    BY <2>1 DEF ThereOnce, Distinct, Finder!Elements
  <2>5. \A p \in PATHS : opened'[p] = IF p \in these THEN opened[p] + 1 ELSE opened[p]
    BY <1>0, <2>1, OpensOnce DEF ThereOnce
  <2> HIDE DEF these
  <2>6. \A p \in PATHS : p \in these => opened[p] = 0 /\ p \in provider.handed
    BY <2>3 DEF OpenedOrHeld, OnePlace
  <2>7. OnePlace'
    BY <2>1, <2>2, <2>3 DEF OnePlace
  <2>8. OpenedOrHeld'
    BY <2>1, <2>2, <2>3, <2>5, <2>6 DEF OnePlace, OpenedOrHeld
  <2> QED BY <2>4, <2>7, <2>8
<1>8. CASE Finder!Reload
  <2>1. /\ booted /\ ~booted' /\ boot' = <<>> /\ replies' = {} /\ lost' = lost \cup Taken
        /\ UNCHANGED <<queue, opened, provider>>
    BY <1>8 DEF Finder!Reload, BootsOnce, Taken
  <2>2. Fetched = {} /\ Fetched' = {} /\ Taken' = {} /\ Waiting' = Waiting
    BY <2>1 DEF Fetched, Taken, Waiting, Finder!Elements
  <2>3. ThereOnce'
    BY <2>1 DEF ThereOnce, Distinct, Finder!Elements
  <2> QED BY <2>1, <2>2, <2>3 DEF OnePlace, OpenedOrHeld
<1> QED BY <1>1, <1>2, <1>3, <1>4, <1>5, <1>6, <1>7, <1>8 DEF Finder!Next

LEMMA FinderStep ==
  ASSUME FinderInv, [Finder!Next]_(Finder!vars)
  PROVE  FinderInv'
<1>1. CASE Finder!Next
  BY <1>1, FinderKeepsType, PlacesKept DEF FinderInv
<1>2. CASE UNCHANGED Finder!vars
  <2>1. OnePlace' /\ ThereOnce' /\ OpenedOrHeld'
    BY <1>2, PlacesStay DEF FinderInv, Finder!vars
  <2> QED BY <1>2, <2>1 DEF FinderInv, FinderTyped, BootsOnce, Finder!QueueDrained, Finder!vars
<1> QED BY <1>1, <1>2

LEMMA FinderOpens ==
  ASSUME FinderInv
  PROVE  Finder!OpenedOnce /\ Finder!QueueDrained
<1>1. provider.handed \in SUBSET PATHS
  BY DEF FinderInv, FinderTyped
<1>2. \A p \in provider.handed :
        IF p \in (Waiting \cup Taken \cup Fetched) \cup lost THEN opened[p] = 0 ELSE opened[p] = 1
  BY <1>1 DEF FinderInv, OpenedOrHeld
<1>3. Finder!OpenedOnce
  BY <1>2 DEF Finder!OpenedOnce, Waiting, Taken, Fetched
<1> QED BY <1>3 DEF FinderInv

-----------------------------------------------------------------------------
(* The enhancement trees.                                                  *)

\* What the constants are: finitely many versions, and lists of them.
TreesConstants ==
  /\ IsFiniteSet(VERSIONS) /\ Trees!None \notin VERSIONS /\ INSTALLED \subseteq Seq(VERSIONS)

Tree == [files : Trees!Removal, marker : BOOLEAN, build : Nat]
Call ==
  [version : VERSIONS \cup {Trees!None},
   at : {"idle", "staging", "staged", "blocked", "clearing", "cleared", "sweeping", "removing",
         "ready", "failed", "done"},
   victims : SUBSET VERSIONS, on : Nat, io : BOOLEAN]

\* The types, without the bounds; a call has a version once it has begun.
TreesTyped ==
  /\ builds \in Nat /\ tree \in [VERSIONS -> Tree] /\ builder \in [Trees!BUILDERS -> Call]
  /\ shell \in [Trees!BUILDERS -> {"none", "whole", "torn", "bare"}]
  /\ \A b \in Trees!BUILDERS : builder[b].at = "idle" <=> builder[b].version = Trees!None

\* While there are two versions at most, every tree that is there is whole, ...
TreesWhole ==
  /\ cut = {}
  /\ \A v \in VERSIONS : IF tree[v].build = 0 THEN tree[v].files = "none" /\ ~tree[v].marker
                         ELSE tree[v].files = "all" /\ tree[v].marker

\* ... and no call has anything to remove, or goes on without its tree but after an error.
CallCalm(call) ==
  /\ call.at \notin {"clearing", "cleared"} /\ call.victims = {} /\ call.on = 0
  /\ call.at \in {"sweeping", "removing", "ready"} => tree[call.version].build # 0
  /\ call.at = "blocked" /\ ~call.io => tree[call.version].build # 0
  /\ call.at = "failed" => call.io

ShellWhole(b) == shell[b] # "torn" /\ (shell[b] = "bare" => builder[b].io)

Calm == TreesWhole /\ \A b \in Trees!BUILDERS : CallCalm(builder[b]) /\ ShellWhole(b)

TreesInv ==
  /\ TreesTyped /\ Trees!MarkerMeansWhole
  /\ Trees!Cardinality(Trees!Present) <= 2 => Calm

LEMMA TreesCount ==
  ASSUME NEW S
  PROVE  Trees!Cardinality(S) = Cardinality(S)
BY DEF Trees!Cardinality, Cardinality

LEMMA ThreeAreMore ==
  ASSUME NEW S, IsFiniteSet(S), NEW x \in S, NEW y \in S, NEW z \in S, x # y, y # z, x # z
  PROVE  Cardinality(S) >= 3
<1>2. IsFiniteSet({x}) /\ Cardinality({x}) = 1
  BY FS_Singleton
<1>3. IsFiniteSet({x} \cup {y}) /\ Cardinality({x} \cup {y}) = 2
  <2>1. y \notin {x}
    OBVIOUS
  <2>2. IsFiniteSet({x} \cup {y}) /\ Cardinality({x} \cup {y}) = Cardinality({x}) + 1
    BY <1>2, <2>1, FS_AddElement
  <2> QED BY <1>2, <2>2
<1>4. IsFiniteSet({x} \cup {y} \cup {z}) /\ Cardinality({x} \cup {y} \cup {z}) = 3
  <2>1. z \notin {x} \cup {y}
    OBVIOUS
  <2>2. /\ IsFiniteSet(({x} \cup {y}) \cup {z})
        /\ Cardinality(({x} \cup {y}) \cup {z}) = Cardinality({x} \cup {y}) + 1
    BY <1>3, <2>1, FS_AddElement
  <2> QED BY <1>3, <2>2
<1>5. Cardinality({x} \cup {y} \cup {z}) <= Cardinality(S)
  BY FS_Subset
<1>6. Cardinality(S) \in Nat
  BY FS_CardinalityType
<1> QED BY <1>4, <1>5, <1>6

LEMMA TreesStart ==
  ASSUME TreesConstants, Trees!Init
  PROVE  TreesInv
<1>1. PICK there \in INSTALLED :
        /\ tree = [v \in VERSIONS |->
                    IF \E n \in DOMAIN there : there[n] = v
                    THEN Trees!Whole(CHOOSE n \in DOMAIN there : there[n] = v) ELSE Trees!Missing]
        /\ builds = Len(there)
        /\ builder = [b \in Trees!BUILDERS |-> Trees!Idle]
        /\ shell = [b \in Trees!BUILDERS |-> "none"] /\ cut = {}
  BY DEF Trees!Init
<1>2. Len(there) \in Nat /\ DOMAIN there = 1..Len(there)
  BY DEF TreesConstants
<1>3. \A v \in VERSIONS :
        tree[v] = Trees!Missing \/ \E n \in 1..Len(there) : tree[v] = Trees!Whole(n)
  <2> SUFFICES ASSUME NEW v \in VERSIONS
               PROVE  tree[v] = Trees!Missing \/ \E n \in 1..Len(there) : tree[v] = Trees!Whole(n)
    OBVIOUS
  <2>1. CASE \E n \in DOMAIN there : there[n] = v
    <3> DEFINE at == CHOOSE n \in DOMAIN there : there[n] = v
    <3>1. at \in 1..Len(there)
      BY <2>1, <1>2
    <3>2. tree[v] = Trees!Whole(at)
      BY <2>1, <1>1
    <3> QED BY <3>1, <3>2
  <2>2. CASE ~\E n \in DOMAIN there : there[n] = v
    BY <2>2, <1>1
  <2> QED BY <2>1, <2>2
<1>4. \A v \in VERSIONS : tree[v] \in Tree
  <2>1. Trees!Missing \in Tree
    BY DEF Tree, Trees!Missing, Trees!Removal
  <2>2. \A n \in 1..Len(there) : Trees!Whole(n) \in Tree
    BY <1>2 DEF Tree, Trees!Whole, Trees!Removal
  <2> QED BY <1>3, <2>1, <2>2
<1>5. TreesWhole
  BY <1>1, <1>2, <1>3 DEF TreesWhole, Trees!Missing, Trees!Whole
<1>6. Trees!Idle \in Call
  BY DEF Trees!Idle, Call
<1>7. tree \in [VERSIONS -> Tree]
  BY <1>1, <1>4
<1>8. TreesTyped
  <2>1. builder \in [Trees!BUILDERS -> Call]
    BY <1>1, <1>6
  <2>2. \A b \in Trees!BUILDERS : builder[b].at = "idle" /\ builder[b].version = Trees!None
    BY <1>1 DEF Trees!Idle
  <2>3. shell \in [Trees!BUILDERS -> {"none", "whole", "torn", "bare"}]
    BY <1>1
  <2> QED BY <1>1, <1>2, <1>7, <2>1, <2>2, <2>3 DEF TreesTyped
<1>9. \A b \in Trees!BUILDERS : CallCalm(builder[b]) /\ ShellWhole(b)
  BY <1>1 DEF CallCalm, ShellWhole, Trees!Idle
<1>10. Trees!MarkerMeansWhole
  BY <1>5 DEF Trees!MarkerMeansWhole, TreesWhole
<1> QED BY <1>5, <1>8, <1>9, <1>10 DEF TreesInv, Calm

\* What no step undoes: a tree that was put into place, the version of a call.
TreesOnward ==
  /\ TreesTyped'
  /\ \A v \in VERSIONS : tree[v].build # 0 => tree'[v].build # 0
  /\ \A b \in Trees!BUILDERS :
       builder[b].version # Trees!None => builder'[b].version = builder[b].version

\* A step of one call: another step, victims, an open directory, an error.
LEMMA CallMoves ==
  ASSUME TreesTyped, NEW b \in Trees!BUILDERS, NEW c \in Call,
         c.at # "idle", c.version = builder[b].version, builder[b].at # "idle",
         builder' = [builder EXCEPT ![b] = c], tree' \in [VERSIONS -> Tree], builds' \in Nat,
         shell' \in [Trees!BUILDERS -> {"none", "whole", "torn", "bare"}],
         \A v \in VERSIONS : tree[v].build # 0 => tree'[v].build # 0
  PROVE  TreesOnward
<1>1. builder' \in [Trees!BUILDERS -> Call] /\ \A a \in Trees!BUILDERS \ {b} : builder'[a] = builder[a]
  BY DEF TreesTyped
<1>2. builder'[b] = c
  BY DEF TreesTyped
<1>3. \A a \in Trees!BUILDERS : builder'[a].at = "idle" <=> builder'[a].version = Trees!None
  BY <1>1, <1>2 DEF TreesTyped
<1>4. \A a \in Trees!BUILDERS :
        builder[a].version # Trees!None => builder'[a].version = builder[a].version
  BY <1>1, <1>2
<1> QED BY <1>1, <1>3, <1>4 DEF TreesOnward, TreesTyped

\* The steps that only move the call on.
LEMMA TreesLookup ==
  ASSUME TreesConstants, TreesTyped, NEW b \in Trees!BUILDERS, NEW v \in VERSIONS, Trees!Lookup(b, v)
  PROVE  TreesOnward
<1> DEFINE c == [builder[b] EXCEPT !.version = v,
                   !.at = IF tree[v].marker THEN "ready" ELSE "staging"]
<1>1. builder' = [builder EXCEPT ![b] = c] /\ tree' = tree /\ builds' = builds /\ shell' = shell
  BY DEF Trees!Lookup
<1>2. c \in Call /\ c.at # "idle" /\ c.version # Trees!None
  BY DEF TreesTyped, Call, TreesConstants
<1>3. builder[b].version = Trees!None
  BY DEF Trees!Lookup, Trees!At, TreesTyped
<1> HIDE DEF c
<1>4. builder' \in [Trees!BUILDERS -> Call] /\ \A a \in Trees!BUILDERS \ {b} : builder'[a] = builder[a]
  BY <1>1, <1>2 DEF TreesTyped
<1>5. builder'[b] = c
  BY <1>1 DEF TreesTyped
<1>6. \A a \in Trees!BUILDERS : builder'[a].at = "idle" <=> builder'[a].version = Trees!None
  BY <1>2, <1>4, <1>5 DEF TreesTyped
<1>7. \A a \in Trees!BUILDERS :
        builder[a].version # Trees!None => builder'[a].version = builder[a].version
  BY <1>3, <1>4
<1>8. TreesTyped'
  BY <1>1, <1>4, <1>6 DEF TreesTyped
<1> QED BY <1>1, <1>7, <1>8 DEF TreesOnward

LEMMA TreesStage ==
  ASSUME TreesTyped, NEW b \in Trees!BUILDERS, Trees!Stage(b)
  PROVE  TreesOnward
<1>1. tree' = tree /\ builds' = builds /\ shell' = shell /\ builder[b].at = "staging"
  BY DEF Trees!Stage, Trees!At
<1>2. builder[b] \in Call
  BY DEF TreesTyped
<1>3. PICK c \in {[builder[b] EXCEPT !.at = "staged"],
                  [builder[b] EXCEPT !.at = "failed", !.io = TRUE]} :
        builder' = [builder EXCEPT ![b] = c]
  BY DEF Trees!Stage, Trees!Goes, Trees!Errs
<1>4. c \in Call /\ c.at # "idle" /\ c.version = builder[b].version
  BY <1>2, <1>3 DEF Call
<1> QED BY <1>1, <1>3, <1>4, CallMoves DEF TreesTyped

\* A step that leaves the trees alone.
LEMMA CallMovesOnly ==
  ASSUME TreesTyped, NEW b \in Trees!BUILDERS, NEW c \in Call,
         c.at # "idle", c.version = builder[b].version, builder[b].at # "idle",
         builder' = [builder EXCEPT ![b] = c], tree' = tree, builds' = builds, shell' = shell
  PROVE  TreesOnward
<1>1. /\ tree' \in [VERSIONS -> Tree] /\ builds' \in Nat
      /\ shell' \in [Trees!BUILDERS -> {"none", "whole", "torn", "bare"}]
  BY DEF TreesTyped
<1> QED BY <1>1, CallMoves

LEMMA TreesPlace ==
  ASSUME TreesConstants, TreesTyped, NEW b \in Trees!BUILDERS, builder[b].at # "idle",
         Trees!Place(b)
  PROVE  TreesOnward
<1> DEFINE c == [builder[b] EXCEPT !.at = "sweeping"]
<1>1. builder' = [builder EXCEPT ![b] = c] /\ shell' = shell /\ builds' = builds + 1
  BY DEF Trees!Place, Trees!Goes
<1>2. builder[b] \in Call /\ builder[b].version \in VERSIONS /\ builds \in Nat
  BY DEF TreesTyped, Call
<1>3. c \in Call /\ c.at # "idle" /\ c.version = builder[b].version
  BY <1>2 DEF Call
<1>4. Trees!Whole(builds + 1) \in Tree /\ Trees!Whole(builds + 1).build # 0
  BY <1>2 DEF Tree, Trees!Whole, Trees!Removal
<1>5. tree' = [tree EXCEPT ![builder[b].version] = Trees!Whole(builds + 1)]
  BY DEF Trees!Place
<1>6. /\ tree' \in [VERSIONS -> Tree]
      /\ \A v \in VERSIONS : tree[v].build # 0 => tree'[v].build # 0
  BY <1>2, <1>4, <1>5 DEF TreesTyped
<1>7. builds' \in Nat /\ shell' \in [Trees!BUILDERS -> {"none", "whole", "torn", "bare"}]
  BY <1>1, <1>2 DEF TreesTyped
<1> HIDE DEF c
<1> QED BY <1>1, <1>3, <1>6, <1>7, CallMoves

LEMMA TreesRename ==
  ASSUME TreesConstants, TreesTyped, NEW b \in Trees!BUILDERS, Trees!Rename(b)
  PROVE  TreesOnward
<1>1. builder[b] \in Call /\ builder[b].at = "staged"
  BY DEF Trees!Rename, Trees!At, TreesTyped
<1>2. CASE Trees!Place(b)
  BY <1>1, <1>2, TreesPlace
<1>3. CASE ~Trees!Place(b)
  <2>1. PICK c \in {[builder[b] EXCEPT !.at = "blocked"],
                    [builder[b] EXCEPT !.at = "blocked", !.io = TRUE]} :
          builder' = [builder EXCEPT ![b] = c]
    BY <1>3 DEF Trees!Rename, Trees!Goes
  <2>2. c \in Call /\ c.at # "idle" /\ c.version = builder[b].version
    BY <1>1, <2>1 DEF Call
  <2>3. tree' = tree /\ builds' = builds /\ shell' = shell
    BY <1>3 DEF Trees!Rename
  <2> QED BY <1>1, <2>1, <2>2, <2>3, CallMovesOnly
<1> QED BY <1>2, <1>3

LEMMA TreesInstall ==
  ASSUME TreesConstants, TreesTyped, NEW b \in Trees!BUILDERS, Trees!Install(b)
  PROVE  TreesOnward
<1>1. builder[b] \in Call /\ builder[b].at = "cleared"
  BY DEF Trees!Install, Trees!At, TreesTyped
<1>2. CASE Trees!Place(b)
  BY <1>1, <1>2, TreesPlace
<1>3. CASE ~Trees!Place(b)
  <2>1. PICK c \in {[builder[b] EXCEPT !.at = "failed"],
                    [builder[b] EXCEPT !.at = "failed", !.io = TRUE]} :
          builder' = [builder EXCEPT ![b] = c]
    BY <1>3 DEF Trees!Install, Trees!Goes, Trees!Errs
  <2>2. c \in Call /\ c.at # "idle" /\ c.version = builder[b].version
    BY <1>1, <2>1 DEF Call
  <2>3. tree' = tree /\ builds' = builds /\ shell' = shell
    BY <1>3 DEF Trees!Install
  <2> QED BY <1>1, <2>1, <2>2, <2>3, CallMovesOnly
<1> QED BY <1>2, <1>3

LEMMA TreesBlocked ==
  ASSUME TreesTyped, NEW b \in Trees!BUILDERS, Trees!Blocked(b)
  PROVE  TreesOnward
<1>1. tree' = tree /\ builds' = builds /\ shell' = shell /\ builder[b].at = "blocked"
  BY DEF Trees!Blocked, Trees!At
<1>2. builder[b] \in Call
  BY DEF TreesTyped
<1>3. PICK s \in {"sweeping", "clearing", "failed"} :
        builder' = [builder EXCEPT ![b] = [builder[b] EXCEPT !.at = s]]
  BY DEF Trees!Blocked, Trees!Goes
<1>4. /\ [builder[b] EXCEPT !.at = s] \in Call
      /\ [builder[b] EXCEPT !.at = s].at # "idle"
      /\ [builder[b] EXCEPT !.at = s].version = builder[b].version
  BY <1>2, <1>3 DEF Call
<1> QED BY <1>1, <1>3, <1>4, CallMovesOnly

\* Trees keep their build while they are taken apart.
LEMMA TreesTaken ==
  ASSUME TreesTyped, NEW b \in Trees!BUILDERS, NEW v \in VERSIONS,
         Trees!Removes(b, v) \/ Trees!RemovesDirectory(v)
  PROVE  /\ tree' \in [VERSIONS -> Tree]
         /\ \A w \in VERSIONS : tree'[w].build = tree[w].build
<1>1. tree \in [VERSIONS -> Tree] /\ tree[v] \in Tree
  BY DEF TreesTyped
<1>2. PICK t \in Tree : t.build = tree[v].build /\ (tree' = [tree EXCEPT ![v] = t])
  <2>1. CASE Trees!Removes(b, v) /\ tree[v].files = "all"
    <3>1. PICK m \in BOOLEAN : tree' = [tree EXCEPT ![v].files = "some", ![v].marker = m]
      BY <2>1 DEF Trees!Removes
    <3> DEFINE t == [tree[v] EXCEPT !.files = "some", !.marker = m]
    <3>2. t \in Tree /\ t.build = tree[v].build
      BY <1>1 DEF Tree, Trees!Removal
    <3>3. tree' = [tree EXCEPT ![v] = t]
      BY <3>1
    <3> HIDE DEF t
    <3> QED BY <3>2, <3>3
  <2>2. CASE Trees!Removes(b, v) /\ tree[v].files # "all"
    <3> DEFINE t == [tree[v] EXCEPT !.files = "empty", !.marker = FALSE]
    <3>1. tree' = [tree EXCEPT ![v] = t]
      BY <2>2 DEF Trees!Removes
    <3>2. t \in Tree /\ t.build = tree[v].build
      BY <1>1 DEF Tree, Trees!Removal
    <3> HIDE DEF t
    <3> QED BY <3>1, <3>2
  <2>3. CASE Trees!RemovesDirectory(v) /\ tree[v].files = "empty"
    <3> DEFINE t == [tree[v] EXCEPT !.files = "none"]
    <3>1. tree' = [tree EXCEPT ![v] = t]
      BY <2>3 DEF Trees!RemovesDirectory
    <3>2. t \in Tree /\ t.build = tree[v].build
      BY <1>1 DEF Tree, Trees!Removal
    <3> HIDE DEF t
    <3> QED BY <3>1, <3>2
  <2>4. CASE Trees!RemovesDirectory(v) /\ tree[v].files # "empty"
    <3>1. tree' = [tree EXCEPT ![v] = tree[v]]
      BY <2>4, <1>1 DEF Trees!RemovesDirectory
    <3> QED BY <1>1, <3>1
  <2> QED BY <2>1, <2>2, <2>3, <2>4
<1> QED BY <1>1, <1>2

\* A file or two of a tree gone, by a call under way.
LEMMA TreesRemoves ==
  ASSUME TreesTyped, NEW b \in Trees!BUILDERS, NEW v \in VERSIONS, Trees!Removes(b, v)
  PROVE  TreesOnward
<1>1. builder' = builder /\ builds' = builds /\ shell' = shell
  BY DEF Trees!Removes
<1>2. tree' \in [VERSIONS -> Tree] /\ \A w \in VERSIONS : tree'[w].build = tree[w].build
  BY TreesTaken
<1>3. TreesTyped'
  BY <1>1, <1>2 DEF TreesTyped
<1> QED BY <1>1, <1>2, <1>3 DEF TreesOnward

LEMMA TreesClear ==
  ASSUME TreesConstants, TreesTyped, NEW b \in Trees!BUILDERS, Trees!Clear(b)
  PROVE  TreesOnward
<1> DEFINE v == builder[b].version
<1>1. builder[b] \in Call /\ builder[b].at = "clearing" /\ v \in VERSIONS
  BY DEF Trees!Clear, Trees!At, TreesTyped, Call
<1>2. tree[v] \in Tree /\ tree[v].build \in Nat
  BY <1>1 DEF TreesTyped, Tree
<1>3. CASE Trees!Removes(b, v)
  BY <1>1, <1>3, TreesRemoves
<1>4. CASE Trees!Emptied(b, v) /\ Trees!RemovesDirectory(v) /\ builds' = builds /\ shell' = shell
           /\ builder' = [builder EXCEPT ![b].on = 0,
                            ![b].at = IF tree[v].files = "empty" THEN "cleared" ELSE "failed"]
  <2> DEFINE c == [builder[b] EXCEPT !.on = 0,
                     !.at = IF tree[v].files = "empty" THEN "cleared" ELSE "failed"]
  <2>1. builder' = [builder EXCEPT ![b] = c]
    BY <1>4
  <2>2. c \in Call /\ c.at # "idle" /\ c.version = builder[b].version
    BY <1>1 DEF Call
  <2>3. tree' \in [VERSIONS -> Tree] /\ \A w \in VERSIONS : tree'[w].build = tree[w].build
    BY <1>1, <1>4, TreesTaken
  <2>4. builds' \in Nat /\ shell' \in [Trees!BUILDERS -> {"none", "whole", "torn", "bare"}]
    BY <1>4 DEF TreesTyped
  <2> HIDE DEF c, v
  <2>5. \A w \in VERSIONS : tree[w].build # 0 => tree'[w].build # 0
    BY <2>3
  <2> QED BY <1>1, <2>1, <2>2, <2>3, <2>4, <2>5, CallMoves
<1>5. CASE \/ /\ Trees!Opens(b, v) /\ tree' = tree /\ builds' = builds /\ shell' = shell
           \/ /\ Trees!Goes(b, "failed") /\ tree' = tree /\ builds' = builds /\ shell' = shell
           \/ /\ Trees!Errs(b) /\ tree' = tree /\ builds' = builds /\ shell' = shell
  <2>1. PICK c \in {[builder[b] EXCEPT !.on = tree[v].build], [builder[b] EXCEPT !.at = "failed"],
                    [builder[b] EXCEPT !.at = "failed", !.io = TRUE]} :
          builder' = [builder EXCEPT ![b] = c]
    BY <1>5 DEF Trees!Opens, Trees!Goes, Trees!Errs
  <2>2. c \in Call /\ c.at # "idle" /\ c.version = builder[b].version
    BY <1>1, <1>2, <2>1 DEF Call
  <2>3. tree' = tree /\ builds' = builds /\ shell' = shell
    BY <1>5
  <2> QED BY <1>1, <2>1, <2>2, <2>3, CallMovesOnly
<1> HIDE DEF v
<1> QED BY <1>3, <1>4, <1>5 DEF Trees!Clear, v

LEMMA TreesSweep ==
  ASSUME TreesTyped, NEW b \in Trees!BUILDERS, Trees!Sweep(b)
  PROVE  TreesOnward
<1>1. tree' = tree /\ builds' = builds /\ shell' = shell /\ builder[b].at = "sweeping"
  BY DEF Trees!Sweep, Trees!At
<1>2. builder[b] \in Call
  BY DEF TreesTyped
<1>3. CASE Trees!Goes(b, "ready")
  <2>1. builder' = [builder EXCEPT ![b] = [builder[b] EXCEPT !.at = "ready"]]
    BY <1>3 DEF Trees!Goes
  <2>2. /\ [builder[b] EXCEPT !.at = "ready"] \in Call
        /\ [builder[b] EXCEPT !.at = "ready"].at # "idle"
        /\ [builder[b] EXCEPT !.at = "ready"].version = builder[b].version
    BY <1>2 DEF Call
  <2> QED BY <1>1, <2>1, <2>2, CallMovesOnly
<1>4. CASE ~Trees!Goes(b, "ready")
  <2>1. PICK kept \in SUBSET Trees!CompleteOthers(b) :
          builder' = [builder EXCEPT ![b].at = "removing", ![b].victims = Trees!Others(b) \ kept]
    BY <1>4 DEF Trees!Sweep
  <2> DEFINE c == [builder[b] EXCEPT !.at = "removing", !.victims = Trees!Others(b) \ kept]
  <2>2. Trees!Others(b) \ kept \in SUBSET VERSIONS
    BY DEF Trees!Others
  <2>3. c \in Call /\ c.at # "idle" /\ c.version = builder[b].version
    BY <1>2, <2>2 DEF Call
  <2>4. builder' = [builder EXCEPT ![b] = c]
    BY <2>1
  <2> HIDE DEF c
  <2> QED BY <1>1, <2>3, <2>4, CallMovesOnly
<1> QED BY <1>3, <1>4

LEMMA TreesRemove ==
  ASSUME TreesConstants, TreesTyped, NEW b \in Trees!BUILDERS, Trees!Remove(b)
  PROVE  TreesOnward
<1>1. builder[b] \in Call /\ builder[b].at = "removing" /\ builder[b].victims \in SUBSET VERSIONS
  BY DEF Trees!Remove, Trees!At, TreesTyped, Call
<1>2. CASE Trees!Goes(b, "ready") /\ tree' = tree /\ builds' = builds /\ shell' = shell
  <2>1. builder' = [builder EXCEPT ![b] = [builder[b] EXCEPT !.at = "ready"]]
    BY <1>2 DEF Trees!Goes
  <2>2. /\ [builder[b] EXCEPT !.at = "ready"] \in Call
        /\ [builder[b] EXCEPT !.at = "ready"].at # "idle"
        /\ [builder[b] EXCEPT !.at = "ready"].version = builder[b].version
    BY <1>1 DEF Call
  <2> QED BY <1>1, <1>2, <2>1, <2>2, CallMovesOnly
<1>3. ASSUME NEW v \in builder[b].victims, Trees!Removes(b, v)
      PROVE  TreesOnward
  BY <1>1, <1>3, TreesRemoves
<1>4. ASSUME NEW v \in builder[b].victims, Trees!Opens(b, v),
             tree' = tree, builds' = builds, shell' = shell
      PROVE  TreesOnward
  <2> DEFINE c == [builder[b] EXCEPT !.on = tree[v].build]
  <2>1. builder' = [builder EXCEPT ![b] = c]
    BY <1>4 DEF Trees!Opens
  <2>2. tree[v].build \in Nat
    BY <1>1 DEF TreesTyped, Tree
  <2>3. c \in Call /\ c.at # "idle" /\ c.version = builder[b].version
    BY <1>1, <2>2 DEF Call
  <2> HIDE DEF c
  <2> QED BY <1>1, <1>4, <2>1, <2>3, CallMovesOnly
<1>5. ASSUME NEW v \in builder[b].victims, Trees!RemovesDirectory(v) \/ tree' = tree,
             builder' = [builder EXCEPT ![b].on = 0, ![b].victims = @ \ {v}],
             builds' = builds, shell' = shell
      PROVE  TreesOnward
  <2> DEFINE c == [builder[b] EXCEPT !.on = 0, !.victims = @ \ {v}]
  <2>1. builder' = [builder EXCEPT ![b] = c]
    BY <1>5
  <2>2. c \in Call /\ c.at # "idle" /\ c.version = builder[b].version
    BY <1>1 DEF Call
  <2>3. tree' \in [VERSIONS -> Tree] /\ \A w \in VERSIONS : tree'[w].build = tree[w].build
    <3>1. CASE tree' = tree
      BY <3>1 DEF TreesTyped
    <3>2. CASE Trees!RemovesDirectory(v)
      BY <1>1, <3>2, TreesTaken
    <3> QED BY <1>5, <3>1, <3>2
  <2>4. builds' \in Nat /\ shell' \in [Trees!BUILDERS -> {"none", "whole", "torn", "bare"}]
    BY <1>5 DEF TreesTyped
  <2> HIDE DEF c
  <2>5. \A w \in VERSIONS : tree[w].build # 0 => tree'[w].build # 0
    BY <2>3
  <2> QED BY <1>1, <2>1, <2>2, <2>3, <2>4, <2>5, CallMoves
<1> QED BY <1>2, <1>3, <1>4, <1>5 DEF Trees!Remove

LEMMA TreesEnds ==
  ASSUME TreesTyped, NEW b \in Trees!BUILDERS, Trees!Start(b) \/ Trees!Dies(b)
  PROVE  TreesOnward
<1> DEFINE c == [builder[b] EXCEPT !.at = "done", !.victims = {}, !.on = 0]
<1>1. tree' = tree /\ builds' = builds /\ builder[b].at # "idle"
  BY DEF Trees!Start, Trees!Dies, Trees!At
<1>2. builder' = [builder EXCEPT ![b] = c]
  BY DEF Trees!Start, Trees!Dies
<1>3. c \in Call /\ c.at # "idle" /\ c.version = builder[b].version
  BY DEF Call, TreesTyped
<1>4. shell' \in [Trees!BUILDERS -> {"none", "whole", "torn", "bare"}]
  <2>1. CASE Trees!Dies(b)
    BY <2>1 DEF Trees!Dies, TreesTyped
  <2>2. CASE Trees!Start(b)
    <3>1. PICK s \in {"whole", "torn", "bare"} : shell' = [shell EXCEPT ![b] = s]
      BY <2>2 DEF Trees!Start
    <3> QED BY <3>1 DEF TreesTyped
  <2> QED BY <2>1, <2>2
<1> HIDE DEF c
<1>5. tree' \in [VERSIONS -> Tree] /\ builds' \in Nat
  BY <1>1 DEF TreesTyped
<1> QED BY <1>1, <1>2, <1>3, <1>4, <1>5, CallMoves

\* Every step of a call carries on.
LEMMA TreesCarryOn ==
  ASSUME TreesConstants, TreesTyped, Trees!Next
  PROVE  TreesOnward
<1>1. PICK b \in Trees!BUILDERS :
        \/ \E v \in VERSIONS : Trees!Lookup(b, v)
        \/ Trees!Stage(b) \/ Trees!Rename(b) \/ Trees!Blocked(b) \/ Trees!Clear(b)
        \/ Trees!Install(b) \/ Trees!Sweep(b) \/ Trees!Remove(b) \/ Trees!Start(b) \/ Trees!Dies(b)
  BY DEF Trees!Next
<1> QED BY <1>1, TreesLookup, TreesStage, TreesRename, TreesBlocked, TreesClear, TreesInstall,
           TreesSweep, TreesRemove, TreesEnds

\* Versions that are there, or that some call is of, only come, ...
LEMMA VersionsCome ==
  ASSUME TreesConstants, TreesOnward
  PROVE  Trees!Present \subseteq Trees!Present'
<1> SUFFICES ASSUME NEW v \in Trees!Present PROVE v \in Trees!Present'
  OBVIOUS
<1>1. v \in VERSIONS /\ v # Trees!None
  BY DEF Trees!Present, TreesConstants
<1>2. CASE tree[v].build # 0
  <2>1. tree'[v].build # 0
    BY <1>1, <1>2 DEF TreesOnward
  <2> QED BY <1>1, <2>1 DEF Trees!Present
<1>3. CASE \E b \in Trees!BUILDERS : builder[b].version = v
  <2>1. PICK b \in Trees!BUILDERS : builder[b].version = v
    BY <1>3
  <2>2. builder'[b].version = v
    BY <1>1, <2>1 DEF TreesOnward
  <2> QED BY <1>1, <2>2 DEF Trees!Present
<1> QED BY <1>2, <1>3 DEF Trees!Present

\* ... so that as long as there are two there never were more.
LEMMA NeverWereMore ==
  ASSUME TreesConstants, TreesOnward, Trees!Cardinality(Trees!Present') <= 2
  PROVE  Trees!Cardinality(Trees!Present) <= 2
<1>1. Trees!Present \subseteq Trees!Present' /\ Trees!Present' \subseteq VERSIONS
  BY VersionsCome DEF Trees!Present
<1>2. IsFiniteSet(VERSIONS)
  BY DEF TreesConstants
<1> DEFINE was == Trees!Present
           is == Trees!Present'
<1>3. IsFiniteSet(is)
  BY <1>1, <1>2, FS_Subset
<1>4. Trees!Cardinality(was) = Cardinality(was) /\ Trees!Cardinality(is) = Cardinality(is)
  BY TreesCount
<1> HIDE DEF was, is
<1>5. IsFiniteSet(was) /\ Cardinality(was) <= Cardinality(is)
  BY <1>1, <1>3, FS_Subset DEF was, is
<1>6. Cardinality(was) \in Nat /\ Cardinality(is) \in Nat
  BY <1>3, <1>5, FS_CardinalityType
<1>7. Trees!Cardinality(is) <= 2
  BY DEF is
<1>8. Cardinality(was) <= 2
  BY <1>4, <1>5, <1>6, <1>7
<1> QED BY <1>4, <1>8 DEF was

\* Three versions are more than two.
LEMMA NoThird ==
  ASSUME TreesConstants, Trees!Cardinality(Trees!Present) <= 2,
         NEW x \in Trees!Present, NEW y \in Trees!Present, NEW z \in Trees!Present,
         x # y, y # z, x # z
  PROVE  FALSE
<1>1. IsFiniteSet(VERSIONS) /\ Trees!Present \subseteq VERSIONS
  BY DEF TreesConstants, Trees!Present
<1> DEFINE S == Trees!Present
<1>2. IsFiniteSet(S) /\ x \in S /\ y \in S /\ z \in S /\ Trees!Cardinality(S) <= 2
  BY <1>1, FS_Subset
<1> HIDE DEF S
<1>3. Cardinality(S) >= 3 /\ Cardinality(S) <= 2 /\ Cardinality(S) \in Nat
  BY <1>2, ThreeAreMore, TreesCount, FS_CardinalityType
<1> QED BY <1>3

\* The marker of a tree nobody has begun to remove: it goes with the files.
LEMMA MarkerKept ==
  ASSUME TreesTyped, TreesOnward, Trees!MarkerMeansWhole, Trees!Next
  PROVE  Trees!MarkerMeansWhole'
<1>1. PICK b \in Trees!BUILDERS :
        \/ \E v \in VERSIONS : Trees!Lookup(b, v)
        \/ Trees!Stage(b) \/ Trees!Rename(b) \/ Trees!Blocked(b) \/ Trees!Clear(b)
        \/ Trees!Install(b) \/ Trees!Sweep(b) \/ Trees!Remove(b) \/ Trees!Start(b) \/ Trees!Dies(b)
  BY DEF Trees!Next
<1>2. tree \in [VERSIONS -> Tree]
  BY DEF TreesTyped
<1>3. CASE tree' = tree /\ cut' = cut
  BY <1>3 DEF Trees!MarkerMeansWhole, Trees!CutTrees
<1>4. CASE Trees!Place(b)
  <2>1. tree' = [tree EXCEPT ![builder[b].version] = Trees!Whole(builds + 1)] /\ cut' = cut
    BY <1>4 DEF Trees!Place
  <2>2. Trees!Whole(builds + 1).files = "all"
    BY DEF Trees!Whole
  <2>3. \A v \in VERSIONS : tree'[v] = tree[v] \/ tree'[v].files = "all"
    BY <1>2, <2>1, <2>2
  <2> QED BY <2>1, <2>3 DEF Trees!MarkerMeansWhole, Trees!CutTrees
<1>5. ASSUME NEW v \in VERSIONS, Trees!Removes(b, v)
      PROVE  Trees!MarkerMeansWhole'
  <2>1. cut' = cut \cup {tree[v].build} /\ \A w \in VERSIONS : tree'[w].build = tree[w].build
    BY <1>5, TreesTaken DEF Trees!Removes
  <2>2. \A w \in VERSIONS \ {v} : tree'[w] = tree[w]
    BY <1>2, <1>5 DEF Trees!Removes
  <2> QED BY <2>1, <2>2 DEF Trees!MarkerMeansWhole, Trees!CutTrees
<1>6. ASSUME NEW v \in VERSIONS, Trees!RemovesDirectory(v), cut' = cut
      PROVE  Trees!MarkerMeansWhole'
  <2>1. CASE tree[v].files = "empty"
    <3>1. tree' = [tree EXCEPT ![v].files = "none"]
      BY <1>6, <2>1 DEF Trees!RemovesDirectory
    <3>2. /\ tree'[v].marker = tree[v].marker /\ tree'[v].build = tree[v].build
          /\ \A w \in VERSIONS \ {v} : tree'[w] = tree[w]
      BY <1>2, <3>1 DEF Tree
    <3>3. tree[v].files # "all"
      BY <2>1
    <3> QED BY <1>6, <3>2, <3>3 DEF Trees!MarkerMeansWhole, Trees!CutTrees
  <2>2. CASE tree[v].files # "empty"
    BY <1>3, <1>6, <2>2 DEF Trees!RemovesDirectory
  <2> QED BY <2>1, <2>2
<1>7. builder[b].at # "idle" => builder[b].version \in VERSIONS /\ builder[b].victims \subseteq VERSIONS
  BY DEF TreesTyped, Call
<1>8. CASE Trees!Rename(b) \/ Trees!Install(b)
  BY <1>3, <1>4, <1>8 DEF Trees!Rename, Trees!Install
<1>9. CASE Trees!Clear(b)
  <2>1. builder[b].version \in VERSIONS
    BY <1>7, <1>9 DEF Trees!Clear, Trees!At
  <2> QED BY <1>3, <1>5, <1>6, <1>9, <2>1 DEF Trees!Clear
<1>10. CASE Trees!Remove(b)
  <2>1. builder[b].victims \subseteq VERSIONS
    BY <1>7, <1>10 DEF Trees!Remove, Trees!At
  <2> QED BY <1>3, <1>5, <1>6, <1>10, <2>1 DEF Trees!Remove
<1>11. CASE (\E v \in VERSIONS : Trees!Lookup(b, v)) \/ Trees!Stage(b) \/ Trees!Blocked(b)
  BY <1>3, <1>11 DEF Trees!Lookup, Trees!Stage, Trees!Blocked
<1>12. CASE Trees!Sweep(b) \/ Trees!Start(b) \/ Trees!Dies(b)
  BY <1>3, <1>12 DEF Trees!Sweep, Trees!Start, Trees!Dies
<1> QED BY <1>1, <1>8, <1>9, <1>10, <1>11, <1>12

\* A call that moves on with nothing to remove, and the trees as they were.
LEMMA CalmOn ==
  ASSUME TreesTyped, Calm, NEW b \in Trees!BUILDERS, NEW c \in Call, CallCalm(c),
         builder' = [builder EXCEPT ![b] = c], builder[b].io => c.io,
         tree' = tree, cut' = cut, shell' = shell
  PROVE  Calm'
<1>1. builder'[b] = c /\ \A a \in Trees!BUILDERS \ {b} : builder'[a] = builder[a]
  BY DEF TreesTyped
<1>2. TreesWhole'
  BY DEF Calm, TreesWhole
<1>3. \A a \in Trees!BUILDERS : shell'[a] # "torn" /\ (shell'[a] = "bare" => builder'[a].io)
  BY <1>1 DEF Calm, ShellWhole
<1>4. ASSUME NEW a \in Trees!BUILDERS
      PROVE  /\ builder'[a].at \notin {"clearing", "cleared"}
             /\ builder'[a].victims = {} /\ builder'[a].on = 0
             /\ builder'[a].at \in {"sweeping", "removing", "ready"}
                  => tree'[builder'[a].version].build # 0
             /\ builder'[a].at = "blocked" /\ ~builder'[a].io
                  => tree'[builder'[a].version].build # 0
             /\ builder'[a].at = "failed" => builder'[a].io
  <2>1. CASE a = b
    BY <1>1, <2>1 DEF CallCalm
  <2>2. CASE a # b
    <3>1. CallCalm(builder[a]) /\ builder'[a] = builder[a]
      BY <1>1, <1>4, <2>2 DEF Calm
    <3> QED BY <3>1 DEF CallCalm
  <2> QED BY <2>1, <2>2
<1> QED BY <1>2, <1>3, <1>4 DEF Calm, CallCalm, ShellWhole

\* A tree put into place is whole.
LEMMA CalmPlace ==
  ASSUME TreesConstants, TreesTyped, Calm, NEW b \in Trees!BUILDERS, builder[b].at # "idle",
         Trees!Place(b)
  PROVE  Calm'
<1> DEFINE c == [builder[b] EXCEPT !.at = "sweeping"]
           u == builder[b].version
<1>1. builder' = [builder EXCEPT ![b] = c] /\ shell' = shell /\ cut' = cut
  BY DEF Trees!Place, Trees!Goes
<1>2. builder[b] \in Call /\ u \in VERSIONS /\ builds \in Nat /\ CallCalm(builder[b])
  BY DEF TreesTyped, Call, Calm
<1>3. tree' = [tree EXCEPT ![u] = Trees!Whole(builds + 1)]
  BY DEF Trees!Place
<1>4. /\ tree'[u] = Trees!Whole(builds + 1) /\ \A v \in VERSIONS \ {u} : tree'[v] = tree[v]
  BY <1>2, <1>3 DEF TreesTyped
<1>5. tree'[u].build # 0 /\ tree'[u].files = "all" /\ tree'[u].marker
  BY <1>2, <1>4 DEF Trees!Whole
<1>6. \A v \in VERSIONS : tree[v].build # 0 => tree'[v].build # 0
  BY <1>4, <1>5
<1>7. TreesWhole'
  BY <1>1, <1>4, <1>5 DEF Calm, TreesWhole
<1>8. builder'[b] = c /\ \A a \in Trees!BUILDERS \ {b} : builder'[a] = builder[a]
  BY <1>1 DEF TreesTyped
<1>9. c.at = "sweeping" /\ c.version = u /\ c.victims = {} /\ c.on = 0 /\ c.io = builder[b].io
  BY <1>2 DEF CallCalm, Call
<1> HIDE DEF c, u
<1>10. \A a \in Trees!BUILDERS : shell'[a] # "torn" /\ (shell'[a] = "bare" => builder'[a].io)
  BY <1>1, <1>8, <1>9 DEF Calm, ShellWhole
<1>11. ASSUME NEW a \in Trees!BUILDERS
       PROVE  /\ builder'[a].at \notin {"clearing", "cleared"}
              /\ builder'[a].victims = {} /\ builder'[a].on = 0
              /\ builder'[a].at \in {"sweeping", "removing", "ready"}
                   => tree'[builder'[a].version].build # 0
              /\ builder'[a].at = "blocked" /\ ~builder'[a].io
                   => tree'[builder'[a].version].build # 0
              /\ builder'[a].at = "failed" => builder'[a].io
  <2>1. CASE a = b
    BY <1>5, <1>8, <1>9, <2>1
  <2>2. CASE a # b
    <3>1. CallCalm(builder[a]) /\ builder'[a] = builder[a]
      BY <1>8, <1>11, <2>2 DEF Calm
    <3>2. builder[a].at # "idle" => builder[a].version \in VERSIONS
      BY <1>11 DEF TreesTyped, Call
    <3> QED BY <1>6, <3>1, <3>2 DEF CallCalm
  <2> QED BY <2>1, <2>2
<1> QED BY <1>7, <1>10, <1>11 DEF Calm, CallCalm, ShellWhole

LEMMA CalmLookup ==
  ASSUME TreesConstants, TreesTyped, Calm, NEW b \in Trees!BUILDERS, NEW v \in VERSIONS,
         Trees!Lookup(b, v)
  PROVE  Calm'
<1> DEFINE c == [builder[b] EXCEPT !.version = v,
                   !.at = IF tree[v].marker THEN "ready" ELSE "staging"]
<1>1. builder' = [builder EXCEPT ![b] = c] /\ tree' = tree /\ cut' = cut /\ shell' = shell
  BY DEF Trees!Lookup
<1>2. builder[b] \in Call /\ CallCalm(builder[b])
  BY DEF TreesTyped, Calm
<1>3. c \in Call /\ c.io = builder[b].io /\ c.version = v /\ c.victims = {} /\ c.on = 0
  BY <1>2 DEF Call, CallCalm
<1>4. c.at = "staging" \/ (c.at = "ready" /\ tree[v].marker)
  BY <1>2 DEF Call
<1>5. tree[v].marker => tree[v].build # 0
  BY DEF Calm, TreesWhole
<1> HIDE DEF c
<1>6. CallCalm(c)
  BY <1>3, <1>4, <1>5 DEF CallCalm
<1> QED BY <1>1, <1>3, <1>6, CalmOn

LEMMA CalmStage ==
  ASSUME TreesTyped, Calm, NEW b \in Trees!BUILDERS, Trees!Stage(b)
  PROVE  Calm'
<1>1. tree' = tree /\ cut' = cut /\ shell' = shell /\ builder[b].at = "staging"
  BY DEF Trees!Stage, Trees!At
<1>2. builder[b] \in Call /\ CallCalm(builder[b])
  BY DEF TreesTyped, Calm
<1>3. PICK c \in {[builder[b] EXCEPT !.at = "staged"],
                  [builder[b] EXCEPT !.at = "failed", !.io = TRUE]} :
        builder' = [builder EXCEPT ![b] = c]
  BY DEF Trees!Stage, Trees!Goes, Trees!Errs
<1>4. c \in Call /\ CallCalm(c) /\ (builder[b].io => c.io)
  BY <1>2, <1>3 DEF Call, CallCalm
<1> QED BY <1>1, <1>3, <1>4, CalmOn

LEMMA CalmRename ==
  ASSUME TreesConstants, TreesTyped, Calm, NEW b \in Trees!BUILDERS, Trees!Rename(b)
  PROVE  Calm'
<1>1. builder[b] \in Call /\ CallCalm(builder[b]) /\ builder[b].at = "staged"
  BY DEF Trees!Rename, Trees!At, TreesTyped, Calm
<1>2. CASE Trees!Place(b)
  BY <1>1, <1>2, CalmPlace
<1>3. CASE ~Trees!Place(b)
  <2>1. tree' = tree /\ cut' = cut /\ shell' = shell
    BY <1>3 DEF Trees!Rename
  <2>2. CASE Trees!Own(b).files \in {"all", "some"}
    <3> DEFINE c == [builder[b] EXCEPT !.at = "blocked"]
    <3>1. builder' = [builder EXCEPT ![b] = c]
      BY <1>3, <2>2 DEF Trees!Rename, Trees!Goes
    <3>2. builder[b].version \in VERSIONS
      BY <1>1 DEF TreesTyped, Call
    <3>3. tree[builder[b].version].build # 0
      BY <2>2, <3>2 DEF Trees!Own, Calm, TreesWhole
    <3>4. c \in Call /\ CallCalm(c) /\ (builder[b].io => c.io)
      BY <1>1, <3>3 DEF Call, CallCalm
    <3> HIDE DEF c
    <3> QED BY <2>1, <3>1, <3>4, CalmOn
  <2>3. CASE Trees!Own(b).files \notin {"all", "some"}
    <3> DEFINE c == [builder[b] EXCEPT !.at = "blocked", !.io = TRUE]
    <3>1. builder' = [builder EXCEPT ![b] = c]
      BY <1>3, <2>3 DEF Trees!Rename
    <3>2. c \in Call /\ CallCalm(c) /\ c.io
      BY <1>1 DEF Call, CallCalm
    <3> HIDE DEF c
    <3> QED BY <2>1, <3>1, <3>2, CalmOn
  <2> QED BY <2>2, <2>3
<1> QED BY <1>2, <1>3

\* What is in the way is there, and whole; an error was one.
LEMMA CalmBlocked ==
  ASSUME TreesConstants, TreesTyped, Calm, NEW b \in Trees!BUILDERS, Trees!Blocked(b)
  PROVE  Calm'
<1> DEFINE u == builder[b].version
<1>1. builder[b] \in Call /\ CallCalm(builder[b]) /\ builder[b].at = "blocked" /\ u \in VERSIONS
  BY DEF Trees!Blocked, Trees!At, TreesTyped, Call, Calm
<1>2. tree' = tree /\ cut' = cut /\ shell' = shell
  BY DEF Trees!Blocked
<1>3. CASE tree[u].build # 0
  <2> DEFINE c == [builder[b] EXCEPT !.at = "sweeping"]
  <2>1. tree[u].marker
    BY <1>1, <1>3 DEF Calm, TreesWhole
  <2>2. builder' = [builder EXCEPT ![b] = c]
    BY <2>1 DEF Trees!Blocked, Trees!Goes, Trees!Own
  <2>3. c \in Call /\ CallCalm(c) /\ (builder[b].io => c.io)
    BY <1>1, <1>3 DEF Call, CallCalm
  <2> HIDE DEF c
  <2> QED BY <1>2, <2>2, <2>3, CalmOn
<1>4. CASE tree[u].build = 0
  <2> DEFINE c == [builder[b] EXCEPT !.at = "failed"]
  <2>1. ~tree[u].marker /\ tree[u].files = "none"
    BY <1>1, <1>4 DEF Calm, TreesWhole
  <2>2. builder' = [builder EXCEPT ![b] = c]
    BY <2>1 DEF Trees!Blocked, Trees!Goes, Trees!Own, Trees!There
  <2>3. c \in Call /\ CallCalm(c) /\ (builder[b].io => c.io)
    BY <1>1, <1>4 DEF Call, CallCalm
  <2> HIDE DEF c
  <2> QED BY <1>2, <2>2, <2>3, CalmOn
<1> QED BY <1>3, <1>4

\* The one other tree is kept: a victim beside it, and the own version, were three.
LEMMA CalmSweep ==
  ASSUME TreesConstants, TreesTyped, Calm, Trees!Cardinality(Trees!Present) <= 2,
         NEW b \in Trees!BUILDERS, Trees!Sweep(b)
  PROVE  Calm'
<1> DEFINE u == builder[b].version
<1>1. builder[b] \in Call /\ CallCalm(builder[b]) /\ builder[b].at = "sweeping" /\ u \in VERSIONS
  BY DEF Trees!Sweep, Trees!At, TreesTyped, Call, Calm
<1>2. tree' = tree /\ cut' = cut /\ shell' = shell /\ tree[u].build # 0
  BY <1>1 DEF Trees!Sweep, CallCalm
<1>3. CASE Trees!Goes(b, "ready")
  <2> DEFINE c == [builder[b] EXCEPT !.at = "ready"]
  <2>1. builder' = [builder EXCEPT ![b] = c]
    BY <1>3 DEF Trees!Goes
  <2>2. c \in Call /\ CallCalm(c) /\ (builder[b].io => c.io)
    BY <1>1, <1>2 DEF Call, CallCalm
  <2> HIDE DEF c
  <2> QED BY <1>2, <2>1, <2>2, CalmOn
<1>4. CASE ~Trees!Goes(b, "ready")
  <2>1. PICK kept \in SUBSET Trees!CompleteOthers(b) :
          /\ Trees!Cardinality(kept) = (IF Trees!CompleteOthers(b) = {} THEN 0 ELSE 1)
          /\ builder' = [builder EXCEPT ![b].at = "removing", ![b].victims = Trees!Others(b) \ kept]
    BY <1>4 DEF Trees!Sweep
  <2>2. /\ Trees!CompleteOthers(b) = Trees!Others(b) /\ Trees!Others(b) \subseteq VERSIONS \ {u}
        /\ Trees!Others(b) \subseteq Trees!Present /\ u \in Trees!Present
    <3>1. \A v \in VERSIONS : Trees!There(tree[v]) <=> tree[v].build # 0
      BY DEF Trees!There, Calm, TreesWhole
    <3>2. \A v \in VERSIONS : tree[v].build # 0 => tree[v].marker
      BY DEF Calm, TreesWhole
    <3> QED BY <1>1, <3>1, <3>2 DEF Trees!Others, Trees!CompleteOthers, Trees!Present
  <2>3. Trees!Others(b) \ kept = {}
    <3> SUFFICES ASSUME NEW w \in Trees!Others(b) \ kept PROVE FALSE
      OBVIOUS
    <3>1. Trees!Cardinality(kept) = 1
      BY <2>1, <2>2
    <3>2. kept # {}
      BY <3>1, TreesCount, FS_EmptySet
    <3>3. PICK k \in kept : TRUE
      BY <3>2
    <3>4. k \in Trees!Present /\ w \in Trees!Present /\ u \in Trees!Present
      BY <2>1, <2>2, <3>3
    <3>5. k # w /\ w # u /\ k # u
      BY <2>1, <2>2, <3>3
    <3> HIDE DEF u
    <3> QED BY <3>4, <3>5, NoThird
  <2> DEFINE c == [builder[b] EXCEPT !.at = "removing", !.victims = {}]
  <2>4. builder' = [builder EXCEPT ![b] = c]
    BY <2>1, <2>3
  <2>5. c \in Call /\ CallCalm(c) /\ (builder[b].io => c.io)
    BY <1>1, <1>2 DEF Call, CallCalm
  <2> HIDE DEF c
  <2> QED BY <1>2, <2>4, <2>5, CalmOn
<1> QED BY <1>3, <1>4

LEMMA CalmRemove ==
  ASSUME TreesTyped, Calm, NEW b \in Trees!BUILDERS, Trees!Remove(b)
  PROVE  Calm'
<1>1. builder[b] \in Call /\ CallCalm(builder[b]) /\ builder[b].at = "removing"
  BY DEF Trees!Remove, Trees!At, TreesTyped, Calm
<1>2. builder[b].victims = {}
  BY <1>1 DEF CallCalm
<1> DEFINE c == [builder[b] EXCEPT !.at = "ready"]
<1>3. builder' = [builder EXCEPT ![b] = c] /\ tree' = tree /\ cut' = cut /\ shell' = shell
  BY <1>2 DEF Trees!Remove, Trees!Goes
<1>4. c \in Call /\ CallCalm(c) /\ (builder[b].io => c.io)
  BY <1>1 DEF Call, CallCalm
<1> HIDE DEF c
<1> QED BY <1>3, <1>4, CalmOn

\* The shell finds its tree whole; a program that dies leaves nothing half removed.
LEMMA CalmEnds ==
  ASSUME TreesConstants, TreesTyped, Calm, NEW b \in Trees!BUILDERS,
         Trees!Start(b) \/ Trees!Dies(b)
  PROVE  Calm'
<1> DEFINE c == [builder[b] EXCEPT !.at = "done", !.victims = {}, !.on = 0]
<1>1. builder[b] \in Call /\ CallCalm(builder[b])
  BY DEF TreesTyped, Calm
<1>2. builder' = [builder EXCEPT ![b] = c] /\ tree' = tree /\ cut' = cut
  BY DEF Trees!Start, Trees!Dies
<1>3. c \in Call /\ c.at = "done" /\ c.victims = {} /\ c.on = 0 /\ c.io = builder[b].io
  BY <1>1 DEF Call
<1>4. /\ \A a \in Trees!BUILDERS \ {b} : shell'[a] = shell[a]
      /\ shell'[b] \in {shell[b], "whole"} \/ (shell'[b] = "bare" /\ builder[b].io)
  <2>1. CASE Trees!Dies(b)
    BY <2>1 DEF Trees!Dies
  <2>2. CASE Trees!Start(b) /\ builder[b].at = "failed"
    <3>1. shell' = [shell EXCEPT ![b] = "bare"]
      BY <2>2 DEF Trees!Start, Trees!At
    <3>2. builder[b].io
      BY <1>1, <2>2 DEF CallCalm
    <3> QED BY <3>1, <3>2 DEF TreesTyped
  <2>3. CASE Trees!Start(b) /\ builder[b].at # "failed"
    <3>1. builder[b].at = "ready"
      BY <2>3 DEF Trees!Start, Trees!At
    <3>2. builder[b].version \in VERSIONS /\ tree[builder[b].version].build # 0
      BY <1>1, <3>1 DEF CallCalm, TreesTyped, Call
    <3>3. Trees!Own(b).files = "all"
      BY <3>2 DEF Trees!Own, Calm, TreesWhole
    <3>4. shell' = [shell EXCEPT ![b] = "whole"]
      BY <2>3, <3>1, <3>3 DEF Trees!Start, Trees!At
    <3> QED BY <3>4 DEF TreesTyped
  <2> QED BY <2>1, <2>2, <2>3
<1>5. builder'[b] = c /\ \A a \in Trees!BUILDERS \ {b} : builder'[a] = builder[a]
  BY <1>2 DEF TreesTyped
<1> HIDE DEF c
<1>6. TreesWhole'
  BY <1>2 DEF Calm, TreesWhole
<1>7. ASSUME NEW a \in Trees!BUILDERS
      PROVE  shell'[a] # "torn" /\ (shell'[a] = "bare" => builder'[a].io)
  <2>1. shell[a] # "torn" /\ (shell[a] = "bare" => builder[a].io)
    BY <1>7 DEF Calm, ShellWhole
  <2> QED BY <1>3, <1>4, <1>5, <1>7, <2>1
<1>8. ASSUME NEW a \in Trees!BUILDERS
      PROVE  /\ builder'[a].at \notin {"clearing", "cleared"}
             /\ builder'[a].victims = {} /\ builder'[a].on = 0
             /\ builder'[a].at \in {"sweeping", "removing", "ready"}
                  => tree'[builder'[a].version].build # 0
             /\ builder'[a].at = "blocked" /\ ~builder'[a].io
                  => tree'[builder'[a].version].build # 0
             /\ builder'[a].at = "failed" => builder'[a].io
  <2>1. CASE a = b
    BY <1>3, <1>5, <2>1
  <2>2. CASE a # b
    <3>1. CallCalm(builder[a]) /\ builder'[a] = builder[a]
      BY <1>5, <1>8, <2>2 DEF Calm
    <3> QED BY <1>2, <3>1 DEF CallCalm
  <2> QED BY <2>1, <2>2
<1> QED BY <1>6, <1>7, <1>8 DEF Calm, CallCalm, ShellWhole

LEMMA CalmStays ==
  ASSUME TreesConstants, TreesTyped, Calm, Trees!Cardinality(Trees!Present) <= 2, Trees!Next
  PROVE  Calm'
<1>1. PICK b \in Trees!BUILDERS :
        \/ \E v \in VERSIONS : Trees!Lookup(b, v)
        \/ Trees!Stage(b) \/ Trees!Rename(b) \/ Trees!Blocked(b) \/ Trees!Clear(b)
        \/ Trees!Install(b) \/ Trees!Sweep(b) \/ Trees!Remove(b) \/ Trees!Start(b) \/ Trees!Dies(b)
  BY DEF Trees!Next
<1>2. CallCalm(builder[b])
  BY DEF Calm
<1>3. ~Trees!Clear(b) /\ ~Trees!Install(b)
  BY <1>2 DEF CallCalm, Trees!Clear, Trees!Install, Trees!At
<1> QED BY <1>1, <1>3, CalmLookup, CalmStage, CalmRename, CalmBlocked, CalmSweep, CalmRemove, CalmEnds

LEMMA TreesStep ==
  ASSUME TreesConstants, TreesInv, [Trees!Next]_(Trees!vars)
  PROVE  TreesInv'
<1>1. CASE Trees!Next
  <2>1. TreesTyped /\ Trees!MarkerMeansWhole
    BY DEF TreesInv
  <2>2. TreesOnward
    BY <1>1, <2>1, TreesCarryOn
  <2>3. Trees!MarkerMeansWhole'
    BY <1>1, <2>1, <2>2, MarkerKept
  <2>4. ASSUME Trees!Cardinality(Trees!Present') <= 2
        PROVE  Calm'
    <3>1. Trees!Cardinality(Trees!Present) <= 2
      BY <2>2, <2>4, NeverWereMore
    <3> QED BY <1>1, <2>1, <3>1, CalmStays DEF TreesInv
  <2>5. TreesTyped'
    BY <2>2 DEF TreesOnward
  <2>6. (Trees!Cardinality(Trees!Present) <= 2)' => Trees!Cardinality(Trees!Present') <= 2
    BY TreesCount DEF Trees!Cardinality
  <2> QED BY <2>3, <2>4, <2>5, <2>6 DEF TreesInv
<1>2. CASE UNCHANGED Trees!vars
  BY <1>2 DEF Trees!vars, TreesInv, TreesTyped, Trees!MarkerMeansWhole, Trees!CutTrees, Calm,
     TreesWhole, CallCalm, ShellWhole, Trees!Present
<1> QED BY <1>1, <1>2

LEMMA TreesTell ==
  ASSUME TreesInv
  PROVE  Trees!MarkerMeansWhole /\ Trees!TreesKept
<1>1. Calm => cut = {} /\ \A b \in Trees!BUILDERS : shell[b] # "torn" /\ (shell[b] = "bare" => builder[b].io)
  BY DEF Calm, TreesWhole, ShellWhole
<1> QED BY <1>1 DEF TreesInv, Trees!TreesKept

-----------------------------------------------------------------------------
(* What follows of the components, each by itself.                         *)

\* The poller and its clients never lose a change for good: every pane whose title or busy
\* flag is out of date has the news on its way or the poller's next look to tell it.
THEOREM PollerIsTrue ==
  ASSUME PollerConstants
  PROVE  Poller!Spec => [](Poller!NeverStranded /\ Poller!PanesTrue)
<1>1. Poller!Init => PollerInv
  BY PollerStart
<1>2. PollerInv /\ [Poller!Next]_(Poller!vars) => PollerInv'
  BY PollerStep
<1>3. PollerInv => Poller!NeverStranded /\ Poller!PanesTrue
  BY PollerTells
<1> QED BY <1>1, <1>2, <1>3, PTL DEF Poller!Spec

\* A folder that the Finder handed over is opened once, in a tab of its own, and the queue is
\* empty once nobody will come back to it, through every order of the listener and the drain.
THEOREM FinderOpensOnce ==
  Finder!Spec => [](Finder!OpenedOnce /\ Finder!QueueDrained)
<1>1. Finder!Init => FinderInv
  BY FinderStart
<1>2. FinderInv /\ [Finder!Next]_(Finder!vars) => FinderInv'
  BY FinderStep
<1>3. FinderInv => Finder!OpenedOnce /\ Finder!QueueDrained
  BY FinderOpens
<1> QED BY <1>1, <1>2, <1>3, PTL DEF Finder!Spec

\* A marker nobody has begun to remove stands for a whole tree, and between a version and its
\* successor no tree is removed at all and no shell is started on a torn one.
THEOREM TreesAreKept ==
  ASSUME TreesConstants
  PROVE  Trees!Spec => [](Trees!MarkerMeansWhole /\ Trees!TreesKept)
<1>1. Trees!Init => TreesInv
  BY TreesStart
<1>2. TreesInv /\ [Trees!Next]_(Trees!vars) => TreesInv'
  BY TreesStep
<1>3. TreesInv => Trees!MarkerMeansWhole /\ Trees!TreesKept
  BY TreesTell
<1> QED BY <1>1, <1>2, <1>3, PTL DEF Trees!Spec

-----------------------------------------------------------------------------
(* The terminal.                                                           *)

Settings == [font : FONTS, theme : THEMES, lines : LINES, write : {"allow", "deny"}]
HostConstants == STORED \subseteq Settings

HostTyped ==
  /\ life \in {"new", "mounted", "gone"}
  /\ saved \in Settings /\ options \in [font : FONTS, theme : THEMES, lines : LINES]
  /\ bus \in Seq(Host!Broadcasts)
  /\ life = "new" => ear = "off" /\ bus = <<>>

\* The last broadcast of a setting that is on its way has the stored value, and with none the
\* options do.
About(k) == {e \in Host!Broadcasts : e.key = k}
Carrying(k) == {e \in About(k) : e.value = saved[k]}
Follows(k) == Last(bus, About(k), Carrying(k)) \/ (None(bus, About(k)) /\ options[k] = saved[k])
Following ==
  Host!Mounted /\ "setting" \notin unseen => \A k \in {"font", "theme", "lines"} : Follows(k)

HostInv ==
  /\ HostTyped /\ Following /\ (life = "gone" => ~scrolled)
  /\ Host!GridSettles /\ Host!BarFresh /\ Host!NothingOutlives

LEMMA FollowedAre ==
  ASSUME HostTyped, Following
  PROVE  Host!OptionsFollow
<1> SUFFICES ASSUME Host!Mounted, bus = <<>>, "setting" \notin unseen
             PROVE  options = Host!Chosen
  BY DEF Host!OptionsFollow
<1>1. ASSUME NEW k \in {"font", "theme", "lines"}
      PROVE  options[k] = saved[k]
  <2>1. Follows(k) /\ Len(bus) = 0
    BY DEF Following
  <2> QED BY <2>1 DEF Follows, Last
<1>2. options = [font |-> options.font, theme |-> options.theme, lines |-> options.lines]
  BY DEF HostTyped
<1> QED BY <1>1, <1>2 DEF Host!Chosen

LEMMA HostStart == ASSUME HostConstants, Host!Init PROVE HostInv
<1>1. saved \in Settings /\ options = Host!Chosen /\ life = "new" /\ bus = <<>> /\ ear = "off"
  BY DEF HostConstants, Host!Init
<1>2. options \in [font : FONTS, theme : THEMES, lines : LINES]
  BY <1>1 DEF Settings, Host!Chosen
<1>3. bus \in Seq(Host!Broadcasts)
  BY <1>1
<1> QED
  BY <1>1, <1>2, <1>3 DEF HostInv, HostTyped, Following, Host!Mounted, Host!GridSettles, Host!BarFresh,
     Host!NothingOutlives

(* What the settings have no part in.                                      *)
LEMMA SettingsKept ==
  ASSUME HostTyped, Following, UNCHANGED <<life, saved, bus, options>>, life = "new" => ear' = ear,
         "setting" \in unseen => "setting" \in unseen'
  PROVE  HostTyped' /\ Following'
<1>1. HostTyped'
  BY DEF HostTyped
<1>2. \A k : Follows(k)' <=> Follows(k)
  BY DEF Follows, Carrying, About
<1>3. Following'
  BY <1>2 DEF Following, Host!Mounted
<1> QED BY <1>1, <1>3

(* What does not touch the view leaves the overlay right.                  *)
LEMMA PaintKept ==
  ASSUME UNCHANGED <<buffer, host>>, options'.theme = options.theme
  PROVE  Host!Paint' = Host!Paint
BY DEF Host!Paint, Host!NoBar

(* A setting changes: the listener's terminal is told.                     *)
LEMMA SettingChanges ==
  ASSUME HostInv, NEW key \in {"font", "theme", "lines", "write"}, NEW v,
         key = "font" => v \in FONTS, key = "theme" => v \in THEMES, key = "lines" => v \in LINES,
         key = "write" => v \in {"allow", "deny"}, Host!ChangeSetting(key, v)
  PROVE  HostInv'
<1> USE DEF HostInv
<1> DEFINE e == [key |-> key, value |-> v]
<1>1. /\ saved' = [saved EXCEPT ![key] = v]
      /\ bus' = IF ear = "on" /\ key # "write" THEN Append(bus, e) ELSE bus
      /\ unseen' = IF Host!Mounted /\ ear # "on" THEN unseen \cup {"setting"} ELSE unseen
      /\ UNCHANGED <<life, host, observed, frame, faces, ready, ear, options, grid, buffer,
                     scrolled, bar, notice>>
  BY DEF Host!ChangeSetting, Host!layout, Host!fonts, Host!view
<1>2. saved' \in Settings /\ saved'[key] = v /\ \A k \in {"font", "theme", "lines"} \ {key} : saved'[k] = saved[k]
  <2>1. CASE key = "font"
    BY <1>1, <2>1 DEF HostTyped, Settings
  <2>2. CASE key = "theme"
    BY <1>1, <2>2 DEF HostTyped, Settings
  <2>3. CASE key = "lines"
    BY <1>1, <2>3 DEF HostTyped, Settings
  <2>4. CASE key = "write"
    BY <1>1, <2>4 DEF HostTyped, Settings
  <2> QED BY <2>1, <2>2, <2>3, <2>4
<1>3. key # "write" => e \in Host!Broadcasts
  BY DEF Host!Broadcasts
<1>4. e.key = key /\ e.value = v
  OBVIOUS
<1> HIDE DEF e
<1>5. HostTyped'
  <2>1. bus' \in Seq(Host!Broadcasts)
    BY <1>1, <1>3 DEF HostTyped
  <2>2. life' = "new" => ear' = "off" /\ bus' = <<>>
    BY <1>1 DEF HostTyped
  <2> QED BY <1>1, <1>2, <2>1, <2>2 DEF HostTyped
<1>6. Following'
  <2> SUFFICES ASSUME Host!Mounted, "setting" \notin unseen', NEW k \in {"font", "theme", "lines"}
               PROVE  Follows(k)'
    BY <1>1 DEF Following, Host!Mounted
  <2>1. ear = "on" /\ unseen' = unseen /\ Follows(k) /\ bus \in Seq(Host!Broadcasts)
    BY <1>1 DEF Following, HostTyped
  <2>2. CASE k = key
    <3>1. <<e>> \in Seq(Host!Broadcasts) /\ bus' = bus \o <<e>>
      <4>1. bus' = Append(bus, e) /\ e \in Host!Broadcasts
        BY <1>1, <1>3, <2>1, <2>2
      <4> QED BY <2>1, <4>1, AppendIs
    <3>2. e \in Carrying(k)'
      BY <1>2, <1>3, <1>4, <2>2 DEF Carrying, About
    <3>3. Last(<<e>>, About(k), Carrying(k)')
      BY <3>2 DEF Last
    <3>4. Last(bus \o <<e>>, About(k), Carrying(k)')
      BY <2>1, <3>1, <3>3, BehindLast
    <3> QED BY <3>1, <3>4 DEF Follows, About
  <2>3. CASE k # key
    <3>1. Carrying(k)' = Carrying(k) /\ saved'[k] = saved[k] /\ options' = options
      BY <1>1, <1>2, <2>3 DEF Carrying, About
    <3>2. CASE key = "write"
      BY <1>1, <2>1, <3>1, <3>2 DEF Follows, About
    <3>3. CASE key # "write"
      <4>1. <<e>> \in Seq(Host!Broadcasts) /\ bus' = bus \o <<e>>
        <5>1. bus' = Append(bus, e) /\ e \in Host!Broadcasts
          BY <1>1, <1>3, <2>1, <3>3
        <5> QED BY <2>1, <5>1, AppendIs
      <4>2. None(<<e>>, About(k))
        BY <1>4, <2>3 DEF None, About
      <4>3. /\ Last(bus, About(k), Carrying(k)) => Last(bus \o <<e>>, About(k), Carrying(k))
            /\ None(bus, About(k)) => None(bus \o <<e>>, About(k))
        BY <2>1, <4>1, <4>2, BehindNone
      <4> QED BY <2>1, <3>1, <4>1, <4>3 DEF Follows, About
    <3> QED BY <3>2, <3>3
  <2> QED BY <2>2, <2>3
<1>7. Host!Paint' = Host!Paint
  BY <1>1, PaintKept
<1>8. Host!GridSettles' /\ Host!BarFresh'
  BY <1>1, <1>7 DEF Host!GridSettles, Host!BarFresh, Host!Mounted
<1>9. Host!NothingOutlives'
  BY <1>1 DEF Host!NothingOutlives, Host!NoBar
<1> QED BY <1>1, <1>5, <1>6, <1>8, <1>9

(* A broadcast is applied.                                                 *)
LEMMA SettingApplied ==
  ASSUME HostInv, Host!ApplySetting
  PROVE  HostInv'
<1> USE DEF HostInv
<1> DEFINE key == Head(bus).key
           v == Head(bus).value
<1>1. /\ bus # <<>> /\ bus' = Tail(bus) /\ options' = [options EXCEPT ![key] = v]
      /\ UNCHANGED <<life, host, observed, frame, faces, ready, saved, ear, notice, altered>>
  BY DEF Host!ApplySetting, Host!layout, Host!fonts
<1>2. bus \in Seq(Host!Broadcasts) /\ Head(bus) \in Host!Broadcasts /\ bus' \in Seq(Host!Broadcasts)
  BY <1>1, HeadTailProperties DEF HostTyped
<1>3. \/ key = "font" /\ v \in FONTS
      \/ key = "theme" /\ v \in THEMES
      \/ key = "lines" /\ v \in LINES
  BY <1>2 DEF Host!Broadcasts
<1>4. /\ key = "font" => UNCHANGED scrolled /\ Host!Fit /\ Host!Recompute
      /\ key = "theme" => UNCHANGED <<grid, buffer, scrolled>> /\ Host!Recompute
      /\ key = "lines" =>
           /\ scrolled' = (scrolled \/ buffer'.top # buffer.top)
           /\ unseen' = IF buffer' # buffer THEN unseen \cup {"trim"} ELSE unseen
           /\ UNCHANGED <<grid, bar>>
  <2>1. CASE key = "font"
    BY <2>1 DEF Host!ApplySetting
  <2>2. CASE key = "theme"
    BY <2>2 DEF Host!ApplySetting
  <2>3. CASE key = "lines"
    BY <2>3 DEF Host!ApplySetting
  <2> QED BY <1>3, <2>1, <2>2, <2>3
<1>5. Head(bus) \in About(key) /\ \A k : (Head(bus) \in About(k) => k = key)
  BY <1>2 DEF About
<1>6. \A k : Head(bus) \in Carrying(k) => k = key /\ v = saved[k]
  BY DEF Carrying, About
<1> HIDE DEF key, v
<1>7. /\ options' \in [font : FONTS, theme : THEMES, lines : LINES] /\ options'[key] = v
      /\ \A k \in {"font", "theme", "lines"} \ {key} : options'[k] = options[k]
  <2>1. CASE key = "font"
    BY <1>1, <1>3, <2>1 DEF HostTyped
  <2>2. CASE key = "theme"
    BY <1>1, <1>3, <2>2 DEF HostTyped
  <2>3. CASE key = "lines"
    BY <1>1, <1>3, <2>3 DEF HostTyped
  <2> QED BY <1>3, <2>1, <2>2, <2>3
<1>8. HostTyped'
  BY <1>1, <1>2, <1>7 DEF HostTyped
<1>9. "setting" \in unseen' <=> "setting" \in unseen
  BY <1>3, <1>4 DEF Host!Recompute
<1>10. Following'
  <2> SUFFICES ASSUME Host!Mounted, "setting" \notin unseen, NEW k \in {"font", "theme", "lines"}
               PROVE  Follows(k)'
    BY <1>1, <1>9 DEF Following, Host!Mounted
  <2>1. Follows(k) /\ Carrying(k)' = Carrying(k) /\ About(k)' = About(k) /\ saved' = saved
    BY <1>1 DEF Following, Carrying, About
  <2>2. /\ Last(bus, About(k), Carrying(k)) =>
             Last(bus', About(k), Carrying(k)) \/ (None(bus', About(k)) /\ Head(bus) \in Carrying(k))
        /\ None(bus, About(k)) => None(bus', About(k)) /\ Head(bus) \notin About(k)
    BY <1>1, <1>2, TailLast
  <2>3. CASE Last(bus, About(k), Carrying(k))
    <3>1. CASE Last(bus', About(k), Carrying(k))
      BY <2>1, <3>1 DEF Follows
    <3>2. CASE None(bus', About(k)) /\ Head(bus) \in Carrying(k)
      <4>1. options'[k] = saved[k]
        BY <1>6, <1>7, <3>2
      <4> QED BY <2>1, <3>2, <4>1 DEF Follows
    <3> QED BY <2>2, <2>3, <3>1, <3>2
  <2>4. CASE None(bus, About(k)) /\ options[k] = saved[k]
    <3>1. None(bus', About(k)) /\ k # key
      BY <1>5, <2>2, <2>4
    <3>2. options'[k] = options[k]
      BY <1>7, <3>1
    <3> QED BY <2>1, <2>4, <3>1, <3>2 DEF Follows
  <2> QED BY <2>1, <2>3, <2>4 DEF Follows
<1>11. Host!GridSettles'
  <2>1. CASE key = "font"
    <3>1. \/ grid' = [host |-> host, font |-> options'.font, face |-> options'.font \in faces]
          \/ host = 0
      BY <1>4, <2>1 DEF Host!Fit, Host!Hidden
    <3> QED BY <1>1, <3>1 DEF Host!GridSettles, Host!Hidden
  <2>2. CASE key # "font"
    <3>1. grid' = grid /\ options'.font = options.font /\ ("face" \in unseen => "face" \in unseen')
      BY <1>3, <1>4, <1>7, <2>2 DEF Host!Recompute
    <3> QED BY <1>1, <3>1 DEF Host!GridSettles, Host!Mounted
  <2> QED BY <2>1, <2>2
<1>12. Host!BarFresh'
  <2>1. CASE key = "lines"
    <3>1. CASE buffer' = buffer
      <4>1. Host!Paint' = Host!Paint
        BY <1>1, <1>7, <2>1, <3>1, PaintKept
      <4>2. (~scrolled' => ~scrolled) /\ unseen' = unseen /\ bar' = bar
        BY <1>4, <2>1, <3>1
      <4> QED BY <1>1, <4>1, <4>2 DEF Host!BarFresh, Host!Mounted
    <3>2. CASE buffer' # buffer
      <4>1. "trim" \in unseen'
        BY <1>4, <2>1, <3>2
      <4> QED BY <4>1 DEF Host!BarFresh
    <3> QED BY <3>1, <3>2
  <2>2. CASE key # "lines"
    <3>1. bar' = Host!Paint'
      BY <1>3, <1>4, <2>2 DEF Host!Recompute
    <3> QED BY <3>1 DEF Host!BarFresh
  <2> QED BY <2>1, <2>2
<1>13. Host!NothingOutlives' /\ life' # "gone"
  BY <1>1 DEF Host!NothingOutlives
<1> QED BY <1>8, <1>10, <1>11, <1>12, <1>13

(* A resize, a frame, output, a scroll: what has no part in the settings.  *)
LEMMA HostStep ==
  ASSUME HostInv, [Host!Next]_(Host!vars)
  PROVE  HostInv'
<1> USE DEF HostInv
<1>1. CASE Host!Mount
  <2>1. /\ life = "new" /\ life' = "mounted" /\ observed' /\ ready' /\ options' = Host!Chosen
        /\ UNCHANGED <<saved, bus>>
    BY <1>1 DEF Host!Mount
  <2>2. options' \in [font : FONTS, theme : THEMES, lines : LINES]
    BY <2>1 DEF HostTyped, Settings, Host!Chosen
  <2>3. HostTyped'
    BY <2>1, <2>2 DEF HostTyped
  <2>4. Following'
    <3>1. ASSUME NEW k \in {"font", "theme", "lines"}
          PROVE  Follows(k)'
      <4>1. bus' = <<>> /\ options'[k] = saved'[k]
        BY <2>1 DEF HostTyped, Host!Chosen
      <4>2. Len(bus') = 0
        BY <4>1
      <4> QED BY <4>1, <4>2 DEF Follows, None
    <3> QED BY <3>1 DEF Following
  <2> QED BY <2>1, <2>3, <2>4 DEF Host!GridSettles, Host!BarFresh, Host!NothingOutlives
<1>2. CASE Host!Unmount
  <2>1. /\ life' = "gone" /\ ~frame' /\ ~notice' /\ bar' = Host!NoBar /\ bus' = <<>>
        /\ ear' = (IF ear = "on" THEN "off" ELSE "dropped") /\ options' = Host!Chosen /\ saved' = saved
    BY <1>2 DEF Host!Unmount
  <2>2. options' \in [font : FONTS, theme : THEMES, lines : LINES]
    BY <2>1 DEF HostTyped, Settings, Host!Chosen
  <2>3. HostTyped'
    BY <2>1, <2>2 DEF HostTyped
  <2>4. bar' = (Host!NoBar)' /\ ~scrolled'
    BY <1>2, <2>1 DEF Host!NoBar, Host!Unmount
  <2> QED
    BY <2>1, <2>3, <2>4 DEF Following, Host!Mounted, Host!GridSettles, Host!BarFresh, Host!NothingOutlives
<1>3. CASE Host!Listen
  <2>1. /\ ear \in {"asked", "dropped"} /\ ear' = (IF ear = "asked" THEN "on" ELSE "off")
        /\ UNCHANGED <<life, host, observed, frame, faces, ready, saved, bus, options, grid, buffer,
                       scrolled, bar, notice, altered, unseen>>
    BY <1>3 DEF Host!Listen, Host!layout, Host!fonts, Host!view
  <2>2. HostTyped' /\ Following'
    BY <2>1, SettingsKept DEF HostTyped
  <2>3. Host!Paint' = Host!Paint
    BY <2>1, PaintKept
  <2>4. Host!GridSettles' /\ Host!BarFresh'
    BY <2>1, <2>3 DEF Host!GridSettles, Host!BarFresh, Host!Mounted
  <2> QED BY <2>1, <2>2, <2>4 DEF Host!NothingOutlives, Host!NoBar
<1>4. CASE Host!Observe
  <2>1. /\ frame' = Host!Mounted /\ UNCHANGED <<life, saved, bus, ear, options, scrolled, notice, bar, unseen>>
    BY <1>4 DEF Host!Observe, Host!Tick, Host!fonts, Host!settings, Host!view
  <2>2. HostTyped' /\ Following'
    BY <2>1, SettingsKept
  <2> QED
    BY <2>1, <2>2 DEF Host!GridSettles, Host!BarFresh, Host!NothingOutlives, Host!NoBar, Host!Mounted
<1>5. CASE Host!Frame
  <2>1. /\ frame /\ UNCHANGED <<life, host, observed, faces, ready, saved, bus, ear, options, scrolled>>
        /\ ~frame' /\ notice' = notice
        /\ IF host = 0 THEN UNCHANGED <<grid, buffer, bar, unseen>> ELSE Host!Fit /\ Host!Recompute
    BY <1>5 DEF Host!Frame, Host!fonts, Host!settings, Host!Hidden
  <2>2. HostTyped' /\ Following'
    BY <2>1, SettingsKept DEF Host!Recompute
  <2>3. host # 0 => /\ grid' = [host |-> host, font |-> options'.font, face |-> options'.font \in faces]
                    /\ bar' = Host!Paint'
    BY <2>1 DEF Host!Fit, Host!Hidden, Host!Recompute
  <2>4. life # "gone"
    BY <2>1 DEF Host!NothingOutlives
  <2> QED
    BY <2>1, <2>2, <2>3, <2>4 DEF Host!GridSettles, Host!BarFresh, Host!NothingOutlives, Host!Hidden
<1>6. CASE Host!FontsReady
  <2>1. /\ frame' = Host!Mounted /\ UNCHANGED <<life, saved, bus, ear, options, scrolled, notice, bar, unseen>>
    BY <1>6 DEF Host!FontsReady, Host!Tick, Host!settings, Host!view
  <2>2. HostTyped' /\ Following'
    BY <2>1, SettingsKept
  <2> QED
    BY <2>1, <2>2 DEF Host!GridSettles, Host!BarFresh, Host!NothingOutlives, Host!NoBar, Host!Mounted
<1>7. ASSUME NEW size \in SIZES \cup {Host!Hidden}, Host!HostResizes(size)
      PROVE  HostInv'
  <2>1. /\ observed' = Host!Mounted
        /\ UNCHANGED <<life, frame, saved, bus, ear, options, scrolled, notice, bar, unseen>>
    BY <1>7 DEF Host!HostResizes, Host!fonts, Host!settings, Host!view
  <2>2. HostTyped' /\ Following'
    BY <2>1, SettingsKept
  <2> QED
    BY <2>1, <2>2 DEF Host!GridSettles, Host!BarFresh, Host!NothingOutlives, Host!NoBar, Host!Mounted
<1>8. ASSUME NEW font \in FONTS, Host!FaceLoads(font)
      PROVE  HostInv'
  <2>1. /\ UNCHANGED <<life, host, observed, frame, ready, saved, bus, ear, options, grid, buffer, scrolled,
                       bar, notice>>
        /\ unseen' = IF ready \/ ~Host!Mounted THEN unseen ELSE unseen \cup {"face"}
    BY <1>8 DEF Host!FaceLoads, Host!layout, Host!settings, Host!view
  <2>2. HostTyped' /\ Following'
    BY <2>1, SettingsKept
  <2>3. Host!GridSettles'
    BY <2>1 DEF Host!GridSettles, Host!Mounted
  <2>4. Host!BarFresh'
    BY <2>1, PaintKept DEF Host!BarFresh, Host!Mounted
  <2> QED BY <2>1, <2>2, <2>3, <2>4 DEF Host!NothingOutlives, Host!NoBar
<1>9. CASE Host!ApplySetting
  BY <1>9, SettingApplied
<1>10. ASSUME NEW font \in FONTS, Host!ChangeSetting("font", font)
       PROVE  HostInv'
  BY <1>10, SettingChanges
<1>11. ASSUME NEW theme \in THEMES, Host!ChangeSetting("theme", theme)
       PROVE  HostInv'
  BY <1>11, SettingChanges
<1>12. ASSUME NEW lines \in LINES, Host!ChangeSetting("lines", lines)
       PROVE  HostInv'
  BY <1>12, SettingChanges
<1>13. ASSUME NEW write \in {"allow", "deny"}, Host!ChangeSetting("write", write)
       PROVE  HostInv'
  BY <1>13, SettingChanges
<1>14. CASE Host!Output \/ Host!ViewportScrolls \/ Host!SwitchBuffer
  <2>1. /\ UNCHANGED <<life, host, observed, frame, faces, ready, saved, bus, ear, options, grid, notice>>
        /\ bar' = Host!Paint' /\ unseen' = unseen \ {"trim"} /\ life # "gone"
    BY <1>14 DEF Host!Output, Host!ViewportScrolls, Host!SwitchBuffer, Host!Recompute, Host!Mounted,
       Host!layout, Host!fonts, Host!settings
  <2>2. HostTyped' /\ Following'
    BY <2>1, SettingsKept
  <2>3. Host!GridSettles' /\ Host!BarFresh'
    BY <2>1 DEF Host!GridSettles, Host!BarFresh, Host!Mounted
  <2> QED BY <2>1, <2>2, <2>3 DEF Host!NothingOutlives
<1>15. ASSUME NEW top \in 0..buffer.base, Host!Scroll(top)
       PROVE  HostInv'
  <2>1. /\ scrolled' /\ life = "mounted"
        /\ UNCHANGED <<life, host, observed, frame, faces, ready, saved, bus, ear, options, grid, bar,
                       notice, unseen>>
    BY <1>15 DEF Host!Scroll, Host!layout, Host!fonts, Host!settings, Host!Mounted
  <2>2. HostTyped' /\ Following'
    BY <2>1, SettingsKept
  <2> QED
    BY <2>1, <2>2 DEF Host!GridSettles, Host!BarFresh, Host!NothingOutlives, Host!Mounted
<1>16. CASE Host!ClipboardRequest \/ Host!NoticeEnds
  <2>1. /\ UNCHANGED <<life, host, observed, frame, faces, ready, saved, bus, ear, options, grid, buffer,
                       scrolled, bar, unseen>>
        /\ life = "gone" => notice
    BY <1>16 DEF Host!ClipboardRequest, Host!NoticeEnds, Host!layout, Host!fonts, Host!settings,
       Host!view, Host!Mounted
  <2>2. HostTyped' /\ Following'
    BY <2>1, SettingsKept
  <2>3. Host!Paint' = Host!Paint
    BY <2>1, PaintKept
  <2>4. Host!GridSettles' /\ Host!BarFresh'
    BY <2>1, <2>3 DEF Host!GridSettles, Host!BarFresh, Host!Mounted
  <2> QED BY <2>1, <2>2, <2>4 DEF Host!NothingOutlives
<1>17. CASE UNCHANGED Host!vars
  <2>1. UNCHANGED <<life, host, observed, frame, faces, ready, saved, bus, ear, options, grid, buffer,
                    scrolled, bar, notice, unseen>>
    BY <1>17 DEF Host!vars, Host!layout, Host!fonts, Host!settings, Host!view
  <2>2. HostTyped' /\ Following'
    BY <2>1, SettingsKept
  <2>3. Host!Paint' = Host!Paint
    BY <2>1, PaintKept
  <2>4. Host!GridSettles' /\ Host!BarFresh'
    BY <2>1, <2>3 DEF Host!GridSettles, Host!BarFresh, Host!Mounted
  <2> QED BY <2>1, <2>2, <2>4 DEF Host!NothingOutlives, Host!NoBar
<1> QED
  BY <1>1, <1>2, <1>3, <1>4, <1>5, <1>6, <1>7, <1>8, <1>9, <1>10, <1>11, <1>12, <1>13, <1>14, <1>15,
     <1>16, <1>17 DEF Host!Next

(* A terminal at rest is fitted to its size and font, shows the scrollbar  *)
(* of its buffer and has the stored options, and nothing outlives it, for  *)
(* any sizes, fonts, themes and scrollback caps (TerminalView.tsx,         *)
(* mountTerminal.ts, resizeCoalescer.ts).                                  *)
THEOREM HostIsTrue ==
  ASSUME HostConstants
  PROVE  Host!Spec =>
           [](Host!GridSettles /\ Host!BarFresh /\ Host!OptionsFollow /\ Host!NothingOutlives)
<1>1. Host!Init => HostInv
  BY HostStart
<1>2. HostInv /\ [Host!Next]_(Host!vars) => HostInv'
  BY HostStep
<1>3. HostInv => Host!GridSettles /\ Host!BarFresh /\ Host!OptionsFollow /\ Host!NothingOutlives
  BY FollowedAre DEF HostInv
<1> QED BY <1>1, <1>2, <1>3, PTL DEF Host!Spec

-----------------------------------------------------------------------------
(* The catalogs: what a fold over the entries of [keys] comes to, by the   *)
(* least entry after which it would not, and then the reads.               *)

(* A nonempty set of numbers up to n has a least.                          *)
LEMMA LeastOf ==
  ASSUME NEW T, T \subseteq Nat, T # {}
  PROVE  \E m \in T : \A k \in T : m <= k
<1> DEFINE R == {ss \in Nat \X Nat : ss[1] < ss[2]}
<1>1. IsWellFoundedOn(R, Nat)
  BY NatLessThanWellFounded, Zenon DEF OpToRel
<1>2. \A k \in T, m \in T : k < m => <<k, m>> \in R
  OBVIOUS
<1> HIDE DEF R
<1>3. PICK m \in T : \A k \in T : ~ (<<k, m>> \in R)
  BY <1>1, WFMin
<1>4. \A k \in T : ~(k < m)
  BY <1>2, <1>3
<1> QED BY <1>4

\* One entry of the file, merged into what the ones before it made.
MergeEntry(map, entry) ==
  CASE ~Files!Parses(entry.tokens) -> map
    [] Files!Parses(entry.tokens) /\ entry.command = "none" ->
         Files!Without(map, Files!ParseChord(entry.tokens))
    [] /\ Files!Parses(entry.tokens) /\ entry.command # "none"
       /\ ~Files!ValidBinding(Files!ParseChord(entry.tokens)) -> map
    [] OTHER -> Files!With(map, Files!ParseChord(entry.tokens), entry.command)

Iterates(f, S, it) ==
  it = [s \in SUBSET S |->
         IF s = {} THEN DEFAULTS ELSE MergeEntry(it[s \ {Files!Max(s)}], f[Files!Max(s)])]

LEMMA MergedIs == ASSUME NEW f PROVE Files!Merged(f) = (CHOOSE it : Iterates(f, DOMAIN f, it))[DOMAIN f]
BY Zenon DEF Files!Merged, Files!FoldLeft, Files!MapThenFoldSet, Iterates, MergeEntry

(* Max of a nonempty set of numbers up to n.                               *)
LEMMA MaxIs ==
  ASSUME NEW n \in Nat, NEW s, s \subseteq 1..n, s # {}
  PROVE  Files!Max(s) \in s /\ \A k \in s : k <= Files!Max(s)
<1> DEFINE T == {n - k : k \in s}
<1>1. T \subseteq Nat /\ T # {}
  <2>1. \A k \in s : k \in 1..n /\ n - k \in Nat
    OBVIOUS
  <2> QED BY <2>1
<1>2. PICK m \in T : \A k \in T : m <= k
  BY <1>1, LeastOf
<1>3. PICK x \in s : m = n - x
  OBVIOUS
<1>4. \A k \in s : n - x <= n - k
  BY <1>2, <1>3
<1>5. \A k \in s : k \in Int /\ x >= k /\ k <= x
  BY <1>4
<1> QED BY <1>5 DEF Files!Max

LEMMA MaxUpTo ==
  ASSUME NEW n \in Nat, NEW s, s \subseteq 1..n, n \in s
  PROVE  Files!Max(s) = n
<1>1. Files!Max(s) \in s /\ n <= Files!Max(s)
  BY MaxIs
<1>2. Files!Max(s) \in 1..n
  BY <1>1
<1>3. \A x \in 1..n : n <= x => x = n
  OBVIOUS
<1> QED BY <1>1, <1>2, <1>3

LEMMA IterationExists ==
  ASSUME NEW f, NEW n \in Nat
  PROVE  \E it : Iterates(f, 1..n, it)
<1> DEFINE T == {k \in Nat : ~ \E it : Iterates(f, 1..k, it)}
<1> SUFFICES ASSUME T # {}
             PROVE  FALSE
  OBVIOUS
<1>1. PICK m \in T : \A k \in T : m <= k
  BY LeastOf
<1>2. CASE m = 0
  <2>1. 1..m = {} /\ SUBSET (1..m) = {{}}
    BY <1>2
  <2>2. Iterates(f, 1..m, [s \in SUBSET (1..m) |-> DEFAULTS])
    BY <2>1 DEF Iterates
  <2> QED BY <2>2
<1>3. CASE m # 0
  <2>1. m \in Nat /\ m - 1 \in Nat /\ m - 1 \notin T
    BY <1>1, <1>3
  <2>2. PICK g : Iterates(f, 1..(m-1), g)
    BY <2>1
  <2> DEFINE h == [s \in SUBSET (1..m) |-> IF m \in s THEN MergeEntry(g[s \ {m}], f[m]) ELSE g[s]]
  <2>3. ASSUME NEW t \in SUBSET (1..(m-1))
        PROVE  /\ t \in SUBSET (1..m) /\ m \notin t /\ h[t] = g[t]
               /\ g[t] = IF t = {} THEN DEFAULTS ELSE MergeEntry(g[t \ {Files!Max(t)}], f[Files!Max(t)])
    <3>1. \A k \in t : k \in 1..(m-1)
      OBVIOUS
    <3>2. t \in SUBSET (1..m) /\ m \notin t
      BY <2>1, <3>1
    <3>3. h[t] = g[t]
      BY <3>2
    <3> HIDE DEF h
    <3> QED BY <2>2, <3>2, <3>3 DEF Iterates
  <2>0. ASSUME NEW s \in SUBSET (1..m), NEW r, m \in s => r = s \ {m}, m \notin s => r \subseteq s
        PROVE  r \in SUBSET (1..(m-1))
    <3>1. \A k \in s : k \in 1..m /\ (k # m => k \in 1..(m-1))
      BY <2>1
    <3>2. CASE m \in s
      BY <2>0, <3>1, <3>2
    <3>3. CASE m \notin s
      <4>1. \A k \in s : k \in 1..(m-1)
        BY <3>1, <3>3
      <4> QED BY <2>0, <3>3, <4>1
    <3> QED BY <3>2, <3>3
  <2>4. ASSUME NEW s \in SUBSET (1..m)
        PROVE  h[s] = IF s = {} THEN DEFAULTS ELSE MergeEntry(h[s \ {Files!Max(s)}], f[Files!Max(s)])
    <3>1. CASE m \in s
      <4>1. Files!Max(s) = m /\ s \ {m} \in SUBSET (1..(m-1))
        BY <3>1, <2>0, <2>1, MaxUpTo
      <4>2. h[s \ {m}] = g[s \ {m}]
        BY <4>1, <2>3
      <4>3. h[s] = MergeEntry(g[s \ {m}], f[m])
        BY <3>1
      <4> HIDE DEF h
      <4> QED BY <3>1, <4>1, <4>2, <4>3
    <3>2. CASE m \notin s
      <4>1. s \in SUBSET (1..(m-1)) /\ s \ {Files!Max(s)} \in SUBSET (1..(m-1))
        BY <3>2, <2>0
      <4> HIDE DEF h
      <4> QED BY <4>1, <2>3
    <3> QED BY <3>1, <3>2
  <2>5. h = [s \in SUBSET (1..m) |->
               IF s = {} THEN DEFAULTS ELSE MergeEntry(h[s \ {Files!Max(s)}], f[Files!Max(s)])]
    <3>1. h = [s \in SUBSET (1..m) |-> h[s]]
      OBVIOUS
    <3> HIDE DEF h
    <3> QED BY <3>1, <2>4
  <2>6. Iterates(f, 1..m, h)
    BY <2>5 DEF Iterates
  <2> QED BY <2>6
<1> QED BY <1>2, <1>3

\* The keymap after the first k entries.
UpTo(f, k) == (CHOOSE it : Iterates(f, DOMAIN f, it))[1..k]

LEMMA UpToIs ==
  ASSUME NEW S, NEW f \in Seq(S)
  PROVE  /\ Files!Merged(f) = UpTo(f, Len(f)) /\ UpTo(f, 0) = DEFAULTS
         /\ \A k \in 1..Len(f) : UpTo(f, k) = MergeEntry(UpTo(f, k - 1), f[k])
<1> DEFINE it == CHOOSE it : Iterates(f, DOMAIN f, it)
           n == Len(f)
<1>1. n \in Nat /\ DOMAIN f = 1..n
  BY LenProperties
<1>2. Iterates(f, DOMAIN f, it)
  BY <1>1, IterationExists
<1> HIDE DEF n
<1>3. \A k : UpTo(f, k) = it[1..k]
  BY DEF UpTo
<1>4. Files!Merged(f) = it[1..n]
  BY <1>1, MergedIs
<1> HIDE DEF it
<1>5. it[{}] = DEFAULTS /\ 1..0 = {}
  BY <1>1, <1>2 DEF Iterates
<1>6. ASSUME NEW k \in 1..n PROVE it[1..k] = MergeEntry(it[1..(k-1)], f[k])
  <2>1. 1..k \in SUBSET (1..n) /\ 1..k # {} /\ Files!Max(1..k) = k /\ (1..k) \ {k} = 1..(k-1)
    <3>1. 1..k \subseteq 1..n /\ k \in 1..k /\ k \in Nat
      BY <1>1
    <3>2. (1..k) \ {k} = 1..(k-1)
      BY <3>1
    <3> QED BY <3>1, <3>2, MaxUpTo
  <2> QED BY <1>1, <1>2, <2>1 DEF Iterates
<1> QED BY <1>3, <1>4, <1>5, <1>6 DEF n

-----------------------------------------------------------------------------
\* What the first k entries of a file say of a chord.
Hits(entry, chord) ==
  /\ Files!Parses(entry.tokens) /\ Files!ParseChord(entry.tokens) = chord
  /\ entry.command = "none" \/ Files!ValidBinding(chord)
HitsUpTo(f, k, chord) == {n \in 1..k : Hits(f[n], chord)}
LastSays(f, k, chord) ==
  LET hits == HitsUpTo(f, k, chord) IN
    IF hits = {} THEN IF chord \in DOMAIN DEFAULTS THEN DEFAULTS[chord] ELSE "none"
    ELSE f[CHOOSE n \in hits : \A m \in hits : m <= n].command
Agrees(map, f, k, chord) ==
  IF chord \in DOMAIN map THEN map[chord] = LastSays(f, k, chord) ELSE LastSays(f, k, chord) = "none"

\* One entry decides its own chord, and leaves every other as it was.
LEMMA StepDecides ==
  ASSUME NEW map, NEW entry, NEW chord
  PROVE  /\ Hits(entry, chord) =>
              IF chord \in DOMAIN MergeEntry(map, entry) THEN MergeEntry(map, entry)[chord] = entry.command
              ELSE entry.command = "none"
         /\ ~Hits(entry, chord) =>
              /\ chord \in DOMAIN MergeEntry(map, entry) <=> chord \in DOMAIN map
              /\ chord \in DOMAIN map => MergeEntry(map, entry)[chord] = map[chord]
<1> DEFINE c == Files!ParseChord(entry.tokens)
<1>1. CASE MergeEntry(map, entry) = map /\ ~Hits(entry, chord)
  BY <1>1
<1>2. CASE Files!Parses(entry.tokens) /\ entry.command = "none"
  <2>1. MergeEntry(map, entry) = Files!Without(map, c)
    BY <1>2 DEF MergeEntry
  <2>2. Hits(entry, chord) <=> c = chord
    BY <1>2 DEF Hits
  <2> HIDE DEF c
  <2> QED BY <1>2, <2>1, <2>2 DEF Files!Without
<1>3. CASE Files!Parses(entry.tokens) /\ entry.command # "none" /\ Files!ValidBinding(c)
  <2>1. MergeEntry(map, entry) = Files!With(map, c, entry.command)
    BY <1>3 DEF MergeEntry
  <2>2. Hits(entry, chord) <=> c = chord
    BY <1>3 DEF Hits
  <2> HIDE DEF c
  <2> QED BY <1>3, <2>1, <2>2 DEF Files!With
<1>4. CASE ~Files!Parses(entry.tokens)
  BY <1>1, <1>4 DEF MergeEntry, Hits
<1>5. CASE Files!Parses(entry.tokens) /\ entry.command # "none" /\ ~Files!ValidBinding(c)
  <2>1. MergeEntry(map, entry) = map
    BY <1>5 DEF MergeEntry
  <2>2. ~Hits(entry, chord)
    BY <1>5 DEF Hits
  <2> QED BY <1>1, <2>1, <2>2
<1> QED BY <1>2, <1>3, <1>4, <1>5

LEMMA SaysNext ==
  ASSUME NEW f, NEW k \in Nat \ {0}, NEW chord
  PROVE  LastSays(f, k, chord) = IF Hits(f[k], chord) THEN f[k].command ELSE LastSays(f, k - 1, chord)
<1> DEFINE hits == HitsUpTo(f, k, chord)
<1>1. CASE Hits(f[k], chord)
  <2>1. k \in hits /\ \A m \in hits : m \in Int /\ m <= k
    BY <1>1 DEF HitsUpTo
  <2> HIDE DEF hits
  <2>2. (CHOOSE n \in hits : \A m \in hits : m <= n) = k
    <3>1. \A n \in hits : (\A m \in hits : m <= n) => n = k
      BY <2>1
    <3> QED BY <2>1, <3>1
  <2> QED BY <1>1, <2>1, <2>2 DEF LastSays, hits
<1>2. CASE ~Hits(f[k], chord)
  <2>1. hits = HitsUpTo(f, k - 1, chord)
    BY <1>2 DEF HitsUpTo
  <2> QED BY <1>2, <2>1 DEF LastSays
<1> QED BY <1>1, <1>2

(* The merged keymap has what the last entry that counts says, by          *)
(* induction over the entries: the first after which it had not is none.   *)
LEMMA MergedAgrees ==
  ASSUME NEW S, NEW f \in Seq(S), NEW chord
  PROVE  Agrees(Files!Merged(f), f, Len(f), chord)
<1> DEFINE T == {k \in 0..Len(f) : ~Agrees(UpTo(f, k), f, k, chord)}
<1>0. Len(f) \in Nat /\ Files!Merged(f) = UpTo(f, Len(f)) /\ Len(f) \in 0..Len(f)
  BY UpToIs, LenProperties
<1> SUFFICES ASSUME T # {}
             PROVE  FALSE
  BY <1>0
<1>1. PICK m \in T : \A k \in T : m <= k
  <2>1. T \subseteq Nat
    BY <1>0
  <2> HIDE DEF T
  <2> QED BY <2>1, LeastOf
<1>2. CASE m = 0
  <2>1. HitsUpTo(f, 0, chord) = {}
    BY DEF HitsUpTo
  <2>2. Agrees(DEFAULTS, f, 0, chord)
    BY <2>1 DEF Agrees, LastSays
  <2> QED BY <1>2, <2>2, UpToIs
<1>3. CASE m # 0
  <2>1. m \in 1..Len(f) /\ m \in Nat \ {0} /\ m - 1 \in 0..Len(f) /\ m - 1 \notin T
    BY <1>0, <1>1, <1>3
  <2>2. UpTo(f, m) = MergeEntry(UpTo(f, m - 1), f[m])
    BY <2>1, UpToIs
  <2>3. Agrees(UpTo(f, m - 1), f, m - 1, chord)
    BY <2>1
  <2>4. Agrees(UpTo(f, m), f, m, chord)
    BY <2>1, <2>2, <2>3, SaysNext, StepDecides DEF Agrees
  <2> QED BY <2>4
<1> QED BY <1>2, <1>3

LEMMA BoundIs ==
  ASSUME NEW S, disk \in Seq(S), NEW chord
  PROVE  Files!Bound(chord) = LastSays(disk, Len(disk), chord)
<1>1. DOMAIN disk = 1..Len(disk)
  BY LenProperties
<1>2. Files!Entries(chord) = HitsUpTo(disk, Len(disk), chord)
  BY <1>1 DEF Files!Entries, HitsUpTo, Hits
<1> QED BY <1>2 DEF Files!Bound, LastSays

-----------------------------------------------------------------------------
FilesConstants == \A f \in KEY_FILES : f \in Seq({f[n] : n \in DOMAIN f})

\* Whether a read that was answered, if it is the last, was answered from what is there now.
UpToDate(r) == r.id = issued => r.answer \in {Files!Unanswered, <<disk>>}
LastUnderWay == \E r \in reads : r.id = issued

FilesTyped ==
  /\ catalog \in {"keys", "scripts", "themes"}
  /\ issued \in Nat /\ applied \in 0..issued /\ newest \in 0..issued
  /\ \A r \in reads : r = [id |-> r.id, answer |-> r.answer] /\ r.id \in 1..issued
  /\ picker # Files!Closed => catalog = "scripts"
  /\ catalog = "keys" => disk \in KEY_FILES

\* But for a change that is announced or was missed, the last read has what is there.
Informed ==
  ~signal /\ ~unread =>
    /\ \A r \in reads : UpToDate(r)
    /\ catalog = "keys" =>
         /\ LastUnderWay \/ newest = issued
         /\ applied = issued => keymap = Files!Merged(disk)
    /\ catalog = "scripts" /\ picker # Files!Closed => LastUnderWay \/ picker = disk

\* A choice of the user's registry that is the last on its way is of one that is there, or finds
\* the colors of the built-in one.
PaintLast ==
  /\ registry.file = "absent" => registry.tokens = Files!NoTokens
  /\ setting \in Files!ThemeIds /\ news \in Seq(Files!ThemeIds)
  /\ IF news = <<>> THEN terminal = Files!ResolveTheme(setting, registry) /\ chrome = terminal
     ELSE news[Len(news)] = "user" =>
            (setting = "user" /\ registry.file # "absent") \/ terminal = Files!Default

FilesInv == FilesTyped /\ Informed /\ PaintLast

LEMMA FilesStart == ASSUME Files!Init PROVE FilesInv
<1>1. FilesTyped
  BY DEF Files!Init, FilesTyped, Files!Contents, Files!Closed
<1>2. Informed
  <2>1. CASE catalog = "keys"
    <3>1. reads = {[id |-> 1, answer |-> Files!Unanswered]} /\ issued = 1 /\ applied = 0
      BY <2>1 DEF Files!Init
    <3> QED BY <2>1, <3>1 DEF Informed, UpToDate, LastUnderWay
  <2>2. CASE catalog # "keys"
    BY <2>2 DEF Files!Init, Informed, UpToDate, LastUnderWay
  <2> QED BY <2>1, <2>2
<1>3. PaintLast
  BY DEF Files!Init, PaintLast, Files!Absent, Files!ThemeIds, Files!ResolveTheme
<1> QED BY <1>1, <1>2, <1>3 DEF FilesInv

(* The reads.                                                              *)
LEMMA IssueKeeps ==
  ASSUME FilesTyped, Files!Issue
  PROVE  /\ issued' = issued + 1 /\ issued' \in Nat
         /\ \A r \in reads' : r = [id |-> r.id, answer |-> r.answer] /\ r.id \in 1..issued'
         /\ \A r \in reads' : r.id = issued' => r.answer = Files!Unanswered
         /\ \E r \in reads' : r.id = issued'
<1> DEFINE new == [id |-> issued + 1, answer |-> Files!Unanswered]
<1>1. issued' = issued + 1 /\ reads' = reads \cup {new} /\ issued \in Nat
  BY DEF Files!Issue, FilesTyped
<1>2. new.id = issued + 1 /\ new.answer = Files!Unanswered /\ new = [id |-> new.id, answer |-> new.answer]
  OBVIOUS
<1>3. \A r \in reads : r = [id |-> r.id, answer |-> r.answer] /\ r.id \in 1..issued
  BY DEF FilesTyped
<1> HIDE DEF new
<1> QED BY <1>1, <1>2, <1>3

LEMMA ReadsStep ==
  ASSUME FilesTyped, Informed, [Files!Next]_(Files!vars)
  PROVE  FilesTyped' /\ Informed'
<1> USE DEF Files!painting
<1>1. ASSUME NEW f \in Files!Contents(catalog), Files!Write(f)
      PROVE  FilesTyped' /\ Informed'
  BY <1>1 DEF Files!Write, FilesTyped, Informed, Files!Contents
<1>2. CASE Files!Subscribed
  BY <1>2 DEF Files!Subscribed, FilesTyped, Informed, UpToDate, LastUnderWay
<1>3. CASE Files!Signal
  <2>1. CASE hearing = "on"
    <3>1. Files!Issue
      BY <1>3, <2>1 DEF Files!Signal
    <3> QED BY <1>3, <2>1, <3>1, IssueKeeps
         DEF Files!Signal, FilesTyped, Informed, UpToDate, LastUnderWay
  <2>2. CASE hearing # "on"
    BY <1>3, <2>2 DEF Files!Signal, FilesTyped, Informed
  <2> QED BY <2>1, <2>2
<1>4. CASE Files!OpenPicker
  <2>1. Files!Issue
    BY <1>4 DEF Files!OpenPicker
  <2> QED BY <1>4, <2>1, IssueKeeps DEF Files!OpenPicker, FilesTyped, Informed, UpToDate, LastUnderWay
<1>5. CASE Files!ClosePicker
  <2>0. catalog # "keys"
    BY <1>5 DEF Files!ClosePicker, FilesTyped
  <2> QED BY <1>5, <2>0 DEF Files!ClosePicker, FilesTyped, Informed, UpToDate, LastUnderWay, Files!Closed
<1>6. ASSUME NEW r \in reads, Files!Answer(r)
      PROVE  FilesTyped' /\ Informed'
  <2> DEFINE new == [r EXCEPT !.answer = <<disk>>]
  <2>1. reads' = (reads \ {r}) \cup {new}
    BY <1>6 DEF Files!Answer
  <2>2. /\ r = [id |-> r.id, answer |-> r.answer] /\ r.id \in 1..issued
        /\ new = [id |-> new.id, answer |-> new.answer] /\ new.id = r.id /\ new.answer = <<disk>>
    BY DEF FilesTyped
  <2> HIDE DEF new
  <2> QED BY <1>6, <2>1, <2>2 DEF Files!Answer, FilesTyped, Informed, UpToDate, LastUnderWay
<1>7. ASSUME NEW r \in reads, Files!RebuildKeymap(r)
      PROVE  FilesTyped' /\ Informed'
  <2>1. r.id \in 1..issued /\ reads' = reads \ {r} /\ r.answer # Files!Unanswered
    BY <1>7 DEF Files!RebuildKeymap, Files!Received, FilesTyped
  <2>2. FilesTyped'
    BY <1>7, <2>1 DEF Files!RebuildKeymap, Files!Received, FilesTyped
  <2>3. Informed'
    BY <1>7, <2>1 DEF Files!RebuildKeymap, Files!Received, FilesTyped, Informed, UpToDate, LastUnderWay
  <2> QED BY <2>2, <2>3
<1>8. ASSUME NEW r \in reads, Files!ShowScripts(r)
      PROVE  FilesTyped' /\ Informed'
  <2>1. r.id \in 1..issued /\ reads' = reads \ {r} /\ r.answer # Files!Unanswered
    BY <1>8 DEF Files!ShowScripts, Files!Received, FilesTyped
  <2>2. FilesTyped'
    BY <1>8, <2>1 DEF Files!ShowScripts, Files!Received, FilesTyped
  <2>3. Informed'
    BY <1>8, <2>1 DEF Files!ShowScripts, Files!Received, FilesTyped, Informed, UpToDate, LastUnderWay
  <2> QED BY <2>2, <2>3
<1>9. ASSUME NEW r \in reads, Files!ReloadThemes(r)
      PROVE  FilesTyped' /\ Informed'
  <2>1. r.id \in 1..issued /\ reads' = reads \ {r} /\ r.answer # Files!Unanswered
    BY <1>9 DEF Files!ReloadThemes, Files!Received, FilesTyped
  <2> QED BY <1>9, <2>1 DEF Files!ReloadThemes, Files!Received, FilesTyped, Informed, UpToDate,
       LastUnderWay
<1>10. ASSUME NEW id, Files!SelectTheme(id) \/ Files!SelectElsewhere(id)
       PROVE  FilesTyped' /\ Informed'
  BY <1>10 DEF Files!SelectTheme, Files!SelectElsewhere, Files!reading, FilesTyped, Informed,
     UpToDate, LastUnderWay
<1>11. CASE Files!Paint
  BY <1>11 DEF Files!Paint, Files!reading, FilesTyped, Informed, UpToDate, LastUnderWay
<1>12. CASE UNCHANGED Files!vars
  BY <1>12 DEF Files!vars, Files!reading, FilesTyped, Informed, UpToDate, LastUnderWay
<1> QED BY <1>1, <1>2, <1>3, <1>4, <1>5, <1>6, <1>7, <1>8, <1>9, <1>10, <1>11, <1>12 DEF Files!Next


\* Whatever queue of choices is on its way, a new one comes last.
LEMMA ChoiceLast ==
  ASSUME news \in Seq(Files!ThemeIds), NEW id \in Files!ThemeIds
  PROVE  /\ Append(news, id) \in Seq(Files!ThemeIds) /\ Append(news, id) # <<>>
         /\ Append(news, id)[Len(Append(news, id))] = id
<1>1. Len(Append(news, id)) = Len(news) + 1
  BY AppendProperties, LenProperties
<1> QED BY <1>1, AppendProperties, LenProperties

LEMMA PaintedStep ==
  ASSUME FilesTyped, PaintLast, [Files!Next]_(Files!vars)
  PROVE  PaintLast'
<1>1. CASE UNCHANGED Files!painting
  BY <1>1 DEF Files!painting, PaintLast, Files!ResolveTheme
<1>2. ASSUME NEW r \in reads, Files!ReloadThemes(r)
      PROVE  PaintLast'
  <2> DEFINE file == r.answer[1]
  <2>1. /\ registry' = Files!Registered(file) /\ UNCHANGED <<terminal, chrome>>
        /\ Files!HotReload(registry')
    BY <1>2 DEF Files!ReloadThemes
  <2>2. registry'.file = "absent" => registry'.tokens = Files!NoTokens
    BY <2>1 DEF Files!Registered, Files!Absent
  <2>3. registry'.file = "invalid" => registry'.tokens = registry.tokens
    BY <2>1 DEF Files!Registered, Files!Absent
  <2>4. registry'.file \in {"absent", "invalid", "valid"}
    BY <2>1 DEF Files!Registered, Files!Absent
  <2> HIDE DEF file
  <2>5. CASE setting # "user"
    <3>1. UNCHANGED <<setting, news>>
      BY <2>1, <2>5 DEF Files!HotReload
    <3> QED BY <2>1, <2>2, <2>5, <3>1 DEF PaintLast, Files!ResolveTheme
  <2>6. CASE setting = "user" /\ registry'.file = "absent"
    <3>1. setting' = "builtin" /\ news' = Append(news, "builtin") /\ "builtin" \in Files!ThemeIds
      BY <2>1, <2>6 DEF Files!HotReload, Files!ThemeIds
    <3> QED BY <2>2, <3>1, ChoiceLast DEF PaintLast
  <2>7. CASE setting = "user" /\ registry'.file = "invalid"
    <3>1. UNCHANGED <<setting, news>>
      BY <2>1, <2>7 DEF Files!HotReload
    <3> QED BY <2>1, <2>2, <2>3, <2>7, <3>1 DEF PaintLast, Files!ResolveTheme
  <2>8. CASE setting = "user" /\ registry'.file = "valid"
    <3>1. setting' = setting /\ news' = Append(news, "user") /\ "user" \in Files!ThemeIds
      BY <2>1, <2>8 DEF Files!HotReload, Files!ThemeIds
    <3> QED BY <2>2, <2>8, <3>1, ChoiceLast DEF PaintLast
  <2> QED BY <2>4, <2>5, <2>6, <2>7, <2>8
<1>3. ASSUME NEW id \in Files!ThemeIds, Files!SelectTheme(id)
      PROVE  PaintLast'
  <2>1. /\ news = <<>> /\ Files!IsRegistered(id) /\ setting' = id /\ news' = Append(news, id)
        /\ UNCHANGED <<registry, terminal, chrome>>
    BY <1>3 DEF Files!SelectTheme
  <2> QED BY <2>1, ChoiceLast DEF PaintLast, Files!IsRegistered
<1>4. ASSUME NEW id \in Files!ThemeIds, Files!SelectElsewhere(id)
      PROVE  PaintLast'
  <2>1. /\ news = <<>> /\ id # setting /\ news' = Append(news, id)
        /\ UNCHANGED <<registry, setting, terminal, chrome>>
    BY <1>4 DEF Files!SelectElsewhere
  <2>2. id = "user" => terminal = Files!Default
    BY <2>1 DEF PaintLast, Files!ResolveTheme, Files!ThemeIds
  <2> QED BY <2>1, <2>2, ChoiceLast DEF PaintLast
<1>5. CASE Files!Paint
  <2> DEFINE id == Head(news)
  <2>1. /\ news # <<>> /\ news' = Tail(news) /\ setting' = id /\ UNCHANGED registry
        /\ terminal' = IF Files!IsRegistered(id) THEN Files!ResolveTheme(id, registry) ELSE terminal
        /\ chrome' = Files!ResolveTheme(id, registry)
    BY <1>5 DEF Files!Paint, Files!PaintTerminal
  <2>2. /\ id \in Files!ThemeIds /\ news' \in Seq(Files!ThemeIds) /\ id = news[1]
        /\ Len(news) \in Nat \ {0}
        /\ news' = <<>> => Len(news) = 1
        /\ news' # <<>> => news'[Len(news')] = news[Len(news)]
    <3> DEFINE t == Tail(news)
    <3>1. news \in Seq(Files!ThemeIds) /\ news # <<>> /\ id = news[1]
      BY <2>1 DEF PaintLast
    <3>2. /\ id \in Files!ThemeIds /\ t \in Seq(Files!ThemeIds) /\ Len(t) = Len(news) - 1
          /\ \A i \in 1..Len(t) : t[i] = news[i + 1]
      BY <3>1, HeadTailProperties
    <3>3. Len(news) \in Nat \ {0} /\ Len(t) \in Nat /\ (t = <<>> <=> Len(t) = 0)
      BY <3>1, <3>2, EmptySeq, LenProperties
    <3> HIDE DEF t
    <3>4. t # <<>> => t[Len(t)] = news[Len(news)]
      BY <3>2, <3>3
    <3> QED BY <2>1, <3>1, <3>2, <3>3, <3>4 DEF t
  <2> HIDE DEF id
  <2>3. id = "builtin" \/ (id = "user" /\ Files!IsRegistered(id)) \/ (id = "user" /\ registry.file = "absent")
    BY <2>2 DEF Files!ThemeIds, Files!IsRegistered
  <2>4. CASE id = "builtin"
    <3>1. terminal' = Files!Default /\ chrome' = Files!Default
      BY <2>1, <2>4 DEF Files!IsRegistered, Files!ResolveTheme
    <3> QED BY <2>1, <2>2, <2>4, <3>1 DEF PaintLast, Files!ResolveTheme
  <2>5. CASE id = "user" /\ Files!IsRegistered(id)
    <3>1. registry.file # "absent"
      BY <2>5 DEF Files!IsRegistered
    <3> QED BY <2>1, <2>2, <2>5, <3>1 DEF PaintLast, Files!ResolveTheme
  <2>6. CASE id = "user" /\ registry.file = "absent"
    <3>1. UNCHANGED terminal /\ chrome' = Files!Default /\ Files!ResolveTheme(id, registry) = Files!Default
      BY <2>1, <2>6 DEF PaintLast, Files!IsRegistered, Files!ResolveTheme
    <3> QED BY <2>1, <2>2, <2>6, <3>1 DEF PaintLast, Files!ResolveTheme
  <2> QED BY <2>3, <2>4, <2>5, <2>6
<1>6. [Files!Next]_(Files!vars) /\ ~Files!Paint
      /\ (\A r \in reads : ~Files!ReloadThemes(r))
      /\ (\A id \in Files!ThemeIds : ~Files!SelectTheme(id) /\ ~Files!SelectElsewhere(id))
      => UNCHANGED Files!painting
  BY DEF Files!Next, Files!vars, Files!Write, Files!Subscribed, Files!Signal, Files!OpenPicker,
     Files!ClosePicker, Files!Answer, Files!RebuildKeymap, Files!ShowScripts
<1> QED BY <1>1, <1>2, <1>3, <1>4, <1>5, <1>6

LEMMA FilesStep == ASSUME FilesInv, [Files!Next]_(Files!vars) PROVE FilesInv'
BY ReadsStep, PaintedStep DEF FilesInv

LEMMA FilesTell == ASSUME FilesConstants, FilesInv PROVE Files!CatalogsSettle
<1>1. ASSUME picker # Files!Closed, Files!Settled("scripts")
      PROVE  picker = disk
  BY <1>1 DEF FilesInv, Informed, LastUnderWay, Files!Settled
<1>2. ASSUME Files!Settled("keys"), applied = newest, NEW chord
      PROVE  Files!Resolve(chord, "terminal") =
               IF Files!Bound(chord) \in Files!PALETTE_ONLY_COMMANDS THEN "none" ELSE Files!Bound(chord)
  <2>1. keymap = Files!Merged(disk) /\ disk \in KEY_FILES
    BY <1>2 DEF FilesInv, FilesTyped, Informed, LastUnderWay, Files!Settled
  <2>2. disk \in Seq({disk[n] : n \in DOMAIN disk})
    BY <2>1 DEF FilesConstants
  <2>3. Agrees(keymap, disk, Len(disk), chord) /\ Files!Bound(chord) = LastSays(disk, Len(disk), chord)
    BY <2>1, <2>2, MergedAgrees, BoundIs
  <2>4. IF chord \in DOMAIN keymap THEN keymap[chord] = Files!Bound(chord) ELSE Files!Bound(chord) = "none"
    BY <2>3 DEF Agrees
  <2> QED BY <2>4 DEF Files!Resolve, Files!IsEditable, Files!PALETTE_ONLY_COMMANDS
<1>3. ASSUME Files!Settled("themes"), news = <<>>
      PROVE  terminal = Files!ResolveTheme(setting, registry) /\ chrome = terminal
  BY <1>3 DEF FilesInv, PaintLast
<1> QED BY <1>1, <1>2, <1>3 DEF Files!CatalogsSettle

(* Keymap, picker and registry show the files once their reads are done, for  *)
(* any files, listings, palettes and default keys, and whatever the order  *)
(* of the answers (rebuildKeymap, ScriptPicker, themeHotReload.ts).        *)
THEOREM CatalogsAreTrue ==
  ASSUME FilesConstants
  PROVE  Files!Spec => []Files!CatalogsSettle
<1>1. Files!Init => FilesInv
  BY FilesStart
<1>2. FilesInv /\ [Files!Next]_(Files!vars) => FilesInv'
  BY FilesStep
<1>3. FilesInv => Files!CatalogsSettle
  BY FilesTell
<1> QED BY <1>1, <1>2, <1>3, PTL DEF Files!Spec

=============================================================================
