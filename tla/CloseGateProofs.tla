-------------------------- MODULE CloseGateProofs --------------------------
(***************************************************************************)
(* What TLAPS proves of the close gate, for every grace, every number of   *)
(* gestures and asks, and whatever else happens around it.                 *)
(***************************************************************************)
EXTENDS CloseGate, SequenceTheorems, TLAPS

(* No ask is of a later streak than the tracker's, and an ask of this      *)
(* streak that left the queue was taken in time.                           *)
Streaks ==
  \A i \in 1 .. Len(asks) :
    /\ asks[i].gen <= ask.generation
    /\ asks[i].phase # "sent" /\ asks[i].gen = ask.generation => answered = ask.generation

(* Everything that makes a later teardown lawful was agreed to, and what   *)
(* only follows a teardown finds it done.                                  *)
Agreed ==
  /\ authorized => consent \/ tornDown
  /\ "quit_confirmed" \in calls => consent
  /\ quitAuthorized => consent
  /\ "main" \notin windows => tornDown
  /\ "lastWindow" \in events => tornDown
  /\ process # "running" => tornDown

IInv == TypeOK /\ Streaks /\ AckedMeansAlive /\ Agreed

----------------------------------------------------------------------------
(* What RemoveAt leaves was there before. *)
LEMMA RemoveAtKeeps ==
  ASSUME NEW S, NEW s \in Seq(S), NEW i \in 1 .. Len(s)
  PROVE  /\ RemoveAt(s, i) \in Seq(S)
         /\ \A j \in 1 .. Len(RemoveAt(s, i)) : \E k \in 1 .. Len(s) : RemoveAt(s, i)[j] = s[k]
<1> DEFINE a == SubSeq(s, 1, i - 1)
           b == SubSeq(s, i + 1, Len(s))
<1>1. Len(s) \in Nat /\ \A j \in 1 .. Len(s) : s[j] \in S
  OBVIOUS
<1>2. /\ a \in Seq(S) /\ Len(a) = i - 1
      /\ \A j \in 1 .. i - 1 : a[j] = s[j]
  BY <1>1, SubSeqProperties, SMT
<1>3. /\ b \in Seq(S) /\ Len(b) = Len(s) - i
      /\ \A j \in 1 .. Len(s) - i : b[j] = s[i + j]
  <2>1. \A j \in i + 1 .. Len(s) : s[j] \in S
    BY <1>1
  <2>2. /\ b \in Seq(S)
        /\ Len(b) = IF i + 1 <= Len(s) THEN Len(s) - (i + 1) + 1 ELSE 0
        /\ \A j \in 1 .. Len(s) - (i + 1) + 1 : b[j] = s[(i + 1) + j - 1]
    BY <1>1, <2>1, SubSeqProperties
  <2> QED BY <1>1, <2>2
<1> HIDE DEF a, b
<1>4. RemoveAt(s, i) = a \o b
  BY DEF RemoveAt, a, b
<1>5. /\ a \o b \in Seq(S)
      /\ Len(a \o b) = Len(s) - 1
      /\ \A j \in 1 .. Len(s) - 1 : (a \o b)[j] = IF j <= i - 1 THEN a[j] ELSE b[j - (i - 1)]
  <2>1. /\ a \o b \in Seq(S)
        /\ Len(a \o b) = Len(a) + Len(b)
        /\ \A j \in 1 .. Len(a) + Len(b) : (a \o b)[j] = IF j <= Len(a) THEN a[j] ELSE b[j - Len(a)]
    BY <1>2, <1>3, ConcatProperties
  <2> QED BY <1>1, <1>2, <1>3, <2>1
<1>6. ASSUME NEW j \in 1 .. Len(s) - 1
      PROVE  \E k \in 1 .. Len(s) : (a \o b)[j] = s[k]
  <2>1. CASE j <= i - 1
    BY <1>1, <1>2, <1>5, <2>1
  <2>2. CASE ~(j <= i - 1)
    <3>1. j - (i - 1) \in 1 .. Len(s) - i /\ j + 1 \in 1 .. Len(s)
      BY <1>1, <2>2
    <3>2. (a \o b)[j] = s[i + (j - (i - 1))]
      BY <1>3, <1>5, <2>2, <3>1
    <3>3. i + (j - (i - 1)) = j + 1
      BY <1>1
    <3> QED BY <3>1, <3>2, <3>3
  <2> QED BY <2>1, <2>2
<1> QED BY <1>1, <1>4, <1>5, <1>6

----------------------------------------------------------------------------
(* What an ask leaves behind, whoever asked. *)
AskFacts ==
  /\ ask' \in [generation : Nat, acked : BOOLEAN, started : BOOLEAN, elapsed : 0..GRACE]
  /\ asks' \in Seq(Ask)
  /\ Streaks'
  /\ AckedMeansAlive'

LEMMA AskKept ==
  ASSUME IInv, UNCHANGED <<ask, asks, answered>>
  PROVE  AskFacts
BY DEF IInv, TypeOK, GateTypes, LinkTypes, AskFacts, Streaks, AckedMeansAlive

LEMMA AskStep ==
  ASSUME IInv, NEW chan \in Channels, NEW isPtyOwner \in BOOLEAN, NEW quitAuth \in BOOLEAN,
         NEW outcome, AskAndApply(chan, isPtyOwner, quitAuth, outcome), UNCHANGED answered
  PROVE  /\ AskFacts
         /\ outcome = "TeardownAndProceed" => quitAuth \/ Unanswered \/ ~reachable
         /\ isPtyOwner => outcome # "Ignore"
<1>1. /\ ask.generation \in Nat
      /\ ask \in [generation : Nat, acked : BOOLEAN, started : BOOLEAN, elapsed : 0..GRACE]
      /\ asks \in Seq(Ask) /\ 0 \in 0..GRACE
  <2>1. /\ ask \in [generation : Nat, acked : BOOLEAN, started : BOOLEAN, elapsed : 0..GRACE]
        /\ asks \in Seq(Ask)
    BY DEF IInv, TypeOK, GateTypes, LinkTypes
  <2>2. 0 \in 0..GRACE
    BY GraceAssumption, SMT
  <2> QED BY <2>1, <2>2
<1>2. CASE UNCHANGED <<ask, asks>> /\ outcome = "Ignore" /\ ~isPtyOwner
  BY <1>2, AskKept
<1>3. CASE UNCHANGED <<ask, asks>> /\ outcome = "TeardownAndProceed" /\ Terminal(isPtyOwner, quitAuth)
  BY <1>3, AskKept DEF Terminal, Unanswered
<1>4. CASE /\ Asks(isPtyOwner, quitAuth)
           /\ ask' = Restarted(isPtyOwner, quitAuth)
           /\ IF EmitFails
              THEN outcome = "TeardownAndProceed" /\ UNCHANGED asks
              ELSE outcome = "Vetoed" /\ asks' = Delivered(chan, ask'.generation)
  <2>1. \/ ask' = ask
        \/ /\ ask' = [generation |-> ask.generation + 1, acked |-> FALSE, started |-> TRUE, elapsed |-> 0]
           /\ FreshStreak(isPtyOwner, quitAuth)
    BY <1>4 DEF Restarted
  <2>2. /\ ask' \in [generation : Nat, acked : BOOLEAN, started : BOOLEAN, elapsed : 0..GRACE]
        /\ ask'.generation \in Nat /\ ask.generation <= ask'.generation
        /\ ask' = ask \/ (ask'.generation = ask.generation + 1 /\ ~ask'.acked)
    <3>1. CASE ask' = ask
      BY <1>1, <3>1
    <3>2. CASE ask' = [generation |-> ask.generation + 1, acked |-> FALSE, started |-> TRUE, elapsed |-> 0]
      <4>1. ask.generation + 1 \in Nat
        BY <1>1
      <4>2. ask' \in [generation : Nat, acked : BOOLEAN, started : BOOLEAN, elapsed : 0..GRACE]
        BY <1>1, <3>2, <4>1, Zenon
      <4>3. ask'.generation = ask.generation + 1 /\ ask'.acked = FALSE
        BY <3>2
      <4> QED BY <1>1, <4>2, <4>3
    <3> QED BY <2>1, <3>1, <3>2
  <2>3. AckedMeansAlive'
    BY <2>2 DEF IInv, AckedMeansAlive
  <2>4. \A i \in 1 .. Len(asks) : asks[i] \in Ask /\ asks[i].gen \in Nat
    <3>1. \A i \in 1 .. Len(asks) : asks[i] \in Ask
      BY <1>1
    <3> QED BY <3>1 DEF Ask
  <2>5. \A i \in 1 .. Len(asks) :
          /\ asks[i].gen <= ask'.generation
          /\ asks[i].phase # "sent" /\ asks[i].gen = ask'.generation => answered = ask'.generation
    BY <1>1, <2>2, <2>4 DEF IInv, Streaks
  <2>6. ASSUME UNCHANGED asks PROVE AskFacts
    <3>1. Streaks'
      BY <2>5, <2>6, Zenon DEF Streaks
    <3>2. asks' \in Seq(Ask)
      BY <1>1, <2>6
    <3> QED BY <2>2, <2>3, <3>1, <3>2 DEF AskFacts
  <2>7. ASSUME asks' = Append(asks, [chan |-> chan, gen |-> ask'.generation, phase |-> "sent"])
        PROVE  AskFacts
    <3> DEFINE new == [chan |-> chan, gen |-> ask'.generation, phase |-> "sent"]
    <3>1. new \in Ask /\ new.gen = ask'.generation /\ new.phase = "sent"
      BY <2>2 DEF Ask, Phases
    <3> HIDE DEF new
    <3>2. /\ asks' \in Seq(Ask) /\ Len(asks') = Len(asks) + 1
          /\ \A i \in 1 .. Len(asks) : asks'[i] = asks[i]
          /\ asks'[Len(asks) + 1] = new
      BY <1>1, <2>7, <3>1, AppendProperties DEF new
    <3>3. \A i \in 1 .. Len(asks') : i \in 1 .. Len(asks) \/ i = Len(asks) + 1
      BY <1>1, <3>2
    <3>4. Streaks'
      BY <2>2, <2>5, <3>1, <3>2, <3>3 DEF Streaks
    <3> QED BY <2>2, <2>3, <3>2, <3>4 DEF AskFacts
  <2>8. AskFacts
    BY <1>4, <2>6, <2>7 DEF Delivered
  <2>9. outcome = "TeardownAndProceed" => ~reachable
    BY <1>4 DEF EmitFails
  <2>10. outcome # "Ignore"
    BY <1>4
  <2> QED BY <2>8, <2>9, <2>10
<1> QED BY <1>2, <1>3, <1>4 DEF AskAndApply

----------------------------------------------------------------------------
(* The rest of the state: no ask is needed to say what an action does to it. *)
RestTypes ==
  /\ authorized \in BOOLEAN /\ tornDown \in BOOLEAN /\ sessions \in BOOLEAN
  /\ RuntimeTypes
  /\ listening \subseteq Channels /\ reachable \in BOOLEAN /\ calls \subseteq Calls
  /\ ViewTypes

Lawful == TearsDown => consent \/ Unanswered \/ ~reachable \/ "restart" \in events

LEMMA RestFacts ==
  ASSUME IInv
  PROVE  RestTypes /\ Agreed
BY DEF IInv, TypeOK, GateTypes, LinkTypes, RestTypes

LEMMA Together ==
  ASSUME AskFacts, RestTypes', Agreed'
  PROVE  IInv'
BY DEF AskFacts, RestTypes, IInv, TypeOK, GateTypes, LinkTypes

(* What the teardown leaves, the first time and later. *)
LEMMA TeardownFacts ==
  ASSUME RestTypes, TeardownOnce
  PROVE  tornDown' = TRUE /\ sessions' \in BOOLEAN /\ TeardownPosts \subseteq {"closeSettings"}
BY DEF RestTypes, TeardownOnce, TeardownPosts

LEMMA MenuCloseStep ==
  ASSUME IInv, MenuClose
  PROVE  IInv' /\ Lawful
<1>1. RestTypes /\ Agreed
  BY RestFacts
<1>2. PICK outcome \in {"Vetoed", "TeardownAndProceed"} :
        /\ AskAndApply("tabs:action", TRUE, authorized, outcome)
        /\ IF outcome = "TeardownAndProceed"
           THEN /\ authorized' = TRUE
                /\ TeardownOnce
                /\ events' = events \cup {"exit"} \cup TeardownPosts
           ELSE NoTeardown /\ UNCHANGED <<authorized, events>>
  BY DEF MenuClose
<1>3. UNCHANGED <<windows, process, listening, reachable, calls, view, history>>
  BY DEF MenuClose
<1>4. AskFacts /\ (outcome = "TeardownAndProceed" => authorized \/ Unanswered \/ ~reachable)
  <2>1. authorized \in BOOLEAN /\ "tabs:action" \in Channels /\ UNCHANGED answered
    BY <1>1, <1>3 DEF RestTypes, Channels, history
  <2> QED BY <1>2, <2>1, AskStep
<1>5. CASE outcome = "TeardownAndProceed"
  <2>1. /\ authorized' = TRUE /\ tornDown' = TRUE /\ sessions' \in BOOLEAN
        /\ events' = events \cup {"exit"} \cup TeardownPosts
        /\ TeardownPosts \subseteq {"closeSettings"}
    BY <1>1, <1>2, <1>5, TeardownFacts
  <2>2. RestTypes'
    BY <1>1, <1>3, <2>1 DEF RestTypes, RuntimeTypes, ViewTypes, Events, view, history
  <2>3. Agreed'
    BY <1>1, <1>3, <2>1 DEF Agreed, view, history
  <2>4. Lawful
    BY <1>1, <1>4, <1>5 DEF Lawful, TearsDown, Agreed
  <2> QED BY <1>4, <2>2, <2>3, <2>4, Together
<1>6. CASE outcome # "TeardownAndProceed"
  <2>1. UNCHANGED <<authorized, tornDown, sessions, events>>
    BY <1>2, <1>6 DEF NoTeardown
  <2>2. RestTypes' /\ Agreed' /\ Lawful
    BY <1>1, <1>3, <2>1 DEF RestTypes, RuntimeTypes, ViewTypes, Agreed, Lawful, TearsDown, view, history
  <2> QED BY <1>4, <2>2, Together
<1> QED BY <1>5, <1>6

(* A close of a window that is let through, with the teardown done. *)
LEMMA RemovalFacts ==
  ASSUME RestTypes, Agreed, NEW w \in {"main", "settings"}, NEW posts \in SUBSET Events,
         RemoveWindow(w, posts), tornDown' \in BOOLEAN,
         w = "main" \/ "main" \notin windows \/ "lastWindow" \in posts => tornDown'
  PROVE  /\ windows' \subseteq {"main", "settings"} /\ events' \subseteq Events
         /\ "main" \notin windows' => tornDown'
         /\ "lastWindow" \in events' => tornDown'
<1>1. windows' = windows \ {w} /\ windows \subseteq {"main", "settings"}
  BY DEF RemoveWindow, RestTypes, RuntimeTypes
<1>2. \/ events' = posts
      \/ events' = posts \cup {"lastWindow"} /\ windows = {w}
  BY DEF RemoveWindow
<1>3. events' \subseteq Events
  BY <1>2 DEF Events
<1>4. "main" \notin windows' => w = "main" \/ "main" \notin windows
  BY <1>1
<1>5. windows = {w} => w = "main" \/ "main" \notin windows
  OBVIOUS
<1> QED BY <1>1, <1>2, <1>3, <1>4, <1>5

LEMMA CloseRequestedStep ==
  ASSUME IInv, NEW queue \in SUBSET Events, "lastWindow" \in queue => "lastWindow" \in events,
         CloseRequested(queue)
  PROVE  IInv' /\ Lawful
<1>1. RestTypes /\ Agreed
  BY RestFacts
<1>2. PICK outcome \in {"Vetoed", "TeardownAndProceed"} :
        /\ AskAndApply("close:requested", TRUE, authorized, outcome)
        /\ IF outcome = "TeardownAndProceed"
           THEN TeardownOnce /\ RemoveWindow("main", queue \cup TeardownPosts)
           ELSE NoTeardown /\ events' = queue /\ UNCHANGED windows
        /\ UNCHANGED <<authorized, process, listening, reachable, calls, view, history>>
  BY DEF CloseRequested
<1>3. AskFacts /\ (outcome = "TeardownAndProceed" => authorized \/ Unanswered \/ ~reachable)
  <2>1. authorized \in BOOLEAN /\ "close:requested" \in Channels /\ UNCHANGED answered
    BY <1>1, <1>2 DEF RestTypes, Channels, history
  <2> QED BY <1>2, <2>1, AskStep
<1>4. CASE outcome = "TeardownAndProceed"
  <2>1. /\ tornDown' = TRUE /\ sessions' \in BOOLEAN
        /\ TeardownPosts \subseteq {"closeSettings"}
    BY <1>1, <1>2, <1>4, TeardownFacts
  <2>2. queue \cup TeardownPosts \in SUBSET Events
    BY <2>1 DEF Events
  <2>3. /\ windows' \subseteq {"main", "settings"} /\ events' \subseteq Events
    BY <1>1, <1>2, <1>4, <2>1, <2>2, RemovalFacts
  <2>4. RestTypes'
    BY <1>1, <1>2, <2>1, <2>3 DEF RestTypes, RuntimeTypes, ViewTypes, view, history
  <2>5. Agreed'
    BY <1>1, <1>2, <2>1 DEF Agreed, view, history
  <2>6. Lawful
    BY <1>1, <1>3, <1>4 DEF Lawful, TearsDown, Agreed
  <2> QED BY <1>3, <2>4, <2>5, <2>6, Together
<1>5. CASE outcome # "TeardownAndProceed"
  <2>1. UNCHANGED <<tornDown, sessions, windows>> /\ events' = queue
    BY <1>2, <1>5 DEF NoTeardown
  <2>2. RestTypes' /\ Agreed' /\ Lawful
    BY <1>1, <1>2, <2>1 DEF RestTypes, RuntimeTypes, ViewTypes, Agreed, Lawful, TearsDown, view, history
  <2> QED BY <1>3, <2>2, Together
<1> QED BY <1>4, <1>5

LEMMA ExitRequestedStep ==
  ASSUME IInv, NEW code \in {"exit", "restart", "lastWindow"}, ExitRequested(code)
  PROVE  IInv' /\ Lawful
<1>1. RestTypes /\ Agreed /\ code \in events
  BY RestFacts DEF ExitRequested
<1>2. PICK outcome \in {"Ignore", "Vetoed", "TeardownAndProceed"} :
        /\ IF code = "restart"
           THEN outcome = "TeardownAndProceed" /\ UNCHANGED <<ask, asks>>
           ELSE AskAndApply("close:requested", ExitGateInput(code), authorized, outcome)
        /\ IF outcome = "TeardownAndProceed"
           THEN TeardownOnce /\ events' = (events \ {code}) \cup TeardownPosts
           ELSE NoTeardown /\ events' = events \ {code}
        /\ process' = IF outcome = "Vetoed" THEN process ELSE "exiting"
  BY DEF ExitRequested
<1>3. UNCHANGED <<authorized, windows, listening, reachable, calls, view, history>>
  BY DEF ExitRequested
<1>4. UNCHANGED answered /\ authorized \in BOOLEAN /\ ExitGateInput(code) \in BOOLEAN
      /\ "close:requested" \in Channels
  BY <1>1, <1>3 DEF RestTypes, ExitGateInput, Channels, history
<1>5. /\ AskFacts
      /\ outcome = "TeardownAndProceed" =>
           authorized \/ Unanswered \/ ~reachable \/ "restart" \in events
      /\ outcome = "Ignore" => ~ExitGateInput(code) /\ code # "restart"
  <2>1. CASE code = "restart"
    BY <1>1, <1>2, <1>4, <2>1, AskKept
  <2>2. CASE code # "restart"
    <3>1. AskAndApply("close:requested", ExitGateInput(code), authorized, outcome)
      BY <1>2, <2>2
    <3>2. /\ AskFacts
          /\ outcome = "TeardownAndProceed" => authorized \/ Unanswered \/ ~reachable
          /\ ExitGateInput(code) => outcome # "Ignore"
      BY <1>4, <3>1, AskStep
    <3> QED BY <2>2, <3>2
  <2> QED BY <2>1, <2>2
<1>6. CASE outcome = "TeardownAndProceed"
  <2>1. /\ tornDown' = TRUE /\ sessions' \in BOOLEAN
        /\ events' = (events \ {code}) \cup TeardownPosts
        /\ TeardownPosts \subseteq {"closeSettings"}
        /\ process' = "exiting"
    BY <1>1, <1>2, <1>6, TeardownFacts
  <2>2. RestTypes'
    BY <1>1, <1>3, <2>1 DEF RestTypes, RuntimeTypes, ViewTypes, Events, view, history
  <2>3. Agreed'
    BY <1>1, <1>3, <2>1 DEF Agreed, view, history
  <2>4. Lawful
    BY <1>1, <1>5, <1>6 DEF Lawful, TearsDown, Agreed
  <2> QED BY <1>5, <2>2, <2>3, <2>4, Together
<1>7. CASE outcome # "TeardownAndProceed"
  <2>1. /\ UNCHANGED <<tornDown, sessions>> /\ events' = events \ {code}
        /\ process' \in {process, "exiting"}
    BY <1>2, <1>7 DEF NoTeardown
  <2>2. process' = "exiting" /\ process # "exiting" => tornDown
    <3>1. CASE outcome = "Ignore"
      <4>1. code = "lastWindow" \/ "main" \notin windows
        BY <1>5, <3>1 DEF ExitGateInput
      <4> QED BY <1>1, <4>1 DEF Agreed
    <3>2. CASE outcome = "Vetoed"
      BY <1>2, <3>2
    <3> QED BY <1>2, <1>7, <3>1, <3>2
  <2>3. RestTypes' /\ Lawful
    BY <1>1, <1>3, <2>1 DEF RestTypes, RuntimeTypes, ViewTypes, Lawful, TearsDown, view, history
  <2>4. Agreed'
    BY <1>1, <1>3, <2>1, <2>2 DEF Agreed, view, history
  <2> QED BY <1>5, <2>3, <2>4, Together
<1> QED BY <1>6, <1>7

LEMMA WebviewCloseRequestStep ==
  ASSUME IInv, WebviewCloseRequest
  PROVE  IInv' /\ Lawful
<1>1. RestTypes /\ Agreed
  BY RestFacts
<1>2. PICK outcome \in {"Vetoed", "TeardownAndProceed"} :
        /\ AskAndApply("close:requested", TRUE, FALSE, outcome)
        /\ IF outcome = "TeardownAndProceed"
           THEN /\ authorized' = TRUE
                /\ TeardownOnce
                /\ events' = events \cup {"close"} \cup TeardownPosts
           ELSE NoTeardown /\ UNCHANGED <<authorized, events>>
  BY DEF WebviewCloseRequest
<1>3. /\ UNCHANGED <<windows, process, listening, reachable, view, history>>
      /\ calls' = calls \ {"webview_close_request"}
  BY DEF WebviewCloseRequest
<1>4. AskFacts /\ (outcome = "TeardownAndProceed" => Unanswered \/ ~reachable)
  <2>1. "close:requested" \in Channels /\ UNCHANGED answered
    BY <1>3 DEF Channels, history
  <2> QED BY <1>2, <2>1, AskStep
<1>5. CASE outcome = "TeardownAndProceed"
  <2>1. /\ authorized' = TRUE /\ tornDown' = TRUE /\ sessions' \in BOOLEAN
        /\ events' = events \cup {"close"} \cup TeardownPosts
        /\ TeardownPosts \subseteq {"closeSettings"}
    BY <1>1, <1>2, <1>5, TeardownFacts
  <2>2. RestTypes'
    BY <1>1, <1>3, <2>1 DEF RestTypes, RuntimeTypes, ViewTypes, Events, view, history
  <2>3. Agreed'
    BY <1>1, <1>3, <2>1 DEF Agreed, view, history
  <2>4. Lawful
    BY <1>1, <1>4, <1>5 DEF Lawful, TearsDown, Agreed
  <2> QED BY <1>4, <2>2, <2>3, <2>4, Together
<1>6. CASE outcome # "TeardownAndProceed"
  <2>1. UNCHANGED <<authorized, tornDown, sessions, events>>
    BY <1>2, <1>6 DEF NoTeardown
  <2>2. RestTypes' /\ Agreed' /\ Lawful
    BY <1>1, <1>3, <2>1 DEF RestTypes, RuntimeTypes, ViewTypes, Agreed, Lawful, TearsDown, view, history
  <2> QED BY <1>4, <2>2, Together
<1> QED BY <1>5, <1>6

LEMMA SettingsCloseStep ==
  ASSUME IInv, NEW posted \in BOOLEAN, SettingsClose(posted)
  PROVE  IInv' /\ Lawful
<1>1. RestTypes /\ Agreed
  BY RestFacts
<1>2. /\ RemoveWindow("settings", events \ {"closeSettings"})
      /\ UNCHANGED <<ask, authorized, tornDown, sessions, process, listening, reachable, asks, calls>>
      /\ UNCHANGED <<responsive, pending, quitAuthorized, consent, answered>>
      /\ lateSettings' \in BOOLEAN
  BY DEF SettingsClose, gate, link, view
<1>3. AskFacts
  BY <1>2, AskKept
<1>4. events \ {"closeSettings"} \in SUBSET Events /\ tornDown' \in BOOLEAN
  BY <1>1, <1>2 DEF RestTypes, RuntimeTypes
<1>5. "main" \notin windows \/ "lastWindow" \in events \ {"closeSettings"} => tornDown'
  BY <1>1, <1>2 DEF Agreed
<1>6. /\ windows' \subseteq {"main", "settings"} /\ events' \subseteq Events
      /\ "main" \notin windows' => tornDown'
      /\ "lastWindow" \in events' => tornDown'
  BY <1>1, <1>2, <1>4, <1>5, RemovalFacts
<1>7. RestTypes' /\ Lawful
  BY <1>1, <1>2, <1>6 DEF RestTypes, RuntimeTypes, ViewTypes, Lawful, TearsDown
<1>8. Agreed'
  BY <1>1, <1>2, <1>6 DEF Agreed
<1> QED BY <1>3, <1>7, <1>8, Together

(* The oldest waiting ask is taken: an ask of the current streak is answered in time. *)
LEMMA TakeAskStep ==
  ASSUME IInv, NEW i \in DOMAIN asks, TakeAsk(i)
  PROVE  IInv' /\ Lawful
<1>1. RestTypes /\ Agreed
  BY RestFacts
<1>2. /\ asks' = [asks EXCEPT ![i].phase = "acking"]
      /\ answered' = Newest(asks[i].gen)
      /\ UNCHANGED <<ask, authorized, tornDown, sessions, windows, process, events, listening,
                     reachable, calls, responsive, pending, quitAuthorized, consent, lateSettings>>
  BY DEF TakeAsk, gate, runtime, view
<1>3. /\ asks \in Seq(Ask) /\ i \in 1 .. Len(asks) /\ asks[i] \in Ask
      /\ ask \in [generation : Nat, acked : BOOLEAN, started : BOOLEAN, elapsed : 0..GRACE]
      /\ ask.generation \in Nat /\ answered \in Nat
  <2>1. /\ asks \in Seq(Ask) /\ answered \in Nat
        /\ ask \in [generation : Nat, acked : BOOLEAN, started : BOOLEAN, elapsed : 0..GRACE]
    BY DEF IInv, TypeOK, GateTypes, LinkTypes, ViewTypes
  <2>2. i \in 1 .. Len(asks) /\ asks[i] \in Ask
    BY <2>1
  <2> QED BY <2>1, <2>2
<1>4. answered' \in Nat /\ answered' \in {answered, ask.generation}
      /\ (asks[i].gen = ask.generation => answered' = ask.generation)
  BY <1>2, <1>3 DEF Newest, Ask
<1>5. /\ asks' \in Seq(Ask) /\ Len(asks') = Len(asks)
      /\ \A j \in 1 .. Len(asks) : j # i => asks'[j] = asks[j]
      /\ asks'[i].gen = asks[i].gen
  <2> DEFINE new == [asks[i] EXCEPT !.phase = "acking"]
  <2>1. new \in Ask /\ new.gen = asks[i].gen
    BY <1>3 DEF Ask, Phases
  <2>2. asks' = [asks EXCEPT ![i] = new]
    BY <1>2
  <2> HIDE DEF new
  <2>3. /\ asks' \in Seq(Ask) /\ Len(asks') = Len(asks)
        /\ \A j \in 1 .. Len(asks) : asks'[j] = IF j = i THEN new ELSE asks[j]
    BY <1>3, <2>1, <2>2
  <2> QED BY <1>3, <2>1, <2>3
<1>6. Streaks'
  <2> SUFFICES ASSUME NEW j \in 1 .. Len(asks)
               PROVE  /\ asks'[j].gen <= ask.generation
                      /\ asks'[j].phase # "sent" /\ asks'[j].gen = ask.generation
                           => answered' = ask.generation
    BY <1>2, <1>5 DEF Streaks
  <2>1. /\ asks[j].gen <= ask.generation
        /\ asks[j].phase # "sent" /\ asks[j].gen = ask.generation => answered = ask.generation
    BY DEF IInv, Streaks
  <2>2. CASE j = i
    BY <1>4, <1>5, <2>1, <2>2
  <2>3. CASE j # i
    BY <1>4, <1>5, <2>1, <2>3
  <2> QED BY <2>2, <2>3
<1>7. AckedMeansAlive'
  BY <1>2, <1>4 DEF IInv, AckedMeansAlive
<1>8. AskFacts
  BY <1>2, <1>3, <1>5, <1>6, <1>7 DEF AskFacts
<1>9. RestTypes' /\ Agreed' /\ Lawful
  BY <1>1, <1>2, <1>4 DEF RestTypes, RuntimeTypes, ViewTypes, Agreed, Lawful, TearsDown
<1> QED BY <1>8, <1>9, Together

(* An ack is of an ask that was taken; when it is of this streak it was taken in time. *)
LEMMA CloseAcknowledgedStep ==
  ASSUME IInv, NEW i \in DOMAIN asks, CloseAcknowledged(i)
  PROVE  IInv' /\ Lawful
<1>1. RestTypes /\ Agreed
  BY RestFacts
<1>2. /\ asks[i].phase = "acking"
      /\ asks' = [asks EXCEPT ![i].phase = "acked"]
      /\ ask' = [ask EXCEPT !.acked = @ \/ Acknowledges(asks[i].gen)]
      /\ UNCHANGED <<authorized, tornDown, sessions, windows, process, events, listening,
                     reachable, calls, responsive, pending, quitAuthorized, consent, answered,
                     lateSettings>>
  BY DEF CloseAcknowledged, runtime, view, history
<1>3. /\ asks \in Seq(Ask) /\ i \in 1 .. Len(asks) /\ asks[i] \in Ask
      /\ ask \in [generation : Nat, acked : BOOLEAN, started : BOOLEAN, elapsed : 0..GRACE]
  <2>1. /\ asks \in Seq(Ask)
        /\ ask \in [generation : Nat, acked : BOOLEAN, started : BOOLEAN, elapsed : 0..GRACE]
    BY DEF IInv, TypeOK, GateTypes, LinkTypes
  <2>2. i \in 1 .. Len(asks) /\ asks[i] \in Ask
    BY <2>1
  <2> QED BY <2>1, <2>2
<1>4. /\ ask' \in [generation : Nat, acked : BOOLEAN, started : BOOLEAN, elapsed : 0..GRACE]
      /\ ask'.generation = ask.generation
      /\ ask'.acked => ask.acked \/ Acknowledges(asks[i].gen)
  <2>1. Acknowledges(asks[i].gen) \in BOOLEAN /\ ask.acked \in BOOLEAN
    BY <1>3 DEF Acknowledges
  <2> QED BY <1>2, <1>3, <2>1
<1>5. /\ asks' \in Seq(Ask) /\ Len(asks') = Len(asks)
      /\ \A j \in 1 .. Len(asks) : j # i => asks'[j] = asks[j]
      /\ asks'[i].gen = asks[i].gen
  <2> DEFINE new == [asks[i] EXCEPT !.phase = "acked"]
  <2>1. new \in Ask /\ new.gen = asks[i].gen
    BY <1>3 DEF Ask, Phases
  <2>2. asks' = [asks EXCEPT ![i] = new]
    BY <1>2
  <2> HIDE DEF new
  <2>3. /\ asks' \in Seq(Ask) /\ Len(asks') = Len(asks)
        /\ \A j \in 1 .. Len(asks) : asks'[j] = IF j = i THEN new ELSE asks[j]
    BY <1>3, <2>1, <2>2
  <2> QED BY <1>3, <2>1, <2>3
<1>6. asks[i].gen = ask.generation => answered = ask.generation
  BY <1>2, <1>3 DEF IInv, Streaks
<1>7. Streaks'
  <2> SUFFICES ASSUME NEW j \in 1 .. Len(asks)
               PROVE  /\ asks'[j].gen <= ask'.generation
                      /\ asks'[j].phase # "sent" /\ asks'[j].gen = ask'.generation
                           => answered' = ask'.generation
    BY <1>5 DEF Streaks
  <2>1. /\ asks[j].gen <= ask.generation
        /\ asks[j].phase # "sent" /\ asks[j].gen = ask.generation => answered = ask.generation
    BY DEF IInv, Streaks
  <2>2. CASE j = i
    BY <1>2, <1>4, <1>5, <1>6, <2>1, <2>2
  <2>3. CASE j # i
    BY <1>2, <1>4, <1>5, <2>1, <2>3
  <2> QED BY <2>2, <2>3
<1>8. AckedMeansAlive'
  BY <1>2, <1>4, <1>6 DEF IInv, AckedMeansAlive, Acknowledges
<1>9. AskFacts
  BY <1>4, <1>5, <1>7, <1>8 DEF AskFacts
<1>10. RestTypes' /\ Agreed' /\ Lawful
  BY <1>1, <1>2 DEF RestTypes, RuntimeTypes, ViewTypes, Agreed, Lawful, TearsDown
<1> QED BY <1>9, <1>10, Together

LEMMA ContinueStep ==
  ASSUME IInv, NEW i \in DOMAIN asks, Continue(i)
  PROVE  IInv' /\ Lawful
<1>1. RestTypes /\ Agreed
  BY RestFacts
<1>2. /\ asks' = RemoveAt(asks, i)
      /\ UNCHANGED <<ask, authorized, tornDown, sessions, windows, process, events, listening,
                     reachable, responsive, quitAuthorized, answered, lateSettings>>
  BY DEF Continue, gate, runtime
<1>3. ContinueMenu \/ ContinueClose
  BY DEF Continue
<1>4. /\ pending' \in {"none", "quit", "tab"} /\ consent' \in BOOLEAN /\ calls' \subseteq Calls
      /\ consent => consent'
      /\ "quit_confirmed" \in calls' => consent'
  BY <1>1, <1>3 DEF ContinueMenu, ContinueClose, Agree, RestTypes, ViewTypes, Calls, Agreed
<1>5. asks \in Seq(Ask) /\ i \in 1 .. Len(asks)
      /\ ask \in [generation : Nat, acked : BOOLEAN, started : BOOLEAN, elapsed : 0..GRACE]
  BY DEF IInv, TypeOK, GateTypes, LinkTypes
<1>6. /\ asks' \in Seq(Ask)
      /\ \A j \in 1 .. Len(asks') : \E k \in 1 .. Len(asks) : asks'[j] = asks[k]
  <2>1. /\ RemoveAt(asks, i) \in Seq(Ask)
        /\ \A j \in 1 .. Len(RemoveAt(asks, i)) :
             \E k \in 1 .. Len(asks) : RemoveAt(asks, i)[j] = asks[k]
    BY <1>5, RemoveAtKeeps, Zenon
  <2> QED BY <1>2, <2>1, Zenon
<1>7. Streaks'
  <2> SUFFICES ASSUME NEW j \in 1 .. Len(asks')
               PROVE  /\ asks'[j].gen <= ask.generation
                      /\ asks'[j].phase # "sent" /\ asks'[j].gen = ask.generation
                           => answered = ask.generation
    BY <1>2 DEF Streaks
  <2>1. PICK k \in 1 .. Len(asks) : asks'[j] = asks[k]
    BY <1>6
  <2> QED BY <2>1 DEF IInv, Streaks
<1>8. AckedMeansAlive'
  BY <1>2 DEF IInv, AckedMeansAlive
<1>9. AskFacts
  BY <1>2, <1>5, <1>6, <1>7, <1>8 DEF AskFacts
<1>10. RestTypes' /\ Agreed' /\ Lawful
  BY <1>1, <1>2, <1>4 DEF RestTypes, RuntimeTypes, ViewTypes, Agreed, Lawful, TearsDown
<1> QED BY <1>9, <1>10, Together

(* An unanswered streak ages up to the grace. *)
LEMMA TickStep ==
  ASSUME IInv, Tick
  PROVE  IInv' /\ Lawful
<1>1. RestTypes /\ Agreed
  BY RestFacts
<1>2. /\ ask.elapsed < GRACE /\ ask' = [ask EXCEPT !.elapsed = @ + 1]
      /\ UNCHANGED <<authorized, tornDown, sessions, windows, process, events, listening, reachable,
                     asks, calls, responsive, pending, quitAuthorized, consent, answered,
                     lateSettings>>
  BY DEF Tick, runtime, link, view, history
<1>3. asks \in Seq(Ask)
      /\ ask \in [generation : Nat, acked : BOOLEAN, started : BOOLEAN, elapsed : 0..GRACE]
  BY DEF IInv, TypeOK, GateTypes, LinkTypes
<1>4. ask.elapsed + 1 \in 0..GRACE
  BY <1>2, <1>3, GraceAssumption
<1>5. /\ ask' \in [generation : Nat, acked : BOOLEAN, started : BOOLEAN, elapsed : 0..GRACE]
      /\ ask'.generation = ask.generation /\ ask'.acked = ask.acked
  BY <1>2, <1>3, <1>4
<1>6. Streaks' /\ AckedMeansAlive'
  BY <1>2, <1>5 DEF IInv, Streaks, AckedMeansAlive
<1>7. AskFacts
  BY <1>2, <1>3, <1>5, <1>6 DEF AskFacts
<1>8. RestTypes' /\ Agreed' /\ Lawful
  BY <1>1, <1>2 DEF RestTypes, RuntimeTypes, ViewTypes, Agreed, Lawful, TearsDown
<1> QED BY <1>7, <1>8, Together


LEMMA EventLoopStep ==
  ASSUME IInv,
         \/ RunExit \/ QuitConfirmed \/ OpenPty \/ OpenSettings
         \/ \E code \in {"exit", "restart"} : RequestExit(code)
  PROVE  IInv' /\ Lawful
<1>1. RestTypes /\ Agreed
  BY RestFacts
<1>2. CASE RunExit
  <2>1. /\ tornDown' = TRUE /\ sessions' \in BOOLEAN /\ process' = "exited" /\ process = "exiting"
        /\ UNCHANGED <<ask, authorized, windows, events, listening, reachable, asks, calls,
                       responsive, pending, quitAuthorized, consent, answered,
                       lateSettings>>
    BY <1>1, <1>2, TeardownFacts DEF RunExit, link, view, history
  <2>2. AskFacts
    BY <2>1, AskKept
  <2>3. RestTypes' /\ Agreed' /\ Lawful
    BY <1>1, <2>1 DEF RestTypes, RuntimeTypes, ViewTypes, Agreed, Lawful, TearsDown
  <2> QED BY <2>2, <2>3, Together
<1>3. CASE QuitConfirmed
  <2>1. /\ authorized' = TRUE /\ events' = events \cup {"close"} /\ calls' = calls \ {"quit_confirmed"}
        /\ "quit_confirmed" \in calls
        /\ UNCHANGED <<ask, tornDown, sessions, windows, process, listening, reachable, asks,
                       responsive, pending, quitAuthorized, consent, answered,
                       lateSettings>>
    BY <1>3 DEF QuitConfirmed, Invoked, view, history
  <2>2. AskFacts
    BY <2>1, AskKept
  <2>3. RestTypes' /\ Agreed' /\ Lawful
    BY <1>1, <2>1 DEF RestTypes, RuntimeTypes, ViewTypes, Events, Agreed, Lawful, TearsDown
  <2> QED BY <2>2, <2>3, Together
<1>4. CASE OpenPty \/ OpenSettings
  <2>1. /\ sessions' \in BOOLEAN /\ windows' \in {windows, windows \cup {"settings"}}
        /\ lateSettings' \in BOOLEAN
        /\ UNCHANGED <<ask, authorized, tornDown, process, events, listening, reachable, asks, calls,
                       responsive, pending, quitAuthorized, consent, answered>>
    BY <1>1, <1>4 DEF OpenPty, OpenSettings, RestTypes, ViewTypes, gate, runtime, link, view, history
  <2>2. AskFacts
    BY <2>1, AskKept
  <2>3. RestTypes' /\ Agreed' /\ Lawful
    BY <1>1, <2>1 DEF RestTypes, RuntimeTypes, ViewTypes, Agreed, Lawful, TearsDown
  <2> QED BY <2>2, <2>3, Together
<1>5. ASSUME NEW code \in {"exit", "restart"}, RequestExit(code)
      PROVE  IInv' /\ Lawful
  <2>1. /\ events' = events \cup {code}
        /\ UNCHANGED <<ask, authorized, tornDown, sessions, windows, process, listening, reachable, asks,
                       calls, responsive, pending, quitAuthorized, consent, answered,
                       lateSettings>>
    BY <1>5 DEF RequestExit, gate, link, view, history
  <2>2. AskFacts
    BY <2>1, AskKept
  <2>3. RestTypes' /\ Agreed' /\ Lawful
    BY <1>1, <2>1 DEF RestTypes, RuntimeTypes, ViewTypes, Events, Agreed, Lawful, TearsDown
  <2> QED BY <2>2, <2>3, Together
<1> QED BY <1>2, <1>3, <1>4, <1>5

LEMMA PostedCloseStep ==
  ASSUME IInv, PostedClose
  PROVE  IInv' /\ Lawful
<1>1. RestTypes /\ Agreed
  BY RestFacts
<1>2. CASE "main" \in windows
  <2>1. CloseRequested(events \ {"close"})
    BY <1>2 DEF PostedClose
  <2>2. events \ {"close"} \in SUBSET Events
    BY <1>1 DEF RestTypes, RuntimeTypes
  <2> QED BY <2>1, <2>2, CloseRequestedStep
<1>3. CASE "main" \notin windows
  <2>1. /\ events' = events \ {"close"}
        /\ UNCHANGED <<ask, authorized, tornDown, sessions, windows, process, listening, reachable, asks,
                       calls, responsive, pending, quitAuthorized, consent, answered,
                       lateSettings>>
    BY <1>3 DEF PostedClose, gate, link, view, history
  <2>2. AskFacts
    BY <2>1, AskKept
  <2>3. RestTypes' /\ Agreed' /\ Lawful
    BY <1>1, <2>1 DEF RestTypes, RuntimeTypes, ViewTypes, Agreed, Lawful, TearsDown
  <2> QED BY <2>2, <2>3, Together
<1> QED BY <1>2, <1>3

(* What the webview and its user do with no ask in hand. *)
LEMMA UserStep ==
  ASSUME IInv,
         \/ ConfirmQuit \/ ConfirmTab \/ CancelDialog \/ CloseTab \/ LastSessionExits
         \/ RemoteClose \/ HangOrRecover \/ WebviewGone
         \/ \E chan \in Channels : Register(chan)
  PROVE  IInv' /\ Lawful
<1>1. RestTypes /\ Agreed
  BY RestFacts
<1>2. UNCHANGED <<ask, authorized, tornDown, sessions, windows, process, events, asks, answered,
                 lateSettings>>
  BY DEF ConfirmQuit, ConfirmTab, CancelDialog, CloseTab, LastSessionExits, RemoteClose,
         HangOrRecover, WebviewGone, Register, gate, runtime, link, view, history
<1>3. AskFacts
  BY <1>2, AskKept
<1>4. Lawful
  BY <1>2 DEF Lawful, TearsDown
<1>5. CASE ConfirmQuit \/ ConfirmTab \/ CancelDialog \/ CloseTab \/ LastSessionExits \/ RemoteClose
  <2>1. /\ UNCHANGED <<listening, reachable, responsive>>
        /\ pending' \in {"none", "quit", "tab"}
        /\ \/ UNCHANGED <<quitAuthorized, calls, consent>>
           \/ /\ quitAuthorized' \in BOOLEAN /\ consent' = TRUE
              /\ calls' \subseteq calls \cup {"quit_confirmed", "webview_close_request"}
    BY <1>1, <1>5 DEF ConfirmQuit, ConfirmTab, CancelDialog, CloseTab, LastSessionExits, RemoteClose,
                      LastTabCloses, Agree, RestTypes, ViewTypes, link, view, history
  <2>2. CASE UNCHANGED <<quitAuthorized, calls, consent>>
    <3>1. RestTypes' /\ Agreed'
      BY <1>1, <1>2, <2>1, <2>2 DEF RestTypes, RuntimeTypes, ViewTypes, Agreed
    <3> QED BY <1>3, <1>4, <3>1, Together
  <2>3. CASE /\ quitAuthorized' \in BOOLEAN /\ consent' = TRUE
             /\ calls' \subseteq calls \cup {"quit_confirmed", "webview_close_request"}
    <3>1. calls' \subseteq Calls /\ consent' \in BOOLEAN
      BY <1>1, <2>3 DEF RestTypes, Calls
    <3>2. RestTypes'
      BY <1>1, <1>2, <2>1, <2>3, <3>1 DEF RestTypes, RuntimeTypes, ViewTypes
    <3>3. Agreed'
      BY <1>1, <1>2, <2>3 DEF Agreed
    <3> QED BY <1>3, <1>4, <3>2, <3>3, Together
  <2> QED BY <2>1, <2>2, <2>3
<1>6. CASE HangOrRecover \/ WebviewGone \/ \E chan \in Channels : Register(chan)
  <2>1. /\ UNCHANGED <<calls, pending, quitAuthorized, consent>>
        /\ listening' \subseteq Channels /\ reachable' \in BOOLEAN /\ responsive' \in BOOLEAN
    BY <1>1, <1>6 DEF HangOrRecover, WebviewGone, Register, RestTypes, ViewTypes, link, view, history
  <2>2. RestTypes' /\ Agreed'
    BY <1>1, <1>2, <2>1 DEF RestTypes, RuntimeTypes, ViewTypes, Agreed
  <2> QED BY <1>3, <1>4, <2>2, Together
<1> QED BY <1>5, <1>6

----------------------------------------------------------------------------
LEMMA Starts == Init => IInv
<1> SUFFICES ASSUME Init PROVE IInv
  OBVIOUS
<1>1. GateTypes /\ LinkTypes
  <2>1. 0 \in 0..GRACE
    BY GraceAssumption, SMT
  <2>2. GateTypes
    BY <2>1 DEF Init, GateTypes
  <2>3. LinkTypes
    <3>1. listening \subseteq Channels /\ calls \subseteq Calls /\ reachable \in BOOLEAN
      BY CloseGateAssumption, Zenon DEF Init
    <3>2. asks \in Seq(Ask)
      BY DEF Init
    <3> QED BY <3>1, <3>2 DEF LinkTypes
  <2> QED BY <2>2, <2>3
<1>2. RuntimeTypes /\ ViewTypes
  BY DEF Init, RuntimeTypes, ViewTypes
<1>3. Streaks /\ AckedMeansAlive /\ Agreed
  BY DEF Init, Streaks, AckedMeansAlive, Agreed
<1> QED BY <1>1, <1>2, <1>3 DEF IInv, TypeOK

LEMMA Steps == IInv /\ [Next]_vars => IInv' /\ Lawful
<1> SUFFICES ASSUME IInv, [Next]_vars PROVE IInv' /\ Lawful
  OBVIOUS
<1>1. CASE UserCloses
  <2>1. CASE NativeClose
    <3>1. CloseRequested(events) /\ events \in SUBSET Events
      BY <2>1, RestFacts DEF NativeClose, RestTypes, RuntimeTypes
    <3> QED BY <3>1, CloseRequestedStep
  <2> QED BY <1>1, <2>1, MenuCloseStep DEF UserCloses
<1>2. CASE MainThread
  BY <1>2, PostedCloseStep, SettingsCloseStep, EventLoopStep, ExitRequestedStep,
     WebviewCloseRequestStep, CloseAcknowledgedStep DEF MainThread
<1>3. CASE Webview
  BY <1>3, UserStep, TakeAskStep, ContinueStep DEF Webview
<1>4. CASE User
  BY <1>4, UserStep, SettingsCloseStep, EventLoopStep DEF User
<1>5. CASE Tick
  BY <1>5, TickStep
<1>6. CASE UNCHANGED vars
  <2>1. UNCHANGED <<ask, authorized, tornDown, sessions, windows, process, events, listening, reachable,
                    asks, calls, responsive, pending, quitAuthorized, consent, answered,
                    lateSettings>>
    BY <1>6 DEF vars, gate, runtime, link, view, history
  <2>2. AskFacts
    BY <2>1, AskKept
  <2>3. RestTypes' /\ Agreed' /\ Lawful
    BY <2>1, RestFacts DEF RestTypes, RuntimeTypes, ViewTypes, Agreed, Lawful, TearsDown
  <2> QED BY <2>2, <2>3, Together
<1> QED BY <1>1, <1>2, <1>3, <1>4, <1>5, <1>6 DEF Next

(* Every variable of the gate keeps its type: the generation never leaves   *)
(* the numbers, no message is of a kind the event loop does not know.      *)
THEOREM TypeCorrect == Spec => []TypeOK
<1>1. IInv => TypeOK
  BY DEF IInv
<1> QED BY Starts, Steps, <1>1, PTL DEF Spec

(* A streak counts as acknowledged only when the webview took an ask of    *)
(* that streak: no ack of an earlier one makes a hung webview look alive.  *)
THEOREM AckedIsAlive == Spec => []AckedMeansAlive
<1>1. IInv => AckedMeansAlive
  BY DEF IInv
<1> QED BY Starts, Steps, <1>1, PTL DEF Spec

(* No sequence of gestures, confirmations, exits, hangs and crashes tears  *)
(* the sessions down without consent, an expired grace, an unreachable     *)
(* webview or a restart.                                                   *)
THEOREM ConsentFirst == Spec => ConsentBeforeTeardown
<1>1. Lawful => (TearsDown => consent \/ Unanswered \/ ~reachable \/ "restart" \in events)
  BY DEF Lawful
<1> QED BY Starts, Steps, <1>1, PTL DEF Spec, ConsentBeforeTeardown

----------------------------------------------------------------------------
(* The dialog: only what finds none up brings one up. *)
LEMMA DialogStep ==
  ASSUME [Next]_vars, pending # "none"
  PROVE  pending' \in {pending, "none"}
<1>1. CASE UserCloses
  BY <1>1 DEF UserCloses, MenuClose, NativeClose, CloseRequested, view
<1>2. CASE MainThread
  <2>1. CASE PostedClose
    BY <2>1 DEF PostedClose, CloseRequested, view
  <2>2. CASE SettingsClose(TRUE) \/ RunExit \/ QuitConfirmed \/ WebviewCloseRequest
    BY <2>2 DEF SettingsClose, RunExit, QuitConfirmed, WebviewCloseRequest, view
  <2>3. ASSUME NEW code \in {"exit", "restart", "lastWindow"}, ExitRequested(code)
        PROVE  pending' = pending
    BY <2>3 DEF ExitRequested, view
  <2>4. ASSUME NEW i \in DOMAIN asks, CloseAcknowledged(i)
        PROVE  pending' = pending
    BY <2>4 DEF CloseAcknowledged, view
  <2> QED BY <1>2, <2>1, <2>2, <2>3, <2>4 DEF MainThread
<1>3. CASE Webview
  <2>1. ASSUME NEW chan \in Channels, Register(chan)
        PROVE  pending' = pending
    BY <2>1 DEF Register, view
  <2>2. ASSUME NEW i \in DOMAIN asks, TakeAsk(i)
        PROVE  pending' = pending
    BY <2>2 DEF TakeAsk, view
  <2>3. ASSUME NEW i \in DOMAIN asks, Continue(i)
        PROVE  pending' = pending
    BY <2>3 DEF Continue, ContinueMenu, ContinueClose
  <2> QED BY <1>3, <2>1, <2>2, <2>3 DEF Webview
<1>4. CASE User
  <2>1. CASE ConfirmQuit \/ ConfirmTab \/ CancelDialog \/ CloseTab
    BY <2>1 DEF ConfirmQuit, ConfirmTab, CancelDialog, CloseTab
  <2>2. CASE LastSessionExits \/ RemoteClose \/ SettingsClose(FALSE) \/ OpenSettings \/ OpenPty
    BY <2>2 DEF LastSessionExits, RemoteClose, SettingsClose, OpenSettings, OpenPty, view
  <2>3. CASE HangOrRecover \/ WebviewGone \/ \E code \in {"exit", "restart"} : RequestExit(code)
    BY <2>3 DEF HangOrRecover, WebviewGone, RequestExit, view
  <2> QED BY <1>4, <2>1, <2>2, <2>3 DEF User
<1>5. CASE Tick
  BY <1>5 DEF Tick, view
<1>6. CASE UNCHANGED vars
  BY <1>6 DEF vars, view
<1> QED BY <1>1, <1>2, <1>3, <1>4, <1>5, <1>6 DEF Next

(* An ask whose answer was awaited while a dialog came up never replaces   *)
(* it: whatever happens, a dialog leaves by its own buttons only.          *)
THEOREM DialogStays == Spec => DialogKept
<1>1. [Next]_vars => [pending # "none" => pending' \in {pending, "none"}]_vars
  BY DialogStep
<1> QED BY <1>1, PTL DEF Spec, DialogKept

----------------------------------------------------------------------------
(* The fallback, when both listeners are registered before a gesture can   *)
(* come: an unacknowledged streak of a webview that can be reached has an  *)
(* ask on its way.                                                         *)
Listens == reachable => listening = Channels
Owed == reachable /\ ask.started /\ ~ask.acked => OwesAnAnswer

(* RemoveAt keeps everything but what it removes. *)
LEMMA RemoveAtLeaves ==
  ASSUME NEW S, NEW s \in Seq(S), NEW i \in 1 .. Len(s), NEW k \in 1 .. Len(s), k # i
  PROVE  \E j \in 1 .. Len(RemoveAt(s, i)) : RemoveAt(s, i)[j] = s[k]
<1> DEFINE a == SubSeq(s, 1, i - 1)
           b == SubSeq(s, i + 1, Len(s))
<1>1. Len(s) \in Nat /\ \A j \in 1 .. Len(s) : s[j] \in S
  OBVIOUS
<1>2. /\ a \in Seq(S) /\ Len(a) = i - 1
      /\ \A j \in 1 .. i - 1 : a[j] = s[j]
  BY <1>1, SubSeqProperties, SMT
<1>3. /\ b \in Seq(S) /\ Len(b) = Len(s) - i
      /\ \A j \in 1 .. Len(s) - i : b[j] = s[i + j]
  <2>1. \A j \in i + 1 .. Len(s) : s[j] \in S
    BY <1>1
  <2>2. /\ b \in Seq(S)
        /\ Len(b) = IF i + 1 <= Len(s) THEN Len(s) - (i + 1) + 1 ELSE 0
        /\ \A j \in 1 .. Len(s) - (i + 1) + 1 : b[j] = s[(i + 1) + j - 1]
    BY <1>1, <2>1, SubSeqProperties
  <2> QED BY <1>1, <2>2
<1> HIDE DEF a, b
<1>4. RemoveAt(s, i) = a \o b
  BY DEF RemoveAt, a, b
<1>5. /\ Len(a \o b) = Len(s) - 1
      /\ \A j \in 1 .. Len(s) - 1 : (a \o b)[j] = IF j <= i - 1 THEN a[j] ELSE b[j - (i - 1)]
  <2>1. /\ Len(a \o b) = Len(a) + Len(b)
        /\ \A j \in 1 .. Len(a) + Len(b) : (a \o b)[j] = IF j <= Len(a) THEN a[j] ELSE b[j - Len(a)]
    BY <1>2, <1>3, ConcatProperties
  <2> QED BY <1>1, <1>2, <1>3, <2>1
<1>6. CASE k < i
  <2>1. k \in 1 .. Len(s) - 1 /\ k <= i - 1
    BY <1>1, <1>6
  <2> QED BY <1>2, <1>4, <1>5, <2>1
<1>7. CASE k > i
  <2>1. k - 1 \in 1 .. Len(s) - 1 /\ ~(k - 1 <= i - 1) /\ k - i \in 1 .. Len(s) - i
    BY <1>1, <1>7
  <2>2. (k - 1) - (i - 1) = k - i /\ i + (k - i) = k
    BY <1>1
  <2>3. (a \o b)[k - 1] = s[k]
    BY <1>3, <1>5, <2>1, <2>2
  <2> QED BY <1>4, <1>5, <2>1, <2>3
<1> QED BY <1>1, <1>6, <1>7

LEMMA AskTypes ==
  ASSUME IInv
  PROVE  /\ asks \in Seq(Ask) /\ Len(asks) \in Nat /\ DOMAIN asks = 1 .. Len(asks)
         /\ \A i \in 1 .. Len(asks) : asks[i] \in Ask
         /\ ask \in [generation : Nat, acked : BOOLEAN, started : BOOLEAN, elapsed : 0..GRACE]
         /\ ask.generation \in Nat /\ ask.acked \in BOOLEAN
<1>1. /\ asks \in Seq(Ask)
      /\ ask \in [generation : Nat, acked : BOOLEAN, started : BOOLEAN, elapsed : 0..GRACE]
  BY DEF IInv, TypeOK, GateTypes, LinkTypes
<1>2. ask.generation \in Nat /\ ask.acked \in BOOLEAN
  BY <1>1
<1>3. /\ Len(asks) \in Nat /\ DOMAIN asks = 1 .. Len(asks)
      /\ \A i \in 1 .. Len(asks) : asks[i] \in Ask
  BY <1>1
<1> QED BY <1>1, <1>2, <1>3

(* An ask decided with both listeners there is on its way, or one of its   *)
(* streak was.                                                             *)
LEMMA AskOwed ==
  ASSUME IInv, Listens, Owed, NEW chan \in Channels, NEW isPtyOwner \in BOOLEAN,
         NEW quitAuth \in BOOLEAN, NEW outcome, AskAndApply(chan, isPtyOwner, quitAuth, outcome),
         UNCHANGED <<listening, reachable>>
  PROVE  Listens' /\ Owed'
<1>1. Listens'
  BY DEF Listens
<1>2. CASE UNCHANGED <<ask, asks>>
  BY <1>1, <1>2 DEF Owed, OwesAnAnswer
<1>3. CASE /\ Asks(isPtyOwner, quitAuth)
           /\ ask' = Restarted(isPtyOwner, quitAuth)
           /\ IF EmitFails
              THEN outcome = "TeardownAndProceed" /\ UNCHANGED asks
              ELSE outcome = "Vetoed" /\ asks' = Delivered(chan, ask'.generation)
  <2>1. CASE ~reachable
    BY <1>1, <2>1 DEF Owed
  <2>2. CASE reachable
    <3> DEFINE new == [chan |-> chan, gen |-> ask'.generation, phase |-> "sent"]
    <3>1. asks' = Append(asks, new)
      BY <1>3, <2>2 DEF EmitFails, Delivered, Listens
    <3>2. new.gen = ask'.generation /\ new.phase # "acked" /\ ask'.generation \in Nat
      <4>1. ask'.generation \in Nat
        <5>1. ask' \in {ask, [generation |-> ask.generation + 1, acked |-> FALSE,
                              started |-> TRUE, elapsed |-> 0]}
          BY <1>3 DEF Restarted
        <5>2. ask.generation + 1 \in Nat /\ ask.generation \in Nat
          BY AskTypes
        <5> QED BY <5>1, <5>2
      <4> QED BY <4>1
    <3>3. new \in Ask
      BY <3>2 DEF Ask, Phases
    <3> HIDE DEF new
    <3>4. /\ Len(asks') = Len(asks) + 1 /\ asks' \in Seq(Ask)
          /\ asks'[Len(asks) + 1] = new
      BY <3>1, <3>3, AskTypes, AppendProperties
    <3>5. Len(asks) + 1 \in DOMAIN asks'
      BY <3>4, AskTypes
    <3>6. OwesAnAnswer'
      BY <3>2, <3>4, <3>5 DEF OwesAnAnswer
    <3> QED BY <1>1, <3>6 DEF Owed
  <2>3. reachable \in BOOLEAN
    BY DEF IInv, TypeOK, LinkTypes
  <2> QED BY <1>1, <2>1, <2>2, <2>3
<1> QED BY <1>1, <1>2, <1>3 DEF AskAndApply

(* What leaves the tracker and the queue alone. *)
LEMMA QuietOwed ==
  ASSUME Listens, Owed, UNCHANGED <<ask, asks>>,
         \/ UNCHANGED <<listening, reachable>>
         \/ reachable' = FALSE
         \/ reachable' = reachable /\ listening' = Channels
  PROVE  Listens' /\ Owed'
BY DEF Listens, Owed, OwesAnAnswer

LEMMA OwedStep ==
  ASSUME IInv, Listens, Owed, [Next]_vars
  PROVE  Listens' /\ Owed'
<1>0. authorized \in BOOLEAN /\ "tabs:action" \in Channels /\ "close:requested" \in Channels
  BY DEF IInv, TypeOK, GateTypes, Channels
<1>1. CASE UserCloses
  <2>1. CASE MenuClose
    BY <1>0, <2>1, AskOwed DEF MenuClose
  <2>2. CASE NativeClose
    BY <1>0, <2>2, AskOwed DEF NativeClose, CloseRequested
  <2> QED BY <1>1, <2>1, <2>2 DEF UserCloses
<1>2. CASE MainThread
  <2>1. CASE PostedClose
    <3>1. CASE "main" \in windows
      BY <1>0, <2>1, <3>1, AskOwed DEF PostedClose, CloseRequested
    <3>2. CASE "main" \notin windows
      BY <2>1, <3>2, QuietOwed DEF PostedClose, gate, link
    <3> QED BY <3>1, <3>2
  <2>2. CASE SettingsClose(TRUE) \/ RunExit \/ QuitConfirmed
    BY <2>2, QuietOwed DEF SettingsClose, RunExit, QuitConfirmed, gate, link
  <2>3. ASSUME NEW code \in {"exit", "restart", "lastWindow"}, ExitRequested(code)
        PROVE  Listens' /\ Owed'
    <3>1. CASE code = "restart"
      BY <2>3, <3>1, QuietOwed DEF ExitRequested
    <3>2. CASE code # "restart"
      <4>1. ExitGateInput(code) \in BOOLEAN
        BY DEF ExitGateInput
      <4> QED BY <1>0, <2>3, <3>2, <4>1, AskOwed DEF ExitRequested
    <3> QED BY <3>1, <3>2
  <2>4. CASE WebviewCloseRequest
    BY <1>0, <2>4, AskOwed DEF WebviewCloseRequest
  <2>5. ASSUME NEW i \in DOMAIN asks, CloseAcknowledged(i)
        PROVE  Listens' /\ Owed'
    <3>1. /\ asks' = [asks EXCEPT ![i].phase = "acked"]
          /\ ask' = [ask EXCEPT !.acked = @ \/ Acknowledges(asks[i].gen)]
          /\ UNCHANGED <<listening, reachable>>
      BY <2>5 DEF CloseAcknowledged
    <3>2. SUFFICES ASSUME reachable, ask'.started, ~ask'.acked
                   PROVE  OwesAnAnswer'
      BY <3>1 DEF Listens, Owed
    <3>3. /\ ask.started /\ ~ask.acked /\ ask'.generation = ask.generation
          /\ asks[i].gen # ask.generation
      BY <3>1, <3>2, AskTypes DEF Acknowledges
    <3>4. PICK j \in DOMAIN asks : asks[j].gen = ask.generation /\ asks[j].phase # "acked"
      BY <3>2, <3>3 DEF Owed, OwesAnAnswer
    <3>5. j # i /\ DOMAIN asks' = DOMAIN asks /\ asks'[j] = asks[j]
      BY <3>1, <3>3, <3>4, AskTypes
    <3> QED BY <3>3, <3>4, <3>5 DEF OwesAnAnswer
  <2> QED BY <1>2, <2>1, <2>2, <2>3, <2>4, <2>5 DEF MainThread
<1>3. CASE Webview
  <2>1. ASSUME NEW chan \in Channels, Register(chan)
        PROVE  Listens' /\ Owed'
    <3>1. /\ UNCHANGED <<ask, asks, reachable>>
          /\ listening' = listening \cup {chan}
      BY <2>1 DEF Register, gate
    <3> QED BY <3>1 DEF Listens, Owed, OwesAnAnswer
  <2>2. ASSUME NEW i \in DOMAIN asks, TakeAsk(i)
        PROVE  Listens' /\ Owed'
    <3>1. /\ asks' = [asks EXCEPT ![i].phase = "acking"]
          /\ UNCHANGED <<ask, listening, reachable>>
      BY <2>2 DEF TakeAsk, gate
    <3>2. SUFFICES ASSUME OwesAnAnswer
                   PROVE  OwesAnAnswer'
      BY <3>1 DEF Listens, Owed
    <3>3. PICK j \in DOMAIN asks : asks[j].gen = ask.generation /\ asks[j].phase # "acked"
      BY <3>2 DEF OwesAnAnswer
    <3>4. DOMAIN asks' = DOMAIN asks /\ asks'[j].gen = asks[j].gen
      BY <3>1, <3>3, AskTypes DEF Ask
    <3>5. asks'[j].phase # "acked"
      <4>1. CASE j = i
        BY <3>1, <4>1, AskTypes DEF Ask
      <4>2. CASE j # i
        BY <3>1, <3>3, <4>2, AskTypes
      <4> QED BY <4>1, <4>2
    <3> QED BY <3>1, <3>3, <3>4, <3>5 DEF OwesAnAnswer
  <2>3. ASSUME NEW i \in DOMAIN asks, Continue(i)
        PROVE  Listens' /\ Owed'
    <3>1. /\ asks[i].phase = "acked" /\ asks' = RemoveAt(asks, i)
          /\ UNCHANGED <<ask, listening, reachable>>
      BY <2>3 DEF Continue, gate
    <3>2. SUFFICES ASSUME OwesAnAnswer
                   PROVE  OwesAnAnswer'
      BY <3>1 DEF Listens, Owed
    <3>3. PICK k \in DOMAIN asks : asks[k].gen = ask.generation /\ asks[k].phase # "acked"
      BY <3>2 DEF OwesAnAnswer
    <3>4. k # i /\ k \in 1 .. Len(asks) /\ i \in 1 .. Len(asks) /\ asks \in Seq(Ask)
      BY <3>1, <3>3, AskTypes
    <3>5. PICK j \in 1 .. Len(RemoveAt(asks, i)) : RemoveAt(asks, i)[j] = asks[k]
      BY <3>4, RemoveAtLeaves, Zenon
    <3>6. RemoveAt(asks, i) \in Seq(Ask)
      BY <3>4, RemoveAtKeeps, Zenon
    <3>7. j \in DOMAIN asks' /\ asks'[j] = asks[k]
      BY <3>1, <3>5, <3>6
    <3> QED BY <3>1, <3>3, <3>7 DEF OwesAnAnswer
  <2> QED BY <1>3, <2>1, <2>2, <2>3 DEF Webview
<1>4. CASE User
  <2>1. CASE ConfirmQuit \/ ConfirmTab \/ CancelDialog \/ CloseTab
    BY <2>1, QuietOwed DEF ConfirmQuit, ConfirmTab, CancelDialog, CloseTab, gate, link
  <2>2. CASE LastSessionExits \/ RemoteClose \/ SettingsClose(FALSE) \/ OpenSettings \/ OpenPty
    BY <2>2, QuietOwed DEF LastSessionExits, RemoteClose, SettingsClose, OpenSettings, OpenPty, gate, link
  <2>3. CASE HangOrRecover \/ WebviewGone \/ \E code \in {"exit", "restart"} : RequestExit(code)
    BY <2>3, QuietOwed DEF HangOrRecover, WebviewGone, RequestExit, gate, link
  <2> QED BY <1>4, <2>1, <2>2, <2>3 DEF User
<1>5. CASE Tick
  <2>1. /\ ask'.generation = ask.generation /\ ask'.acked = ask.acked /\ ask'.started = ask.started
        /\ UNCHANGED <<asks, listening, reachable>>
    BY <1>5, AskTypes DEF Tick, link
  <2> QED BY <2>1 DEF Listens, Owed, OwesAnAnswer
<1>6. CASE UNCHANGED vars
  BY <1>6, QuietOwed DEF vars, gate, link
<1> QED BY <1>1, <1>2, <1>3, <1>4, <1>5, <1>6 DEF Next

(* With both listeners registered before the first gesture, the fallback   *)
(* only ever fires on a webview that owes an answer: an ask of the current *)
(* streak was delivered to it and is not acknowledged.                     *)
THEOREM FallbackIsEarned ==
  ASSUME EARLY = Channels
  PROVE  Spec => FallbackMeansUnanswered
<1>1. Init => Listens /\ Owed
  BY DEF Init, Listens, Owed
<1>2. IInv /\ Listens /\ Owed /\ [Next]_vars => (Listens /\ Owed)'
  BY OwedStep
<1>3. Lawful /\ Owed
        => (TearsDown => \/ consent \/ OwesAnAnswer
                         \/ Channels \ listening # {} \/ ~reachable \/ "restart" \in events)
  BY DEF Lawful, Owed, Unanswered
<1> QED BY Starts, Steps, <1>1, <1>2, <1>3, PTL DEF Spec, FallbackMeansUnanswered

============================================================================
