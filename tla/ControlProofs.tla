----------------------------- MODULE ControlProofs -----------------------------
(***************************************************************************)
(* What TLAPS proves of the control channel and of its socket.             *)
(*                                                                         *)
(* The channel, for any number of clients, workers, requests and changes   *)
(* of the switch: a client is told the answer to its own request, whose    *)
(* command ran once; no sender is left waiting and no slot taken; a        *)
(* stopped listener serves one line more at most.                          *)
(*                                                                         *)
(* The socket, for any number of instances, binds and applies: a live      *)
(* socket is never clobbered, only a crash or a failed chmod leaves one    *)
(* behind, and an instance at rest serves exactly if it was asked to.      *)
(* None of the three survives a step by itself: that an instance on its    *)
(* way to a new socket holds no handle of an old one (Unhandled), that     *)
(* nothing is bound between its unlink and its release of the lock         *)
(* (Vacated), and that only an instance that is wanted starts              *)
(* (StartsWanted) must be known too.                                       *)
(***************************************************************************)
EXTENDS ControlChannel, FiniteSetTheorems, TLAPS

CONSTANTS INSTANCES, MAX_BINDS, MAX_APPLIES          \* ControlSocket
VARIABLES node, lock, binds, applies, proc, left

Socket == INSTANCE ControlSocket

\* What the theorems assume of the constants.
Bounded ==
  /\ IsFiniteSet(CONNECTIONS) /\ "nobody" \notin CONNECTIONS
  /\ MAX_WORKERS \in Nat /\ MAX_REQUESTS \in Nat /\ MAX_SWITCHES \in Nat

-----------------------------------------------------------------------------
(* The inductive invariant.                                                *)

\* Every listener had its change of the switch; no client is of one to come.
Numbered ==
  /\ listener.number <= switches
  /\ \A c \in CONNECTIONS : conn[c].of <= listener.number

\* A worker between its request's line and the answer's asked for an id that was given.
Serving(c) == conn[c].phase \in {"waiting", "expired", "writing"}
Asking ==
  \A c \in CONNECTIONS :
    Serving(c) => conn[c].id \in Ids /\ conn[c].id < nextId /\ asker[conn[c].id] = c

\* An answer takes its sender out of the map, and both have a worker.
Waited == SendersWaited /\ pending \cap sent = {}

\* An id is asked of the webview once, which runs its command once, before any answer.
Traced ==
  /\ \A i, j \in DOMAIN asked : asked[i] = asked[j] => i = j
  /\ \A i \in DOMAIN asked : asked[i] < nextId /\ ran[asked[i]] = 0
  /\ \A n \in Ids : ran[n] <= 1 /\ (n >= nextId => ran[n] = 0)
  /\ \A n \in replies \cup sent : ran[n] = 1
  /\ \A c \in CONNECTIONS : In(c, "writing") /\ conn[c].reply => ran[conn[c].id] = 1

\* A line served after the stop is the worker's last: it reads no other.
Stopping ==
  \A c \in CONNECTIONS :
    /\ extra[c] <= 1
    /\ extra[c] = 1 => Stopped(c) /\ conn[c].phase \notin {"away", "queued", "reading"}

IInv == TypeOK /\ Numbered /\ Asking /\ Waited /\ Traced /\ Stopping /\ SlotsCounted

-----------------------------------------------------------------------------
(* What a step of one worker changes.                                      *)

Connection == [phase : Phases, of : 0..(MAX_SWITCHES + 1), id : Ids \cup {0}, reply : BOOLEAN]

LEMMA Typed ==
  ASSUME TypeOK, NEW c \in CONNECTIONS
  PROVE  conn[c] \in Connection
BY DEF TypeOK, Connection

LEMMA Moved ==
  ASSUME TypeOK, NEW c \in CONNECTIONS, NEW r \in Connection, Goes(c, r)
  PROVE  /\ conn' \in [CONNECTIONS -> Connection]
         /\ conn'[c] = r
         /\ \A o \in CONNECTIONS \ {c} : conn'[o] = conn[o]
BY DEF TypeOK, Connection, Goes

\* The slots stay counted when a worker starts, goes on or ends.
LEMMA Recounted ==
  ASSUME Bounded, TypeOK, SlotsCounted, NEW c \in CONNECTIONS, NEW r \in Connection, Goes(c, r),
         \/ (r.phase \in Worker <=> conn[c].phase \in Worker) /\ slots' = slots
         \/ r.phase \in Worker /\ conn[c].phase \notin Worker /\ slots' = slots + 1
         \/ r.phase \notin Worker /\ conn[c].phase \in Worker /\ slots' = slots - 1
  PROVE  SlotsCounted' /\ slots' \in Nat
<1> DEFINE Working == {o \in CONNECTIONS : conn[o].phase \in Worker}
           Now == {o \in CONNECTIONS : conn'[o].phase \in Worker}
<1>1. IsFiniteSet(Working) /\ Cardinality(Working) \in Nat /\ slots = Cardinality(Working)
  BY FS_Subset, FS_CardinalityType DEF Bounded, SlotsCounted
<1>2. IsFiniteSet(Now) /\ Cardinality(Now) \in Nat
  BY FS_Subset, FS_CardinalityType DEF Bounded
<1>3. conn'[c] = r /\ \A o \in CONNECTIONS \ {c} : conn'[o] = conn[o]
  BY Moved
<1>4. slots' = Cardinality(Now)
  <2>1. CASE (r.phase \in Worker <=> conn[c].phase \in Worker) /\ slots' = slots
    <3>1. Now = Working
      BY <1>3, <2>1
    <3> QED
      BY <1>1, <2>1, <3>1
  <2>2. CASE r.phase \in Worker /\ conn[c].phase \notin Worker /\ slots' = slots + 1
    <3>1. Now = Working \cup {c} /\ c \notin Working
      BY <1>3, <2>2
    <3> HIDE DEF Now, Working
    <3> QED
      BY <1>1, <2>2, <3>1, FS_AddElement
  <2>3. CASE r.phase \notin Worker /\ conn[c].phase \in Worker /\ slots' = slots - 1
    <3>1. Now = Working \ {c} /\ c \in Working
      BY <1>3, <2>3
    <3> HIDE DEF Now, Working
    <3> QED
      BY <1>1, <2>3, <3>1, FS_RemoveElement
  <2> QED
    BY <2>1, <2>2, <2>3
<1> QED
  BY <1>2, <1>4 DEF SlotsCounted

\* What a step of worker c may not do, if it leaves the ids, the map and the webview alone:
\* take up a request, leave one whose sender is in the map, or read on after a last line.
Careful(c, r) ==
  /\ r.of <= listener.number
  /\ r.phase \in {"waiting", "expired", "writing"} => Serving(c) /\ r.id = conn[c].id
  /\ conn[c].phase \in {"waiting", "expired"} => r.phase \in {"waiting", "expired"}
  /\ r.phase = "writing" /\ r.reply => In(c, "writing") /\ conn[c].reply
  /\ extra[c] = 1 => r.of = conn[c].of /\ r.phase \notin {"away", "queued", "reading"}

LEMMA CarefulSteps ==
  ASSUME Bounded, IInv, NEW c \in CONNECTIONS, NEW r \in Connection, Goes(c, r), Careful(c, r),
         UNCHANGED <<Switch, Bridge, Webview, History>>,
         \/ (r.phase \in Worker <=> conn[c].phase \in Worker) /\ slots' = slots
         \/ r.phase \in Worker /\ conn[c].phase \notin Worker /\ slots < MAX_WORKERS /\ slots' = slots + 1
         \/ r.phase \notin Worker /\ conn[c].phase \in Worker /\ slots' = slots - 1
  PROVE  IInv'
<1>1. TypeOK /\ SlotsCounted /\ slots \in 0..MAX_WORKERS
  BY DEF IInv, TypeOK
<1>2. SlotsCounted' /\ slots' \in Nat
  BY <1>1, Recounted
<1>3. slots' \in 0..MAX_WORKERS
  BY <1>1, <1>2 DEF Bounded
<1>4. /\ conn' \in [CONNECTIONS -> Connection]
      /\ conn'[c] = r
      /\ \A o \in CONNECTIONS \ {c} : conn'[o] = conn[o]
  BY <1>1, Moved
<1>5. UNCHANGED <<listener, switches, nextId, pending, sent, asked, replies, listening, ran, asker, extra>>
  BY DEF Switch, Bridge, Webview, History
<1>6. TypeOK'
  BY <1>1, <1>3, <1>4, <1>5 DEF TypeOK, Connection
<1>7. Numbered' /\ Asking'
  BY <1>4, <1>5 DEF IInv, Numbered, Asking, Serving, Careful
<1>8. Waited'
  <2>1. ASSUME NEW n \in pending' \cup sent'
        PROVE  \E o \in CONNECTIONS : conn'[o].id = n /\ conn'[o].phase \in {"waiting", "expired"}
    <3> PICK o \in CONNECTIONS : conn[o].id = n /\ conn[o].phase \in {"waiting", "expired"}
      BY <1>5, <2>1 DEF IInv, Waited, SendersWaited
    <3> QED
      BY <1>4 DEF Careful, Serving
  <2> QED
    BY <1>5, <2>1 DEF IInv, Waited, SendersWaited
<1>9. Traced'
  BY <1>4, <1>5 DEF IInv, Traced, In, Careful
<1>10. Stopping'
  BY <1>4, <1>5 DEF IInv, Stopping, Stopped, Careful
<1> QED
  BY <1>2, <1>6, <1>7, <1>8, <1>9, <1>10 DEF IInv

-----------------------------------------------------------------------------
(* The steps of a worker that leave the ids and the map alone.             *)

LEMMA Connecting ==
  ASSUME Bounded, IInv, NEW c \in CONNECTIONS, Connect(c) \/ Accept(c) \/ Dropped(c)
  PROVE  IInv'
<1>1. conn[c] \in Connection /\ listener.number \in 0..(MAX_SWITCHES + 1) /\ conn[c].of <= listener.number
  BY Typed DEF IInv, TypeOK, Numbered
<1>2. extra[c] = 1 => conn[c].phase \notin {"away", "queued"}
  BY DEF IInv, Stopping
<1>3. CASE Connect(c)
  <2> DEFINE r == [conn[c] EXCEPT !.phase = "queued", !.of = listener.number]
  <2>1. r \in Connection /\ r.phase = "queued" /\ r.of = listener.number
    BY <1>1 DEF Connection, Phases
  <2>2. Careful(c, r) /\ r.phase \notin Worker /\ conn[c].phase \notin Worker
    BY <1>1, <1>2, <1>3, <2>1 DEF Careful, Connect, In, Worker, Bounded
  <2> QED
    BY <1>3, <2>1, <2>2, CarefulSteps DEF Connect
<1>4. ASSUME NEW phase \in {"loop", "closed"}, In(c, "queued"), Becomes(c, phase),
             \/ slots' = slots /\ phase = "closed"
             \/ slots < MAX_WORKERS /\ slots' = slots + 1 /\ phase = "loop",
             UNCHANGED <<Switch, Bridge, Webview, History>>
      PROVE  IInv'
  <2> DEFINE r == [conn[c] EXCEPT !.phase = phase]
  <2>1. r \in Connection /\ r.phase = phase /\ r.of = conn[c].of
    BY <1>1 DEF Connection, Phases, Worker
  <2>2. Careful(c, r) /\ conn[c].phase \notin Worker /\ ("loop" \in Worker /\ "closed" \notin Worker)
    BY <1>1, <1>2, <1>4, <2>1 DEF Careful, In, Worker
  <2>3. Goes(c, r)
    BY <1>4 DEF Becomes
  <2> HIDE DEF r
  <2> QED
    BY <1>4, <2>1, <2>2, <2>3, CarefulSteps
<1>5. CASE Accept(c)
  <2>1. In(c, "queued") /\ UNCHANGED <<Switch, Bridge, Webview, History>>
    BY <1>5 DEF Accept
  <2>2. CASE slots < MAX_WORKERS /\ slots' = slots + 1 /\ Becomes(c, "loop")
    BY <1>4, <2>1, <2>2
  <2>3. CASE UNCHANGED slots /\ Becomes(c, "closed")
    BY <1>4, <2>1, <2>3
  <2> QED
    BY <1>5, <2>2, <2>3 DEF Accept
<1>6. CASE Dropped(c)
  <2>1. In(c, "queued") /\ Becomes(c, "closed") /\ slots' = slots /\ UNCHANGED <<Switch, Bridge, Webview, History>>
    BY <1>6 DEF Dropped
  <2> QED
    BY <1>4, <2>1
<1> QED
  BY <1>3, <1>5, <1>6

\* A worker that ends gives its slot back.
LEMMA Ending ==
  ASSUME Bounded, IInv, NEW c \in CONNECTIONS, conn[c].phase \in {"loop", "reading", "writing"}, Ends(c),
         UNCHANGED <<Switch, Bridge, Webview, History>>
  PROVE  IInv'
<1> DEFINE r == [conn[c] EXCEPT !.phase = "closed", !.id = 0, !.reply = FALSE]
<1>1. conn[c] \in Connection /\ conn[c].of <= listener.number
  BY Typed DEF IInv, Numbered
<1>2. r \in Connection /\ r.phase = "closed" /\ r.of = conn[c].of
  BY <1>1 DEF Connection, Phases
<1>3. Goes(c, r) /\ slots' = slots - 1
  BY DEF Ends, Rests
<1> HIDE DEF r
<1>4. Careful(c, r) /\ r.phase \notin Worker /\ conn[c].phase \in Worker
  BY <1>1, <1>2 DEF Careful, Worker
<1> QED
  BY <1>2, <1>3, <1>4, CarefulSteps

\* One that goes on keeps it.
LEMMA GoingOn ==
  ASSUME Bounded, IInv, NEW c \in CONNECTIONS, NEW r \in Connection, Goes(c, r), Careful(c, r),
         conn[c].phase \in Worker, r.phase \in Worker, slots' = slots,
         UNCHANGED <<Switch, Bridge, Webview, History>>
  PROVE  IInv'
BY CarefulSteps

LEMMA Looping ==
  ASSUME Bounded, IInv, NEW c \in CONNECTIONS,
         CheckStop(c) \/ ReadEnds(c) \/ BlankLine(c) \/ TimesOut(c) \/ Write(c) \/ WriteEnds(c)
  PROVE  IInv'
<1>1. conn[c] \in Connection /\ conn[c].of <= listener.number
  BY Typed DEF IInv, Numbered
<1>2. extra[c] = 1 => Stopped(c) /\ conn[c].phase # "reading"
  BY DEF IInv, Stopping
<1>3. ASSUME NEW phase \in Worker, Becomes(c, phase), slots' = slots,
             UNCHANGED <<Switch, Bridge, Webview, History>>,
             \/ In(c, "loop") /\ ~Stopped(c) /\ phase = "reading"
             \/ In(c, "reading") /\ phase = "loop"
             \/ In(c, "waiting") /\ phase = "expired"
      PROVE  IInv'
  <2> DEFINE r == [conn[c] EXCEPT !.phase = phase]
  <2>1. r \in Connection /\ r.phase = phase /\ r.of = conn[c].of /\ r.id = conn[c].id
    BY <1>1 DEF Connection, Phases
  <2>2. Careful(c, r) /\ conn[c].phase \in Worker
    BY <1>1, <1>2, <1>3, <2>1 DEF Careful, Serving, In, Worker
  <2>3. Goes(c, r)
    BY <1>3 DEF Becomes
  <2> HIDE DEF r
  <2> QED
    BY <1>3, <2>1, <2>2, <2>3, GoingOn
<1>4. CASE CheckStop(c)
  BY <1>3, <1>4, Ending DEF CheckStop, In, Worker
<1>5. CASE ReadEnds(c) \/ WriteEnds(c)
  BY <1>5, Ending DEF ReadEnds, WriteEnds, In
<1>6. CASE BlankLine(c)
  BY <1>3, <1>6 DEF BlankLine, Worker
<1>7. CASE TimesOut(c)
  BY <1>3, <1>7 DEF TimesOut, Worker
<1>8. CASE Write(c)
  <2> DEFINE r == [conn[c] EXCEPT !.phase = "loop", !.id = 0, !.reply = FALSE]
  <2>1. r \in Connection /\ r.phase = "loop" /\ r.of = conn[c].of
    BY <1>1 DEF Connection, Phases, Worker
  <2>2. Goes(c, r) /\ conn[c].phase = "writing" /\ slots' = slots
        /\ UNCHANGED <<Switch, Bridge, Webview, History>>
    BY <1>8 DEF Write, Rests, In
  <2> HIDE DEF r
  <2>3. Careful(c, r) /\ r.phase \in Worker /\ conn[c].phase \in Worker
    BY <1>1, <2>1, <2>2 DEF Careful, Worker
  <2> QED
    BY <2>1, <2>2, <2>3, GoingOn
<1> QED
  BY <1>4, <1>5, <1>6, <1>7, <1>8

-----------------------------------------------------------------------------
(* A request: its id is given, and its answer comes or does not.           *)

\* The history of an id that is given.
LEMMA Given ==
  ASSUME Bounded, IInv, NEW c \in CONNECTIONS, Serves(c)
  PROVE  /\ nextId \in Ids /\ nextId' = nextId + 1 /\ conn[c].phase = "reading"
         /\ asker' \in [Ids -> CONNECTIONS \cup {"nobody"}] /\ asker'[nextId] = c
         /\ \A n \in Ids : n # nextId => asker'[n] = asker[n]
         /\ extra' \in [CONNECTIONS -> Nat]
         /\ \A o \in CONNECTIONS \ {c} : extra'[o] = extra[o]
         /\ extra'[c] <= 1 /\ (extra'[c] = 1 => Stopped(c))
<1>1. extra \in [CONNECTIONS -> Nat] /\ extra[c] \in Nat /\ extra[c] # 1 /\ extra[c] <= 1 /\ In(c, "reading")
  BY DEF IInv, TypeOK, Stopping, Serves, In
<1>2. extra[c] = 0
  BY <1>1
<1> QED
  BY <1>1, <1>2 DEF IInv, TypeOK, Serves, Ids, Bounded, In

LEMMA Appended ==
  ASSUME NEW S, NEW s \in Seq(S), NEW x \in S
  PROVE  /\ Append(s, x) \in Seq(S) /\ DOMAIN Append(s, x) = DOMAIN s \cup {Len(s) + 1}
         /\ Append(s, x)[Len(s) + 1] = x /\ Len(s) + 1 \notin DOMAIN s
         /\ \A i \in DOMAIN s : Append(s, x)[i] = s[i]
OBVIOUS

\* The worker has an id and writes, or waits with its sender in the map.
LEMMA Served ==
  ASSUME Bounded, IInv, NEW c \in CONNECTIONS, Serves(c), NEW r \in Connection, Goes(c, r),
         r.of = conn[c].of, r.id = nextId, slots' = slots, sent' = sent, UNCHANGED <<Switch, replies, listening, ran>>,
         \/ r.phase = "writing" /\ ~r.reply /\ UNCHANGED <<pending, asked>>
         \/ /\ r.phase = "waiting" /\ pending' = pending \cup {nextId}
            /\ asked' = IF listening THEN Append(asked, nextId) ELSE asked
  PROVE  IInv'
<1>1. /\ TypeOK /\ SlotsCounted /\ Bounded
      /\ \A n \in Ids : n >= nextId => ran[n] = 0
      /\ \A i \in DOMAIN asked : asked[i] < nextId /\ asked[i] \in Ids
      /\ asked \in Seq(Ids) /\ nextId \in Nat /\ pending \subseteq Ids /\ sent \subseteq Ids
  <2>1. TypeOK /\ SlotsCounted /\ Bounded /\ Traced
    BY DEF IInv
  <2>2. asked \in Seq(Ids) /\ nextId \in Nat /\ pending \subseteq Ids /\ sent \subseteq Ids
    BY <2>1 DEF TypeOK
  <2>3. \A i \in DOMAIN asked : asked[i] \in Ids
    BY <2>2
  <2> QED
    BY <2>1, <2>2, <2>3 DEF Traced
<1>2. /\ conn' \in [CONNECTIONS -> Connection]
      /\ conn'[c] = r
      /\ \A o \in CONNECTIONS \ {c} : conn'[o] = conn[o]
  BY <1>1, Moved
<1>3. /\ nextId \in Ids /\ nextId' = nextId + 1 /\ conn[c].phase = "reading"
      /\ asker' \in [Ids -> CONNECTIONS \cup {"nobody"}] /\ asker'[nextId] = c
      /\ \A n \in Ids : n # nextId => asker'[n] = asker[n]
      /\ extra' \in [CONNECTIONS -> Nat]
      /\ \A o \in CONNECTIONS \ {c} : extra'[o] = extra[o]
      /\ extra'[c] <= 1 /\ (extra'[c] = 1 => Stopped(c))
  BY Given
<1>4. UNCHANGED <<listener, switches, replies, listening, ran, sent, slots>>
  BY DEF Switch
<1>5. SlotsCounted'
  <2>1. r.phase \in Worker /\ conn[c].phase \in Worker
    BY <1>3 DEF Worker
  <2> QED
    BY <1>1, <2>1, Recounted
<1>6. asked' \in Seq(Ids)
      /\ \/ asked' = asked
         \/ /\ asked' = Append(asked, nextId) /\ DOMAIN asked' = DOMAIN asked \cup {Len(asked) + 1}
            /\ asked'[Len(asked) + 1] = nextId /\ Len(asked) + 1 \notin DOMAIN asked
            /\ \A i \in DOMAIN asked : asked'[i] = asked[i]
  <2>1. CASE asked' = asked
    BY <1>1, <2>1
  <2>2. CASE asked' = Append(asked, nextId)
    <3>1. /\ Append(asked, nextId) \in Seq(Ids) /\ DOMAIN Append(asked, nextId) = DOMAIN asked \cup {Len(asked) + 1}
          /\ Append(asked, nextId)[Len(asked) + 1] = nextId /\ Len(asked) + 1 \notin DOMAIN asked
          /\ \A i \in DOMAIN asked : Append(asked, nextId)[i] = asked[i]
      BY <1>1, <1>3, Appended
    <3> QED
      BY <2>2, <3>1, Zenon
  <2> QED
    BY <2>1, <2>2
<1>7. TypeOK'
  <2>1. nextId' \in 1..(MAX_REQUESTS + 1)
    BY <1>3 DEF Ids, Bounded
  <2>2. pending' \subseteq Ids
    BY <1>1, <1>3
  <2> QED
    BY <1>1, <1>2, <1>3, <1>4, <1>6, <2>1, <2>2 DEF TypeOK, Connection
<1>8. Numbered'
  BY <1>2, <1>4 DEF IInv, Numbered
<1>9. Asking'
  <2>1. ASSUME NEW o \in CONNECTIONS, o # c, Serving(o)
        PROVE  conn[o].id \in Ids /\ conn[o].id < nextId' /\ asker'[conn[o].id] = o
    BY <1>1, <1>3, <2>1 DEF IInv, Asking, Ids
  <2>2. nextId < nextId'
    BY <1>1, <1>3
  <2> QED
    BY <1>2, <1>3, <2>1, <2>2 DEF Asking, Serving
<1>10. nextId \notin pending \cup sent
  BY <1>1 DEF IInv, Waited, SendersWaited, Asking, Serving, Ids
<1>11. Waited'
  <2>1. ASSUME NEW n \in pending \cup sent
        PROVE  \E o \in CONNECTIONS : conn'[o].id = n /\ conn'[o].phase \in {"waiting", "expired"}
    <3> PICK o \in CONNECTIONS : conn[o].id = n /\ conn[o].phase \in {"waiting", "expired"}
      BY <2>1 DEF IInv, Waited, SendersWaited
    <3> QED
      BY <1>2, <1>3
  <2>2. pending' = pending \/ (pending' = pending \cup {nextId} /\ r.phase = "waiting")
    OBVIOUS
  <2> QED
    BY <1>2, <1>4, <1>10, <2>1, <2>2 DEF IInv, Waited, SendersWaited
<1>12. Traced'
  <2>1. \A i \in DOMAIN asked' : asked'[i] < nextId' /\ ran[asked'[i]] = 0
    BY <1>1, <1>3, <1>6 DEF IInv, Traced, Ids
  <2>2. \A i, j \in DOMAIN asked' : asked'[i] = asked'[j] => i = j
    BY <1>1, <1>6 DEF IInv, Traced
  <2>3. \A o \in CONNECTIONS : conn'[o].phase = "writing" /\ conn'[o].reply => ran[conn'[o].id] = 1
    BY <1>2 DEF IInv, Traced, In
  <2>4. \A n \in Ids : ran[n] <= 1 /\ (n >= nextId' => ran[n] = 0)
    BY <1>1, <1>3 DEF IInv, Traced, Ids
  <2> QED
    BY <1>4, <2>1, <2>2, <2>3, <2>4 DEF IInv, Traced, In
<1>13. Stopping'
  BY <1>2, <1>3, <1>4 DEF IInv, Stopping, Stopped
<1> QED
  BY <1>5, <1>7, <1>8, <1>9, <1>11, <1>12, <1>13 DEF IInv

LEMMA Asked ==
  ASSUME Bounded, IInv, NEW c \in CONNECTIONS, AnswerHere(c) \/ AskWebview(c)
  PROVE  IInv'
<1>1. conn[c] \in Connection /\ Serves(c) /\ nextId \in Ids
  BY Typed, Given DEF IInv, AnswerHere, AskWebview
<1> DEFINE writes == [conn[c] EXCEPT !.phase = "writing", !.id = nextId, !.reply = FALSE]
           waits == [conn[c] EXCEPT !.phase = "waiting", !.id = nextId]
<1>2. /\ writes \in Connection /\ writes.phase = "writing" /\ writes.id = nextId /\ writes.of = conn[c].of
      /\ ~writes.reply
      /\ waits \in Connection /\ waits.phase = "waiting" /\ waits.id = nextId /\ waits.of = conn[c].of
  BY <1>1 DEF Connection, Phases, Worker
<1>3. UNCHANGED <<Switch, slots, sent, replies, listening, ran>>
  BY DEF AnswerHere, AskWebview, Webview
<1>4. \/ Goes(c, writes) /\ UNCHANGED <<pending, asked>>
      \/ /\ Goes(c, waits) /\ pending' = pending \cup {nextId}
         /\ asked' = IF listening THEN Append(asked, nextId) ELSE asked
  BY DEF AnswerHere, AskWebview, Webview
<1> HIDE DEF writes, waits
<1>5. CASE Goes(c, writes) /\ UNCHANGED <<pending, asked>>
  BY <1>1, <1>2, <1>3, <1>5, Served
<1>6. CASE /\ Goes(c, waits) /\ pending' = pending \cup {nextId}
           /\ asked' = IF listening THEN Append(asked, nextId) ELSE asked
  BY <1>1, <1>2, <1>3, <1>6, Served
<1> QED
  BY <1>4, <1>5, <1>6

\* The worker writes what it got, or that it got nothing: nothing of it stays in the map.
LEMMA Answered ==
  ASSUME Bounded, IInv, NEW c \in CONNECTIONS, Receive(c) \/ ForgetSender(c)
  PROVE  IInv'
<1> DEFINE id == conn[c].id
           r == [conn[c] EXCEPT !.phase = "writing", !.reply = In(c, "waiting")]
<1>1. /\ TypeOK /\ SlotsCounted /\ conn[c] \in Connection
      /\ conn[c].phase \in {"waiting", "expired"} /\ id \in Ids
  BY Typed DEF IInv, Receive, ForgetSender, In, Asking, Serving
<1>2. r \in Connection /\ r.phase = "writing" /\ r.id = id /\ r.of = conn[c].of /\ r.reply = In(c, "waiting")
  BY <1>1 DEF Connection, Phases, Worker, In
<1>3. Goes(c, r)
  BY <1>1 DEF Receive, ForgetSender, Goes, In
<1>4. /\ sent' = sent \ {id} /\ pending' = pending \ {id} /\ (In(c, "waiting") => id \in sent)
      /\ UNCHANGED <<slots, listener, switches, nextId, asked, replies, listening, ran, asker, extra>>
  BY DEF Receive, ForgetSender, IInv, Waited, In, Switch, Webview, History
<1> HIDE DEF r
<1>5. /\ conn' \in [CONNECTIONS -> Connection]
      /\ conn'[c] = r
      /\ \A o \in CONNECTIONS \ {c} : conn'[o] = conn[o]
  BY <1>1, <1>2, <1>3, Moved
<1>6. SlotsCounted'
  <2>1. r.phase \in Worker /\ conn[c].phase \in Worker
    BY <1>1, <1>2 DEF Worker
  <2> QED
    BY <1>1, <1>2, <1>3, <1>4, <2>1, Recounted
<1>7. TypeOK'
  BY <1>1, <1>4, <1>5 DEF TypeOK, Connection
<1>8. Numbered' /\ Asking'
  BY <1>1, <1>2, <1>4, <1>5 DEF IInv, Numbered, Asking, Serving
<1>9. Waited'
  <2>1. ASSUME NEW n \in pending' \cup sent'
        PROVE  \E o \in CONNECTIONS : conn'[o].id = n /\ conn'[o].phase \in {"waiting", "expired"}
    <3> PICK o \in CONNECTIONS : conn[o].id = n /\ conn[o].phase \in {"waiting", "expired"}
      BY <1>4, <2>1 DEF IInv, Waited, SendersWaited
    <3> QED
      BY <1>4, <1>5, <2>1
  <2> QED
    BY <1>4, <2>1 DEF IInv, Waited, SendersWaited
<1>10. Traced'
  <2>1. Traced /\ \A n \in sent' : n \in sent
    BY <1>4 DEF IInv
  <2>2. In(c, "waiting") => ran[id] = 1
    BY <1>4, <2>1 DEF Traced
  <2>3. ASSUME NEW o \in CONNECTIONS, conn'[o].phase = "writing", conn'[o].reply
        PROVE  ran[conn'[o].id] = 1
    <3>1. CASE o = c
      BY <1>2, <1>5, <2>2, <2>3, <3>1
    <3>2. CASE o # c
      BY <1>5, <2>1, <2>3, <3>2 DEF Traced, In
    <3> QED
      BY <3>1, <3>2
  <2> QED
    BY <1>4, <2>1, <2>3 DEF Traced, In
<1>11. Stopping'
  BY <1>1, <1>2, <1>4, <1>5 DEF IInv, Stopping, Stopped
<1> QED
  BY <1>6, <1>7, <1>8, <1>9, <1>10, <1>11 DEF IInv

-----------------------------------------------------------------------------
(* The listener and the webview.                                           *)

LEMMA Switched ==
  ASSUME Bounded, IInv, Stop \/ Start \/ AcceptorDies
  PROVE  IInv'
<1>1. /\ TypeOK /\ UNCHANGED <<slots, conn, nextId, pending, sent, asked, replies, listening, ran, asker, extra>>
  BY DEF IInv, Stop, Start, AcceptorDies, Bridge, Webview, History
<1>2. /\ listener' \in [number : 0..(MAX_SWITCHES + 1), stopped : BOOLEAN, dead : BOOLEAN]
      /\ switches' \in 0..MAX_SWITCHES /\ listener'.number <= switches'
      /\ \/ listener'.number = listener.number /\ (listener.stopped => listener'.stopped)
         \/ listener'.number = listener.number + 1
  <2>1. /\ listener \in [number : 0..(MAX_SWITCHES + 1), stopped : BOOLEAN, dead : BOOLEAN]
        /\ switches \in 0..MAX_SWITCHES /\ listener.number <= switches
    BY DEF IInv, TypeOK, Numbered
  <2>2. CASE Stop
    BY <2>1, <2>2 DEF Stop
  <2>3. CASE Start
    BY <2>1, <2>3 DEF Start, Bounded
  <2>4. CASE AcceptorDies
    BY <2>1, <2>4 DEF AcceptorDies
  <2> QED
    BY <2>2, <2>3, <2>4
<1>3. TypeOK'
  BY <1>1, <1>2 DEF TypeOK
<1>4. Numbered'
  BY <1>1, <1>2 DEF IInv, Numbered, TypeOK
<1>5. \A c \in CONNECTIONS : Stopped(c) => Stopped(c)'
  <2>1. ASSUME NEW c \in CONNECTIONS, Stopped(c)
        PROVE  conn[c].of # listener'.number \/ listener'.stopped
    <3>1. conn[c].of <= listener.number /\ conn[c].of \in Nat /\ listener.number \in Nat
      BY <1>1, Typed DEF IInv, Numbered, TypeOK, Connection
    <3> QED
      BY <1>2, <2>1, <3>1 DEF Stopped
  <2> QED
    BY <1>1, <2>1 DEF Stopped
<1>6. Asking' /\ Waited' /\ Traced' /\ SlotsCounted'
  BY <1>1 DEF IInv, Asking, Serving, Waited, SendersWaited, Traced, In, SlotsCounted
<1>7. Stopping'
  BY <1>1, <1>5 DEF IInv, Stopping
<1> QED
  BY <1>3, <1>4, <1>6, <1>7 DEF IInv

LEMMA Registering ==
  ASSUME IInv, Registers
  PROVE  IInv'
BY DEF IInv, Registers, TypeOK, Numbered, Asking, Serving, Waited, SendersWaited, Traced, In, Stopping,
       Stopped, SlotsCounted, Switch, Bridge, History

\* The webview takes the oldest request and runs its command, which has not run.
LEMMA Handling ==
  ASSUME Bounded, IInv, Handle
  PROVE  IInv'
<1> DEFINE n == Head(asked)
<1>1. /\ TypeOK /\ Traced /\ asked \in Seq(Ids) /\ asked # <<>> /\ asked' = Tail(asked)
      /\ replies' = replies \cup {n} /\ ran' = [ran EXCEPT ![n] = ran[n] + 1]
      /\ UNCHANGED <<listener, switches, slots, conn, nextId, pending, sent, listening, asker, extra>>
  BY DEF IInv, TypeOK, Handle, Switch, Bridge, History
<1>2. /\ n \in Ids /\ 1 \in DOMAIN asked /\ asked[1] = n /\ asked' \in Seq(Ids)
      /\ \A i \in DOMAIN asked' : i + 1 \in DOMAIN asked /\ asked'[i] = asked[i + 1] /\ i \in Nat /\ i # 0
  BY <1>1
<1> HIDE DEF n
<1>3. /\ ran[n] = 0 /\ n < nextId /\ ran' \in [Ids -> Nat] /\ ran'[n] = 1
      /\ \A k \in Ids : k # n => ran'[k] = ran[k]
  BY <1>1, <1>2 DEF Traced, TypeOK
<1>4. TypeOK'
  BY <1>1, <1>2, <1>3 DEF TypeOK
<1>5. Numbered' /\ Asking' /\ Waited' /\ Stopping' /\ SlotsCounted'
  BY <1>1 DEF IInv, Numbered, Asking, Serving, Waited, SendersWaited, Stopping, Stopped, SlotsCounted
<1>6. Traced'
  <2>1. \A i, j \in DOMAIN asked' : asked'[i] = asked'[j] => i = j
    <3> SUFFICES ASSUME NEW i \in DOMAIN asked', NEW j \in DOMAIN asked', asked'[i] = asked'[j]
                 PROVE  i = j
      OBVIOUS
    <3>1. i + 1 = j + 1 /\ i \in Nat /\ j \in Nat
      BY <1>1, <1>2 DEF Traced
    <3> QED
      BY <3>1
  <2>2. \A i \in DOMAIN asked' : asked'[i] < nextId' /\ ran'[asked'[i]] = 0
    <3> SUFFICES ASSUME NEW i \in DOMAIN asked'
                 PROVE  asked'[i] < nextId' /\ ran'[asked'[i]] = 0
      OBVIOUS
    <3>1. asked'[i] = asked[i + 1] /\ i + 1 \in DOMAIN asked /\ i + 1 # 1
      BY <1>2
    <3>2. asked[i + 1] # n /\ asked[i + 1] \in Ids /\ asked[i + 1] < nextId /\ ran[asked[i + 1]] = 0
      BY <1>1, <1>2, <3>1 DEF Traced
    <3> QED
      BY <1>1, <1>3, <3>1, <3>2
  <2>3. \A k \in Ids : ran'[k] <= 1 /\ (k >= nextId' => ran'[k] = 0)
    BY <1>1, <1>3 DEF Traced, TypeOK, Ids, Bounded
  <2>4. \A k \in replies' \cup sent' : ran'[k] = 1
    BY <1>1, <1>3 DEF Traced, TypeOK
  <2>5. \A c \in CONNECTIONS : conn'[c].phase = "writing" /\ conn'[c].reply => ran'[conn'[c].id] = 1
    BY <1>1, <1>3 DEF IInv, Traced, In, Asking, Serving
  <2> QED
    BY <2>1, <2>2, <2>3, <2>4, <2>5 DEF Traced, In
<1> QED
  BY <1>4, <1>5, <1>6 DEF IInv

LEMMA Responding ==
  ASSUME Bounded, IInv, NEW n \in Ids, ControlResponse(n)
  PROVE  IInv'
<1>1. /\ n \in replies /\ replies' = replies \ {n} /\ pending' = pending \ {n}
      /\ sent' = (IF n \in pending THEN sent \cup {n} ELSE sent)
      /\ UNCHANGED <<listener, switches, slots, conn, nextId, asked, listening, ran, asker, extra>>
  BY DEF ControlResponse, Switch, History
<1>2. TypeOK' /\ Numbered' /\ Asking' /\ Stopping' /\ SlotsCounted'
  BY <1>1 DEF IInv, TypeOK, Numbered, Asking, Serving, Stopping, Stopped, SlotsCounted
<1>3. Waited'
  BY <1>1 DEF IInv, Waited, SendersWaited
<1>4. Traced'
  BY <1>1 DEF IInv, Traced, In
<1> QED
  BY <1>2, <1>3, <1>4 DEF IInv

-----------------------------------------------------------------------------
(* The theorems.                                                           *)

LEMMA Initially ==
  ASSUME Bounded, Init
  PROVE  IInv
<1>1. TypeOK
  <2>1. /\ listener \in [number : 0..(MAX_SWITCHES + 1), stopped : BOOLEAN, dead : BOOLEAN]
        /\ slots \in 0..MAX_WORKERS /\ nextId \in 1..(MAX_REQUESTS + 1) /\ switches \in 0..MAX_SWITCHES
    BY DEF Init, Bounded
  <2>2. conn \in [CONNECTIONS -> [phase : Phases, of : 0..(MAX_SWITCHES + 1), id : Ids \cup {0},
                                  reply : BOOLEAN]]
    BY DEF Init, Bounded, Phases
  <2>3. asked \in Seq(Ids)
    <3>1. <<>> \in Seq(Ids)
      OBVIOUS
    <3> QED
      BY <3>1, Zenon DEF Init
  <2>4. /\ pending \subseteq Ids /\ sent \subseteq Ids /\ replies \subseteq Ids
        /\ listening \in BOOLEAN
    BY DEF Init
  <2>5. /\ asker \in [Ids -> CONNECTIONS \cup {"nobody"}]
        /\ ran \in [Ids -> Nat] /\ extra \in [CONNECTIONS -> Nat]
    BY DEF Init
  <2> QED
    BY <2>1, <2>2, <2>3, <2>4, <2>5 DEF TypeOK
<1>2. SlotsCounted
  <2>1. {c \in CONNECTIONS : conn[c].phase \in Worker} = {}
    BY DEF Init, Worker
  <2> QED
    BY <2>1, FS_EmptySet DEF Init, SlotsCounted
<1>3. Numbered /\ Asking /\ Waited /\ Stopping
  BY DEF Init, Numbered, Asking, Serving, Waited, SendersWaited, Stopping
<1>4. Traced
  BY DEF Init, Traced, In
<1> QED
  BY <1>1, <1>2, <1>3, <1>4 DEF IInv

LEMMA Stepwise ==
  ASSUME Bounded, IInv, [Next]_vars
  PROVE  IInv'
<1>1. CASE Stop \/ Start \/ AcceptorDies \/ Registers \/ Handle \/ \E n \in Ids : ControlResponse(n)
  BY <1>1, Switched, Registering, Handling, Responding
<1>2. ASSUME NEW c \in CONNECTIONS,
             \/ Connect(c) \/ Accept(c) \/ Dropped(c) \/ CheckStop(c) \/ ReadEnds(c) \/ BlankLine(c)
             \/ AnswerHere(c) \/ AskWebview(c)
             \/ Receive(c) \/ TimesOut(c) \/ ForgetSender(c) \/ Write(c) \/ WriteEnds(c)
      PROVE  IInv'
  BY <1>2, Connecting, Looping, Asked, Answered
<1>3. CASE UNCHANGED vars
  BY <1>3 DEF IInv, vars, TypeOK, Numbered, Asking, Serving, Waited, SendersWaited, Traced, In,
     Stopping, Stopped, SlotsCounted
<1> QED
  BY <1>1, <1>2, <1>3 DEF Next

LEMMA Inductive ==
  ASSUME Bounded
  PROVE  Spec => []IInv
<1>1. Init => IInv
  BY Initially
<1>2. IInv /\ [Next]_vars => IInv'
  BY Stepwise
<1> QED
  BY <1>1, <1>2, PTL DEF Spec

\* A client is told the webview's answer to its own request, whose command ran once
\* (bridge_to_webview, resolve_pending): neither a reply that comes after the deadline nor
\* a worker of a listener that was stopped gets one client's answer to another.
THEOREM AnswersOwn ==
  ASSUME Bounded
  PROVE  Spec => []OwnAnswer
<1>1. IInv => OwnAnswer
  BY DEF IInv, OwnAnswer, Traced, Asking, Serving, In
<1> QED
  BY Inductive, <1>1, PTL

\* Every sender in the map, and every answer in a channel, has a worker that will take it
\* out (bridge_to_webview): a timeout, an answer that is late and a stop leave none.
THEOREM SendersHaveWaiters ==
  ASSUME Bounded
  PROVE  Spec => []SendersWaited
<1>1. IInv => SendersWaited
  BY DEF IInv, Waited
<1> QED
  BY Inductive, <1>1, PTL

\* A worker serves at most the line that it was reading when its listener was stopped
\* (handle_connection), however often the channel is started again meanwhile.
THEOREM StopIsSeen ==
  ASSUME Bounded
  PROVE  Spec => []OneLineMore
<1>1. IInv => OneLineMore
  BY DEF IInv, Stopping, OneLineMore
<1> QED
  BY Inductive, <1>1, PTL

\* The slots taken are the workers that run (Slots, Permit), over all listeners: so there
\* are never more than MAX_WORKERS of them, and none is lost for good.
THEOREM SlotsAreWorkers ==
  ASSUME Bounded
  PROVE  Spec => [](SlotsCounted /\ slots <= MAX_WORKERS)
<1>1. IInv => SlotsCounted /\ (Bounded => slots <= MAX_WORKERS)
  BY DEF IInv, TypeOK, Bounded
<1> QED
  BY Inductive, <1>1, PTL

-----------------------------------------------------------------------------
(* The socket.                                                             *)

(* An instance has a handle only while it rests or tears down.             *)
Unhandled ==
  \A i \in INSTANCES : proc[i].at \notin {"rest", "stopping", "unlinked"} => proc[i].handle = 0

(* Between the unlink and the release of the lock the path is empty.        *)
Vacated == \A i \in INSTANCES : Socket!At(i, "unlinked") => node = 0

(* create_socket_at runs for an instance that is wanted.                   *)
Starting == {"start", "checked", "locked", "cleared", "bound", "refused"}
StartsWanted == \A i \in INSTANCES : proc[i].at \in Starting => proc[i].want

SocketInv ==
  /\ Socket!TypeOK
  /\ Socket!SocketOwned /\ Unhandled
  /\ Socket!OnlyCrashesLeave /\ Vacated
  /\ Socket!WantFollowed /\ StartsWanted

-----------------------------------------------------------------------------
(* The initial state has no socket, no lock and no handle (ControlState).  *)
LEMMA InitOwned ==
  ASSUME MAX_BINDS \in Nat, MAX_APPLIES \in Nat, Socket!Init
  PROVE  SocketInv
<1>1. Socket!TypeOK
  BY DEF Socket!Init, Socket!TypeOK, Socket!Process, Socket!Down, Socket!Steps
<1>2. Socket!SocketOwned /\ Unhandled
  BY DEF Socket!Init, Socket!Down, Socket!SocketOwned, Unhandled, Socket!Holds, Socket!Serves, Socket!At
<1>3. Socket!OnlyCrashesLeave /\ Vacated
  BY DEF Socket!Init, Socket!OnlyCrashesLeave, Vacated
<1>4. Socket!WantFollowed /\ StartsWanted
  BY DEF Socket!Init, Socket!Down, Socket!WantFollowed, StartsWanted, Starting, Socket!At
<1> QED
  BY <1>1, <1>2, <1>3, <1>4 DEF SocketInv

(* A step of one instance leaves the others where they are.                *)
LEMMA SocketMoved ==
  ASSUME Socket!TypeOK, NEW i \in INSTANCES, NEW p \in Socket!Process, Socket!Goes(i, p)
  PROVE  /\ proc' \in [INSTANCES -> Socket!Process]
         /\ proc'[i] = p
         /\ \A j \in INSTANCES \ {i} : proc'[j] = proc[j]
BY DEF Socket!TypeOK, Socket!Goes

(* What the steps below need of the types, record sets left folded.        *)
LEMMA SocketTyped ==
  ASSUME SocketInv, NEW i \in INSTANCES
  PROVE  proc[i] \in Socket!Process
BY DEF SocketInv, Socket!TypeOK

(* A start is decided without a handle, a stop with one, and a rest when   *)
(* there is nothing to do (apply_with).                                    *)
Decided(at, handle, want) ==
  /\ at \in {"start", "stopping", "rest"}
  /\ at = "start" => handle = 0 /\ want
  /\ at = "stopping" => handle # 0
  /\ at = "rest" => (want <=> handle # 0)

LEMMA Decides ==
  ASSUME NEW p \in Socket!Process, NEW want \in BOOLEAN
  PROVE  Socket!Reconcile(want, p) \in Socket!Steps /\ Decided(Socket!Reconcile(want, p), p.handle, want)
BY DEF Socket!Reconcile, Decided, Socket!Steps

(* A failed start rests, with the handle it had (the Err arms of           *)
(* apply_with and create_socket_at).                                       *)
LEMMA Failed ==
  ASSUME SocketInv, NEW i \in INSTANCES, Socket!Fails(i, proc[i])
  PROVE  \E p \in Socket!Process : Socket!Goes(i, p) /\ p.at = "rest" /\ p.handle = proc[i].handle /\ p.failed
<1> DEFINE p == [proc[i] EXCEPT !.at = "rest", !.failed = TRUE, !.stale = FALSE]
<1>1. p \in Socket!Process /\ p.at = "rest" /\ p.handle = proc[i].handle /\ p.failed
  BY SocketTyped DEF Socket!Process, Socket!Steps
<1>2. Socket!Goes(i, p)
  BY DEF Socket!Fails
<1> HIDE DEF p
<1> QED
  BY <1>1, <1>2

(* apply_with decides from the handle and the wanted state.                *)
LEMMA Applies ==
  ASSUME Socket!Nobody \notin INSTANCES, MAX_BINDS \in Nat, MAX_APPLIES \in Nat,
         SocketInv, NEW i \in INSTANCES, NEW want \in BOOLEAN, Socket!Apply(i, want)
  PROVE  SocketInv'
<1> DEFINE p == [proc[i] EXCEPT !.want = want, !.at = Socket!Reconcile(want, proc[i])]
<1>1. p \in Socket!Process /\ Decided(p.at, p.handle, p.want) /\ p.handle = proc[i].handle
  BY SocketTyped, Decides DEF Socket!Process, Socket!Steps
<1>2. Socket!Goes(i, p)
  BY DEF Socket!Apply
<1> HIDE DEF p
<1>3. Socket!TypeOK
  BY DEF SocketInv
<1>4. /\ proc' \in [INSTANCES -> Socket!Process]
      /\ proc'[i] = p
      /\ \A j \in INSTANCES \ {i} : proc'[j] = proc[j]
  BY <1>1, <1>2, <1>3, SocketMoved
<1>5. Socket!TypeOK'
  BY <1>3, <1>4 DEF Socket!Apply, Socket!TypeOK
<1>6. Socket!SocketOwned' /\ Unhandled'
  BY <1>1, <1>4 DEF Socket!Apply, Decided, SocketInv, Socket!TypeOK, Socket!SocketOwned,
     Unhandled, Socket!Holds, Socket!Serves, Socket!At
<1>7. Socket!OnlyCrashesLeave' /\ Vacated'
  BY <1>1, <1>4 DEF Socket!Apply, Decided, SocketInv, Socket!TypeOK, Socket!SocketOwned,
     Unhandled, Socket!OnlyCrashesLeave, Vacated, Socket!Holds, Socket!Serves, Socket!At
<1>8. Socket!WantFollowed' /\ StartsWanted'
  BY <1>1, <1>4 DEF Socket!Apply, Decided, SocketInv, Socket!TypeOK, Socket!SocketOwned,
     Unhandled, Socket!WantFollowed, StartsWanted, Starting, Socket!At
<1> QED
  BY <1>5, <1>6, <1>7, <1>8 DEF SocketInv

(* shutdown tears down what is served.                                     *)
LEMMA Quits ==
  ASSUME Socket!Nobody \notin INSTANCES, MAX_BINDS \in Nat, MAX_APPLIES \in Nat,
         SocketInv, NEW i \in INSTANCES, Socket!Quit(i)
  PROVE  SocketInv'
<1> DEFINE p == [proc[i] EXCEPT !.want = FALSE, !.at = Socket!Reconcile(FALSE, proc[i])]
<1>1. p \in Socket!Process /\ Decided(p.at, p.handle, p.want) /\ p.handle = proc[i].handle
  BY SocketTyped, Decides DEF Socket!Process, Socket!Steps
<1>2. Socket!Goes(i, p)
  BY DEF Socket!Quit
<1> HIDE DEF p
<1>3. Socket!TypeOK
  BY DEF SocketInv
<1>4. /\ proc' \in [INSTANCES -> Socket!Process]
      /\ proc'[i] = p
      /\ \A j \in INSTANCES \ {i} : proc'[j] = proc[j]
  BY <1>1, <1>2, <1>3, SocketMoved
<1>5. Socket!TypeOK'
  BY <1>3, <1>4 DEF Socket!Quit, Socket!TypeOK
<1>6. Socket!SocketOwned' /\ Unhandled'
  BY <1>1, <1>4 DEF Socket!Quit, Decided, SocketInv, Socket!TypeOK, Socket!SocketOwned, Unhandled,
     Socket!Holds, Socket!Serves, Socket!At
<1>7. Socket!OnlyCrashesLeave' /\ Vacated'
  BY <1>1, <1>4 DEF Socket!Quit, Decided, SocketInv, Socket!TypeOK, Socket!SocketOwned, Unhandled,
     Socket!OnlyCrashesLeave, Vacated, Socket!Holds, Socket!Serves, Socket!At
<1>8. Socket!WantFollowed' /\ StartsWanted'
  BY <1>1, <1>4 DEF Socket!Quit, Decided, SocketInv, Socket!TypeOK, Socket!SocketOwned, Unhandled,
     Socket!WantFollowed, StartsWanted, Starting, Socket!At
<1> QED
  BY <1>5, <1>6, <1>7, <1>8 DEF SocketInv

(* The node is removed by the holder of the lock.                          *)
LEMMA Unlinks ==
  ASSUME Socket!Nobody \notin INSTANCES, MAX_BINDS \in Nat, MAX_APPLIES \in Nat,
         SocketInv, NEW i \in INSTANCES, Socket!Unlink(i)
  PROVE  SocketInv'
<1> DEFINE p == [proc[i] EXCEPT !.at = "unlinked"]
<1>1. p \in Socket!Process /\ p.at = "unlinked" /\ p.handle = proc[i].handle
  BY SocketTyped DEF Socket!Process, Socket!Steps
<1>2. Socket!Goes(i, p)
  BY DEF Socket!Unlink
<1> HIDE DEF p
<1>3. Socket!TypeOK
  BY DEF SocketInv
<1>4. /\ proc' \in [INSTANCES -> Socket!Process]
      /\ proc'[i] = p
      /\ \A j \in INSTANCES \ {i} : proc'[j] = proc[j]
  BY <1>1, <1>2, <1>3, SocketMoved
<1>5. Socket!TypeOK'
  BY <1>3, <1>4 DEF Socket!Unlink, Socket!TypeOK
<1>6. Socket!SocketOwned' /\ Unhandled'
  BY <1>1, <1>4 DEF Socket!Unlink, SocketInv, Socket!TypeOK, Socket!SocketOwned, Unhandled,
     Socket!Holds, Socket!Serves, Socket!At
<1>7. Socket!OnlyCrashesLeave' /\ Vacated'
  BY <1>1, <1>4 DEF Socket!Unlink, SocketInv, Socket!TypeOK, Socket!SocketOwned, Unhandled,
     Socket!OnlyCrashesLeave, Vacated, Socket!Holds, Socket!Serves, Socket!At
<1>8. Socket!WantFollowed' /\ StartsWanted'
  BY <1>1, <1>4 DEF Socket!Unlink, SocketInv, Socket!TypeOK, Socket!SocketOwned, Unhandled,
     Socket!WantFollowed, StartsWanted, Starting, Socket!At
<1> QED
  BY <1>5, <1>6, <1>7, <1>8 DEF SocketInv

(* The handle goes before the lock can be another's.                       *)
LEMMA Releases ==
  ASSUME Socket!Nobody \notin INSTANCES, MAX_BINDS \in Nat, MAX_APPLIES \in Nat,
         SocketInv, NEW i \in INSTANCES, Socket!Release(i)
  PROVE  SocketInv'
<1> DEFINE next == IF proc[i].want THEN "start" ELSE "rest"
           p == [proc[i] EXCEPT !.handle = 0, !.dead = FALSE, !.at = next]
<1>1. /\ p \in Socket!Process /\ p.handle = 0 /\ p.want = proc[i].want
      /\ p.at = IF p.want THEN "start" ELSE "rest"
  <2>1. next = (IF proc[i].want THEN "start" ELSE "rest") /\ next \in Socket!Steps
    BY DEF Socket!Steps
  <2>2. 0 \in 0..MAX_BINDS
    OBVIOUS
  <2> HIDE DEF next
  <2> QED
    BY <2>1, <2>2, SocketTyped DEF Socket!Process
<1>2. Socket!Goes(i, p)
  BY DEF Socket!Release
<1> HIDE DEF p
<1>3. Socket!TypeOK
  BY DEF SocketInv
<1>4. /\ proc' \in [INSTANCES -> Socket!Process]
      /\ proc'[i] = p
      /\ \A j \in INSTANCES \ {i} : proc'[j] = proc[j]
  BY <1>1, <1>2, <1>3, SocketMoved
<1>5. Socket!TypeOK'
  BY <1>3, <1>4 DEF Socket!Release, Socket!TypeOK
<1>6. Socket!SocketOwned' /\ Unhandled'
  BY <1>1, <1>4 DEF Socket!Release, SocketInv, Socket!TypeOK, Socket!SocketOwned, Unhandled,
     Socket!Holds, Socket!Serves, Socket!At
<1>7. Socket!OnlyCrashesLeave' /\ Vacated'
  BY <1>1, <1>4 DEF Socket!Release, SocketInv, Socket!TypeOK, Socket!SocketOwned, Unhandled,
     Socket!OnlyCrashesLeave, Vacated, Socket!Holds, Socket!Serves, Socket!At
<1>8. Socket!WantFollowed' /\ StartsWanted'
  BY <1>1, <1>4 DEF Socket!Release, SocketInv, Socket!TypeOK, Socket!SocketOwned, Unhandled,
     Socket!WantFollowed, StartsWanted, Starting, Socket!At
<1> QED
  BY <1>5, <1>6, <1>7, <1>8 DEF SocketInv

(* A dead acceptor leaves lock, handle and node.                           *)
LEMMA Dies ==
  ASSUME Socket!Nobody \notin INSTANCES, MAX_BINDS \in Nat, MAX_APPLIES \in Nat,
         SocketInv, NEW i \in INSTANCES, Socket!AcceptorDies(i)
  PROVE  SocketInv'
<1> DEFINE p == [proc[i] EXCEPT !.dead = TRUE]
<1>1. /\ p \in Socket!Process /\ p.at = proc[i].at /\ p.handle = proc[i].handle
      /\ p.want = proc[i].want /\ p.failed = proc[i].failed
  BY SocketTyped DEF Socket!Process, Socket!Steps
<1>2. Socket!Goes(i, p)
  BY DEF Socket!AcceptorDies
<1> HIDE DEF p
<1>3. Socket!TypeOK
  BY DEF SocketInv
<1>4. /\ proc' \in [INSTANCES -> Socket!Process]
      /\ proc'[i] = p
      /\ \A j \in INSTANCES \ {i} : proc'[j] = proc[j]
  BY <1>1, <1>2, <1>3, SocketMoved
<1>5. Socket!TypeOK'
  BY <1>3, <1>4 DEF Socket!AcceptorDies, Socket!TypeOK
<1>6. Socket!SocketOwned' /\ Unhandled'
  BY <1>1, <1>4 DEF Socket!AcceptorDies, SocketInv, Socket!TypeOK, Socket!SocketOwned, Unhandled,
     Socket!Holds, Socket!Serves, Socket!At
<1>7. Socket!OnlyCrashesLeave' /\ Vacated'
  BY <1>1, <1>4 DEF Socket!AcceptorDies, SocketInv, Socket!TypeOK, Socket!SocketOwned, Unhandled,
     Socket!OnlyCrashesLeave, Vacated, Socket!Holds, Socket!Serves, Socket!At
<1>8. Socket!WantFollowed' /\ StartsWanted'
  BY <1>1, <1>4 DEF Socket!AcceptorDies, SocketInv, Socket!TypeOK, Socket!SocketOwned, Unhandled,
     Socket!WantFollowed, StartsWanted, Starting, Socket!At
<1> QED
  BY <1>5, <1>6, <1>7, <1>8 DEF SocketInv

(* What is at the path is looked up.                                       *)
LEMMA Stats ==
  ASSUME Socket!Nobody \notin INSTANCES, MAX_BINDS \in Nat, MAX_APPLIES \in Nat,
         SocketInv, NEW i \in INSTANCES, Socket!Stat(i)
  PROVE  SocketInv'
<1> DEFINE p == [proc[i] EXCEPT !.stale = node # 0, !.at = "checked"]
<1>1. p \in Socket!Process /\ p.at = "checked" /\ p.handle = proc[i].handle /\ p.want = proc[i].want
  BY SocketTyped DEF Socket!Process, Socket!Steps
<1>2. Socket!Goes(i, p)
  BY DEF Socket!Stat
<1> HIDE DEF p
<1>3. Socket!TypeOK
  BY DEF SocketInv
<1>4. /\ proc' \in [INSTANCES -> Socket!Process]
      /\ proc'[i] = p
      /\ \A j \in INSTANCES \ {i} : proc'[j] = proc[j]
  BY <1>1, <1>2, <1>3, SocketMoved
<1>5. Socket!TypeOK'
  BY <1>3, <1>4 DEF Socket!Stat, Socket!TypeOK
<1>6. Socket!SocketOwned' /\ Unhandled'
  BY <1>1, <1>4 DEF Socket!Stat, SocketInv, Socket!TypeOK, Socket!SocketOwned, Unhandled,
     Socket!Holds, Socket!Serves, Socket!At
<1>7. Socket!OnlyCrashesLeave' /\ Vacated'
  BY <1>1, <1>4 DEF Socket!Stat, SocketInv, Socket!TypeOK, Socket!SocketOwned, Unhandled,
     Socket!OnlyCrashesLeave, Vacated, Socket!Holds, Socket!Serves, Socket!At
<1>8. Socket!WantFollowed' /\ StartsWanted'
  BY <1>1, <1>4 DEF Socket!Stat, SocketInv, Socket!TypeOK, Socket!SocketOwned, Unhandled,
     Socket!WantFollowed, StartsWanted, Starting, Socket!At
<1> QED
  BY <1>5, <1>6, <1>7, <1>8 DEF SocketInv

(* A stale node is nobody's: the lock was free.                            *)
LEMMA Removes ==
  ASSUME Socket!Nobody \notin INSTANCES, MAX_BINDS \in Nat, MAX_APPLIES \in Nat,
         SocketInv, NEW i \in INSTANCES, Socket!RemoveStale(i)
  PROVE  SocketInv'
<1> DEFINE p == [proc[i] EXCEPT !.at = "cleared", !.stale = FALSE]
<1>1. p \in Socket!Process /\ p.at = "cleared" /\ p.handle = proc[i].handle /\ p.want = proc[i].want
  BY SocketTyped DEF Socket!Process, Socket!Steps
<1>2. Socket!Goes(i, p)
  BY DEF Socket!RemoveStale
<1> HIDE DEF p
<1>3. Socket!TypeOK
  BY DEF SocketInv
<1>4. /\ proc' \in [INSTANCES -> Socket!Process]
      /\ proc'[i] = p
      /\ \A j \in INSTANCES \ {i} : proc'[j] = proc[j]
  BY <1>1, <1>2, <1>3, SocketMoved
<1>5. Socket!TypeOK'
  BY <1>3, <1>4 DEF Socket!RemoveStale, Socket!TypeOK
<1>6. Socket!SocketOwned' /\ Unhandled'
  BY <1>1, <1>4 DEF Socket!RemoveStale, SocketInv, Socket!TypeOK, Socket!SocketOwned, Unhandled,
     Socket!Holds, Socket!Serves, Socket!At
<1>7. Socket!OnlyCrashesLeave' /\ Vacated'
  BY <1>1, <1>4 DEF Socket!RemoveStale, SocketInv, Socket!TypeOK, Socket!SocketOwned, Unhandled,
     Socket!OnlyCrashesLeave, Vacated, Socket!Holds, Socket!Serves, Socket!At
<1>8. Socket!WantFollowed' /\ StartsWanted'
  BY <1>1, <1>4 DEF Socket!RemoveStale, SocketInv, Socket!TypeOK, Socket!SocketOwned, Unhandled,
     Socket!WantFollowed, StartsWanted, Starting, Socket!At
<1> QED
  BY <1>5, <1>6, <1>7, <1>8 DEF SocketInv

(* The handle is that of the socket bound under the lock.                  *)
LEMMA Spawns ==
  ASSUME Socket!Nobody \notin INSTANCES, MAX_BINDS \in Nat, MAX_APPLIES \in Nat,
         SocketInv, NEW i \in INSTANCES, Socket!Spawned(i)
  PROVE  SocketInv'
<1> DEFINE p == [proc[i] EXCEPT !.at = "rest", !.handle = node, !.failed = FALSE]
<1>1. p \in Socket!Process /\ p.at = "rest" /\ p.handle = node /\ p.want = proc[i].want
  BY SocketTyped DEF Socket!Process, Socket!Steps, SocketInv, Socket!TypeOK
<1>2. Socket!Goes(i, p)
  BY DEF Socket!Spawned
<1> HIDE DEF p
<1>3. Socket!TypeOK
  BY DEF SocketInv
<1>4. /\ proc' \in [INSTANCES -> Socket!Process]
      /\ proc'[i] = p
      /\ \A j \in INSTANCES \ {i} : proc'[j] = proc[j]
  BY <1>1, <1>2, <1>3, SocketMoved
<1>5. Socket!TypeOK'
  BY <1>3, <1>4 DEF Socket!Spawned, Socket!TypeOK
<1>6. Socket!SocketOwned' /\ Unhandled'
  BY <1>1, <1>4 DEF Socket!Spawned, SocketInv, Socket!TypeOK, Socket!SocketOwned, Unhandled,
     Socket!Holds, Socket!Serves, Socket!At
<1>7. Socket!OnlyCrashesLeave' /\ Vacated'
  BY <1>1, <1>4 DEF Socket!Spawned, SocketInv, Socket!TypeOK, Socket!SocketOwned, Unhandled,
     Socket!OnlyCrashesLeave, Vacated, Socket!Holds, Socket!Serves, Socket!At
<1>8. Socket!WantFollowed' /\ StartsWanted'
  BY <1>1, <1>4 DEF Socket!Spawned, SocketInv, Socket!TypeOK, Socket!SocketOwned, Unhandled,
     Socket!WantFollowed, StartsWanted, Starting, Socket!At
<1> QED
  BY <1>5, <1>6, <1>7, <1>8 DEF SocketInv

(* A socket without an acceptor is removed under the lock.                 *)
LEMMA SpawnsNot ==
  ASSUME Socket!Nobody \notin INSTANCES, MAX_BINDS \in Nat, MAX_APPLIES \in Nat,
         SocketInv, NEW i \in INSTANCES, Socket!SpawnFails(i)
  PROVE  SocketInv'
<1> DEFINE p == [proc[i] EXCEPT !.at = "refused"]
<1>1. p \in Socket!Process /\ p.at = "refused" /\ p.handle = proc[i].handle /\ p.want = proc[i].want
  BY SocketTyped DEF Socket!Process, Socket!Steps
<1>2. Socket!Goes(i, p)
  BY DEF Socket!SpawnFails
<1> HIDE DEF p
<1>3. Socket!TypeOK
  BY DEF SocketInv
<1>4. /\ proc' \in [INSTANCES -> Socket!Process]
      /\ proc'[i] = p
      /\ \A j \in INSTANCES \ {i} : proc'[j] = proc[j]
  BY <1>1, <1>2, <1>3, SocketMoved
<1>5. Socket!TypeOK'
  BY <1>3, <1>4 DEF Socket!SpawnFails, Socket!TypeOK
<1>6. Socket!SocketOwned' /\ Unhandled'
  BY <1>1, <1>4 DEF Socket!SpawnFails, SocketInv, Socket!TypeOK, Socket!SocketOwned, Unhandled,
     Socket!Holds, Socket!Serves, Socket!At
<1>7. Socket!OnlyCrashesLeave' /\ Vacated'
  BY <1>1, <1>4 DEF Socket!SpawnFails, SocketInv, Socket!TypeOK, Socket!SocketOwned, Unhandled,
     Socket!OnlyCrashesLeave, Vacated, Socket!Holds, Socket!Serves, Socket!At
<1>8. Socket!WantFollowed' /\ StartsWanted'
  BY <1>1, <1>4 DEF Socket!SpawnFails, SocketInv, Socket!TypeOK, Socket!SocketOwned, Unhandled,
     Socket!WantFollowed, StartsWanted, Starting, Socket!At
<1> QED
  BY <1>5, <1>6, <1>7, <1>8 DEF SocketInv

(* A crash frees the lock of the process that died, and no other.          *)
LEMMA Crashes ==
  ASSUME Socket!Nobody \notin INSTANCES, MAX_BINDS \in Nat, MAX_APPLIES \in Nat,
         SocketInv, NEW i \in INSTANCES, Socket!Crash(i)
  PROVE  SocketInv'
<1> DEFINE p == Socket!Down
<1>1. p \in Socket!Process /\ p.at = "down" /\ p.handle = 0
  BY SocketTyped DEF Socket!Process, Socket!Steps, Socket!Down
<1>2. Socket!Goes(i, p)
  BY DEF Socket!Crash
<1> HIDE DEF p
<1>3. Socket!TypeOK
  BY DEF SocketInv
<1>4. /\ proc' \in [INSTANCES -> Socket!Process]
      /\ proc'[i] = p
      /\ \A j \in INSTANCES \ {i} : proc'[j] = proc[j]
  BY <1>1, <1>2, <1>3, SocketMoved
<1>5. Socket!TypeOK'
  BY <1>3, <1>4 DEF Socket!Crash, Socket!TypeOK
<1>6. Socket!SocketOwned' /\ Unhandled'
  BY <1>1, <1>4 DEF Socket!Crash, SocketInv, Socket!TypeOK, Socket!SocketOwned, Unhandled,
     Socket!Holds, Socket!Serves, Socket!At
<1>7. Socket!OnlyCrashesLeave' /\ Vacated'
  BY <1>1, <1>4 DEF Socket!Crash, SocketInv, Socket!TypeOK, Socket!SocketOwned, Unhandled,
     Socket!OnlyCrashesLeave, Vacated, Socket!Holds, Socket!Serves, Socket!At
<1>8. Socket!WantFollowed' /\ StartsWanted'
  BY <1>1, <1>4 DEF Socket!Crash, SocketInv, Socket!TypeOK, Socket!SocketOwned, Unhandled,
     Socket!WantFollowed, StartsWanted, Starting, Socket!At
<1> QED
  BY <1>5, <1>6, <1>7, <1>8 DEF SocketInv

(* A refused directory changes nothing but the instance.                   *)
LEMMA Refuses ==
  ASSUME Socket!Nobody \notin INSTANCES, MAX_BINDS \in Nat, MAX_APPLIES \in Nat,
         SocketInv, NEW i \in INSTANCES, Socket!Refuse(i)
  PROVE  SocketInv'
<1>1. Socket!Fails(i, proc[i])
  BY DEF Socket!Refuse
<1>2. PICK p \in Socket!Process : Socket!Goes(i, p) /\ p.at = "rest" /\ p.handle = proc[i].handle /\ p.failed
  BY <1>1, Failed
<1>3. Socket!TypeOK
  BY DEF SocketInv
<1>4. /\ proc' \in [INSTANCES -> Socket!Process]
      /\ proc'[i] = p
      /\ \A j \in INSTANCES \ {i} : proc'[j] = proc[j]
  BY <1>2, <1>3, SocketMoved
<1>5. Socket!TypeOK'
  BY <1>3, <1>4 DEF Socket!Refuse, Socket!TypeOK
<1>6. Socket!SocketOwned' /\ Unhandled'
  BY <1>2, <1>4 DEF Socket!Refuse, SocketInv, Socket!TypeOK, Socket!SocketOwned, Unhandled,
     Socket!Holds, Socket!Serves, Socket!At
<1>7. Socket!OnlyCrashesLeave' /\ Vacated'
  BY <1>2, <1>4 DEF Socket!Refuse, SocketInv, Socket!TypeOK, Socket!SocketOwned, Unhandled,
     Socket!OnlyCrashesLeave, Vacated, Socket!Holds, Socket!Serves, Socket!At
<1>8. Socket!WantFollowed' /\ StartsWanted'
  BY <1>2, <1>4 DEF Socket!Refuse, SocketInv, Socket!TypeOK, Socket!SocketOwned, Unhandled,
     Socket!WantFollowed, StartsWanted, Starting, Socket!At
<1> QED
  BY <1>5, <1>6, <1>7, <1>8 DEF SocketInv

(* A socket whose mode cannot be set is left without its lock.             *)
LEMMA ChmodsNot ==
  ASSUME Socket!Nobody \notin INSTANCES, MAX_BINDS \in Nat, MAX_APPLIES \in Nat,
         SocketInv, NEW i \in INSTANCES, Socket!ChmodFails(i)
  PROVE  SocketInv'
<1>1. Socket!Fails(i, proc[i])
  BY DEF Socket!ChmodFails
<1>2. PICK p \in Socket!Process : Socket!Goes(i, p) /\ p.at = "rest" /\ p.handle = proc[i].handle /\ p.failed
  BY <1>1, Failed
<1>3. Socket!TypeOK
  BY DEF SocketInv
<1>4. /\ proc' \in [INSTANCES -> Socket!Process]
      /\ proc'[i] = p
      /\ \A j \in INSTANCES \ {i} : proc'[j] = proc[j]
  BY <1>2, <1>3, SocketMoved
<1>5. Socket!TypeOK'
  BY <1>3, <1>4 DEF Socket!ChmodFails, Socket!TypeOK
<1>6. Socket!SocketOwned' /\ Unhandled'
  BY <1>2, <1>4 DEF Socket!ChmodFails, SocketInv, Socket!TypeOK, Socket!SocketOwned, Unhandled,
     Socket!Holds, Socket!Serves, Socket!At
<1>7. Socket!OnlyCrashesLeave' /\ Vacated'
  BY <1>2, <1>4 DEF Socket!ChmodFails, SocketInv, Socket!TypeOK, Socket!SocketOwned, Unhandled,
     Socket!OnlyCrashesLeave, Vacated, Socket!Holds, Socket!Serves, Socket!At
<1>8. Socket!WantFollowed' /\ StartsWanted'
  BY <1>2, <1>4 DEF Socket!ChmodFails, SocketInv, Socket!TypeOK, Socket!SocketOwned, Unhandled,
     Socket!WantFollowed, StartsWanted, Starting, Socket!At
<1> QED
  BY <1>5, <1>6, <1>7, <1>8 DEF SocketInv

(* The lock is dropped after the removal.                                  *)
LEMMA RefusedRests ==
  ASSUME Socket!Nobody \notin INSTANCES, MAX_BINDS \in Nat, MAX_APPLIES \in Nat,
         SocketInv, NEW i \in INSTANCES, Socket!Refused(i)
  PROVE  SocketInv'
<1>1. Socket!Fails(i, proc[i])
  BY DEF Socket!Refused
<1>2. PICK p \in Socket!Process : Socket!Goes(i, p) /\ p.at = "rest" /\ p.handle = proc[i].handle /\ p.failed
  BY <1>1, Failed
<1>3. Socket!TypeOK
  BY DEF SocketInv
<1>4. /\ proc' \in [INSTANCES -> Socket!Process]
      /\ proc'[i] = p
      /\ \A j \in INSTANCES \ {i} : proc'[j] = proc[j]
  BY <1>2, <1>3, SocketMoved
<1>5. Socket!TypeOK'
  BY <1>3, <1>4 DEF Socket!Refused, Socket!TypeOK
<1>6. Socket!SocketOwned' /\ Unhandled'
  BY <1>2, <1>4 DEF Socket!Refused, SocketInv, Socket!TypeOK, Socket!SocketOwned, Unhandled,
     Socket!Holds, Socket!Serves, Socket!At
<1>7. Socket!OnlyCrashesLeave' /\ Vacated'
  BY <1>2, <1>4 DEF Socket!Refused, SocketInv, Socket!TypeOK, Socket!SocketOwned, Unhandled,
     Socket!OnlyCrashesLeave, Vacated, Socket!Holds, Socket!Serves, Socket!At
<1>8. Socket!WantFollowed' /\ StartsWanted'
  BY <1>2, <1>4 DEF Socket!Refused, SocketInv, Socket!TypeOK, Socket!SocketOwned, Unhandled,
     Socket!WantFollowed, StartsWanted, Starting, Socket!At
<1> QED
  BY <1>5, <1>6, <1>7, <1>8 DEF SocketInv

(* The lock is taken from nobody who lives.                                *)
LEMMA Locks ==
  ASSUME Socket!Nobody \notin INSTANCES, MAX_BINDS \in Nat, MAX_APPLIES \in Nat,
         SocketInv, NEW i \in INSTANCES, Socket!TakeLock(i)
  PROVE  SocketInv'
<1>1. Socket!TypeOK
  BY DEF SocketInv
<1>2. CASE lock = Socket!Nobody
  <2> DEFINE p == [proc[i] EXCEPT !.at = "locked"]
  <2>1. p \in Socket!Process /\ p.at = "locked" /\ p.handle = proc[i].handle /\ p.want = proc[i].want
    BY SocketTyped DEF Socket!Process, Socket!Steps
  <2>2. Socket!Goes(i, p)
    BY <1>2 DEF Socket!TakeLock
  <2> HIDE DEF p
  <2>3. /\ proc' \in [INSTANCES -> Socket!Process]
        /\ proc'[i] = p
        /\ \A j \in INSTANCES \ {i} : proc'[j] = proc[j]
    BY <1>1, <2>1, <2>2, SocketMoved
  <2>4. Socket!TypeOK'
    BY <1>1, <1>2, <2>3 DEF Socket!TakeLock, Socket!TypeOK
  <2>5. Socket!SocketOwned' /\ Unhandled'
    BY <1>2, <2>1, <2>3 DEF Socket!TakeLock, SocketInv, Socket!TypeOK, Socket!SocketOwned,
       Unhandled, Socket!Holds, Socket!Serves, Socket!At
  <2>6. Socket!OnlyCrashesLeave' /\ Vacated'
    BY <1>2, <2>1, <2>3 DEF Socket!TakeLock, SocketInv, Socket!TypeOK, Socket!SocketOwned,
       Unhandled, Socket!OnlyCrashesLeave, Vacated, Socket!Holds, Socket!Serves, Socket!At
  <2>7. Socket!WantFollowed' /\ StartsWanted'
    BY <1>2, <2>1, <2>3 DEF Socket!TakeLock, SocketInv, Socket!TypeOK, Socket!WantFollowed,
       StartsWanted, Starting, Socket!At
  <2> QED
    BY <2>4, <2>5, <2>6, <2>7 DEF SocketInv
<1>3. CASE lock # Socket!Nobody
  <2>1. Socket!Fails(i, proc[i])
    BY <1>3 DEF Socket!TakeLock
  <2>2. PICK p \in Socket!Process : Socket!Goes(i, p) /\ p.at = "rest" /\ p.handle = proc[i].handle /\ p.failed
    BY <2>1, Failed
  <2>3. /\ proc' \in [INSTANCES -> Socket!Process]
        /\ proc'[i] = p
        /\ \A j \in INSTANCES \ {i} : proc'[j] = proc[j]
    BY <1>1, <2>2, SocketMoved
  <2>4. Socket!TypeOK'
    BY <1>1, <1>3, <2>3 DEF Socket!TakeLock, Socket!TypeOK
  <2>5. Socket!SocketOwned' /\ Unhandled'
    BY <1>3, <2>2, <2>3 DEF Socket!TakeLock, SocketInv, Socket!TypeOK, Socket!SocketOwned,
       Unhandled, Socket!Holds, Socket!Serves, Socket!At
  <2>6. Socket!OnlyCrashesLeave' /\ Vacated'
    BY <1>3, <2>2, <2>3 DEF Socket!TakeLock, SocketInv, Socket!TypeOK, Socket!SocketOwned,
       Unhandled, Socket!OnlyCrashesLeave, Vacated, Socket!Holds, Socket!Serves, Socket!At
  <2>7. Socket!WantFollowed' /\ StartsWanted'
    BY <1>3, <2>2, <2>3 DEF Socket!TakeLock, SocketInv, Socket!TypeOK, Socket!SocketOwned,
       Unhandled, Socket!WantFollowed, StartsWanted, Starting, Socket!Holds, Socket!At
  <2> QED
    BY <2>4, <2>5, <2>6, <2>7 DEF SocketInv
<1> QED
  BY <1>2, <1>3

(* The socket is bound under the lock, where there is none.                *)
LEMMA Binds ==
  ASSUME Socket!Nobody \notin INSTANCES, MAX_BINDS \in Nat, MAX_APPLIES \in Nat,
         SocketInv, NEW i \in INSTANCES, Socket!Bind(i)
  PROVE  SocketInv'
<1>1. Socket!TypeOK
  BY DEF SocketInv
<1>2. CASE node = 0
  <2> DEFINE p == [proc[i] EXCEPT !.at = "bound"]
  <2>1. p \in Socket!Process /\ p.at = "bound" /\ p.handle = proc[i].handle /\ p.want = proc[i].want
    BY SocketTyped DEF Socket!Process, Socket!Steps
  <2>2. Socket!Goes(i, p)
    BY <1>2 DEF Socket!Bind
  <2> HIDE DEF p
  <2>3. /\ proc' \in [INSTANCES -> Socket!Process]
        /\ proc'[i] = p
        /\ \A j \in INSTANCES \ {i} : proc'[j] = proc[j]
    BY <1>1, <2>1, <2>2, SocketMoved
  <2>4. Socket!TypeOK'
    BY <1>1, <1>2, <2>3 DEF Socket!Bind, Socket!TypeOK
  <2>5. Socket!SocketOwned' /\ Unhandled'
    BY <1>2, <2>1, <2>3 DEF Socket!Bind, SocketInv, Socket!TypeOK, Socket!SocketOwned, Unhandled,
       Socket!Holds, Socket!Serves, Socket!At
  <2>6. Socket!OnlyCrashesLeave' /\ Vacated'
    BY <1>2, <2>1, <2>3 DEF Socket!Bind, SocketInv, Socket!TypeOK, Socket!SocketOwned, Unhandled,
       Socket!OnlyCrashesLeave, Vacated, Socket!Holds, Socket!Serves, Socket!At
  <2>7. Socket!WantFollowed' /\ StartsWanted'
    BY <1>2, <2>1, <2>3 DEF Socket!Bind, SocketInv, Socket!TypeOK, Socket!WantFollowed,
       StartsWanted, Starting, Socket!At
  <2> QED
    BY <2>4, <2>5, <2>6, <2>7 DEF SocketInv
<1>3. CASE node # 0
  <2>1. Socket!Fails(i, proc[i])
    BY <1>3 DEF Socket!Bind
  <2>2. PICK p \in Socket!Process : Socket!Goes(i, p) /\ p.at = "rest" /\ p.handle = proc[i].handle /\ p.failed
    BY <2>1, Failed
  <2>3. /\ proc' \in [INSTANCES -> Socket!Process]
        /\ proc'[i] = p
        /\ \A j \in INSTANCES \ {i} : proc'[j] = proc[j]
    BY <1>1, <2>2, SocketMoved
  <2>4. Socket!TypeOK'
    BY <1>1, <1>3, <2>3 DEF Socket!Bind, Socket!TypeOK
  <2>5. Socket!SocketOwned' /\ Unhandled'
    BY <1>3, <2>2, <2>3 DEF Socket!Bind, SocketInv, Socket!TypeOK, Socket!SocketOwned, Unhandled,
       Socket!Holds, Socket!Serves, Socket!At
  <2>6. Socket!OnlyCrashesLeave' /\ Vacated'
    BY <1>3, <2>2, <2>3 DEF Socket!Bind, SocketInv, Socket!TypeOK, Socket!SocketOwned, Unhandled,
       Socket!OnlyCrashesLeave, Vacated, Socket!Holds, Socket!Serves, Socket!At
  <2>7. Socket!WantFollowed' /\ StartsWanted'
    BY <1>3, <2>2, <2>3 DEF Socket!Bind, SocketInv, Socket!TypeOK, Socket!SocketOwned, Unhandled,
       Socket!WantFollowed, StartsWanted, Starting, Socket!Holds, Socket!At
  <2> QED
    BY <2>4, <2>5, <2>6, <2>7 DEF SocketInv
<1> QED
  BY <1>2, <1>3

-----------------------------------------------------------------------------
LEMMA StepKeeps ==
  ASSUME Socket!Nobody \notin INSTANCES, MAX_BINDS \in Nat, MAX_APPLIES \in Nat, SocketInv, [Socket!Next]_(Socket!vars)
  PROVE  SocketInv'
<1>1. CASE Socket!Next
  <2> PICK i \in INSTANCES :
        \/ \E want \in BOOLEAN : Socket!Apply(i, want)
        \/ Socket!Quit(i) \/ Socket!Unlink(i) \/ Socket!Release(i) \/ Socket!AcceptorDies(i)
        \/ Socket!Stat(i) \/ Socket!TakeLock(i) \/ Socket!RemoveStale(i) \/ Socket!Refuse(i) \/ Socket!Bind(i)
        \/ Socket!ChmodFails(i) \/ Socket!Spawned(i) \/ Socket!SpawnFails(i) \/ Socket!Refused(i) \/ Socket!Crash(i)
    BY <1>1 DEF Socket!Next
  <2>1. CASE (\E want \in BOOLEAN : Socket!Apply(i, want)) \/ Socket!Quit(i) \/ Socket!AcceptorDies(i) \/ Socket!Crash(i)
    BY <2>1, Applies, Quits, Dies, Crashes
  <2>2. CASE Socket!Unlink(i) \/ Socket!Release(i)
    BY <2>2, Unlinks, Releases
  <2>3. CASE Socket!Stat(i) \/ Socket!TakeLock(i) \/ Socket!RemoveStale(i) \/ Socket!Refuse(i)
    BY <2>3, Stats, Locks, Removes, Refuses
  <2>4. CASE Socket!Bind(i) \/ Socket!ChmodFails(i) \/ Socket!Spawned(i) \/ Socket!SpawnFails(i) \/ Socket!Refused(i)
    BY <2>4, Binds, ChmodsNot, Spawns, SpawnsNot, RefusedRests
  <2> QED
    BY <2>1, <2>2, <2>3, <2>4
<1>2. CASE UNCHANGED Socket!vars
  BY <1>2 DEF Socket!vars, SocketInv, Socket!TypeOK, Socket!SocketOwned, Unhandled,
     Socket!OnlyCrashesLeave, Vacated, Socket!WantFollowed, StartsWanted, Starting, Socket!Holds,
     Socket!Serves, Socket!At
<1> QED
  BY <1>1, <1>2

(* The lock, the handle and the node at the path agree in every state: the *)
(* socket of a live instance is removed by nobody but itself, whatever the *)
(* others start, stop or crash (create_socket_at, apply_with).             *)
THEOREM NeverClobbered ==
  ASSUME Socket!Nobody \notin INSTANCES, MAX_BINDS \in Nat, MAX_APPLIES \in Nat
  PROVE  Socket!Spec => []Socket!SocketOwned
<1>1. SocketInv => Socket!SocketOwned
  BY DEF SocketInv
<1> QED
  BY InitOwned, StepKeeps, <1>1, PTL DEF Socket!Spec

(* A socket that nobody serves was left by a crash or by a mode that could *)
(* not be set: every other way out removes what it bound, that of a        *)
(* listener without an acceptor included (apply_with, teardown).           *)
THEOREM LeftByCrash ==
  ASSUME Socket!Nobody \notin INSTANCES, MAX_BINDS \in Nat, MAX_APPLIES \in Nat
  PROVE  Socket!Spec => []Socket!OnlyCrashesLeave
<1>1. SocketInv => Socket!OnlyCrashesLeave
  BY DEF SocketInv
<1> QED
  BY InitOwned, StepKeeps, <1>1, PTL DEF Socket!Spec

(* An instance at rest serves exactly if it was asked to, unless its last  *)
(* start failed: no order of applies, dead acceptors and refused starts    *)
(* leaves a listener that is not wanted, or none without a failure         *)
(* (apply_with's reconcile).                                               *)
THEOREM RestFollowsWant ==
  ASSUME Socket!Nobody \notin INSTANCES, MAX_BINDS \in Nat, MAX_APPLIES \in Nat
  PROVE  Socket!Spec => []Socket!WantFollowed
<1>1. SocketInv => Socket!WantFollowed
  BY DEF SocketInv
<1> QED
  BY InitOwned, StepKeeps, <1>1, PTL DEF Socket!Spec

=============================================================================
