--------------------------- MODULE ControlChannel ---------------------------
(***************************************************************************)
(* The control channel of one instance (control.rs): the acceptor and its  *)
(* worker slots, one worker per connection with its request loop, the      *)
(* bridge of a request to the webview with a deadline, and the listener    *)
(* that is stopped and started meanwhile (ControlSocket has the node at    *)
(* its path).  The webview answers through control_response, late or never.*)
(***************************************************************************)
EXTENDS Naturals, FiniteSets, Sequences

CONSTANTS CONNECTIONS, \* clients, each of which connects once
          MAX_WORKERS,
          MAX_REQUESTS, \* bound: lines that are answered with an id
          MAX_SWITCHES  \* bound: changes of the switch

VARIABLES
  listener,   \* the last one started: number, whether it was stopped, whether its acceptor died
  slots,      \* Slots.active
  conn,       \* per connection: its worker's step, its listener, the request it serves
  nextId,     \* next_id, shared by every listener
  pending,    \* ids with a sender in the pending map
  sent,       \* ids whose answer is in the channel of their waiter
  asked,      \* control:request events the webview has not handled
  replies,    \* control_response calls on their way
  listening,  \* the webview's listener is registered
  switches,   \* changes of the switch so far
  asker,      \* history: the connection that asked for each id
  ran,        \* history: the ids whose command ran, as often as it ran
  extra       \* history: per connection, lines served after its listener had stopped

vars == <<listener, slots, conn, nextId, pending, sent, asked, replies, listening, switches,
          asker, ran, extra>>

Worker == {"loop", "reading", "waiting", "expired", "writing"}
Phases == Worker \cup {"away", "queued", "closed"}
Ids == 1..MAX_REQUESTS

TypeOK ==
  /\ listener \in [number : 0..(MAX_SWITCHES + 1), stopped : BOOLEAN, dead : BOOLEAN]
  /\ slots \in 0..MAX_WORKERS
  /\ conn \in [CONNECTIONS -> [phase : Phases, of : 0..(MAX_SWITCHES + 1), id : Ids \cup {0},
                               reply : BOOLEAN]]
  /\ nextId \in 1..(MAX_REQUESTS + 1)
  /\ pending \subseteq Ids /\ sent \subseteq Ids
  /\ asked \in Seq(Ids) /\ replies \subseteq Ids
  /\ listening \in BOOLEAN /\ switches \in 0..MAX_SWITCHES
  /\ asker \in [Ids -> CONNECTIONS \cup {"nobody"}]
  /\ ran \in [Ids -> Nat] /\ extra \in [CONNECTIONS -> Nat]

Init ==
  /\ listener = [number |-> 0, stopped |-> TRUE, dead |-> FALSE]
  /\ slots = 0 /\ nextId = 1 /\ switches = 0
  /\ conn = [c \in CONNECTIONS |-> [phase |-> "away", of |-> 0, id |-> 0, reply |-> FALSE]]
  /\ pending = {} /\ sent = {} /\ asked = <<>> /\ replies = {}
  /\ listening = FALSE
  /\ asker = [n \in Ids |-> "nobody"] /\ ran = [n \in Ids |-> 0]
  /\ extra = [c \in CONNECTIONS |-> 0]

In(c, phase) == conn[c].phase = phase
Goes(c, r) == conn' = [conn EXCEPT ![c] = r]
Becomes(c, phase) == Goes(c, [conn[c] EXCEPT !.phase = phase])
Rests(c, phase) == Goes(c, [conn[c] EXCEPT !.phase = phase, !.id = 0, !.reply = FALSE])
\* A worker ends: its permit is dropped.
Ends(c) == Rests(c, "closed") /\ slots' = slots - 1
\* The stop flag of c's listener: an older one is stopped.
Stopped(c) == conn[c].of # listener.number \/ listener.stopped

Webview == <<asked, replies, listening, ran>>
History == <<asker, extra>>
Bridge == <<nextId, pending, sent>>
Switch == <<listener, switches>>

-----------------------------------------------------------------------------
(* The listener.                                                           *)

\* Stop, shutdown and the first half of a restart: the flag is set, the acceptor joined (what
\* it accepts meanwhile is as if accepted before).
Stop ==
  /\ ~listener.stopped
  /\ listener' = [listener EXCEPT !.stopped = TRUE]
  /\ UNCHANGED <<slots, conn, switches, Bridge, Webview, History>>

\* (mutation) each listener counts its requests from one
StartCounting ==
  /\ listener.stopped /\ switches < MAX_SWITCHES
  /\ listener' = [number |-> listener.number + 1, stopped |-> FALSE, dead |-> FALSE]
  /\ switches' = switches + 1 /\ nextId' = 1
  /\ UNCHANGED <<slots, conn, pending, sent, Webview, History>>

\* Start, and the second half of a restart.
Start ==
  /\ listener.stopped /\ switches < MAX_SWITCHES
  /\ listener' = [number |-> listener.number + 1, stopped |-> FALSE, dead |-> FALSE]
  /\ switches' = switches + 1
  /\ UNCHANGED <<slots, conn, Bridge, Webview, History>>

AcceptorDies ==
  /\ ~listener.stopped /\ ~listener.dead
  /\ listener' = [listener EXCEPT !.dead = TRUE]
  /\ UNCHANGED <<slots, conn, switches, Bridge, Webview, History>>

\* A client connects: the kernel queues it.
Connect(c) ==
  /\ In(c, "away") /\ ~listener.stopped
  /\ Goes(c, [conn[c] EXCEPT !.phase = "queued", !.of = listener.number])
  /\ UNCHANGED <<slots, Switch, Bridge, Webview, History>>

\* (mutation) the slot of a worker that could not be spawned is not given back
AcceptLeaking(c) ==
  /\ In(c, "queued") /\ ~Stopped(c) /\ ~listener.dead
  /\ \/ slots < MAX_WORKERS /\ slots' = slots + 1 /\ conn' \in {[conn EXCEPT ![c].phase = "loop"],
                                                            [conn EXCEPT ![c].phase = "closed"]}
     \/ slots = MAX_WORKERS /\ UNCHANGED slots /\ Becomes(c, "closed")
  /\ UNCHANGED <<Switch, Bridge, Webview, History>>

\* run_acceptor: a slot before the thread, an error line without one.
Accept(c) ==
  /\ In(c, "queued") /\ ~Stopped(c) /\ ~listener.dead
  /\ \/ slots < MAX_WORKERS /\ slots' = slots + 1 /\ Becomes(c, "loop")
     \/ UNCHANGED slots /\ Becomes(c, "closed")  \* none free, or the spawn failed: its permit drops
  /\ UNCHANGED <<Switch, Bridge, Webview, History>>

\* The socket is closed under a connection that was never accepted.
Dropped(c) ==
  /\ In(c, "queued") /\ Stopped(c) /\ Becomes(c, "closed")
  /\ UNCHANGED <<slots, Switch, Bridge, Webview, History>>

-----------------------------------------------------------------------------
(* handle_connection: one worker's loop.                                   *)

\* (mutation) the flag is read before the first line only
CheckStopOnce(c) ==
  /\ In(c, "loop")
  /\ IF Stopped(c) /\ ~(\E n \in Ids : asker[n] = c) THEN Ends(c) ELSE Becomes(c, "reading") /\ UNCHANGED slots
  /\ UNCHANGED <<Switch, Bridge, Webview, History>>

\* The flag is read between lines.
CheckStop(c) ==
  /\ In(c, "loop")
  /\ IF Stopped(c) THEN Ends(c) ELSE Becomes(c, "reading") /\ UNCHANGED slots
  /\ UNCHANGED <<Switch, Bridge, Webview, History>>

\* The end, an idle timeout, a line too long or not UTF-8: the connection is closed.
ReadEnds(c) ==
  /\ In(c, "reading") /\ Ends(c)
  /\ UNCHANGED <<Switch, Bridge, Webview, History>>

BlankLine(c) ==
  /\ In(c, "reading") /\ Becomes(c, "loop")
  /\ UNCHANGED <<slots, Switch, Bridge, Webview, History>>

Serves(c) ==
  /\ In(c, "reading") /\ nextId <= MAX_REQUESTS
  /\ nextId' = nextId + 1
  /\ asker' = [asker EXCEPT ![nextId] = c]
  /\ extra' = IF Stopped(c) THEN [extra EXCEPT ![c] = @ + 1] ELSE extra

\* What the edge answers itself: the version, or a request that does not parse.
AnswerHere(c) ==
  /\ Serves(c)
  /\ Goes(c, [conn[c] EXCEPT !.phase = "writing", !.id = nextId, !.reply = FALSE])
  /\ UNCHANGED <<slots, pending, sent, Switch, Webview>>

\* bridge_to_webview: the sender is in the map before the event is emitted, which is lost
\* while nobody listens; an emit that fails takes the sender out again.
AskWebview(c) ==
  /\ Serves(c)
  /\ \/ /\ pending' = pending \cup {nextId}
        /\ asked' = IF listening THEN Append(asked, nextId) ELSE asked
        /\ Goes(c, [conn[c] EXCEPT !.phase = "waiting", !.id = nextId])
     \/ /\ Goes(c, [conn[c] EXCEPT !.phase = "writing", !.id = nextId, !.reply = FALSE])
        /\ UNCHANGED <<pending, asked>>
  /\ UNCHANGED <<slots, sent, replies, listening, ran, Switch>>

\* recv_timeout: the answer is there, ...
Receive(c) ==
  /\ In(c, "waiting") /\ conn[c].id \in sent
  /\ sent' = sent \ {conn[c].id}
  /\ Goes(c, [conn[c] EXCEPT !.phase = "writing", !.reply = TRUE])
  /\ UNCHANGED <<slots, nextId, pending, Switch, Webview, History>>

\* ... or the deadline is over; the sender is taken out in a step of its own.
TimesOut(c) ==
  /\ In(c, "waiting") /\ conn[c].id \notin sent
  /\ Becomes(c, "expired")
  /\ UNCHANGED <<slots, Switch, Bridge, Webview, History>>

\* (mutation) the sender of a request that timed out stays in the map
KeepSender(c) ==
  /\ In(c, "expired")
  /\ Goes(c, [conn[c] EXCEPT !.phase = "writing", !.reply = FALSE])
  /\ UNCHANGED <<slots, Switch, Bridge, Webview, History>>

ForgetSender(c) ==
  /\ In(c, "expired")
  /\ pending' = pending \ {conn[c].id} /\ sent' = sent \ {conn[c].id}
  /\ Goes(c, [conn[c] EXCEPT !.phase = "writing", !.reply = FALSE])
  /\ UNCHANGED <<slots, nextId, Switch, Webview, History>>

\* The answer is written and the next line awaited, ...
Write(c) ==
  /\ In(c, "writing")
  /\ Rests(c, "loop") /\ UNCHANGED slots
  /\ UNCHANGED <<Switch, Bridge, Webview, History>>

\* ... unless the line was the last, without its newline, or the client has gone.
WriteEnds(c) ==
  /\ In(c, "writing") /\ Ends(c)
  /\ UNCHANGED <<Switch, Bridge, Webview, History>>

-----------------------------------------------------------------------------
(* The webview, and the answer's way back.                                 *)

Registers ==
  /\ ~listening /\ listening' = TRUE
  /\ UNCHANGED <<slots, conn, asked, replies, ran, Switch, Bridge, History>>

\* routeControlRequest runs the command and answers, whatever happened meanwhile.
Handle ==
  /\ asked # <<>>
  /\ asked' = Tail(asked) /\ replies' = replies \cup {Head(asked)}
  /\ ran' = [ran EXCEPT ![Head(asked)] = @ + 1]
  /\ UNCHANGED <<slots, conn, listening, Switch, Bridge, History>>

\* control_response: the waiter's sender is popped; without one the reply is logged as late.
ControlResponse(n) ==
  /\ n \in replies
  /\ replies' = replies \ {n} /\ pending' = pending \ {n}
  /\ sent' = IF n \in pending THEN sent \cup {n} ELSE sent
  /\ UNCHANGED <<slots, conn, nextId, asked, listening, ran, Switch, History>>

Next ==
  \/ Stop \/ Start \/ AcceptorDies \/ Registers \/ Handle
  \/ \E n \in Ids : ControlResponse(n)
  \/ \E c \in CONNECTIONS :
       \/ Connect(c) \/ Accept(c) \/ Dropped(c) \/ CheckStop(c) \/ ReadEnds(c) \/ BlankLine(c)
       \/ AnswerHere(c) \/ AskWebview(c) \/ Receive(c) \/ TimesOut(c) \/ ForgetSender(c) \/ Write(c) \/ WriteEnds(c)

Spec == Init /\ [][Next]_vars

-----------------------------------------------------------------------------
(* Properties.                                                             *)

(* A client is told the webview's answer to its own request, of a command  *)
(* that ran, and ran once.  The ids of all the listeners are one sequence: *)
(* a worker of a listener that was stopped and one of its successor wait   *)
(* in the same map.                                                        *)
OwnAnswer ==
  /\ \A n \in Ids : ran[n] <= 1
  /\ \A c \in CONNECTIONS :
       In(c, "writing") => /\ asker[conn[c].id] = c
                           /\ conn[c].reply => ran[conn[c].id] = 1

(* A sender is in the map exactly while its worker waits for an answer     *)
(* that has not come: none is left behind by a timeout.                    *)
SendersWaited ==
  \A n \in pending \cup sent : \E c \in CONNECTIONS :
    conn[c].id = n /\ conn[c].phase \in {"waiting", "expired"}

(* A stopped listener serves at most the line that each of its workers was *)
(* reading ("observed between lines").                                     *)
OneLineMore == \A c \in CONNECTIONS : extra[c] <= 1

(* A slot is taken exactly for each worker that runs.                      *)
SlotsCounted == slots = Cardinality({c \in CONNECTIONS : conn[c].phase \in Worker})

=============================================================================
