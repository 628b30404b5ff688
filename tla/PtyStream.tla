----------------------------- MODULE PtyStream ------------------------------
(***************************************************************************)
(* The output path of one PTY session (ADR-0001, trmx-78):                 *)
(*                                                                         *)
(*   child -> kernel buffer -> pump thread -> bounded hand-off queue       *)
(*         -> sender thread (batching, credit window) -> IPC channel       *)
(*         -> webview parse -> pty_ack -> credit window                    *)
(*                                                                         *)
(* Bytes are numbered by their position in the child's output.  A chunk, a *)
(* batch or a channel frame is a "piece": the position before its first    *)
(* byte (lo), the position of its last byte (hi) and how many bytes it     *)
(* holds (len).  A piece holds a gapless run of bytes iff len = hi - lo.   *)
(***************************************************************************)
EXTENDS Integers, Sequences

CONSTANTS
  READ_BUF,              \* bytes one read of the pump can return (4096)
  PTY_HANDOFF_CHUNKS,    \* capacity of the hand-off queue, in chunks (256)
  PTY_BATCH_MAX_BYTES,   \* a batch this long takes no further chunk (262144)
  PTY_CREDIT_BYTES,      \* the flow-control window (1048576)
  PTY_CREDIT_FLOOR,      \* probes stop at this balance (-1048576)
  KERNEL_BYTES,          \* what the kernel's PTY buffer holds (external)
  MAX_BYTES              \* bound of the model: bytes one session writes

ASSUME SizesAssumption ==
  /\ READ_BUF \in Nat \ {0}
  /\ PTY_HANDOFF_CHUNKS \in Nat \ {0}
  /\ PTY_BATCH_MAX_BYTES \in Nat \ {0}
  /\ KERNEL_BYTES \in Nat \ {0}
  /\ MAX_BYTES \in Nat

ASSUME CreditAssumption ==
  /\ PTY_CREDIT_BYTES \in Nat \ {0}
  /\ PTY_CREDIT_FLOOR = -PTY_CREDIT_BYTES

VARIABLES
  child,       \* the session's process: "alive" or "dead"
  slave,       \* "open" while some process can still write to the terminal
  registered,  \* the registry holds the session
  written,     \* position of the last byte written by the child
  read,        \* position of the last byte the pump read
  pumpPc,      \* "read", "send" (holds a chunk), "done" (its tx is dropped)
  torn,        \* the pump's read failed before the end of the output
  chunk,       \* the chunk the pump is handing over
  handoff,     \* the bounded queue between pump and sender
  rxOpen,      \* the sender still holds the receiver
  sendPc,      \* where the sender thread is
  batch,       \* the batch the sender is building or sending
  paced,       \* a previous send happened: the pacing window can apply
  failed,      \* the transport refused a batch, or the send path unwound
  credits,     \* the balance of the credit cell
  cellLive,    \* the credits map still has the session's cell
  frames,      \* batches handed to the channel and not parsed yet
  sent,        \* position of the last byte handed to the channel
  parsed,      \* position of the last byte the terminal parsed
  attached,    \* the frontend knows the session's id (open_pty resolved)
  disposed,    \* the pane's terminal was disposed
  webview,     \* "up" or "gone"
  acks,        \* bytes of the pty_ack calls still under way
  lost,        \* bytes parsed and never acknowledged
  exits        \* how many times pty:exited was emitted

childVars  == <<child, slave, registered, written>>
pumpVars   == <<read, pumpPc, torn, chunk>>
senderVars == <<handoff, rxOpen, sendPc, batch, paced, failed, exits>>
creditVars == <<credits, cellLive>>
viewVars   == <<frames, sent, parsed, attached, disposed, webview, acks, lost>>
vars == <<childVars, pumpVars, senderVars, creditVars, viewVars>>

----------------------------------------------------------------------------
(* Pieces of the stream. *)

Smaller(a, b) == IF a <= b THEN a ELSE b
Larger(a, b)  == IF a >= b THEN a ELSE b

Piece(lo, hi) == [lo |-> lo, hi |-> hi, len |-> hi - lo]
NoPiece       == Piece(0, 0)

(* (mutation) a chunk put before the batch instead of after it *)
JoinReversed(b, c) == [lo |-> c.lo, hi |-> b.hi, len |-> b.len + c.len]

Join(b, c)    == [lo |-> b.lo, hi |-> c.hi, len |-> b.len + c.len]
Gapless(p)    == p.len = p.hi - p.lo /\ p.len > 0

PieceType == [lo : Nat, hi : Nat, len : Nat]

(* The longest batch: one chunk always rides, and the chunk that reaches   *)
(* the cap may overshoot it.                                               *)
MaxBatch == PTY_BATCH_MAX_BYTES - 1 + READ_BUF

----------------------------------------------------------------------------
Init ==
  /\ child = "alive" /\ slave = "open" /\ registered = TRUE /\ written = 0
  /\ read = 0 /\ pumpPc = "read" /\ torn = FALSE /\ chunk = NoPiece
  /\ handoff = <<>> /\ rxOpen = TRUE
  /\ sendPc = "recv" /\ batch = NoPiece /\ paced = FALSE /\ failed = FALSE
  /\ credits = PTY_CREDIT_BYTES /\ cellLive = TRUE
  /\ frames = <<>> /\ sent = 0 /\ parsed = 0
  /\ attached = FALSE /\ disposed = FALSE /\ webview = "up"
  /\ acks = 0 /\ lost = 0 /\ exits = 0

----------------------------------------------------------------------------
(* The child and the kernel.  A background job can hold the terminal open  *)
(* after the shell is gone, so end-of-file comes with SlaveClose and not   *)
(* with ChildExit.                                                         *)

ChildWrite ==
  /\ slave = "open"
  /\ written < MAX_BYTES
  /\ written - read < KERNEL_BYTES
  /\ written' = written + 1
  /\ UNCHANGED <<child, slave, registered, pumpVars, senderVars, creditVars, viewVars>>

ChildExit ==
  /\ child = "alive"
  /\ child' = "dead"
  /\ UNCHANGED <<slave, registered, written, pumpVars, senderVars, creditVars, viewVars>>

SlaveClose ==
  /\ child = "dead"
  /\ slave = "open"
  /\ slave' = "closed"
  /\ UNCHANGED <<child, registered, written, pumpVars, senderVars, creditVars, viewVars>>

(* close_pty, or kill_all at teardown: the registry drops and kills it.    *)
ClosePty ==
  /\ registered
  /\ registered' = FALSE
  /\ child' = "dead"
  /\ UNCHANGED <<slave, written, pumpVars, senderVars, creditVars, viewVars>>

----------------------------------------------------------------------------
(* The pump thread (pump.rs). *)

PumpRead ==
  /\ pumpPc = "read"
  /\ \E n \in 1 .. Smaller(READ_BUF, written - read) :
       /\ chunk' = Piece(read, read + n)
       /\ read' = read + n
  /\ pumpPc' = "send"
  /\ UNCHANGED <<torn, childVars, senderVars, creditVars, viewVars>>

PumpEof ==
  /\ pumpPc = "read"
  /\ read = written
  /\ slave = "closed"
  /\ pumpPc' = "done"
  /\ UNCHANGED <<read, torn, chunk, childVars, senderVars, creditVars, viewVars>>

(* The loop ends on any read error; what the pump has read still flows.    *)
PumpReadError ==
  /\ pumpPc = "read"
  /\ pumpPc' = "done"
  /\ torn' = TRUE
  /\ UNCHANGED <<read, chunk, childVars, senderVars, creditVars, viewVars>>

(* (mutation) one chunk more than the queue holds *)
RoomForOneMore == Len(handoff) <= PTY_HANDOFF_CHUNKS

HasRoom == Len(handoff) < PTY_HANDOFF_CHUNKS

(* A full queue blocks the pump: no step until the sender makes room. *)
PumpSend ==
  /\ pumpPc = "send"
  /\ rxOpen
  /\ HasRoom
  /\ handoff' = Append(handoff, chunk)
  /\ pumpPc' = "read"
  /\ UNCHANGED <<read, torn, chunk, rxOpen, sendPc, batch, paced, failed, exits,
                 childVars, creditVars, viewVars>>

PumpSendError ==
  /\ pumpPc = "send"
  /\ ~rxOpen
  /\ pumpPc' = "done"
  /\ UNCHANGED <<read, torn, chunk, childVars, senderVars, creditVars, viewVars>>

(* A read error is an outcome of the read, not a step the pump owes.       *)
PumpProgress == PumpRead \/ PumpEof \/ PumpSend \/ PumpSendError

Pump == PumpProgress \/ PumpReadError

----------------------------------------------------------------------------
(* The sender thread (run_batch_sender, consume_floored and the closures   *)
(* open_pty gives them).                                                   *)

TakeInto(b) ==
  /\ batch' = b
  /\ handoff' = Tail(handoff)

(* next_batch blocks for the first chunk, whatever its size ... *)
RecvFirst ==
  /\ sendPc = "recv"
  /\ handoff # <<>>
  /\ TakeInto(Head(handoff))
  /\ sendPc' = "drain"
  /\ UNCHANGED <<rxOpen, paced, failed, exits, childVars, pumpVars, creditVars, viewVars>>

(* ... then takes what is already queued, up to the cap ... *)
Drain ==
  /\ sendPc = "drain"
  /\ batch.len < PTY_BATCH_MAX_BYTES
  /\ handoff # <<>>
  /\ TakeInto(Join(batch, Head(handoff)))
  /\ UNCHANGED <<rxOpen, sendPc, paced, failed, exits, childVars, pumpVars, creditVars, viewVars>>

DrainFinished == batch.len >= PTY_BATCH_MAX_BYTES \/ handoff = <<>>

(* ... and goes on to the transport at once, or first accumulates for the  *)
(* rest of the pacing window when the previous send is recent.             *)
DrainEnd ==
  /\ sendPc = "drain"
  /\ DrainFinished
  /\ \/ sendPc' = "park"
     \/ paced /\ sendPc' = "pace"
  /\ UNCHANGED <<handoff, rxOpen, batch, paced, failed, exits,
                 childVars, pumpVars, creditVars, viewVars>>

PaceTake ==
  /\ sendPc = "pace"
  /\ batch.len < PTY_BATCH_MAX_BYTES
  /\ handoff # <<>>
  /\ TakeInto(Join(batch, Head(handoff)))
  /\ UNCHANGED <<rxOpen, sendPc, paced, failed, exits, childVars, pumpVars, creditVars, viewVars>>

(* The window elapsed, the cap is hit, or the producer hung up. *)
PaceEnd ==
  /\ sendPc = "pace"
  /\ sendPc' = "park"
  /\ UNCHANGED <<handoff, rxOpen, batch, paced, failed, exits,
                 childVars, pumpVars, creditVars, viewVars>>

(* (mutation) the queued tail is not waited for *)
ProducerGone == pumpPc = "done"

(* The stream is over: the producer hung up and the queue is empty. *)
StreamOver == handoff = <<>> /\ pumpPc = "done"

StreamEnd ==
  /\ sendPc = "recv"
  /\ StreamOver
  /\ sendPc' = "drop"
  /\ UNCHANGED <<handoff, rxOpen, batch, paced, failed, exits,
                 childVars, pumpVars, creditVars, viewVars>>

(* (mutation) the overshoot of the last chunk is not charged *)
DeductCapped == credits' = credits - Smaller(batch.len, PTY_BATCH_MAX_BYTES)

Deduct == credits' = credits - batch.len

(* (mutations) a probe whatever the balance; no probe *)
AlwaysProbe == TRUE
NeverProbe  == FALSE

MayProbe == credits > PTY_CREDIT_FLOOR

Consume ==
  /\ sendPc = "park"
  /\ credits > 0
  /\ Deduct
  /\ sendPc' = "send"
  /\ UNCHANGED <<handoff, rxOpen, batch, paced, failed, exits, cellLive,
                 childVars, pumpVars, viewVars>>

(* The wait timed out with the window exhausted.  At the floor the sender  *)
(* stays parked, which is no step here.                                    *)
Probe ==
  /\ sendPc = "park"
  /\ credits <= 0
  /\ MayProbe
  /\ Deduct
  /\ sendPc' = "send"
  /\ UNCHANGED <<handoff, rxOpen, batch, paced, failed, exits, cellLive,
                 childVars, pumpVars, viewVars>>

ChannelSend ==
  /\ sendPc = "send"
  /\ webview = "up"
  /\ frames' = Append(frames, batch)
  /\ sent' = batch.hi
  /\ batch' = NoPiece
  /\ paced' = TRUE
  /\ sendPc' = "recv"
  /\ UNCHANGED <<handoff, rxOpen, failed, exits, parsed, attached, disposed,
                 webview, acks, lost, childVars, pumpVars, creditVars>>

(* channel.send errs because the webview is gone, or the send path panics. *)
SendFails ==
  /\ sendPc = "send"
  /\ failed' = TRUE
  /\ sendPc' = "drop"
  /\ UNCHANGED <<handoff, rxOpen, batch, paced, exits,
                 childVars, pumpVars, creditVars, viewVars>>

(* (mutation) the receiver outlives the reap *)
KeepReceiver == UNCHANGED <<rxOpen, handoff>>

ReleaseProducer == rxOpen' = FALSE /\ handoff' = <<>>

(* The receiver is dropped before on_done runs, on return and on unwind.   *)
DropReceiver ==
  /\ sendPc = "drop"
  /\ ReleaseProducer
  /\ sendPc' = "reap"
  /\ UNCHANGED <<batch, paced, failed, exits, childVars, pumpVars, creditVars, viewVars>>

(* on_done, under three separate locks: the credit cell goes, the registry *)
(* closes the session (a no-op when close_pty came first), the exit is     *)
(* announced.                                                              *)
ReapCell ==
  /\ sendPc = "reap"
  /\ cellLive' = FALSE
  /\ sendPc' = "close"
  /\ UNCHANGED <<handoff, rxOpen, batch, paced, failed, exits, credits,
                 childVars, pumpVars, viewVars>>

ReapSession ==
  /\ sendPc = "close"
  /\ registered' = FALSE
  /\ child' = IF registered THEN "dead" ELSE child
  /\ sendPc' = "emit"
  /\ UNCHANGED <<handoff, rxOpen, batch, paced, failed, exits, slave, written,
                 pumpVars, creditVars, viewVars>>

EmitExited ==
  /\ sendPc = "emit"
  /\ exits' = exits + 1
  /\ sendPc' = "done"
  /\ UNCHANGED <<handoff, rxOpen, batch, paced, failed,
                 childVars, pumpVars, creditVars, viewVars>>

Sender ==
  \/ RecvFirst \/ Drain \/ DrainEnd \/ PaceTake \/ PaceEnd \/ StreamEnd
  \/ Consume \/ Probe \/ ChannelSend \/ SendFails
  \/ DropReceiver \/ ReapCell \/ ReapSession \/ EmitExited

----------------------------------------------------------------------------
(* The webview (useBackend.ts): open_pty resolves, frames are parsed in    *)
(* order, each parse completion acknowledges the frame's bytes.            *)

Attach ==
  /\ webview = "up"
  /\ ~attached
  /\ attached' = TRUE
  /\ UNCHANGED <<frames, sent, parsed, disposed, webview, acks, lost,
                 childVars, pumpVars, senderVars, creditVars>>

ParseFrame ==
  /\ webview = "up"
  /\ frames # <<>>
  /\ frames' = Tail(frames)
  /\ parsed' = Head(frames).hi

ParseAcked ==
  /\ ParseFrame
  /\ attached
  /\ acks' = acks + Head(frames).len
  /\ UNCHANGED <<sent, attached, disposed, webview, lost,
                 childVars, pumpVars, senderVars, creditVars>>

(* No ack: the id is not known yet, or the terminal was disposed and its   *)
(* parse callback does not run (xterm's behaviour after dispose is         *)
(* external: it may or may not).                                           *)
ParseUnacked ==
  /\ ParseFrame
  /\ ~attached \/ disposed
  /\ lost' = lost + Head(frames).len
  /\ UNCHANGED <<sent, attached, disposed, webview, acks,
                 childVars, pumpVars, senderVars, creditVars>>

DisposePane ==
  /\ ~disposed
  /\ disposed' = TRUE
  /\ UNCHANGED <<frames, sent, parsed, attached, webview, acks, lost,
                 childVars, pumpVars, senderVars, creditVars>>

WebviewGone ==
  /\ webview = "up"
  /\ webview' = "gone"
  /\ UNCHANGED <<frames, sent, parsed, attached, disposed, acks, lost,
                 childVars, pumpVars, senderVars, creditVars>>

(* pty_ack reaches the backend and refills the cell; a session that was    *)
(* reaped has none.  The acks under way are kept as their total, and any   *)
(* part of it may arrive next.                                             *)
Refilled(k) == Smaller(credits + k, PTY_CREDIT_BYTES)

PtyAck ==
  /\ \E k \in 1 .. acks :
       /\ acks' = acks - k
       /\ credits' = IF cellLive THEN Refilled(k) ELSE credits
  /\ UNCHANGED <<cellLive, frames, sent, parsed, attached, disposed, webview, lost,
                 childVars, pumpVars, senderVars>>

----------------------------------------------------------------------------
Environment ==
  \/ ChildWrite \/ ChildExit \/ SlaveClose \/ ClosePty
  \/ Attach \/ DisposePane \/ WebviewGone

Webview == ParseAcked \/ ParseUnacked

Next == Environment \/ Pump \/ Sender \/ Webview \/ PtyAck

Spec == Init /\ [][Next]_vars

(* The two threads of a session are scheduled, a live webview parses what  *)
(* it was handed, and a pty_ack arrives.  Nothing is assumed of the child, *)
(* of the user or of the window.                                           *)
Fairness ==
  /\ WF_vars(PumpProgress)
  /\ WF_vars(Sender)
  /\ WF_vars(Webview)
  /\ WF_vars(PtyAck)

FairSpec == Spec /\ Fairness

----------------------------------------------------------------------------
(* Where each stage of the pipeline stands in the child's output. *)

InHand  == sendPc \in {"drain", "pace", "park", "send"}
PumpLo  == IF pumpPc = "send" THEN chunk.lo ELSE read
QueueLo == IF handoff = <<>> THEN PumpLo ELSE handoff[1].lo
FrameLo == IF frames = <<>> THEN sent ELSE frames[1].lo

Chained(q, end) ==
  \A i \in 1 .. Len(q) :
    /\ Gapless(q[i])
    /\ q[i].hi = IF i = Len(q) THEN end ELSE q[i + 1].lo

(* Bytes handed to the channel and not given back to the window.           *)
Unacked == sent - parsed + acks + lost

(* What the cell was charged for and the channel has not taken yet.        *)
Charged == IF sendPc = "send" THEN batch.len ELSE 0

(* Losing this many acknowledgements closes the window for good.           *)
WholeWindow == PTY_CREDIT_BYTES - PTY_CREDIT_FLOOR

----------------------------------------------------------------------------
ChildTypes ==
  /\ child \in {"alive", "dead"}
  /\ slave \in {"open", "closed"}
  /\ registered \in BOOLEAN
  /\ written \in 0 .. MAX_BYTES

PumpTypes ==
  /\ read \in 0 .. MAX_BYTES
  /\ pumpPc \in {"read", "send", "done"}
  /\ torn \in BOOLEAN
  /\ chunk \in PieceType

SenderTypes ==
  /\ handoff \in Seq(PieceType)
  /\ Len(handoff) <= PTY_HANDOFF_CHUNKS
  /\ rxOpen \in BOOLEAN
  /\ sendPc \in {"recv", "drain", "pace", "park", "send", "drop", "reap",
                 "close", "emit", "done"}
  /\ batch \in PieceType
  /\ paced \in BOOLEAN
  /\ failed \in BOOLEAN
  /\ exits \in Nat

CreditTypes ==
  /\ credits \in Int
  /\ credits <= PTY_CREDIT_BYTES
  /\ cellLive \in BOOLEAN

ViewTypes ==
  /\ frames \in Seq(PieceType)
  /\ sent \in Nat
  /\ parsed \in Nat
  /\ attached \in BOOLEAN
  /\ disposed \in BOOLEAN
  /\ webview \in {"up", "gone"}
  /\ acks \in Nat
  /\ lost \in Nat

TypeOK == ChildTypes /\ PumpTypes /\ SenderTypes /\ CreditTypes /\ ViewTypes

(* The terminal is shown the child's bytes in the order they were written, *)
(* none lost, doubled or reordered, across the kernel, the pump, the       *)
(* hand-off queue, the batch and the channel: each stage begins where the  *)
(* one ahead of it ends.  Only a failed transport drops what is behind it. *)
InOrder ==
  /\ read <= written
  /\ pumpPc = "send" => Gapless(chunk) /\ chunk.hi = read
  /\ Chained(handoff, PumpLo)
  /\ ~failed => IF InHand THEN Gapless(batch) /\ batch.lo = sent /\ batch.hi = QueueLo
                          ELSE sent = QueueLo
  /\ Chained(frames, sent)
  /\ parsed = FrameLo

(* While the cell lives, its balance is the window minus what is in        *)
(* flight: no byte is charged twice, acknowledged twice or forgotten       *)
(* between the sender thread, the webview and the pty_ack calls.           *)
CreditAccounting ==
  cellLive /\ ~failed => credits + Unacked + Charged = PTY_CREDIT_BYTES

(* The bytes in flight never exceed the window, plus the overdraw floor,   *)
(* plus what the last probe may add below it: a batch but for one byte.    *)
UnackedBound ==
  Unacked <= PTY_CREDIT_BYTES - PTY_CREDIT_FLOOR + MaxBatch - 1

(* The exit is announced once, after the last byte was handed to the       *)
(* channel (unless the transport or the read failed), when the session is gone from    *)
(* the registry, its credit cell is dropped and the pump cannot be blocked *)
(* on the queue any more.                                                  *)
ExitComesLast ==
  /\ exits <= 1
  /\ exits > 0 => /\ ~registered /\ ~cellLive /\ ~rxOpen
                  /\ failed \/ sent = read
                  /\ failed \/ torn \/ (slave = "closed" /\ read = written)

----------------------------------------------------------------------------
(* A live webview whose lost acknowledgements stay below the whole window: *)
(* the condition under which the timeout probes keep a session moving.     *)
WindowUsable == webview = "up" /\ lost < WholeWindow

(* Every byte the child wrote is parsed in the end, or the transport or    *)
(* the read failed: neither backpressure, nor the pacing window, nor an exhausted   *)
(* window, nor acks lost below the whole window wedges the stream.         *)
BytesArrive ==
  [](WindowUsable) =>
    \A n \in 1 .. MAX_BYTES : (written >= n) ~> (parsed >= n \/ failed \/ torn)

(* A session whose terminal closed ends: both threads stop and the exit is *)
(* announced.                                                              *)
SessionEnds ==
  [](WindowUsable) =>
    (slave = "closed") ~> (pumpPc = "done" /\ sendPc = "done" /\ exits = 1)

(* A refused batch reaps the session and frees a pump blocked on the full  *)
(* queue, whatever the child and the window do.                            *)
FailureReleases ==
  failed ~> (exits = 1 /\ pumpPc # "send")

----------------------------------------------------------------------------
(* The session implements the byte stream its pane is promised. *)
streamStatus == IF exits = 0 THEN "open" ELSE IF failed \/ torn THEN "aborted" ELSE "ended"

Stream == INSTANCE ByteStream WITH
  out <- written, sealed <- (slave = "closed"), shown <- sent, status <- streamStatus

StreamSpec == Stream!Spec
=============================================================================
