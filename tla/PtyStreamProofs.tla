-------------------------- MODULE PtyStreamProofs ---------------------------
(***************************************************************************)
(* What TLAPS proves of a session's output path, for every buffer size,    *)
(* window and length of output.                                            *)
(***************************************************************************)
EXTENDS PtyStream, SequenceTheorems, TLAPS

(* Where the sender may be when it has ended its loop. *)
Ending == sendPc \in {"drop", "reap", "close", "emit", "done"}

(* How far the two threads have come, and what that says of the rest. *)
Phases ==
  /\ slave = "closed" => child = "dead"
  /\ failed => Ending
  /\ rxOpen <=> sendPc \notin {"reap", "close", "emit", "done"}
  /\ ~rxOpen => handoff = <<>>
  /\ cellLive <=> sendPc \notin {"close", "emit", "done"}
  /\ sendPc \in {"emit", "done"} => ~registered
  /\ exits = IF sendPc = "done" THEN 1 ELSE 0
  /\ pumpPc = "done" /\ ~failed /\ ~torn => slave = "closed" /\ read = written
  /\ Ending /\ ~failed => pumpPc = "done" /\ handoff = <<>>

(* How long the pieces get on their way. *)
Sizes ==
  /\ pumpPc = "send" => chunk.len <= READ_BUF
  /\ \A i \in 1 .. Len(handoff) : handoff[i].len <= READ_BUF
  /\ InHand => batch.len <= MaxBatch

(* The terminal has parsed no more than the channel was handed. *)
Behind ==
  /\ parsed <= sent
  /\ \A i \in 1 .. Len(frames) : frames[i].hi <= sent

(* How far the balance may sink: a probe needs more than the floor. *)
CreditBound == credits >= PTY_CREDIT_FLOOR + 1 - MaxBatch

IInv ==
  /\ TypeOK
  /\ Phases
  /\ InOrder
  /\ Behind
  /\ Sizes
  /\ CreditBound
  /\ CreditAccounting
  /\ UnackedBound

----------------------------------------------------------------------------
(* Facts about pieces and chains of pieces. *)

LEMMA PieceTyped ==
  ASSUME NEW p \in PieceType
  PROVE  p.lo \in Nat /\ p.hi \in Nat /\ p.len \in Nat
BY DEF PieceType

LEMMA PieceIsPiece ==
  ASSUME NEW lo \in Nat, NEW hi \in Nat, lo < hi
  PROVE  /\ Piece(lo, hi) \in PieceType
         /\ Gapless(Piece(lo, hi))
         /\ Piece(lo, hi).lo = lo
         /\ Piece(lo, hi).hi = hi
         /\ Piece(lo, hi).len = hi - lo
BY DEF Piece, PieceType, Gapless

(* A batch and the chunk that begins where it ends make one gapless piece. *)
LEMMA JoinGapless ==
  ASSUME NEW b \in PieceType, NEW c \in PieceType,
         Gapless(b), Gapless(c), b.hi = c.lo
  PROVE  /\ Join(b, c) \in PieceType
         /\ Gapless(Join(b, c))
         /\ Join(b, c).lo = b.lo
         /\ Join(b, c).hi = c.hi
         /\ Join(b, c).len = b.len + c.len
BY DEF Join, PieceType, Gapless

(* A piece that begins where a chain ends extends it. *)
LEMMA ChainAppend ==
  ASSUME NEW q \in Seq(PieceType), NEW p \in PieceType,
         Gapless(p), Chained(q, p.lo)
  PROVE  /\ Append(q, p) \in Seq(PieceType)
         /\ Append(q, p) # <<>>
         /\ Len(Append(q, p)) = Len(q) + 1
         /\ Append(q, p)[1].lo = IF q = <<>> THEN p.lo ELSE q[1].lo
         /\ Chained(Append(q, p), p.hi)
<1>1. Append(q, p) \in Seq(PieceType) /\ Len(Append(q, p)) = Len(q) + 1
  OBVIOUS
<1>2. /\ \A i \in 1 .. Len(q) : Append(q, p)[i] = q[i]
      /\ Append(q, p)[Len(q) + 1] = p
  OBVIOUS
<1>3. Len(q) \in Nat
  OBVIOUS
<1>4. ASSUME NEW i \in 1 .. Len(q) + 1
      PROVE  /\ Gapless(Append(q, p)[i])
             /\ Append(q, p)[i].hi =
                  IF i = Len(q) + 1 THEN p.hi ELSE Append(q, p)[i + 1].lo
  <2>1. CASE i = Len(q) + 1
    BY <2>1, <1>2
  <2>2. CASE i = Len(q)
    BY <2>2, <1>2, <1>3 DEF Chained
  <2>3. CASE i < Len(q)
    <3>1. i \in 1 .. Len(q) /\ i + 1 \in 1 .. Len(q) /\ i # Len(q) /\ i # Len(q) + 1
      BY <2>3, <1>3
    <3>. QED  BY <3>1, <1>2 DEF Chained
  <2>. QED  BY <2>1, <2>2, <2>3, <1>3
<1>5. Append(q, p)[1].lo = IF q = <<>> THEN p.lo ELSE q[1].lo
  <2>1. CASE q = <<>>
    BY <2>1
  <2>2. CASE q # <<>>
    BY <2>2, <1>2, <1>3
  <2>. QED  BY <2>1, <2>2
<1>6. Append(q, p) # <<>>
  BY AppendProperties
<1>7. Chained(Append(q, p), p.hi)
  <2>. DEFINE s == Append(q, p)
  <2>1. Len(s) = Len(q) + 1
    BY <1>1
  <2>2. ASSUME NEW i \in 1 .. Len(s)
        PROVE  Gapless(s[i]) /\ s[i].hi = IF i = Len(s) THEN p.hi ELSE s[i + 1].lo
    BY <1>4, <2>1
  <2>. HIDE DEF s
  <2>. QED  BY <2>2 DEF Chained
<1>. QED  BY <1>1, <1>5, <1>6, <1>7

(* What is left of a chain when its first piece is taken. *)
LEMMA ChainTail ==
  ASSUME NEW q \in Seq(PieceType), NEW end, q # <<>>, Chained(q, end)
  PROVE  /\ Head(q) \in PieceType
         /\ Head(q) = q[1]
         /\ Gapless(Head(q))
         /\ Tail(q) \in Seq(PieceType)
         /\ Len(Tail(q)) = Len(q) - 1
         /\ \A i \in 1 .. Len(Tail(q)) : Tail(q)[i] = q[i + 1]
         /\ Chained(Tail(q), end)
         /\ Head(q).hi = IF Tail(q) = <<>> THEN end ELSE Tail(q)[1].lo
<1>. DEFINE t == Tail(q)
<1>1. /\ Head(q) \in PieceType
      /\ t \in Seq(PieceType)
      /\ Len(t) = Len(q) - 1
      /\ \A i \in 1 .. Len(t) : t[i] = q[i + 1]
  BY HeadTailProperties
<1>2. Len(q) \in Nat \ {0} /\ Head(q) = q[1]
  BY EmptySeq
<1>3. t = <<>> <=> Len(t) = 0
  BY <1>1, EmptySeq
<1>. HIDE DEF t
<1>4. Gapless(q[1]) /\ q[1].hi = IF 1 = Len(q) THEN end ELSE q[1 + 1].lo
  BY <1>1, <1>2 DEF Chained
<1>5. ASSUME NEW i \in 1 .. Len(t)
      PROVE  /\ Gapless(t[i])
             /\ t[i].hi = IF i = Len(t) THEN end ELSE t[i + 1].lo
  <2>1. i + 1 \in 1 .. Len(q)
    BY <1>1, <1>2
  <2>2. /\ Gapless(q[i + 1])
        /\ q[i + 1].hi = IF i + 1 = Len(q) THEN end ELSE q[(i + 1) + 1].lo
    BY <2>1 DEF Chained
  <2>3. t[i] = q[i + 1]
    BY <1>1, <1>2
  <2>4. CASE i = Len(t)
    BY <2>2, <2>3, <2>4, <1>1, <1>2
  <2>5. CASE i # Len(t)
    <3>1. i + 1 \in 1 .. Len(t) /\ i + 1 # Len(q)
      BY <2>5, <1>1, <1>2
    <3>2. t[i + 1] = q[(i + 1) + 1]
      BY <3>1, <1>1
    <3>. QED  BY <2>2, <2>3, <2>5, <3>1, <3>2
  <2>. QED  BY <2>4, <2>5
<1>6. Chained(t, end)
  BY <1>5 DEF Chained
<1>7. Head(q).hi = IF t = <<>> THEN end ELSE t[1].lo
  <2>1. CASE Len(q) = 1
    BY <2>1, <1>1, <1>2, <1>3, <1>4
  <2>2. CASE Len(q) # 1
    <3>1. 1 \in 1 .. Len(t) /\ t # <<>>
      BY <2>2, <1>1, <1>2, <1>3
    <3>. QED  BY <2>2, <3>1, <1>1, <1>2, <1>4
  <2>. QED  BY <2>1, <2>2
<1>8. /\ Head(q) \in PieceType
      /\ Head(q) = q[1]
      /\ Gapless(Head(q))
  BY <1>1, <1>2, <1>4
<1>. QED  BY <1>1, <1>6, <1>7, <1>8 DEF t

LEMMA HeadInRange ==
  ASSUME NEW q \in Seq(PieceType), q # <<>>
  PROVE  Head(q) = q[1] /\ 1 \in 1 .. Len(q)
BY EmptySeq

----------------------------------------------------------------------------
(* Every step keeps the invariant. *)

LEMMA InitIInv == Init => IInv
<1>. USE SizesAssumption, CreditAssumption
<1>. SUFFICES ASSUME Init PROVE IInv
  OBVIOUS
<1>1. TypeOK
  <2>1. NoPiece \in PieceType
    BY DEF NoPiece, Piece, PieceType
  <2>2. <<>> \in Seq(PieceType) /\ Len(<<>>) = 0
    BY EmptySeq
  <2>3. /\ 0 \in Nat /\ 0 \in 0 .. MAX_BYTES /\ 0 <= PTY_HANDOFF_CHUNKS
        /\ PTY_CREDIT_BYTES \in Int /\ PTY_CREDIT_BYTES <= PTY_CREDIT_BYTES
    OBVIOUS
  <2>4. /\ child = "alive" /\ slave = "open" /\ registered = TRUE /\ written = 0
        /\ read = 0 /\ pumpPc = "read" /\ torn = FALSE /\ chunk = NoPiece
        /\ handoff = <<>> /\ rxOpen = TRUE /\ sendPc = "recv" /\ batch = NoPiece
    BY DEF Init
  <2>5. /\ paced = FALSE /\ failed = FALSE
        /\ credits = PTY_CREDIT_BYTES /\ cellLive = TRUE /\ frames = <<>>
        /\ sent = 0 /\ parsed = 0 /\ attached = FALSE /\ disposed = FALSE
        /\ webview = "up" /\ acks = 0 /\ lost = 0 /\ exits = 0
    BY DEF Init
  <2>. QED  BY <2>1, <2>2, <2>3, <2>4, <2>5 DEF
     TypeOK, ChildTypes, PumpTypes, SenderTypes, CreditTypes, ViewTypes
<1>2. Phases
  BY DEF Init, Phases, Ending
<1>3. InOrder
  <2>1. Chained(<<>>, 0)
    BY DEF Chained
  <2>. QED  BY <2>1 DEF Init, InOrder, InHand, QueueLo, PumpLo, FrameLo
<1>4. Behind /\ Sizes
  BY DEF Init, Behind, Sizes, InHand
<1>5. CreditBound /\ CreditAccounting /\ UnackedBound
  BY DEF Init, CreditBound, CreditAccounting, UnackedBound, Unacked, Charged, MaxBatch
<1>. QED  BY <1>1, <1>2, <1>3, <1>4, <1>5 DEF IInv

LEMMA StutterIInv == IInv /\ UNCHANGED vars => IInv'
BY DEF vars, childVars, pumpVars, senderVars, creditVars, viewVars,
       IInv,
          TypeOK, ChildTypes, PumpTypes, SenderTypes, CreditTypes, ViewTypes, Phases, InOrder, Behind, Sizes, CreditBound, CreditAccounting, UnackedBound,
       Ending, InHand, QueueLo, PumpLo, FrameLo, Unacked, Charged, MaxBatch

(* The child, the user and the window. *)
LEMMA EnvironmentIInv == IInv /\ Environment => IInv'
<1>. SUFFICES ASSUME IInv, Environment PROVE IInv'
  OBVIOUS
<1>. USE SizesAssumption, CreditAssumption
<1>1. CASE ChildWrite
  BY <1>1 DEF ChildWrite, pumpVars, senderVars, creditVars, viewVars,
       IInv,
          TypeOK, ChildTypes, PumpTypes, SenderTypes, CreditTypes, ViewTypes, Phases, InOrder, Behind, Sizes, CreditBound, CreditAccounting, UnackedBound,
       Ending, InHand, QueueLo, PumpLo, FrameLo, Unacked, Charged, MaxBatch
<1>2. CASE ChildExit
  BY <1>2 DEF ChildExit, pumpVars, senderVars, creditVars, viewVars,
       IInv,
          TypeOK, ChildTypes, PumpTypes, SenderTypes, CreditTypes, ViewTypes, Phases, InOrder, Behind, Sizes, CreditBound, CreditAccounting, UnackedBound,
       Ending, InHand, QueueLo, PumpLo, FrameLo, Unacked, Charged, MaxBatch
<1>3. CASE SlaveClose
  BY <1>3 DEF SlaveClose, pumpVars, senderVars, creditVars, viewVars,
       IInv,
          TypeOK, ChildTypes, PumpTypes, SenderTypes, CreditTypes, ViewTypes, Phases, InOrder, Behind, Sizes, CreditBound, CreditAccounting, UnackedBound,
       Ending, InHand, QueueLo, PumpLo, FrameLo, Unacked, Charged, MaxBatch
<1>4. CASE ClosePty
  <2>5. TypeOK'
    <3>1. TypeOK
      BY DEF IInv
    <3>2. UNCHANGED <<slave, written, read, pumpPc, torn, chunk, handoff, rxOpen, sendPc, batch, paced, failed, exits, credits, cellLive, viewVars>>
      BY <1>4 DEF ClosePty, pumpVars, senderVars, creditVars
    <3>3. child' \in {"alive", "dead"} /\ registered' \in BOOLEAN
      BY <1>4 DEF ClosePty
    <3>. QED  BY <3>1, <3>2, <3>3 DEF
       TypeOK, ChildTypes, PumpTypes, SenderTypes, CreditTypes, ViewTypes, viewVars
  <2>6. Phases'
    BY <1>4 DEF ClosePty, pumpVars, senderVars, creditVars, viewVars, IInv,
       TypeOK, ChildTypes, PumpTypes, SenderTypes, CreditTypes, ViewTypes, Phases, Ending
  <2>7. InOrder' /\ Behind' /\ Sizes'
    BY <1>4 DEF ClosePty, pumpVars, senderVars, creditVars, viewVars, IInv, Phases, Ending,
       TypeOK, ChildTypes, PumpTypes, SenderTypes, CreditTypes, ViewTypes,
       InOrder, Behind, Sizes, InHand, QueueLo, PumpLo, FrameLo
  <2>8. CreditBound' /\ CreditAccounting' /\ UnackedBound'
    BY <1>4 DEF ClosePty, pumpVars, senderVars, creditVars, viewVars, IInv, Phases, Ending,
       CreditBound, CreditAccounting, UnackedBound, Unacked, Charged, MaxBatch
  <2>. QED  BY <2>5, <2>6, <2>7, <2>8 DEF IInv
<1>5. CASE Attach
  BY <1>5 DEF Attach, childVars, pumpVars, senderVars, creditVars,
       IInv,
          TypeOK, ChildTypes, PumpTypes, SenderTypes, CreditTypes, ViewTypes, Phases, InOrder, Behind, Sizes, CreditBound, CreditAccounting, UnackedBound,
       Ending, InHand, QueueLo, PumpLo, FrameLo, Unacked, Charged, MaxBatch
<1>6. CASE DisposePane
  BY <1>6 DEF DisposePane, childVars, pumpVars, senderVars, creditVars,
       IInv,
          TypeOK, ChildTypes, PumpTypes, SenderTypes, CreditTypes, ViewTypes, Phases, InOrder, Behind, Sizes, CreditBound, CreditAccounting, UnackedBound,
       Ending, InHand, QueueLo, PumpLo, FrameLo, Unacked, Charged, MaxBatch
<1>7. CASE WebviewGone
  BY <1>7 DEF WebviewGone, childVars, pumpVars, senderVars, creditVars,
       IInv,
          TypeOK, ChildTypes, PumpTypes, SenderTypes, CreditTypes, ViewTypes, Phases, InOrder, Behind, Sizes, CreditBound, CreditAccounting, UnackedBound,
       Ending, InHand, QueueLo, PumpLo, FrameLo, Unacked, Charged, MaxBatch
<1>. QED  BY <1>1, <1>2, <1>3, <1>4, <1>5, <1>6, <1>7 DEF Environment

(* The pump thread. *)
LEMMA PumpIInv == IInv /\ Pump => IInv'
<1>. SUFFICES ASSUME IInv, Pump PROVE IInv'
  OBVIOUS
<1>. USE SizesAssumption, CreditAssumption
<1>1. CASE PumpRead
  <2>1. PICK n \in 1 .. Smaller(READ_BUF, written - read) :
          chunk' = Piece(read, read + n) /\ read' = read + n
    BY <1>1 DEF PumpRead
  <2>5. read \in Nat
    BY DEF IInv, TypeOK, PumpTypes
  <2>2. n \in Nat /\ n > 0 /\ n <= READ_BUF /\ read + n <= written
    BY <2>1 DEF Smaller, IInv, TypeOK, ChildTypes, PumpTypes, SenderTypes, CreditTypes, ViewTypes, InOrder
  <2>3. /\ chunk' \in PieceType /\ Gapless(chunk')
        /\ chunk'.lo = read /\ chunk'.hi = read' /\ chunk'.len = n
    BY <2>1, <2>2, <2>5, PieceIsPiece
  <2>4. TypeOK'
    <3>1. TypeOK /\ read' \in 0 .. MAX_BYTES
      BY <2>1, <2>2 DEF IInv, TypeOK, ChildTypes, PumpTypes, SenderTypes, CreditTypes, ViewTypes
    <3>2. /\ UNCHANGED torn /\ UNCHANGED <<childVars, senderVars, creditVars, viewVars>>
          /\ pumpPc' = "send"
      BY <1>1 DEF PumpRead
    <3>. QED  BY <3>1, <3>2, <2>3 DEF
       TypeOK, ChildTypes, PumpTypes, SenderTypes, CreditTypes, ViewTypes, childVars, senderVars, creditVars, viewVars
  <2>. QED
    BY <1>1, <2>1, <2>2, <2>3, <2>4 DEF PumpRead, childVars, senderVars, creditVars, viewVars,
       IInv, Phases, InOrder, Behind, Sizes, CreditBound, CreditAccounting, UnackedBound,
       Ending, InHand, QueueLo, PumpLo, FrameLo, Unacked, Charged, MaxBatch
<1>2. CASE PumpEof
  BY <1>2 DEF PumpEof, childVars, senderVars, creditVars, viewVars,
       IInv,
          TypeOK, ChildTypes, PumpTypes, SenderTypes, CreditTypes, ViewTypes, Phases, InOrder, Behind, Sizes, CreditBound, CreditAccounting, UnackedBound,
       Ending, InHand, QueueLo, PumpLo, FrameLo, Unacked, Charged, MaxBatch
<1>3. CASE PumpSend
  <2>1. Chained(handoff, chunk.lo) /\ Gapless(chunk)
    BY <1>3 DEF PumpSend, IInv, InOrder, PumpLo
  <2>2. /\ handoff' \in Seq(PieceType) /\ handoff' # <<>>
        /\ Len(handoff') = Len(handoff) + 1
        /\ handoff'[1].lo = IF handoff = <<>> THEN chunk.lo ELSE handoff[1].lo
        /\ Chained(handoff', chunk.hi)
    BY <1>3, <2>1, ChainAppend DEF PumpSend, IInv,
       TypeOK, ChildTypes, PumpTypes, SenderTypes, CreditTypes, ViewTypes
  <2>3. \A i \in 1 .. Len(handoff') : handoff'[i].len <= READ_BUF
    BY <1>3, AppendProperties DEF PumpSend, IInv,
       TypeOK, ChildTypes, PumpTypes, SenderTypes, CreditTypes, ViewTypes, Sizes
  <2>5. TypeOK'
    BY <1>3, <2>1, <2>2, <2>3 DEF PumpSend, HasRoom, childVars, creditVars, viewVars, IInv,
       TypeOK, ChildTypes, PumpTypes, SenderTypes, CreditTypes, ViewTypes
  <2>6. Phases'
    BY <1>3, <2>1, <2>2, <2>3 DEF PumpSend, HasRoom, childVars, creditVars, viewVars, IInv,
       TypeOK, ChildTypes, PumpTypes, SenderTypes, CreditTypes, ViewTypes, Phases, Ending
  <2>7. InOrder' /\ Behind' /\ Sizes'
    BY <1>3, <2>1, <2>2, <2>3 DEF PumpSend, HasRoom, childVars, creditVars, viewVars, IInv, Phases, Ending,
       TypeOK, ChildTypes, PumpTypes, SenderTypes, CreditTypes, ViewTypes,
       InOrder, Behind, Sizes, InHand, QueueLo, PumpLo, FrameLo
  <2>8. CreditBound' /\ CreditAccounting' /\ UnackedBound'
    BY <1>3 DEF PumpSend, HasRoom, childVars, creditVars, viewVars, IInv, Phases, Ending,
       CreditBound, CreditAccounting, UnackedBound, Unacked, Charged, MaxBatch
  <2>. QED  BY <2>5, <2>6, <2>7, <2>8 DEF IInv
<1>4. CASE PumpSendError
  <2>5. TypeOK'
    BY <1>4 DEF PumpSendError, childVars, senderVars, creditVars, viewVars, IInv,
       TypeOK, ChildTypes, PumpTypes, SenderTypes, CreditTypes, ViewTypes
  <2>6. Phases'
    BY <1>4 DEF PumpSendError, childVars, senderVars, creditVars, viewVars, IInv,
       TypeOK, ChildTypes, PumpTypes, SenderTypes, CreditTypes, ViewTypes, Phases, Ending
  <2>1. failed /\ handoff = <<>> /\ handoff' = <<>> /\ failed' /\ pumpPc' = "done"
    BY <1>4 DEF PumpSendError, senderVars, IInv, Phases, Ending
  <2>2. Chained(<<>>, PumpLo')
    BY DEF Chained
  <2>3. InOrder'
    BY <1>4, <2>1, <2>2 DEF PumpSendError, childVars, viewVars, IInv, InOrder, FrameLo
  <2>7. InOrder' /\ Behind' /\ Sizes'
    BY <1>4, <2>1, <2>3 DEF PumpSendError, senderVars, viewVars, IInv, Behind, Sizes, InHand
  <2>8. CreditBound' /\ CreditAccounting' /\ UnackedBound'
    BY <1>4 DEF PumpSendError, childVars, senderVars, creditVars, viewVars, IInv, Phases, Ending,
       CreditBound, CreditAccounting, UnackedBound, Unacked, Charged, MaxBatch
  <2>. QED  BY <2>5, <2>6, <2>7, <2>8 DEF IInv
<1>5. CASE PumpReadError
  <2>1. /\ UNCHANGED <<read, chunk>> /\ UNCHANGED <<childVars, senderVars, creditVars, viewVars>>
        /\ pumpPc = "read" /\ pumpPc' = "done" /\ torn' = TRUE
    BY <1>5 DEF PumpReadError
  <2>2. PumpLo' = PumpLo /\ QueueLo' = QueueLo /\ FrameLo' = FrameLo /\ InHand' = InHand
        /\ Charged' = Charged /\ Unacked' = Unacked
    BY <2>1 DEF PumpLo, QueueLo, FrameLo, InHand, Charged, Unacked, senderVars, viewVars
  <2>3. TypeOK'
    <3>1. TypeOK
      BY DEF IInv
    <3>2. ChildTypes' /\ PumpTypes'
      BY <2>1, <3>1 DEF TypeOK, ChildTypes, PumpTypes, childVars, pumpVars
    <3>3. SenderTypes'
      BY <2>1, <3>1 DEF TypeOK, SenderTypes, senderVars
    <3>4. CreditTypes' /\ ViewTypes'
      BY <2>1, <3>1 DEF TypeOK, CreditTypes, ViewTypes, creditVars, viewVars
    <3>. QED  BY <3>2, <3>3, <3>4 DEF TypeOK
  <2>4. Phases'
    BY <2>1 DEF IInv, Phases, Ending, childVars, senderVars, creditVars, viewVars
  <2>5. InOrder' /\ Behind' /\ Sizes'
    BY <2>1, <2>2 DEF IInv, InOrder, Behind, Sizes, childVars, senderVars, viewVars
  <2>6. CreditBound' /\ CreditAccounting' /\ UnackedBound'
    BY <2>1, <2>2 DEF IInv, CreditBound, CreditAccounting, UnackedBound, senderVars, creditVars
  <2>. QED  BY <2>3, <2>4, <2>5, <2>6 DEF IInv
<1>. QED  BY <1>1, <1>2, <1>3, <1>4, <1>5 DEF Pump, PumpProgress

(* The sender thread. *)
LEMMA SenderIInv == IInv /\ Sender => IInv'
<1>. SUFFICES ASSUME IInv, Sender PROVE IInv'
  OBVIOUS
<1>. USE SizesAssumption, CreditAssumption
<1>1. CASE RecvFirst
  <2>1. /\ Head(handoff) \in PieceType /\ Head(handoff) = handoff[1] /\ Gapless(Head(handoff))
        /\ Tail(handoff) \in Seq(PieceType) /\ Len(Tail(handoff)) = Len(handoff) - 1
        /\ \A i \in 1 .. Len(Tail(handoff)) : Tail(handoff)[i] = handoff[i + 1]
        /\ Chained(Tail(handoff), PumpLo)
        /\ Head(handoff).hi = IF Tail(handoff) = <<>> THEN PumpLo ELSE Tail(handoff)[1].lo
        /\ handoff # <<>> /\ Len(handoff) \in Nat \ {0}
    BY <1>1, ChainTail, EmptySeq DEF RecvFirst, IInv,
       TypeOK, ChildTypes, PumpTypes, SenderTypes, CreditTypes, ViewTypes, InOrder
  <2>2. batch' = Head(handoff) /\ handoff' = Tail(handoff)
    BY <1>1 DEF RecvFirst, TakeInto
  <2>3. Head(handoff).lo = sent
    BY <1>1, <2>1 DEF RecvFirst, IInv, InOrder, Phases, Ending, InHand, QueueLo
  <2>4. /\ batch' \in PieceType /\ Gapless(batch') /\ batch'.lo = sent
        /\ batch'.hi = Head(handoff).hi
        /\ batch'.len = Head(handoff).len
    BY <2>1, <2>2, <2>3
  <2>5. Head(handoff).len <= READ_BUF /\ \A i \in 1 .. Len(handoff') : handoff'[i].len <= READ_BUF
    BY <2>1, <2>2 DEF IInv, Sizes
  <2>6. PumpLo' = PumpLo /\ QueueLo' = Head(handoff).hi
    BY <1>1, <2>1, <2>2 DEF RecvFirst, pumpVars, PumpLo, QueueLo
  <2>7. InOrder'
    BY <1>1, <2>1, <2>2, <2>4, <2>6 DEF RecvFirst, childVars, pumpVars, viewVars,
       IInv, InOrder, Phases, Ending, InHand, FrameLo
  <2>8. TypeOK'
    BY <1>1, <2>1, <2>2, <2>4 DEF RecvFirst, childVars, pumpVars, creditVars, viewVars, IInv,
       TypeOK, ChildTypes, PumpTypes, SenderTypes, CreditTypes, ViewTypes
  <2>10. Sizes'
    BY <1>1, <2>1, <2>2, <2>4, <2>5, PieceTyped DEF RecvFirst, pumpVars,
       IInv, TypeOK, ChildTypes, PumpTypes, SenderTypes, CreditTypes, ViewTypes, Sizes, InHand, MaxBatch
  <2>9. Phases' /\ Behind'
    BY <1>1, <2>1 DEF RecvFirst, childVars, pumpVars, creditVars, viewVars, IInv, Phases, Ending, Behind
  <2>. QED
    BY <1>1, <2>7, <2>8, <2>9, <2>10 DEF RecvFirst, creditVars, viewVars,
       IInv, CreditBound, CreditAccounting, UnackedBound, Unacked, Charged, MaxBatch
<1>2. CASE Drain
  <2>1. /\ Head(handoff) \in PieceType /\ Head(handoff) = handoff[1] /\ Gapless(Head(handoff))
        /\ Tail(handoff) \in Seq(PieceType) /\ Len(Tail(handoff)) = Len(handoff) - 1
        /\ \A i \in 1 .. Len(Tail(handoff)) : Tail(handoff)[i] = handoff[i + 1]
        /\ Chained(Tail(handoff), PumpLo)
        /\ Head(handoff).hi = IF Tail(handoff) = <<>> THEN PumpLo ELSE Tail(handoff)[1].lo
        /\ handoff # <<>> /\ Len(handoff) \in Nat \ {0}
    BY <1>2, ChainTail, EmptySeq DEF Drain, IInv,
       TypeOK, ChildTypes, PumpTypes, SenderTypes, CreditTypes, ViewTypes, InOrder
  <2>2. /\ batch' = Join(batch, Head(handoff)) /\ handoff' = Tail(handoff)
        /\ batch.len < PTY_BATCH_MAX_BYTES
    BY <1>2 DEF Drain, TakeInto
  <2>3. Gapless(batch) /\ batch.lo = sent /\ batch.hi = Head(handoff).lo /\ batch \in PieceType
    BY <1>2, <2>1 DEF Drain, IInv,
       TypeOK, ChildTypes, PumpTypes, SenderTypes, CreditTypes, ViewTypes, InOrder, Phases, Ending, InHand, QueueLo
  <2>4. /\ batch' \in PieceType /\ Gapless(batch') /\ batch'.lo = sent
        /\ batch'.hi = Head(handoff).hi
        /\ batch'.len = batch.len + Head(handoff).len
    BY <2>1, <2>2, <2>3, JoinGapless
  <2>5. Head(handoff).len <= READ_BUF /\ \A i \in 1 .. Len(handoff') : handoff'[i].len <= READ_BUF
    BY <2>1, <2>2 DEF IInv, Sizes
  <2>6. PumpLo' = PumpLo /\ QueueLo' = Head(handoff).hi
    BY <1>2, <2>1, <2>2 DEF Drain, pumpVars, PumpLo, QueueLo
  <2>7. InOrder'
    BY <1>2, <2>1, <2>2, <2>4, <2>6 DEF Drain, childVars, pumpVars, viewVars,
       IInv, InOrder, Phases, Ending, InHand, FrameLo
  <2>8. TypeOK'
    BY <1>2, <2>1, <2>2, <2>4 DEF Drain, childVars, pumpVars, creditVars, viewVars, IInv,
       TypeOK, ChildTypes, PumpTypes, SenderTypes, CreditTypes, ViewTypes
  <2>10. Sizes'
    <3>1. UNCHANGED <<pumpPc, chunk>> /\ (pumpPc = "send" => chunk.len <= READ_BUF)
      BY <1>2 DEF Drain, pumpVars, IInv, Sizes
    <3>2. batch.len \in Nat /\ Head(handoff).len \in Nat
      BY <2>1, <2>3, PieceTyped
    <3>3. batch'.len <= MaxBatch
      BY <3>2, <2>2, <2>4, <2>5 DEF MaxBatch
    <3>. QED  BY <3>1, <3>3, <2>5 DEF Sizes
  <2>9. Phases' /\ Behind'
    BY <1>2, <2>1 DEF Drain, childVars, pumpVars, creditVars, viewVars, IInv, Phases, Ending, Behind
  <2>. QED
    BY <1>2, <2>7, <2>8, <2>9, <2>10 DEF Drain, creditVars, viewVars,
       IInv, CreditBound, CreditAccounting, UnackedBound, Unacked, Charged, MaxBatch
<1>3. CASE DrainEnd
  BY <1>3 DEF DrainEnd, childVars, pumpVars, creditVars, viewVars,
       IInv,
          TypeOK, ChildTypes, PumpTypes, SenderTypes, CreditTypes, ViewTypes, Phases, InOrder, Behind, Sizes, CreditBound, CreditAccounting, UnackedBound,
       Ending, InHand, QueueLo, PumpLo, FrameLo, Unacked, Charged, MaxBatch
<1>4. CASE PaceTake
  <2>1. /\ Head(handoff) \in PieceType /\ Head(handoff) = handoff[1] /\ Gapless(Head(handoff))
        /\ Tail(handoff) \in Seq(PieceType) /\ Len(Tail(handoff)) = Len(handoff) - 1
        /\ \A i \in 1 .. Len(Tail(handoff)) : Tail(handoff)[i] = handoff[i + 1]
        /\ Chained(Tail(handoff), PumpLo)
        /\ Head(handoff).hi = IF Tail(handoff) = <<>> THEN PumpLo ELSE Tail(handoff)[1].lo
        /\ handoff # <<>> /\ Len(handoff) \in Nat \ {0}
    BY <1>4, ChainTail, EmptySeq DEF PaceTake, IInv,
       TypeOK, ChildTypes, PumpTypes, SenderTypes, CreditTypes, ViewTypes, InOrder
  <2>2. /\ batch' = Join(batch, Head(handoff)) /\ handoff' = Tail(handoff)
        /\ batch.len < PTY_BATCH_MAX_BYTES
    BY <1>4 DEF PaceTake, TakeInto
  <2>3. Gapless(batch) /\ batch.lo = sent /\ batch.hi = Head(handoff).lo /\ batch \in PieceType
    BY <1>4, <2>1 DEF PaceTake, IInv,
       TypeOK, ChildTypes, PumpTypes, SenderTypes, CreditTypes, ViewTypes, InOrder, Phases, Ending, InHand, QueueLo
  <2>4. /\ batch' \in PieceType /\ Gapless(batch') /\ batch'.lo = sent
        /\ batch'.hi = Head(handoff).hi
        /\ batch'.len = batch.len + Head(handoff).len
    BY <2>1, <2>2, <2>3, JoinGapless
  <2>5. Head(handoff).len <= READ_BUF /\ \A i \in 1 .. Len(handoff') : handoff'[i].len <= READ_BUF
    BY <2>1, <2>2 DEF IInv, Sizes
  <2>6. PumpLo' = PumpLo /\ QueueLo' = Head(handoff).hi
    BY <1>4, <2>1, <2>2 DEF PaceTake, pumpVars, PumpLo, QueueLo
  <2>7. InOrder'
    BY <1>4, <2>1, <2>2, <2>4, <2>6 DEF PaceTake, childVars, pumpVars, viewVars,
       IInv, InOrder, Phases, Ending, InHand, FrameLo
  <2>8. TypeOK'
    BY <1>4, <2>1, <2>2, <2>4 DEF PaceTake, childVars, pumpVars, creditVars, viewVars, IInv,
       TypeOK, ChildTypes, PumpTypes, SenderTypes, CreditTypes, ViewTypes
  <2>10. Sizes'
    <3>1. UNCHANGED <<pumpPc, chunk>> /\ (pumpPc = "send" => chunk.len <= READ_BUF)
      BY <1>4 DEF PaceTake, pumpVars, IInv, Sizes
    <3>2. batch.len \in Nat /\ Head(handoff).len \in Nat
      BY <2>1, <2>3, PieceTyped
    <3>3. batch'.len <= MaxBatch
      BY <3>2, <2>2, <2>4, <2>5 DEF MaxBatch
    <3>. QED  BY <3>1, <3>3, <2>5 DEF Sizes
  <2>9. Phases' /\ Behind'
    BY <1>4, <2>1 DEF PaceTake, childVars, pumpVars, creditVars, viewVars, IInv, Phases, Ending, Behind
  <2>. QED
    BY <1>4, <2>7, <2>8, <2>9, <2>10 DEF PaceTake, creditVars, viewVars,
       IInv, CreditBound, CreditAccounting, UnackedBound, Unacked, Charged, MaxBatch
<1>5. CASE PaceEnd
  BY <1>5 DEF PaceEnd, childVars, pumpVars, creditVars, viewVars,
       IInv,
          TypeOK, ChildTypes, PumpTypes, SenderTypes, CreditTypes, ViewTypes, Phases, InOrder, Behind, Sizes, CreditBound, CreditAccounting, UnackedBound,
       Ending, InHand, QueueLo, PumpLo, FrameLo, Unacked, Charged, MaxBatch
<1>6. CASE StreamEnd
  BY <1>6 DEF StreamEnd, StreamOver, childVars, pumpVars, creditVars, viewVars,
       IInv,
          TypeOK, ChildTypes, PumpTypes, SenderTypes, CreditTypes, ViewTypes, Phases, InOrder, Behind, Sizes, CreditBound, CreditAccounting, UnackedBound,
       Ending, InHand, QueueLo, PumpLo, FrameLo, Unacked, Charged, MaxBatch
<1>7. CASE Consume
  <2>1. ~failed /\ cellLive /\ sendPc = "park"
    BY <1>7 DEF Consume, IInv, Phases, Ending
  <2>2. batch.len \in Nat /\ batch.len <= MaxBatch /\ credits > PTY_CREDIT_FLOOR
    BY <1>7, <2>1 DEF Consume, MayProbe, IInv,
       TypeOK, ChildTypes, PumpTypes, SenderTypes, CreditTypes, ViewTypes, Sizes, InHand, PieceType
  <2>3. credits' = credits - batch.len /\ Charged = 0 /\ Charged' = batch.len
        /\ Unacked' = Unacked
    BY <1>7, <2>1 DEF Consume, Deduct, Charged, Unacked, viewVars
  <2>4. credits \in Int /\ Unacked \in Int /\ credits + Unacked = PTY_CREDIT_BYTES
    BY <2>1, <2>3 DEF IInv,
       TypeOK, ChildTypes, PumpTypes, SenderTypes, CreditTypes, ViewTypes, CreditAccounting, Unacked
  <2>5. CreditAccounting' /\ CreditBound' /\ UnackedBound'
    BY <1>7, <2>1, <2>2, <2>3, <2>4 DEF Consume, CreditAccounting, CreditBound, UnackedBound,
       MaxBatch, IInv
  <2>6. TypeOK' /\ Phases' /\ Sizes' /\ InOrder' /\ Behind'
    BY <1>7, <2>2, <2>3 DEF Consume, childVars, pumpVars, viewVars,
       IInv,
          TypeOK, ChildTypes, PumpTypes, SenderTypes, CreditTypes, ViewTypes, Phases, Ending, Behind, Sizes, InOrder, InHand, QueueLo, PumpLo, FrameLo
  <2>. QED  BY <2>5, <2>6 DEF IInv
<1>8. CASE Probe
  <2>1. ~failed /\ cellLive /\ sendPc = "park"
    BY <1>8 DEF Probe, IInv, Phases, Ending
  <2>2. batch.len \in Nat /\ batch.len <= MaxBatch /\ credits > PTY_CREDIT_FLOOR
    BY <1>8, <2>1 DEF Probe, MayProbe, IInv,
       TypeOK, ChildTypes, PumpTypes, SenderTypes, CreditTypes, ViewTypes, Sizes, InHand, PieceType
  <2>3. credits' = credits - batch.len /\ Charged = 0 /\ Charged' = batch.len
        /\ Unacked' = Unacked
    BY <1>8, <2>1 DEF Probe, Deduct, Charged, Unacked, viewVars
  <2>4. credits \in Int /\ Unacked \in Int /\ credits + Unacked = PTY_CREDIT_BYTES
    BY <2>1, <2>3 DEF IInv,
       TypeOK, ChildTypes, PumpTypes, SenderTypes, CreditTypes, ViewTypes, CreditAccounting, Unacked
  <2>5. CreditAccounting' /\ CreditBound' /\ UnackedBound'
    BY <1>8, <2>1, <2>2, <2>3, <2>4 DEF Probe, CreditAccounting, CreditBound, UnackedBound,
       MaxBatch, IInv
  <2>6. TypeOK' /\ Phases' /\ Sizes' /\ InOrder' /\ Behind'
    BY <1>8, <2>2, <2>3 DEF Probe, childVars, pumpVars, viewVars,
       IInv,
          TypeOK, ChildTypes, PumpTypes, SenderTypes, CreditTypes, ViewTypes, Phases, Ending, Behind, Sizes, InOrder, InHand, QueueLo, PumpLo, FrameLo
  <2>. QED  BY <2>5, <2>6 DEF IInv
<1>9. CASE ChannelSend
  <2>1. ~failed /\ cellLive
    BY <1>9 DEF ChannelSend, IInv, Phases, Ending
  <2>2. /\ batch \in PieceType /\ Gapless(batch)
        /\ batch.lo = sent /\ batch.hi = QueueLo
    BY <1>9, <2>1 DEF ChannelSend, IInv,
       TypeOK, ChildTypes, PumpTypes, SenderTypes, CreditTypes, ViewTypes, InOrder, InHand
  <2>3. /\ frames' \in Seq(PieceType) /\ frames' # <<>>
        /\ frames'[1].lo = FrameLo
        /\ Chained(frames', sent')
    BY <1>9, <2>2, ChainAppend DEF ChannelSend, IInv,
       TypeOK, ChildTypes, PumpTypes, SenderTypes, CreditTypes, ViewTypes, InOrder, FrameLo
  <2>4. /\ batch.len \in Nat /\ sent \in Nat /\ sent' \in Nat
        /\ sent' = sent + batch.len /\ sent' = QueueLo
    BY <1>9, <2>2, PieceTyped DEF ChannelSend, Gapless, IInv,
       TypeOK, ChildTypes, PumpTypes, SenderTypes, CreditTypes, ViewTypes
  <2>5. batch' \in PieceType
    BY <1>9 DEF ChannelSend, NoPiece, Piece, PieceType
  <2>6. TypeOK'
    BY <1>9, <2>3, <2>4, <2>5 DEF ChannelSend, childVars, pumpVars, creditVars, IInv,
       TypeOK, ChildTypes, PumpTypes, SenderTypes, CreditTypes, ViewTypes
  <2>7. Phases' /\ Sizes'
    BY <1>9, <2>1 DEF ChannelSend, childVars, pumpVars, creditVars,
       IInv, Phases, Ending, Sizes, InHand
  <2>8. InOrder'
    BY <1>9, <2>3, <2>4 DEF ChannelSend, childVars, pumpVars, creditVars,
       IInv, InOrder, InHand, PumpLo, QueueLo, FrameLo
  <2>9. credits + Unacked + batch.len = PTY_CREDIT_BYTES
    BY <1>9, <2>1 DEF ChannelSend, IInv, CreditAccounting, Charged
  <2>10. Unacked' = Unacked + batch.len /\ Charged' = 0
    BY <1>9, <2>4 DEF ChannelSend, Unacked, Charged, IInv,
       TypeOK, ChildTypes, PumpTypes, SenderTypes, CreditTypes, ViewTypes
  <2>12. Behind'
    <3>1. /\ Len(frames') = Len(frames) + 1 /\ Len(frames) \in Nat
          /\ \A i \in 1 .. Len(frames) : frames'[i] = frames[i] /\ frames[i] \in PieceType
          /\ frames'[Len(frames) + 1] = batch
      BY <1>9, <2>2, AppendProperties DEF ChannelSend, IInv,
         TypeOK, ChildTypes, PumpTypes, SenderTypes, CreditTypes, ViewTypes
    <3>2. ASSUME NEW i \in 1 .. Len(frames') PROVE frames'[i].hi <= sent'
      <4>1. CASE i = Len(frames) + 1
        <5>1. frames'[i] = batch /\ sent' = batch.hi
          BY <1>9, <3>1, <4>1 DEF ChannelSend
        <5>. QED  BY <5>1, <2>4
      <4>2. CASE i # Len(frames) + 1
        <5>1. i \in 1 .. Len(frames) /\ frames'[i] = frames[i] /\ frames[i].hi \in Nat
          BY <3>1, <4>2, PieceTyped
        <5>2. frames[i].hi <= sent
          BY <5>1 DEF IInv, Behind
        <5>. QED  BY <5>1, <5>2, <2>4
      <4>. QED  BY <4>1, <4>2
    <3>3. parsed' = parsed /\ parsed <= sent /\ parsed \in Nat
      BY <1>9 DEF ChannelSend, IInv, Behind,
         TypeOK, ChildTypes, PumpTypes, SenderTypes, CreditTypes, ViewTypes
    <3>4. parsed' <= sent'
      BY <3>3, <2>4
    <3>. QED  BY <3>2, <3>4 DEF Behind
  <2>11. CreditAccounting' /\ CreditBound' /\ UnackedBound'
    <3>1. Unacked \in Int /\ Unacked' \in Int /\ credits \in Int /\ credits' = credits
          /\ cellLive' = cellLive /\ failed' = failed
      BY <1>9, <2>4, <2>10 DEF ChannelSend, creditVars, Unacked, IInv,
         TypeOK, ChildTypes, PumpTypes, SenderTypes, CreditTypes, ViewTypes
    <3>. QED  BY <3>1, <2>4, <2>9, <2>10 DEF IInv, CreditAccounting, CreditBound, UnackedBound, MaxBatch
  <2>. QED  BY <2>6, <2>7, <2>8, <2>11, <2>12 DEF IInv
<1>10. CASE SendFails
  BY <1>10 DEF SendFails, childVars, pumpVars, creditVars, viewVars,
       IInv,
          TypeOK, ChildTypes, PumpTypes, SenderTypes, CreditTypes, ViewTypes, Phases, InOrder, Behind, Sizes, CreditBound, CreditAccounting, UnackedBound,
       Ending, InHand, QueueLo, PumpLo, FrameLo, Unacked, Charged, MaxBatch
<1>11. CASE DropReceiver
  <2>1. Chained(<<>>, PumpLo) /\ <<>> \in Seq(PieceType) /\ Len(<<>>) = 0
    BY EmptySeq DEF Chained
  <2>5. TypeOK'
    <3>1. TypeOK /\ 0 <= PTY_HANDOFF_CHUNKS
      BY DEF IInv
    <3>2. /\ UNCHANGED <<childVars, pumpVars, batch, paced, failed, exits, creditVars, viewVars>>
          /\ handoff' = <<>> /\ rxOpen' = FALSE /\ sendPc' = "reap"
      BY <1>11 DEF DropReceiver, ReleaseProducer
    <3>3. ChildTypes' /\ PumpTypes'
      BY <3>1, <3>2 DEF TypeOK, ChildTypes, PumpTypes, childVars, pumpVars
    <3>4. SenderTypes'
      BY <3>1, <3>2, <2>1 DEF TypeOK, SenderTypes
    <3>5. CreditTypes' /\ ViewTypes'
      BY <3>1, <3>2 DEF TypeOK, CreditTypes, ViewTypes, creditVars, viewVars
    <3>. QED  BY <3>3, <3>4, <3>5 DEF TypeOK
  <2>6. Phases'
    BY <1>11, <2>1 DEF DropReceiver, ReleaseProducer, childVars, pumpVars, creditVars, viewVars, IInv,
       TypeOK, ChildTypes, PumpTypes, SenderTypes, CreditTypes, ViewTypes, Phases, Ending
  <2>7. InOrder' /\ Behind' /\ Sizes'
    <3>1. /\ UNCHANGED <<childVars, pumpVars, batch, failed, viewVars>>
          /\ handoff' = <<>> /\ sendPc = "drop" /\ sendPc' = "reap"
      BY <1>11 DEF DropReceiver, ReleaseProducer
    <3>2. ~InHand /\ ~InHand' /\ PumpLo' = PumpLo /\ FrameLo' = FrameLo /\ QueueLo' = PumpLo
      BY <3>1 DEF InHand, PumpLo, FrameLo, QueueLo, pumpVars, viewVars
    <3>3. ~failed => QueueLo = PumpLo
      BY <3>1 DEF IInv, Phases, Ending, QueueLo
    <3>4. InOrder'
      BY <3>1, <3>2, <3>3, <2>1 DEF IInv, InOrder, childVars, pumpVars, viewVars
    <3>5. Behind'
      BY <3>1, <3>2, <2>1 DEF IInv, Behind, childVars, pumpVars, viewVars
    <3>6. Sizes'
      BY <3>1, <3>2, <2>1 DEF IInv, Sizes, childVars, pumpVars, viewVars
    <3>. QED  BY <3>4, <3>5, <3>6
  <2>8. CreditBound' /\ CreditAccounting' /\ UnackedBound'
    BY <1>11 DEF DropReceiver, ReleaseProducer, childVars, pumpVars, creditVars, viewVars, IInv, Phases, Ending,
       CreditBound, CreditAccounting, UnackedBound, Unacked, Charged, MaxBatch
  <2>. QED  BY <2>5, <2>6, <2>7, <2>8 DEF IInv
<1>12. CASE ReapCell
  <2>1. /\ UNCHANGED <<handoff, rxOpen, batch, paced, failed, exits, credits>>
        /\ UNCHANGED <<childVars, pumpVars, viewVars>>
        /\ sendPc = "reap" /\ sendPc' = "close" /\ cellLive' = FALSE
    BY <1>12 DEF ReapCell
  <2>2. ~InHand /\ ~InHand' /\ PumpLo' = PumpLo /\ FrameLo' = FrameLo /\ QueueLo' = QueueLo
        /\ Charged = 0 /\ Charged' = 0 /\ Unacked' = Unacked
    BY <2>1 DEF InHand, PumpLo, FrameLo, QueueLo, Charged, Unacked, pumpVars, viewVars
  <2>3. TypeOK'
    <3>1. TypeOK
      BY DEF IInv
    <3>2. ChildTypes' /\ PumpTypes'
      BY <2>1, <3>1 DEF TypeOK, ChildTypes, PumpTypes, childVars, pumpVars
    <3>3. SenderTypes'
      BY <2>1, <3>1 DEF TypeOK, SenderTypes, senderVars
    <3>4. CreditTypes' /\ ViewTypes'
      BY <2>1, <3>1 DEF TypeOK, CreditTypes, ViewTypes, creditVars, viewVars
    <3>. QED  BY <3>2, <3>3, <3>4 DEF TypeOK
  <2>4. Phases'
    BY <2>1 DEF IInv,
       TypeOK, ChildTypes, PumpTypes, SenderTypes, CreditTypes, ViewTypes, Phases, Ending, childVars, pumpVars, viewVars
  <2>5. InOrder' /\ Behind' /\ Sizes'
    BY <2>1, <2>2 DEF IInv, InOrder, Behind, Sizes, childVars, pumpVars, viewVars
  <2>6. CreditBound' /\ CreditAccounting' /\ UnackedBound'
    BY <2>1, <2>2 DEF IInv, CreditBound, CreditAccounting, UnackedBound, childVars, pumpVars, viewVars
  <2>. QED  BY <2>3, <2>4, <2>5, <2>6 DEF IInv
<1>13. CASE ReapSession
  <2>1. /\ UNCHANGED <<handoff, rxOpen, batch, paced, failed, exits, slave, written>>
        /\ UNCHANGED <<pumpVars, creditVars, viewVars>>
        /\ sendPc = "close" /\ sendPc' = "emit" /\ registered' = FALSE
        /\ child' = IF registered THEN "dead" ELSE child
    BY <1>13 DEF ReapSession
  <2>2. ~InHand /\ ~InHand' /\ PumpLo' = PumpLo /\ FrameLo' = FrameLo /\ QueueLo' = QueueLo
        /\ Charged = 0 /\ Charged' = 0 /\ Unacked' = Unacked
    BY <2>1 DEF InHand, PumpLo, FrameLo, QueueLo, Charged, Unacked, pumpVars, viewVars
  <2>3. TypeOK'
    <3>1. TypeOK
      BY DEF IInv
    <3>2. ChildTypes' /\ PumpTypes'
      BY <2>1, <3>1 DEF TypeOK, ChildTypes, PumpTypes, childVars, pumpVars
    <3>3. SenderTypes'
      BY <2>1, <3>1 DEF TypeOK, SenderTypes, senderVars
    <3>4. CreditTypes' /\ ViewTypes'
      BY <2>1, <3>1 DEF TypeOK, CreditTypes, ViewTypes, creditVars, viewVars
    <3>. QED  BY <3>2, <3>3, <3>4 DEF TypeOK
  <2>4. Phases'
    BY <2>1 DEF IInv,
       TypeOK, ChildTypes, PumpTypes, SenderTypes, CreditTypes, ViewTypes, Phases, Ending, pumpVars, creditVars, viewVars
  <2>5. InOrder' /\ Behind' /\ Sizes'
    BY <2>1, <2>2 DEF IInv, InOrder, Behind, Sizes, pumpVars, creditVars, viewVars
  <2>6. CreditBound' /\ CreditAccounting' /\ UnackedBound'
    BY <2>1, <2>2 DEF IInv, CreditBound, CreditAccounting, UnackedBound, pumpVars, creditVars, viewVars
  <2>. QED  BY <2>3, <2>4, <2>5, <2>6 DEF IInv
<1>14. CASE EmitExited
  <2>1. /\ UNCHANGED <<handoff, rxOpen, batch, paced, failed>>
        /\ UNCHANGED <<childVars, pumpVars, creditVars, viewVars>>
        /\ sendPc = "emit" /\ sendPc' = "done" /\ exits' = exits + 1
    BY <1>14 DEF EmitExited
  <2>2. ~InHand /\ ~InHand' /\ PumpLo' = PumpLo /\ FrameLo' = FrameLo /\ QueueLo' = QueueLo
        /\ Charged = 0 /\ Charged' = 0 /\ Unacked' = Unacked
    BY <2>1 DEF InHand, PumpLo, FrameLo, QueueLo, Charged, Unacked, pumpVars, viewVars
  <2>3. TypeOK'
    <3>1. TypeOK
      BY DEF IInv
    <3>2. ChildTypes' /\ PumpTypes'
      BY <2>1, <3>1 DEF TypeOK, ChildTypes, PumpTypes, childVars, pumpVars
    <3>3. SenderTypes'
      BY <2>1, <3>1 DEF TypeOK, SenderTypes, senderVars
    <3>4. CreditTypes' /\ ViewTypes'
      BY <2>1, <3>1 DEF TypeOK, CreditTypes, ViewTypes, creditVars, viewVars
    <3>. QED  BY <3>2, <3>3, <3>4 DEF TypeOK
  <2>4. Phases'
    BY <2>1 DEF IInv,
       TypeOK, ChildTypes, PumpTypes, SenderTypes, CreditTypes, ViewTypes, Phases, Ending, childVars, pumpVars, creditVars, viewVars
  <2>5. InOrder' /\ Behind' /\ Sizes'
    BY <2>1, <2>2 DEF IInv, InOrder, Behind, Sizes, childVars, pumpVars, creditVars, viewVars
  <2>6. CreditBound' /\ CreditAccounting' /\ UnackedBound'
    BY <2>1, <2>2 DEF IInv, CreditBound, CreditAccounting, UnackedBound, childVars, pumpVars, creditVars, viewVars
  <2>. QED  BY <2>3, <2>4, <2>5, <2>6 DEF IInv
<1>. QED  BY <1>1, <1>2, <1>3, <1>4, <1>5, <1>6, <1>7, <1>8, <1>9, <1>10, <1>11, <1>12, <1>13, <1>14 DEF Sender

(* The webview parses a frame. *)
LEMMA WebviewIInv == IInv /\ Webview => IInv'
<1>. SUFFICES ASSUME IInv, Webview PROVE IInv'
  OBVIOUS
<1>. USE SizesAssumption, CreditAssumption
<1>1. CASE ParseAcked
  <2>1. /\ frames # <<>> /\ frames' = Tail(frames) /\ parsed' = Head(frames).hi
        /\ acks' = acks + Head(frames).len
    BY <1>1 DEF ParseAcked, ParseFrame
  <2>2. /\ Head(frames) \in PieceType /\ Gapless(Head(frames))
        /\ Head(frames).lo = parsed
        /\ frames' \in Seq(PieceType)
        /\ Chained(frames', sent)
        /\ parsed' = IF frames' = <<>> THEN sent ELSE frames'[1].lo
    BY <2>1, ChainTail DEF IInv,
       TypeOK, ChildTypes, PumpTypes, SenderTypes, CreditTypes, ViewTypes, InOrder, FrameLo
  <2>3. /\ parsed \in Nat /\ sent \in Nat /\ acks \in Nat /\ lost \in Nat
        /\ Head(frames).len \in Nat /\ Head(frames).hi \in Nat
    BY <2>2, PieceTyped DEF IInv, TypeOK, ChildTypes, PumpTypes, SenderTypes, CreditTypes, ViewTypes
  <2>4. Head(frames).len = Head(frames).hi - parsed
    BY <2>2 DEF Gapless
  <2>8. parsed' \in Nat /\ acks' \in Nat /\ lost' = lost /\ sent' = sent
    BY <1>1, <2>1, <2>3 DEF ParseAcked
  <2>9. Unacked' = Unacked
    <3>. DEFINE n == Head(frames).len  h == Head(frames).hi
    <3>1. n \in Nat /\ h \in Nat /\ n = h - parsed /\ parsed' = h
      BY <2>1, <2>3, <2>4
    <3>2. acks' = acks + n /\ lost' = lost /\ sent' = sent
      BY <2>1, <2>8
    <3>. HIDE DEF n, h
    <3>. QED  BY <3>1, <3>2, <2>3 DEF Unacked
  <2>10. TypeOK'
    <3>1. TypeOK
      BY DEF IInv
    <3>2. UNCHANGED <<childVars, pumpVars, senderVars, creditVars, sent, attached, disposed, webview, lost>>
      BY <1>1 DEF ParseAcked
    <3>. QED  BY <3>1, <3>2, <2>2, <2>8 DEF
       TypeOK, ChildTypes, PumpTypes, SenderTypes, CreditTypes, ViewTypes, childVars, pumpVars, senderVars, creditVars
  <2>5. Phases' /\ Sizes' /\ InOrder'
    BY <1>1, <2>1, <2>2 DEF ParseAcked, childVars, pumpVars, senderVars, creditVars,
       IInv, Phases, Ending, Sizes, InOrder, InHand, QueueLo, PumpLo, FrameLo
  <2>6. CreditAccounting' /\ CreditBound' /\ UnackedBound'
    BY <1>1, <2>9 DEF ParseAcked, childVars, pumpVars, senderVars, creditVars,
       IInv, CreditAccounting, CreditBound, UnackedBound, Charged, MaxBatch
  <2>7. Behind'
    <3>1. \A i \in 1 .. Len(frames') : frames'[i].hi <= sent
      BY <2>1, ChainTail DEF IInv, InOrder,
         TypeOK, ChildTypes, PumpTypes, SenderTypes, CreditTypes, ViewTypes, Behind
    <3>2. Head(frames).hi <= sent
      BY <2>1, HeadInRange DEF IInv,
         TypeOK, ChildTypes, PumpTypes, SenderTypes, CreditTypes, ViewTypes, Behind
    <3>. QED  BY <1>1, <2>1, <3>1, <3>2 DEF ParseAcked, Behind
  <2>. QED  BY <2>10, <2>5, <2>6, <2>7 DEF IInv
<1>2. CASE ParseUnacked
  <2>1. /\ frames # <<>> /\ frames' = Tail(frames) /\ parsed' = Head(frames).hi
        /\ lost' = lost + Head(frames).len
    BY <1>2 DEF ParseUnacked, ParseFrame
  <2>2. /\ Head(frames) \in PieceType /\ Gapless(Head(frames))
        /\ Head(frames).lo = parsed
        /\ frames' \in Seq(PieceType)
        /\ Chained(frames', sent)
        /\ parsed' = IF frames' = <<>> THEN sent ELSE frames'[1].lo
    BY <2>1, ChainTail DEF IInv,
       TypeOK, ChildTypes, PumpTypes, SenderTypes, CreditTypes, ViewTypes, InOrder, FrameLo
  <2>3. /\ parsed \in Nat /\ sent \in Nat /\ acks \in Nat /\ lost \in Nat
        /\ Head(frames).len \in Nat /\ Head(frames).hi \in Nat
    BY <2>2, PieceTyped DEF IInv, TypeOK, ChildTypes, PumpTypes, SenderTypes, CreditTypes, ViewTypes
  <2>4. Head(frames).len = Head(frames).hi - parsed
    BY <2>2 DEF Gapless
  <2>8. parsed' \in Nat /\ lost' \in Nat /\ acks' = acks /\ sent' = sent
    BY <1>2, <2>1, <2>3 DEF ParseUnacked
  <2>9. Unacked' = Unacked
    <3>. DEFINE n == Head(frames).len  h == Head(frames).hi
    <3>1. n \in Nat /\ h \in Nat /\ n = h - parsed /\ parsed' = h
      BY <2>1, <2>3, <2>4
    <3>2. lost' = lost + n /\ acks' = acks /\ sent' = sent
      BY <2>1, <2>8
    <3>. HIDE DEF n, h
    <3>. QED  BY <3>1, <3>2, <2>3 DEF Unacked
  <2>10. TypeOK'
    <3>1. TypeOK
      BY DEF IInv
    <3>2. UNCHANGED <<childVars, pumpVars, senderVars, creditVars, sent, attached, disposed, webview, acks>>
      BY <1>2 DEF ParseUnacked
    <3>. QED  BY <3>1, <3>2, <2>2, <2>8 DEF
       TypeOK, ChildTypes, PumpTypes, SenderTypes, CreditTypes, ViewTypes, childVars, pumpVars, senderVars, creditVars
  <2>5. Phases' /\ Sizes' /\ InOrder'
    BY <1>2, <2>1, <2>2 DEF ParseUnacked, childVars, pumpVars, senderVars, creditVars,
       IInv, Phases, Ending, Sizes, InOrder, InHand, QueueLo, PumpLo, FrameLo
  <2>6. CreditAccounting' /\ CreditBound' /\ UnackedBound'
    BY <1>2, <2>9 DEF ParseUnacked, childVars, pumpVars, senderVars, creditVars,
       IInv, CreditAccounting, CreditBound, UnackedBound, Charged, MaxBatch
  <2>7. Behind'
    <3>1. \A i \in 1 .. Len(frames') : frames'[i].hi <= sent
      BY <2>1, ChainTail DEF IInv, InOrder,
         TypeOK, ChildTypes, PumpTypes, SenderTypes, CreditTypes, ViewTypes, Behind
    <3>2. Head(frames).hi <= sent
      BY <2>1, HeadInRange DEF IInv,
         TypeOK, ChildTypes, PumpTypes, SenderTypes, CreditTypes, ViewTypes, Behind
    <3>. QED  BY <1>2, <2>1, <3>1, <3>2 DEF ParseUnacked, Behind
  <2>. QED  BY <2>10, <2>5, <2>6, <2>7 DEF IInv
<1>. QED  BY <1>1, <1>2 DEF Webview

(* An acknowledgement arrives: what it refills was in flight, so the       *)
(* window never overflows.                                                 *)
LEMMA PtyAckIInv == IInv /\ PtyAck => IInv'
<1>. SUFFICES ASSUME IInv, PtyAck PROVE IInv'
  OBVIOUS
<1>. USE SizesAssumption, CreditAssumption
<1>1. PICK k \in 1 .. acks :
        /\ acks' = acks - k
        /\ credits' = IF cellLive THEN Refilled(k) ELSE credits
  BY DEF PtyAck
<1>2. k \in Nat /\ k > 0 /\ acks' \in Nat /\ credits \in Int
  BY <1>1 DEF IInv, TypeOK, ChildTypes, PumpTypes, SenderTypes, CreditTypes, ViewTypes
<1>3. credits' \in Int /\ credits' <= PTY_CREDIT_BYTES /\ credits' >= credits
  BY <1>1, <1>2 DEF Refilled, Smaller, IInv,
     TypeOK, ChildTypes, PumpTypes, SenderTypes, CreditTypes, ViewTypes
<1>4. sent - parsed >= 0 /\ Charged >= 0 /\ Charged \in Int
  BY DEF Charged, Behind, IInv, TypeOK, ChildTypes, PumpTypes, SenderTypes, CreditTypes, ViewTypes, PieceType
<1>5. Unacked' = Unacked - k /\ Charged' = Charged /\ Unacked \in Int
  BY <1>1, <1>2 DEF PtyAck, Unacked, Charged, senderVars, IInv,
     TypeOK, ChildTypes, PumpTypes, SenderTypes, CreditTypes, ViewTypes
<1>6. cellLive /\ ~failed => credits' = credits + k
  <2>1. Unacked >= k
    BY <1>1, <1>2, <1>4 DEF Unacked, IInv, TypeOK, ChildTypes, PumpTypes, SenderTypes, CreditTypes, ViewTypes
  <2>. QED  BY <2>1, <1>1, <1>2, <1>4, <1>5 DEF Refilled, Smaller, IInv,
     TypeOK, ChildTypes, PumpTypes, SenderTypes, CreditTypes, ViewTypes, CreditAccounting
<1>7. CreditAccounting' /\ CreditBound' /\ UnackedBound'
  BY <1>2, <1>3, <1>4, <1>5, <1>6 DEF PtyAck, senderVars,
     IInv, CreditAccounting, CreditBound, UnackedBound, MaxBatch
<1>8. TypeOK' /\ Phases' /\ Sizes' /\ InOrder' /\ Behind'
  BY <1>2, <1>3 DEF PtyAck, childVars, pumpVars, senderVars,
     IInv,
        TypeOK, ChildTypes, PumpTypes, SenderTypes, CreditTypes, ViewTypes, Phases, Ending, Behind, Sizes, InOrder, InHand, QueueLo, PumpLo, FrameLo
<1>. QED  BY <1>7, <1>8 DEF IInv

(* The invariant holds in every reachable state. *)
THEOREM Invariance == Spec => []IInv
<1>1. IInv /\ [Next]_vars => IInv'
  BY StutterIInv, EnvironmentIInv, PumpIInv, SenderIInv, WebviewIInv, PtyAckIInv DEF Next
<1>. QED  BY InitIInv, <1>1, PTL DEF Spec

(* Every variable keeps its type; the hand-off queue never exceeds its     *)
(* capacity and the balance never exceeds the window.                      *)
THEOREM TypeCorrect == Spec => []TypeOK
<1>1. IInv => TypeOK
  BY DEF IInv
<1>. QED  BY Invariance, <1>1, PTL

(* No byte of the output is lost, doubled or reordered on its way to the   *)
(* terminal.                                                               *)
THEOREM OrderPreserved == Spec => []InOrder
<1>1. IInv => InOrder
  BY DEF IInv
<1>. QED  BY Invariance, <1>1, PTL

(* The balance of the credit cell is the window minus the bytes in flight. *)
THEOREM CreditConserved == Spec => []CreditAccounting
<1>1. IInv => CreditAccounting
  BY DEF IInv
<1>. QED  BY Invariance, <1>1, PTL

(* The bytes in flight to the webview are bounded, whatever it does.       *)
THEOREM InFlightBounded == Spec => []UnackedBound
<1>1. IInv => UnackedBound
  BY DEF IInv
<1>. QED  BY Invariance, <1>1, PTL

(* The exit is announced once and after everything else.                   *)
THEOREM ExitIsLast == Spec => []ExitComesLast
<1>1. IInv => ExitComesLast
  BY DEF IInv,
     TypeOK, ChildTypes, PumpTypes, SenderTypes, CreditTypes, ViewTypes, Phases, Ending, InOrder, InHand, QueueLo, PumpLo, ExitComesLast
<1>. QED  BY Invariance, <1>1, PTL

----------------------------------------------------------------------------
(* The session implements the byte stream of ByteStream.tla. *)

(* Nothing on its way was taken from beyond what the pump has read. *)
Ahead ==
  /\ sent <= read
  /\ InHand => batch.hi <= read
  /\ \A i \in 1 .. Len(handoff) : handoff[i].hi <= read

LEMMA AheadStep == IInv /\ IInv' /\ Ahead /\ [Next]_vars => Ahead'
<1>. SUFFICES ASSUME IInv, IInv', Ahead, [Next]_vars PROVE Ahead'
  OBVIOUS
<1>. USE SizesAssumption
<1>1. CASE UNCHANGED <<read, handoff, sendPc, batch, sent>>
  BY <1>1 DEF Ahead, InHand
<1>2. CASE PumpRead
  <2>1. PICK n \in 1 .. Smaller(READ_BUF, written - read) : read' = read + n
    BY <1>2 DEF PumpRead
  <2>2. read \in Nat /\ read' \in Nat /\ read <= read'
    BY <2>1 DEF IInv, TypeOK, ChildTypes, PumpTypes, SenderTypes, CreditTypes, ViewTypes
  <2>3. UNCHANGED <<handoff, sendPc, batch, sent>>
    BY <1>2 DEF PumpRead, senderVars, viewVars
  <2>4. sent \in Nat /\ batch.hi \in Nat
    BY PieceTyped DEF IInv, TypeOK, ChildTypes, PumpTypes, SenderTypes, CreditTypes, ViewTypes
  <2>5. ASSUME NEW i \in 1 .. Len(handoff) PROVE handoff[i].hi \in Nat
    <3>1. handoff \in Seq(PieceType)
      BY DEF IInv, TypeOK, ChildTypes, PumpTypes, SenderTypes, CreditTypes, ViewTypes
    <3>2. handoff[i] \in PieceType
      BY <3>1
    <3>. QED  BY <3>2, PieceTyped
  <2>. QED  BY <2>2, <2>3, <2>4, <2>5 DEF Ahead, InHand
<1>3. CASE PumpSend
  <2>1. /\ chunk \in PieceType /\ chunk.hi = read /\ handoff \in Seq(PieceType)
        /\ handoff' = Append(handoff, chunk)
    BY <1>3 DEF PumpSend, IInv, TypeOK, ChildTypes, PumpTypes, SenderTypes, CreditTypes, ViewTypes, InOrder
  <2>2. /\ Len(handoff') = Len(handoff) + 1 /\ Len(handoff) \in Nat
        /\ \A i \in 1 .. Len(handoff) : handoff'[i] = handoff[i]
        /\ handoff'[Len(handoff) + 1] = chunk
    BY <2>1, AppendProperties
  <2>3. UNCHANGED <<read, sendPc, batch, sent>> /\ read <= read
    BY <1>3 DEF PumpSend, viewVars, IInv, TypeOK, ChildTypes, PumpTypes, SenderTypes, CreditTypes, ViewTypes
  <2>4. ASSUME NEW i \in 1 .. Len(handoff') PROVE handoff'[i].hi <= read
    <3>1. CASE i = Len(handoff) + 1
      BY <3>1, <2>1, <2>2, <2>3
    <3>2. CASE i # Len(handoff) + 1
      BY <3>2, <2>2 DEF Ahead
    <3>. QED  BY <3>1, <3>2
  <2>. QED  BY <2>3, <2>4 DEF Ahead, InHand
<1>4. CASE RecvFirst \/ Drain \/ PaceTake
  <2>1. /\ handoff # <<>> /\ handoff' = Tail(handoff)
        /\ batch' = Head(handoff) \/ batch' = Join(batch, Head(handoff))
        /\ UNCHANGED <<read, sent>>
    BY <1>4 DEF RecvFirst, Drain, PaceTake, TakeInto, pumpVars, viewVars
  <2>2. /\ Len(handoff') = Len(handoff) - 1 /\ Len(handoff) \in Nat \ {0}
        /\ \A i \in 1 .. Len(handoff') : handoff'[i] = handoff[i + 1]
        /\ Head(handoff) = handoff[1]
    BY <2>1, HeadTailProperties, EmptySeq DEF IInv,
       TypeOK, ChildTypes, PumpTypes, SenderTypes, CreditTypes, ViewTypes
  <2>3. batch'.hi = Head(handoff).hi
    BY <2>1 DEF Join
  <2>4. batch'.hi <= read
    BY <2>2, <2>3 DEF Ahead
  <2>5. \A i \in 1 .. Len(handoff') : handoff'[i].hi <= read
    BY <2>2 DEF Ahead
  <2>. QED  BY <2>1, <2>4, <2>5 DEF Ahead
<1>5. CASE DrainEnd \/ PaceEnd \/ StreamEnd \/ Consume \/ Probe \/ SendFails
           \/ ReapCell \/ ReapSession \/ EmitExited
  <2>1. UNCHANGED <<read, handoff, batch, sent>>
    <3>1. UNCHANGED <<handoff, batch, pumpVars, viewVars>>
      BY <1>5 DEF DrainEnd, PaceEnd, StreamEnd, Consume, Probe, SendFails, ReapCell,
         ReapSession, EmitExited
    <3>. QED  BY <3>1 DEF pumpVars, viewVars
  <2>2. InHand' => InHand
    BY <1>5 DEF DrainEnd, PaceEnd, StreamEnd, Consume, Probe, SendFails, ReapCell,
       ReapSession, EmitExited, InHand
  <2>. QED  BY <2>1, <2>2 DEF Ahead
<1>6. CASE ChannelSend
  <2>1. UNCHANGED <<read, handoff>> /\ sent' = batch.hi /\ ~InHand' /\ InHand
    BY <1>6 DEF ChannelSend, pumpVars, InHand
  <2>. QED  BY <2>1 DEF Ahead
<1>7. CASE DropReceiver
  <2>1. handoff' = <<>> /\ Len(<<>>) = 0 /\ UNCHANGED <<read, sent>> /\ ~InHand'
    BY <1>7, EmptySeq DEF DropReceiver, ReleaseProducer, pumpVars, viewVars, InHand
  <2>. QED  BY <2>1 DEF Ahead
<1>8. CASE Environment \/ Webview \/ PtyAck \/ PumpEof \/ PumpReadError \/ PumpSendError
           \/ UNCHANGED vars
  <2>1. UNCHANGED <<read, handoff, sendPc, batch, sent>>
    BY <1>8 DEF Environment, ChildWrite, ChildExit, SlaveClose, ClosePty, Attach, DisposePane,
       WebviewGone, Webview, ParseAcked, ParseUnacked, PtyAck, PumpEof, PumpReadError, PumpSendError,
       vars, pumpVars, senderVars, viewVars
  <2>. QED  BY <2>1, <1>1
<1>. QED
  BY <1>2, <1>3, <1>4, <1>5, <1>6, <1>7, <1>8 DEF Next, Pump, PumpProgress, Sender

LEMMA AheadInit == Init => Ahead
BY EmptySeq DEF Init, Ahead, InHand

LEMMA StreamStep == IInv /\ IInv' /\ Ahead /\ [Next]_vars => [Stream!Next]_(Stream!streamVars)
<1>. SUFFICES ASSUME IInv, IInv', Ahead, [Next]_vars PROVE [Stream!Next]_(Stream!streamVars)
  OBVIOUS
<1>. USE DEF Stream!Next, Stream!streamVars, streamStatus
<1>1. CASE UNCHANGED <<written, slave, sent, exits>> /\ (exits > 0 => UNCHANGED (failed \/ torn))
  BY <1>1 DEF IInv, TypeOK, ChildTypes, PumpTypes, SenderTypes, CreditTypes, ViewTypes
<1>2. CASE ChildWrite
  BY <1>2 DEF ChildWrite, pumpVars, senderVars, viewVars, Stream!Produce
<1>3. CASE SlaveClose
  BY <1>3 DEF SlaveClose, pumpVars, senderVars, viewVars, Stream!Seal
<1>4. CASE ChannelSend
  <2>1. ~failed /\ exits = 0 /\ InHand
    BY <1>4 DEF ChannelSend, IInv, Phases, Ending, InHand
  <2>2. /\ Gapless(batch) /\ batch.lo = sent /\ batch \in PieceType
        /\ batch.hi <= read /\ read <= written
    BY <2>1 DEF IInv, TypeOK, ChildTypes, PumpTypes, SenderTypes, CreditTypes, ViewTypes, InOrder, Ahead
  <2>3. sent' \in (sent + 1) .. written
    BY <1>4, <2>2, PieceTyped DEF ChannelSend, Gapless, IInv,
       TypeOK, ChildTypes, PumpTypes, SenderTypes, CreditTypes, ViewTypes
  <2>4. UNCHANGED <<written, slave, exits, failed, torn>>
    BY <1>4 DEF ChannelSend, childVars, pumpVars
  <2>. QED  BY <2>1, <2>3, <2>4 DEF Stream!Forward
<1>5. CASE EmitExited
  <2>1. exits = 0 /\ exits' = 1 /\ UNCHANGED <<written, slave, sent, failed, torn>> /\ Ending /\ ~InHand
    BY <1>5 DEF EmitExited, childVars, pumpVars, viewVars, IInv, Phases, Ending, InHand
  <2>2. CASE failed \/ torn
    BY <2>1, <2>2 DEF Stream!Abort
  <2>3. CASE ~failed /\ ~torn
    <3>1. slave = "closed" /\ sent = written
      BY <2>1, <2>3 DEF IInv, Phases, InOrder, QueueLo, PumpLo
    <3>. QED  BY <2>1, <2>3, <3>1 DEF Stream!Finish
  <2>. QED  BY <2>2, <2>3
<1>6. CASE SendFails
  BY <1>6, <1>1 DEF SendFails, childVars, pumpVars, viewVars, IInv, Phases
<1>7. CASE RecvFirst \/ Drain \/ DrainEnd \/ PaceTake \/ PaceEnd \/ StreamEnd
           \/ Consume \/ Probe \/ DropReceiver \/ ReapCell \/ ReapSession
  BY <1>7, <1>1 DEF RecvFirst, Drain, DrainEnd, PaceTake, PaceEnd, StreamEnd, Consume, Probe,
     DropReceiver, ReapCell, ReapSession, childVars, pumpVars, viewVars
<1>8. CASE ChildExit \/ ClosePty \/ Attach \/ DisposePane \/ WebviewGone
           \/ Pump \/ Webview \/ PtyAck \/ UNCHANGED vars
  BY <1>8, <1>1 DEF ChildExit, ClosePty, Attach, DisposePane, WebviewGone, Pump, PumpProgress, PumpRead,
     PumpEof, PumpReadError, PumpSend, PumpSendError, Webview, ParseAcked, ParseUnacked, PtyAck,
     vars, childVars, pumpVars, senderVars, viewVars, IInv, Phases, Ending
<1>. QED
  BY <1>2, <1>3, <1>4, <1>5, <1>6, <1>7, <1>8 DEF Next, Environment, Sender

(* A session is a byte stream: its steps are steps of ByteStream, or none. *)
THEOREM StreamRefinement == Spec => StreamSpec
<1>1. Init => Stream!Init
  BY DEF Init, Stream!Init, streamStatus
<1>2. IInv /\ IInv' /\ Ahead /\ [Next]_vars => Ahead'
  BY AheadStep
<1>3. IInv /\ IInv' /\ Ahead /\ [Next]_vars => [Stream!Next]_(Stream!streamVars)
  BY StreamStep
<1>. QED
  BY <1>1, <1>2, <1>3, AheadInit, Invariance, PTL DEF Spec, StreamSpec, Stream!Spec
=============================================================================
