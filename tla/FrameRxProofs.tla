----------------------------- MODULE FrameRxProofs -----------------------------
(***************************************************************************)
(* For every payload length and every set of frames that do not contain    *)
(* the magic: ingest never stores outside payload_, and of two frames in a *)
(* row that arrive whole it accepts at least one.                          *)
(***************************************************************************)
EXTENDS FrameRx, TLAPS

\* Bytes ingest still takes before it looks for the magic again.
Need == IF rx = "Seq" THEN TERM_PAYLOAD + 6
        ELSE IF rx = "Cx" THEN TERM_PAYLOAD + 5
        ELSE IF rx = "Cy" THEN TERM_PAYLOAD + 4
        ELSE IF rx = "Flags" THEN TERM_PAYLOAD + 3
        ELSE IF rx = "Payload" THEN TERM_PAYLOAD + 2 - got
        ELSE IF rx = "CrcHi" THEN 2
        ELSE IF rx = "CrcLo" THEN 1
        ELSE 0

\* got and buf agree with the parser's state.
Stored == ~Hunting => Len(buf) + Need = ContentLen

\* The parser follows the frame being written.
InStep ==
  \/ pos = 1 /\ Hunting
  \/ pos = 2 /\ rx = "M1"
  \/ pos = 3 /\ rx = "M2"
  \/ pos = 4 /\ rx = "M3"
  \/ /\ pos >= 5 /\ ~Hunting
     /\ Len(buf) = pos - 5
     /\ \A k \in 1 .. Len(buf) : buf[k] = content[k]

\* It is still taking the frame before, which ends inside this one; or that
\* frame has ended, and it looks for the magic in the rest of this one: in
\* state Mk the k bytes before pos are the magic's first k.
Lagging ==
  \/ ~Hunting /\ Need + pos <= FrameLen - 3
  \/ pos >= 2 /\ rx = "M0"
  \/ pos >= 3 /\ rx = "M1" /\ FrameByte(content, pos - 1) = FRAME_M0
  \/ /\ pos >= 4 /\ rx = "M2"
     /\ FrameByte(content, pos - 2) = FRAME_M0 /\ FrameByte(content, pos - 1) = FRAME_M1
  \/ /\ pos >= 5 /\ rx = "M3"
     /\ FrameByte(content, pos - 3) = FRAME_M0 /\ FrameByte(content, pos - 2) = FRAME_M1
     /\ FrameByte(content, pos - 1) = FRAME_M2

\* The inductive invariant: while the current frame is whole, the parser is in
\* step with it, or behind it, and behind only if the frame before was not missed.
Sync ==
  /\ missed <= 1
  /\ ~whole => missed = 0
  /\ whole => InStep \/ (missed = 0 /\ Lagging)

IInv == TypeOK /\ PayloadInBounds /\ Stored /\ Sync

\* What the host writes are bytes: the magic, then the content.
LEMMA FrameBytes ==
  ASSUME TypeOK
  PROVE  /\ FrameByte(content, pos) \in Byte
         /\ pos > 4 => FrameByte(content, pos) = content[pos - 4]
<1>1. content \in [1 .. TERM_PAYLOAD + 6 -> Byte] /\ pos \in 1 .. TERM_PAYLOAD + 10
  BY RxAssumption DEF TypeOK, FrameLen, ContentLen
<1>2. CASE pos \in 1 .. 4
  BY <1>2 DEF FrameByte, Byte, FRAME_M0, FRAME_M1, FRAME_M2, FRAME_M3
<1>3. CASE pos > 4
  <2>1. FrameByte(content, pos) = content[pos - 4] /\ pos - 4 \in 1 .. TERM_PAYLOAD + 6
    BY <1>1, <1>3, RxAssumption DEF FrameByte
  <2>2. QED
    BY <2>1, <1>1
<1>4. QED
  BY <1>1, <1>2, <1>3, RxAssumption

\* The magic never stands at position 2 or later of a frame.
LEMMA NoMagicInside ==
  ASSUME TypeOK, pos >= 5,
         FrameByte(content, pos - 3) = FRAME_M0, FrameByte(content, pos - 2) = FRAME_M1,
         FrameByte(content, pos - 1) = FRAME_M2, FrameByte(content, pos) = FRAME_M3
  PROVE  FALSE
<1> DEFINE k == pos - 7
<1>1. pos \in 5 .. TERM_PAYLOAD + 10 /\ TERM_PAYLOAD \in Nat
  BY RxAssumption DEF TypeOK, FrameLen, ContentLen
<1>2. FRAME_M0 # FRAME_M1 /\ FRAME_M0 # FRAME_M2 /\ FRAME_M0 # FRAME_M3
  BY DEF FRAME_M0, FRAME_M1, FRAME_M2, FRAME_M3
<1>3. pos - 3 > 4
  BY <1>1, <1>2 DEF FrameByte
<1>4. k \in 1 .. ContentLen - 3
  BY <1>1, <1>3 DEF ContentLen
<1>5. /\ content[k] = FRAME_M0 /\ content[k + 1] = FRAME_M1
      /\ content[k + 2] = FRAME_M2 /\ content[k + 3] = FRAME_M3
  BY <1>1, <1>3 DEF FrameByte
<1>6. QED
  BY <1>4, <1>5, RxAssumption DEF TypeOK
-----------------------------------------------------------------------------
(* One byte taken by ingest                                                *)

\* The parser's own variables keep their types, got stays inside payload_, and
\* the state says how many bytes are stored.
LEMMA IngestStores ==
  ASSUME TypeOK, PayloadInBounds, Stored, NEW b \in Byte, Ingest(b)
  PROVE  /\ rx' \in RxStates /\ got' \in 0 .. TERM_PAYLOAD /\ buf' \in Seq(Byte)
         /\ PayloadInBounds' /\ Stored'
<1> USE RxAssumption DEF TypeOK, PayloadInBounds, Stored, Hunting, RxStates, ContentLen
<1>1. CASE Mismatch(b)
  BY <1>1 DEF Mismatch
<1>2. CASE Hunt(b) /\ ~Mismatch(b)
  <2>1. CASE rx' = "Seq" /\ buf' = <<>> /\ got' = got
    <3>1. buf' \in Seq(Byte) /\ Len(buf') = 0
      BY <2>1
    <3>2. QED
      BY <2>1, <3>1 DEF Need
  <2>2. CASE rx' \in {"M2", "M3"} /\ buf' = buf /\ got' = got
    BY <2>2
  <2>3. QED
    BY <1>2, <2>1, <2>2 DEF Hunt
<1>3. CASE Header(b)
  BY <1>3 DEF Header, Need
<1>4. CASE Payload(b)
  <2>1. buf' \in Seq(Byte) /\ Len(buf') = Len(buf) + 1 /\ got' = got + 1 /\ Len(buf) = got + 4
    BY <1>4 DEF Payload, Need
  <2>2. CASE got + 1 >= TERM_PAYLOAD
    <3>1. rx' = "CrcHi" /\ got + 1 = TERM_PAYLOAD
      BY <1>4, <2>2 DEF Payload
    <3>2. QED
      BY <2>1, <3>1 DEF Need
  <2>3. CASE got + 1 < TERM_PAYLOAD
    <3>1. rx' = "Payload"
      BY <1>4, <2>3 DEF Payload
    <3>2. QED
      BY <2>1, <2>3, <3>1 DEF Need
  <2>4. QED
    BY <2>2, <2>3
<1>5. CASE CrcHi(b)
  BY <1>5 DEF CrcHi, Need
<1>6. CASE CrcLo(b)
  BY <1>6 DEF CrcLo, Need
<1>7. QED
  BY <1>1, <1>2, <1>3, <1>4, <1>5, <1>6 DEF Ingest

\* Taking a frame, it stores the byte and needs one byte less; the last one
\* sends it back to the hunt.
LEMMA IngestCollects ==
  ASSUME TypeOK, PayloadInBounds, Stored, NEW b \in Byte, Ingest(b), ~Hunting
  PROVE  /\ buf' = Append(buf, b)
         /\ Need' = Need - 1
         /\ Need \in Nat \ {0}
         /\ Need = 1 <=> rx = "CrcLo"
         /\ IF rx = "CrcLo" THEN rx' = "M0" ELSE ~Hunting'
<1> USE RxAssumption DEF TypeOK, PayloadInBounds, Stored, Hunting, Need, RxStates, ContentLen
<1>1. ~Hunt(b)
  BY DEF Hunt, Mismatch, Matches
<1>2. CASE Header(b)
  BY <1>2 DEF Header
<1>3. CASE Payload(b)
  BY <1>3 DEF Payload
<1>4. CASE CrcHi(b)
  BY <1>4 DEF CrcHi
<1>5. CASE CrcLo(b)
  BY <1>5 DEF CrcLo
<1>6. QED
  BY <1>1, <1>2, <1>3, <1>4, <1>5 DEF Ingest

\* Hunting, it moves along the magic, and starts over at its first byte.
LEMMA IngestHunts ==
  ASSUME NEW b \in Byte, Ingest(b), Hunting
  PROVE  /\ rx = "M3" /\ b = FRAME_M3 => rx' = "Seq" /\ buf' = <<>>
         /\ b = FRAME_M0 => rx' = "M1"
         /\ rx = "M1" /\ b = FRAME_M1 => rx' = "M2"
         /\ rx = "M2" /\ b = FRAME_M2 => rx' = "M3"
         /\ ~(rx = "M3" /\ b = FRAME_M3) => Hunting'
         /\ rx' = "M1" => b = FRAME_M0
         /\ rx' = "M2" => rx = "M1" /\ b = FRAME_M1
         /\ rx' = "M3" => rx = "M2" /\ b = FRAME_M2
<1>1. Hunt(b)
  BY DEF Ingest, Header, Payload, CrcHi, CrcLo, Hunting
<1>2. QED
  BY <1>1 DEF Hunt, Mismatch, Matches, Hunting, FRAME_M0, FRAME_M1, FRAME_M2, FRAME_M3
-----------------------------------------------------------------------------
(* Following the frame that is being written                               *)

\* In step before the last byte, ingest stays in step.
LEMMA StaysInStep ==
  ASSUME IInv, InStep, pos < FrameLen, Ingest(FrameByte(content, pos)),
         pos' = pos + 1, content' = content
  PROVE  InStep'
<1> DEFINE b == FrameByte(content, pos)
<1> USE RxAssumption DEF FrameLen, ContentLen
<1>1. b \in Byte /\ (pos > 4 => b = content[pos - 4])
  BY FrameBytes DEF IInv
<1>2. pos \in 1 .. TERM_PAYLOAD + 9 /\ TypeOK /\ PayloadInBounds /\ Stored
  BY DEF IInv, TypeOK
<1>3. CASE pos <= 4
  <2>1. Hunting
    BY <1>2, <1>3 DEF InStep, Hunting
  <2>2. /\ pos = 1 => b = FRAME_M0
        /\ pos = 2 => b = FRAME_M1
        /\ pos = 3 => b = FRAME_M2
        /\ pos = 4 => b = FRAME_M3
    BY DEF FrameByte
  <2>3. CASE pos = 1
    BY <2>1, <2>2, <2>3, <1>1, IngestHunts DEF InStep
  <2>4. CASE pos = 2
    BY <2>1, <2>2, <2>4, <1>1, IngestHunts DEF InStep
  <2>5. CASE pos = 3
    BY <2>1, <2>2, <2>5, <1>1, IngestHunts DEF InStep
  <2>6. CASE pos = 4
    <3>1. rx' = "Seq" /\ buf' = <<>>
      BY <2>1, <2>2, <2>6, <1>1, IngestHunts DEF InStep
    <3>2. QED
      BY <2>6, <3>1 DEF InStep, Hunting
  <2>7. QED
    BY <1>2, <1>3, <2>3, <2>4, <2>5, <2>6
<1>4. CASE pos > 4
  <2>1. /\ ~Hunting /\ Len(buf) = pos - 5 /\ buf \in Seq(Byte)
        /\ \A k \in 1 .. Len(buf) : buf[k] = content[k]
    BY <1>2, <1>4 DEF InStep, TypeOK
  <2>2. Need \in Nat /\ Need = FrameLen - pos + 1
    <3>1. Need \in Nat
      BY <2>1, <1>1, <1>2, IngestCollects
    <3>2. QED
      BY <2>1, <1>2, <3>1 DEF Stored
  <2>3. buf' = Append(buf, b) /\ ~Hunting'
    <3>1. Need # 1
      BY <2>2, <1>2
    <3>2. QED
      BY <3>1, <2>1, <1>1, <1>2, IngestCollects
  <2>4. Len(buf') = pos' - 5
    BY <2>1, <2>3, <1>1, <1>2
  <2>5. \A k \in 1 .. Len(buf') : buf'[k] = content'[k]
    BY <2>1, <2>3, <2>4, <1>1, <1>2, <1>4
  <2>6. QED
    BY <2>3, <2>4, <2>5, <1>2, <1>4 DEF InStep
<1>5. QED
  BY <1>2, <1>3, <1>4

\* In step at the last byte, ingest accepts the frame and hunts again.
LEMMA InStepAccepts ==
  ASSUME IInv, InStep, pos = FrameLen, Ingest(FrameByte(content, pos))
  PROVE  Accepts(FrameByte(content, pos)) /\ Hunting'
<1> DEFINE b == FrameByte(content, pos)
<1> USE RxAssumption DEF FrameLen, ContentLen
<1>1. b \in Byte /\ b = content[TERM_PAYLOAD + 6]
  BY FrameBytes DEF IInv
<1>2. TypeOK /\ PayloadInBounds /\ Stored
  BY DEF IInv
<1>3. /\ ~Hunting /\ Len(buf) = TERM_PAYLOAD + 5 /\ buf \in Seq(Byte)
      /\ \A k \in 1 .. Len(buf) : buf[k] = content[k]
  BY <1>2 DEF InStep, TypeOK
<1>4. Need = 1
  <2>1. Need \in Nat
    BY <1>1, <1>2, <1>3, IngestCollects
  <2>2. QED
    BY <2>1, <1>3, <1>2 DEF Stored
<1>5. rx = "CrcLo" /\ rx' = "M0"
  BY <1>1, <1>2, <1>3, <1>4, IngestCollects
<1>6. Append(buf, b) = content
  <2>1. content \in [1 .. TERM_PAYLOAD + 6 -> Byte]
    BY <1>2 DEF TypeOK
  <2>2. Append(buf, b) \in [1 .. TERM_PAYLOAD + 6 -> Byte]
    <3>1. Append(buf, b) \in Seq(Byte) /\ Len(Append(buf, b)) = TERM_PAYLOAD + 6
      BY <1>1, <1>3
    <3>2. \A t \in Seq(Byte) : t \in [1 .. Len(t) -> Byte]
      OBVIOUS
    <3>3. QED
      BY <3>1, <3>2, Zenon
  <2>3. \A k \in 1 .. TERM_PAYLOAD + 6 : Append(buf, b)[k] = content[k]
    BY <1>1, <1>3
  <2>4. QED
    BY <2>1, <2>2, <2>3
<1>7. QED
  BY <1>2, <1>5, <1>6 DEF Accepts, Hunting, TypeOK

\* Behind before the last byte, ingest stays behind: it cannot find the magic
\* inside the frame.
LEMMA StaysBehind ==
  ASSUME IInv, Lagging, pos < FrameLen, Ingest(FrameByte(content, pos)),
         pos' = pos + 1, content' = content
  PROVE  Lagging'
<1> DEFINE b == FrameByte(content, pos)
<1> USE RxAssumption DEF FrameLen, ContentLen
<1>1. b \in Byte
  BY FrameBytes DEF IInv
<1>2. pos \in 1 .. TERM_PAYLOAD + 9 /\ TypeOK /\ PayloadInBounds /\ Stored
  BY DEF IInv, TypeOK
<1>3. CASE ~Hunting
  <2>1. /\ Need + pos <= FrameLen - 3 /\ Need' = Need - 1 /\ Need \in Nat \ {0}
        /\ IF rx = "CrcLo" THEN rx' = "M0" ELSE ~Hunting'
    BY <1>1, <1>2, <1>3, IngestCollects DEF Lagging, Hunting
  <2>2. QED
    BY <2>1, <1>2 DEF Lagging
<1>4. CASE Hunting
  <2>1. pos >= 2
    BY <1>2, <1>4 DEF Lagging, Hunting
  <2>2. ~(rx = "M3" /\ b = FRAME_M3)
    BY <1>2, <1>4, NoMagicInside DEF Lagging, Hunting
  <2>3. /\ Hunting'
        /\ rx' = "M1" => b = FRAME_M0
        /\ rx' = "M2" => rx = "M1" /\ b = FRAME_M1
        /\ rx' = "M3" => rx = "M2" /\ b = FRAME_M2
    BY <1>1, <1>4, <2>2, IngestHunts
  <2>5. CASE rx' = "M0"
    BY <2>1, <2>5, <1>2 DEF Lagging
  <2>6. CASE rx' = "M1"
    <3>1. b = FRAME_M0 /\ pos' >= 3 /\ pos' - 1 = pos
      BY <2>1, <2>3, <2>6, <1>2
    <3>2. QED
      BY <2>6, <3>1 DEF Lagging
  <2>7. CASE rx' = "M2"
    <3>1. rx = "M1" /\ b = FRAME_M1 /\ pos >= 3 /\ FrameByte(content, pos - 1) = FRAME_M0
      BY <2>3, <2>7 DEF Lagging, Hunting
    <3>2. pos' >= 4 /\ pos' - 2 = pos - 1 /\ pos' - 1 = pos
      BY <3>1, <1>2
    <3>3. QED
      BY <2>7, <3>1, <3>2 DEF Lagging
  <2>8. CASE rx' = "M3"
    <3>1. /\ rx = "M2" /\ b = FRAME_M2 /\ pos >= 4
          /\ FrameByte(content, pos - 2) = FRAME_M0 /\ FrameByte(content, pos - 1) = FRAME_M1
      BY <2>3, <2>8 DEF Lagging, Hunting
    <3>2. pos' >= 5 /\ pos' - 3 = pos - 2 /\ pos' - 2 = pos - 1 /\ pos' - 1 = pos
      BY <3>1, <1>2
    <3>3. QED
      BY <2>8, <3>1, <3>2 DEF Lagging
  <2>9. QED
    BY <2>3, <2>5, <2>6, <2>7, <2>8 DEF Hunting
<1>5. QED
  BY <1>3, <1>4

\* Behind at the last byte, ingest is hunting after it.
LEMMA BehindEndsHunting ==
  ASSUME IInv, Lagging, pos = FrameLen, Ingest(FrameByte(content, pos))
  PROVE  Hunting'
<1> DEFINE b == FrameByte(content, pos)
<1> USE RxAssumption DEF FrameLen, ContentLen
<1>1. b \in Byte /\ TypeOK /\ PayloadInBounds /\ Stored /\ TERM_PAYLOAD \in Nat
  BY FrameBytes DEF IInv
<1>2. Hunting
  <2>1. SUFFICES ASSUME ~Hunting PROVE FALSE
    OBVIOUS
  <2>2. Need \in Nat \ {0}
    BY <1>1, <2>1, IngestCollects
  <2>3. Need + pos <= FrameLen - 3
    BY <2>1 DEF Lagging, Hunting
  <2>4. QED
    BY <1>1, <2>2, <2>3
<1>3. ~(rx = "M3" /\ b = FRAME_M3)
  BY <1>1, <1>2, NoMagicInside DEF Lagging, Hunting
<1>4. QED
  BY <1>1, <1>2, <1>3, IngestHunts

\* Wherever the parser is when a frame begins, it is in step or behind.
LEMMA BeginsInSync ==
  ASSUME TypeOK', Stored', pos' = 1
  PROVE  InStep' \/ Lagging'
<1>1. CASE Hunting'
  BY <1>1 DEF InStep
<1>2. CASE ~Hunting'
  <2>1. TERM_PAYLOAD \in Nat
    BY RxAssumption
  <2>2. PICK g \in 0 .. TERM_PAYLOAD : got' = g
    BY DEF TypeOK
  <2>3. PICK l \in Nat : Len(buf') = l
    BY DEF TypeOK
  <2>4. PICK n \in Nat : Need' = n
    <3>1. Need' \in Nat
      BY <2>1, <2>2 DEF Need
    <3>2. QED
      BY <3>1
  <2>5. Need' + pos' <= FrameLen - 3
    BY <1>2, <2>1, <2>3, <2>4 DEF Stored, FrameLen, ContentLen
  <2>6. QED
    BY <1>2, <2>5 DEF Lagging
<1>3. QED
  BY <1>1, <1>2
-----------------------------------------------------------------------------
(* The inductive invariant                                                 *)

LEMMA InitInv == Init => IInv
<1> SUFFICES ASSUME Init PROVE IInv
  OBVIOUS
<1> USE RxAssumption DEF Init
<1>1. TypeOK
  BY DEF TypeOK, RxStates, FrameLen, ContentLen
<1>2. PayloadInBounds /\ Stored
  BY DEF PayloadInBounds, Stored, Hunting
<1>3. Sync
  BY DEF Sync, InStep, Hunting
<1>4. QED
  BY <1>1, <1>2, <1>3 DEF IInv

LEMMA DeliverInv ==
  ASSUME IInv, Deliver
  PROVE  IInv'
<1> DEFINE b == FrameByte(content, pos)
<1> USE RxAssumption
<1>1. b \in Byte /\ Ingest(b) /\ TypeOK /\ PayloadInBounds /\ Stored /\ Sync
  BY FrameBytes DEF IInv, Deliver
<1>2. /\ rx' \in RxStates /\ got' \in 0 .. TERM_PAYLOAD /\ buf' \in Seq(Byte)
      /\ PayloadInBounds' /\ Stored'
  BY <1>1, IngestStores
<1>3. CASE pos < FrameLen
  <2>1. /\ pos' = pos + 1 /\ content' = content /\ whole' = whole
        /\ missed' = missed /\ faults' = faults
    BY <1>3 DEF Deliver, NextByte
  <2>2. TypeOK'
    BY <1>1, <1>2, <1>3, <2>1 DEF TypeOK, FrameLen, ContentLen
  <2>3. whole => InStep' \/ (missed' = 0 /\ Lagging')
    BY <1>1, <1>3, <2>1, StaysInStep, StaysBehind DEF Sync
  <2>4. Sync'
    BY <1>1, <2>1, <2>3 DEF Sync
  <2>5. QED
    BY <1>2, <2>2, <2>4 DEF IInv
<1>4. CASE pos = FrameLen
  <2>1. /\ pos' = 1 /\ content' \in Contents /\ whole' = TRUE /\ faults' = faults
        /\ missed' = IF whole /\ ~Accepts(b) THEN missed + 1 ELSE 0
    BY <1>4, <1>1 DEF Deliver, BeginFrame, TypeOK, FrameLen, ContentLen
  <2>2. TypeOK'
    BY <1>1, <1>2, <2>1 DEF TypeOK, FrameLen, ContentLen
  <2>3. CASE ~whole
    <3>1. missed' = 0
      BY <2>1, <2>3
    <3>2. InStep' \/ Lagging'
      BY <1>2, <2>1, <2>2, BeginsInSync
    <3>3. QED
      BY <1>2, <2>1, <2>2, <3>1, <3>2 DEF IInv, Sync
  <2>4. CASE whole /\ InStep
    <3>1. Accepts(b) /\ Hunting'
      BY <1>1, <1>4, <2>4, InStepAccepts
    <3>2. missed' = 0 /\ InStep'
      BY <2>1, <3>1 DEF InStep
    <3>3. QED
      BY <1>2, <2>1, <2>2, <3>2 DEF IInv, Sync
  <2>5. CASE whole /\ missed = 0 /\ Lagging
    <3>1. Hunting'
      BY <1>1, <1>4, <2>5, BehindEndsHunting
    <3>2. missed' <= 1 /\ InStep'
      BY <2>1, <2>5, <3>1 DEF InStep
    <3>3. QED
      BY <1>2, <2>1, <2>2, <3>2 DEF IInv, Sync
  <2>6. QED
    BY <1>1, <2>3, <2>4, <2>5 DEF Sync, TypeOK
<1>5. QED
  BY <1>1, <1>3, <1>4 DEF TypeOK, FrameLen, ContentLen

\* A frame that begins after a fault: the parser is left where it was.
LEMMA BeginFrameInv ==
  ASSUME IInv, BeginFrame, UNCHANGED devVars, missed' = 0, faults' \in Nat
  PROVE  IInv'
<1> USE RxAssumption
<1>1. pos' = 1 /\ content' \in Contents /\ whole' = TRUE
  BY DEF BeginFrame
<1>2. TypeOK' /\ PayloadInBounds' /\ Stored'
  BY <1>1 DEF IInv, TypeOK, PayloadInBounds, Stored, Hunting, Need, devVars, FrameLen, ContentLen
<1>3. InStep' \/ Lagging'
  BY <1>1, <1>2, BeginsInSync
<1>4. QED
  BY <1>1, <1>2, <1>3 DEF IInv, Sync

LEMMA NextInv == IInv /\ [Next]_vars => IInv'
<1> SUFFICES ASSUME IInv, [Next]_vars PROVE IInv'
  OBVIOUS
<1> USE RxAssumption
<1>1. CASE Deliver
  BY <1>1, DeliverInv
<1>2. CASE Lose
  <2>1. faults' \in Nat /\ missed' = 0 /\ UNCHANGED devVars
    BY <1>2 DEF Lose, IInv, TypeOK
  <2>2. CASE pos < FrameLen
    <3>1. pos' = pos + 1 /\ whole' = FALSE /\ content' = content
      BY <1>2, <2>2 DEF Lose
    <3>2. rx' \in RxStates /\ got' \in 0 .. TERM_PAYLOAD /\ buf' \in Seq(Byte)
      BY <2>1 DEF IInv, TypeOK, devVars
    <3>3. pos' \in 1 .. FrameLen /\ content' \in Contents /\ whole' \in BOOLEAN
      <4>1. FrameLen \in Nat /\ pos \in 1 .. FrameLen /\ content \in Contents
        BY DEF IInv, TypeOK, FrameLen, ContentLen
      <4>2. pos + 1 \in 1 .. FrameLen
        BY <2>2, <4>1
      <4>3. QED
        BY <3>1, <4>1, <4>2
    <3>4. TypeOK'
      BY <2>1, <3>2, <3>3 DEF TypeOK
    <3>5. PayloadInBounds' /\ Stored'
      BY <2>1 DEF IInv, PayloadInBounds, Stored, Hunting, Need, devVars
    <3>6. Sync'
      BY <2>1, <3>1 DEF Sync
    <3>7. QED
      BY <3>4, <3>5, <3>6 DEF IInv
  <2>3. CASE ~(pos < FrameLen)
    <3>1. BeginFrame
      BY <1>2, <2>3 DEF Lose
    <3>2. QED
      BY <2>1, <3>1, BeginFrameInv
  <2>4. QED
    BY <2>2, <2>3
<1>3. CASE Abandon
  <2>1. faults' \in Nat /\ missed' = 0 /\ UNCHANGED devVars /\ BeginFrame
    BY <1>3 DEF Abandon, IInv, TypeOK
  <2>2. QED
    BY <2>1, BeginFrameInv
<1>4. CASE UNCHANGED vars
  BY <1>4 DEF vars, devVars, IInv, TypeOK, PayloadInBounds, Stored, Sync, InStep, Lagging,
     Hunting, Need
<1>5. QED
  BY <1>1, <1>2, <1>3, <1>4 DEF Next
-----------------------------------------------------------------------------
\* The parser is in step with the frames, or behind by part of one: inductive.
THEOREM InvTheorem == Spec => []IInv
<1>1. QED
  BY InitInv, NextInv, PTL DEF Spec

\* Type correctness of the parser, for every payload length.
THEOREM TypeTheorem == Spec => []TypeOK
<1>1. IInv => TypeOK
  BY DEF IInv
<1>2. QED
  BY <1>1, InvTheorem, PTL

\* ingest's unchecked store payload_[got_++] stays inside the array, whatever
\* bytes are lost and wherever writes stop.
THEOREM BoundsTheorem == Spec => []PayloadInBounds
<1>1. IInv => PayloadInBounds
  BY DEF IInv
<1>2. QED
  BY <1>1, InvTheorem, PTL

\* Of two frames in a row that arrive whole, ingest accepts at least one.
THEOREM ResyncTheorem == Spec => []MissedAtMostOne
<1>1. IInv => MissedAtMostOne
  BY DEF IInv, Sync, MissedAtMostOne
<1>2. QED
  BY <1>1, InvTheorem, PTL
=============================================================================
