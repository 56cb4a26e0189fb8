-------------------------------- MODULE FrameRx --------------------------------
(***************************************************************************)
(* Terminal::ingest, the panel's frame parser, one byte a step, fed by a   *)
(* host that writes frames back to back (send_frame's retransmissions and  *)
(* the sends after it) over a wire that may lose bytes and writes that may *)
(* stop in the middle.  ingest has no timeout: a frame cut short leaves it *)
(* waiting, and it eats the beginning of the next frame.                   *)
(*                                                                         *)
(* What follows the magic -- seq, cx, cy, flags, payload, CRC -- is one    *)
(* byte string.  Contents holds the strings whose CRC is right: the frames *)
(* the host writes.  The CRC is taken to reject every other string.        *)
(***************************************************************************)
EXTENDS Integers, Sequences

CONSTANTS
  TERM_PAYLOAD,  \* payload bytes of a frame (4770)
  Contents,      \* what may follow the magic
  MaxFaults      \* bound: lost bytes and abandoned writes

FRAME_M0 == 170
FRAME_M1 == 85
FRAME_M2 == 165
FRAME_M3 == 90

Byte == 0 .. 255
ContentLen == TERM_PAYLOAD + 6
FrameLen == ContentLen + 4

\* A frame's content does not itself hold the magic.
ASSUME RxAssumption ==
  /\ TERM_PAYLOAD \in Nat \ {0}
  /\ Contents \subseteq [1 .. ContentLen -> Byte]
  /\ \A c \in Contents : \A k \in 1 .. ContentLen - 3 :
       ~(c[k] = FRAME_M0 /\ c[k + 1] = FRAME_M1 /\ c[k + 2] = FRAME_M2 /\ c[k + 3] = FRAME_M3)
  /\ MaxFaults \in Nat

VARIABLES
  rx,       \* Terminal.rx_
  got,      \* Terminal.got_
  buf,      \* bytes stored since the magic: seq_, rx_cx_, rx_cy_, rx_flags_, payload_, CRC
  content,  \* the frame being written
  pos,      \* the next byte of it to be written, from 1
  whole,    \* history: no byte of it was lost so far
  missed,   \* history: frames in a row that arrived whole and were not accepted
  faults

devVars == <<rx, got, buf>>
vars == <<rx, got, buf, content, pos, whole, missed, faults>>

\* The byte at position p of the frame with content c: build_frame's layout.
FrameByte(c, p) == CASE p = 1 -> FRAME_M0 [] p = 2 -> FRAME_M1
                     [] p = 3 -> FRAME_M2 [] p = 4 -> FRAME_M3
                     [] OTHER -> c[p - 4]

Init ==
  /\ rx = "M0" /\ got = 0 /\ buf = <<>>
  /\ content \in Contents /\ pos = 1
  /\ whole = TRUE /\ missed = 0 /\ faults = 0

-----------------------------------------------------------------------------
(* ingest                                                                  *)

Hunting == rx \in {"M0", "M1", "M2", "M3"}

\* The byte continues the match begun.
Matches(b) ==
  \/ rx = "M1" /\ b = FRAME_M1
  \/ rx = "M2" /\ b = FRAME_M2
  \/ rx = "M3" /\ b = FRAME_M3

\* Mutant of Mismatch: the match restarts at the byte after the mismatch.
MismatchNoRestart(b) ==
  /\ Hunting /\ ~Matches(b)
  /\ rx' = IF rx = "M0" /\ b = FRAME_M0 THEN "M1" ELSE "M0"
  /\ UNCHANGED <<got, buf>>

\* A byte that does not continue the match may be the first of the magic.
Mismatch(b) ==
  /\ Hunting /\ ~Matches(b)
  /\ rx' = IF b = FRAME_M0 THEN "M1" ELSE "M0"
  /\ UNCHANGED <<got, buf>>

Hunt(b) ==
  \/ Mismatch(b)
  \/ rx = "M1" /\ b = FRAME_M1 /\ rx' = "M2" /\ UNCHANGED <<got, buf>>
  \/ rx = "M2" /\ b = FRAME_M2 /\ rx' = "M3" /\ UNCHANGED <<got, buf>>
  \/ rx = "M3" /\ b = FRAME_M3 /\ rx' = "Seq" /\ buf' = <<>> /\ UNCHANGED got

Header(b) ==
  /\ \/ rx = "Seq" /\ rx' = "Cx" /\ UNCHANGED got
     \/ rx = "Cx" /\ rx' = "Cy" /\ UNCHANGED got
     \/ rx = "Cy" /\ rx' = "Flags" /\ UNCHANGED got
     \/ rx = "Flags" /\ rx' = "Payload" /\ got' = 0
  /\ buf' = Append(buf, b)

\* Mutant of Payload: the test against the length comes a byte late.
PayloadLate(b) ==
  /\ rx = "Payload"
  /\ buf' = Append(buf, b)
  /\ got' = got + 1
  /\ rx' = IF got + 1 > TERM_PAYLOAD THEN "CrcHi" ELSE "Payload"

\* payload_[got_++] = b
Payload(b) ==
  /\ rx = "Payload"
  /\ buf' = Append(buf, b)
  /\ got' = got + 1
  /\ rx' = IF got + 1 >= TERM_PAYLOAD THEN "CrcHi" ELSE "Payload"

CrcHi(b) ==
  /\ rx = "CrcHi"
  /\ rx' = "CrcLo"
  /\ buf' = Append(buf, b)
  /\ UNCHANGED got

\* The frame is complete: the panel answers, and looks for the next magic.
CrcLo(b) ==
  /\ rx = "CrcLo"
  /\ rx' = "M0"
  /\ buf' = Append(buf, b)
  /\ UNCHANGED got

Ingest(b) == Hunt(b) \/ Header(b) \/ Payload(b) \/ CrcHi(b) \/ CrcLo(b)

\* The byte b completes a string whose CRC is right: applyPayload and ACK.
Accepts(b) == rx = "CrcLo" /\ Append(buf, b) \in Contents

-----------------------------------------------------------------------------
(* The host's writes                                                       *)

\* The next frame, a retransmission or a new one, begins.
BeginFrame == pos' = 1 /\ content' \in Contents /\ whole' = TRUE

NextByte == pos' = pos + 1 /\ UNCHANGED <<content, whole>>

\* A byte reaches the panel.
Deliver ==
  /\ Ingest(FrameByte(content, pos))
  /\ IF pos < FrameLen
       THEN NextByte /\ UNCHANGED missed
       ELSE /\ BeginFrame
            /\ missed' = IF whole /\ ~Accepts(FrameByte(content, pos)) THEN missed + 1 ELSE 0
  /\ UNCHANGED faults

\* A byte is lost on the way (a receive overrun).
Lose ==
  /\ faults < MaxFaults /\ faults' = faults + 1
  /\ missed' = 0
  /\ IF pos < FrameLen THEN pos' = pos + 1 /\ whole' = FALSE /\ UNCHANGED content
                       ELSE BeginFrame
  /\ UNCHANGED devVars

\* write_all failed: send_frame goes on to its next attempt.
Abandon ==
  /\ pos > 1 /\ faults < MaxFaults /\ faults' = faults + 1
  /\ missed' = 0
  /\ BeginFrame
  /\ UNCHANGED devVars

Next == Deliver \/ Lose \/ Abandon

Spec == Init /\ [][Next]_vars

-----------------------------------------------------------------------------
RxStates == {"M0", "M1", "M2", "M3", "Seq", "Cx", "Cy", "Flags", "Payload", "CrcHi", "CrcLo"}

\* Every variable keeps its type; got_ never passes the payload's length.
TypeOK ==
  /\ rx \in RxStates /\ got \in 0 .. TERM_PAYLOAD /\ buf \in Seq(Byte)
  /\ content \in Contents /\ pos \in 1 .. FrameLen
  /\ whole \in BOOLEAN /\ missed \in Nat /\ faults \in Nat

\* payload_ is never indexed past its end, whatever arrives: the unchecked
\* store payload_[got_++] of ingest is always inside the array.
PayloadInBounds == rx = "Payload" => got < TERM_PAYLOAD

\* ingest recovers from lost bytes without help: of two frames in a row that
\* arrive whole, at least one is accepted, wherever the parser was before.
\* This is what lets send_frame retry at once instead of resetting the panel.
MissedAtMostOne == missed <= 1
=============================================================================
