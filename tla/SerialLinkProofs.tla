---------------------------- MODULE SerialLinkProofs ----------------------------
(***************************************************************************)
(* For every size of the sequence numbers, of the inbox and of the bounds: *)
(* what the link does is what FrameDelivery promises, no button event is   *)
(* invented, and none is lost but with a reply.                            *)
(***************************************************************************)
EXTENDS SerialLink, SequenceTheorems, FiniteSetTheorems, FunctionTheorems, TLAPS

Codes == {FRAME_ACK, FRAME_NAK} \union Opcodes
Levels == {DEV_OSD_BRIGHT, DEV_OSD_SLEEP}

\* The sequence number of the frame with identity id.
Num(id) == (FirstSeq + id - 1) % SeqSpace

\* What is asked of the few sends whose number is one of the five codes, five in
\* 256: the first attempt succeeds, and no ACK is read without its number.  For
\* else the reply can be taken for an opcode, and what follows for a reply.
Prompt ==
  cur \in Codes =>
    /\ attempt = 0
    /\ ~(pc = "scan" /\ i = Len(inbox) /\ inbox[i] = FRAME_ACK)

\* No more bytes are unread than the inbox holds, so pump_inbox drops none.
Roomy == Len(inbox) + Len(toHost) <= InboxCap

\* The byte at k is a level; it is an ACK, and not a level of that value.
DataAt(s, k) == k > 1 /\ s[k - 1] \in Levels
AckAt(s, k) == s[k] = FRAME_ACK /\ ~DataAt(s, k)

\* The bytes the host has still to look at; the number of the send in progress, if
\* that is a code; the place of such a number.
raw == inbox \o toHost
Coded == outcome = "pending" /\ cur \in Codes
code == IF Coded THEN cur ELSE NoFrame
NumberAt(s, k, c) == k > 1 /\ s[k] = c /\ AckAt(s, k - 1)

\* The bytes as they were meant: a number that is a code is told from the code.
Sym == 0 .. 511
Mark(b) == IF b \in Codes THEN 256 + b ELSE b
Reading(s, c) == [k \in 1 .. Len(s) |-> IF NumberAt(s, k, c) THEN Mark(c) ELSE s[k]]
stream == Reading(raw, code)

\* The number of frame id as the stream has it.
Sign(id) == Mark(Num(id))

\* The newest send known to be on the panel when the current one began.
lastOk == IF outcome = "pending" THEN sent - 1 - fails ELSE sent - fails

\* Opcodes and replies are whole.
WellFormed(s) ==
  \A k \in 1 .. Len(s) :
    /\ s[k] \in Levels => k < Len(s) /\ s[k + 1] \in 0 .. 6
    /\ AckAt(s, k) => k < Len(s)

\* Every ACK belongs to a frame from lo to hi, in their order.
Genuine(s, lo, hi) ==
  \A k \in 1 .. Len(s) : AckAt(s, k) => \E id \in (lo .. hi) \ {0} : s[k + 1] = Sign(id)

InOrder(s, lo, hi) ==
  \A k, l \in 1 .. Len(s), a \in (lo .. hi) \ {0} :
    k < l /\ AckAt(s, k) /\ AckAt(s, l) /\ s[k + 1] = Sign(a)
      => \E b \in a .. hi : s[l + 1] = Sign(b)

\* The call, its outcome and the failures in a row agree.
Stages ==
  /\ sent <= MaxSends
  /\ outcome = "pending" <=> pc \in {"write", "wait", "scan"}
  /\ outcome = "pending" => attempt < MaxAttempts /\ fails < sent
  /\ outcome = "none" => sent = 0
  /\ pc # "closed" => fails < MaxFails
  /\ fails <= sent

\* Frames are numbered by their identity and shown in its order.
Numbered ==
  /\ seq = Num(sent + 1)
  /\ sent > 0 => cur = Num(sent)
  /\ lastOk <= shown /\ shown <= sent
  /\ \A k \in 1 .. Len(toDev) : /\ toDev[k].id \in 1 .. sent
                                /\ shown <= toDev[k].id
                                /\ toDev[k].seq = Num(toDev[k].id)
  /\ \A k, l \in 1 .. Len(toDev) : k < l => toDev[k].id <= toDev[l].id

\* The scan has only left whole opcodes behind it.
Scanned ==
  pc = "scan" =>
    /\ i <= Len(inbox) + 1
    /\ i > 1 => stream[i - 1] = DEV_MODE_TOGGLE \/ DataAt(stream, i - 1)

StreamOK ==
  /\ WellFormed(stream)
  /\ Genuine(stream, lastOk, shown)
  /\ InOrder(stream, lastOk, shown)

\* A number that is a code belongs to the send in progress, and is in one place:
\* in a frame under way, in what a cut frame left, or in one reply.
Once ==
  /\ \A k \in 1 .. Len(toDev) : toDev[k].seq \in Codes =>
       /\ Coded /\ toDev[k].id = sent /\ k = Len(toDev)
       /\ pc # "write" /\ shown < sent
  /\ partial \in Codes => Coded /\ toDev = <<>> /\ pc # "write" /\ shown < sent
  /\ Coded /\ pc = "write" => shown < sent
  /\ \A k, l \in 1 .. Len(stream) :
       stream[k] \notin Byte /\ stream[l] \notin Byte => k = l /\ shown = sent

\* The inductive invariant of the exchange.
LinkInv == TypeOK /\ Stages /\ Numbered /\ Scanned /\ StreamOK /\ Once

-----------------------------------------------------------------------------
(* Types                                                                   *)

\* A string of two bytes.
LEMMA Pair ==
  ASSUME NEW a \in Byte, NEW b \in Byte
  PROVE  <<a, b>> \in Seq(Byte) /\ Len(<<a, b>>) = 2 /\ <<a, b>>[1] = a /\ <<a, b>>[2] = b
OBVIOUS

\* The bytes of an opcode.
LEMMA EventBytes ==
  ASSUME NEW e \in Events
  PROVE  /\ e \in Seq(Byte) /\ Len(e) \in 1 .. 2
         /\ \/ Len(e) = 1 /\ e[1] = DEV_MODE_TOGGLE
            \/ Len(e) = 2 /\ e[1] \in Levels /\ e[2] \in 0 .. 6
<1>1. CASE e = <<DEV_MODE_TOGGLE>>
  BY <1>1 DEF Byte, DEV_MODE_TOGGLE
<1>2. CASE e \in {DEV_OSD_BRIGHT, DEV_OSD_SLEEP} \X (0 .. 6)
  <2>1. PICK a \in {DEV_OSD_BRIGHT, DEV_OSD_SLEEP}, b \in 0 .. 6 : e = <<a, b>>
    BY <1>2
  <2>2. a \in Byte /\ b \in Byte
    BY DEF Byte, DEV_OSD_BRIGHT, DEV_OSD_SLEEP
  <2>3. QED
    BY <2>1, <2>2, Pair DEF Levels
<1>3. QED
  BY <1>1, <1>2, LinkAssumption DEF LinkAssumption

\* What the remainder is.
LEMMA Remainder ==
  ASSUME NEW n \in Nat
  PROVE  /\ n % SeqSpace \in 0 .. SeqSpace - 1
         /\ \E q \in Nat : n = SeqSpace * q + (n % SeqSpace)
<1>1. SeqSpace \in Nat /\ SeqSpace > 0
  BY LinkAssumption DEF LinkAssumption
<1>. DEFINE q == n \div SeqSpace
<1>2. q \in Nat /\ n = SeqSpace * q + (n % SeqSpace) /\ n % SeqSpace \in 0 .. SeqSpace - 1
  BY <1>1
<1>. QED  BY <1>2

\* Two quotients less than a divisor apart are equal.
LEMMA SameQuotient ==
  ASSUME NEW n \in Nat \ {0}, NEW q1 \in Nat, NEW q2 \in Nat, NEW r1 \in 0 .. n - 1, NEW r2 \in 0 .. n - 1,
         n * q1 + r1 = n * q2 + r2
  PROVE  r1 = r2
<1>1. ASSUME NEW a \in Nat, NEW b \in Nat, a < b PROVE n * a + n <= n * b
  <2>1. PICK d \in Nat : b = a + 1 + d
    <3>1. b - a - 1 \in Nat /\ b = a + 1 + (b - a - 1)
      BY <1>1
    <3>. QED  BY <3>1
  <2>2. n * b = n * a + n + n * d /\ n * d \in Nat
    BY <2>1
  <2>3. n * a \in Nat
    OBVIOUS
  <2>. QED  BY <2>2, <2>3
<1>2. n * q1 \in Nat /\ n * q2 \in Nat
  OBVIOUS
<1>3. CASE q1 < q2
  BY <1>1, <1>2, <1>3
<1>4. CASE q2 < q1
  BY <1>1, <1>2, <1>4
<1>5. CASE q1 = q2
  BY <1>2, <1>5
<1>. QED  BY <1>3, <1>4, <1>5

\* Numbers are consecutive.
LEMMA NumNext ==
  ASSUME NEW id \in Nat \ {0}
  PROVE  /\ Num(id) \in 0 .. SeqSpace - 1 /\ Num(id) \in Byte
         /\ Num(id + 1) = (Num(id) + 1) % SeqSpace
         /\ Num(1) = FirstSeq
<1>0. SeqSpace \in 1 .. 256 /\ FirstSeq \in 0 .. SeqSpace - 1
  BY LinkAssumption DEF LinkAssumption
<1>. DEFINE n == FirstSeq + id - 1
<1>1. n \in Nat /\ n + 1 \in Nat /\ n + 1 = FirstSeq + (id + 1) - 1
  BY <1>0
<1>2. PICK q1 \in Nat : n = SeqSpace * q1 + (n % SeqSpace)
  BY <1>1, Remainder
<1>3. n % SeqSpace \in 0 .. SeqSpace - 1 /\ (n + 1) % SeqSpace \in 0 .. SeqSpace - 1
  BY <1>1, Remainder
<1>4. PICK q2 \in Nat : n + 1 = SeqSpace * q2 + ((n + 1) % SeqSpace)
  BY <1>1, Remainder
<1>. DEFINE m == (n % SeqSpace) + 1
<1>5. m \in Nat
  BY <1>3
<1>6. m % SeqSpace \in 0 .. SeqSpace - 1
  BY <1>5, Remainder
<1>7. PICK q3 \in Nat : m = SeqSpace * q3 + (m % SeqSpace)
  BY <1>5, Remainder
<1>8. n + 1 = SeqSpace * (q1 + q3) + (m % SeqSpace)
  <2>1. SeqSpace * (q1 + q3) = SeqSpace * q1 + SeqSpace * q3
    BY <1>0
  <2>2. SeqSpace * q1 \in Nat /\ SeqSpace * q3 \in Nat
    BY <1>0
  <2>. HIDE DEF n
  <2>. QED  BY <1>0, <1>1, <1>2, <1>3, <1>6, <1>7, <2>1, <2>2
<1>9. (n + 1) % SeqSpace = m % SeqSpace
  <2>1. SeqSpace \in Nat \ {0} /\ q1 + q3 \in Nat
    BY <1>0
  <2>. HIDE DEF n, m
  <2>. QED  BY <1>3, <1>4, <1>6, <1>8, <2>1, SameQuotient
<1>10. FirstSeq % SeqSpace = FirstSeq /\ FirstSeq + 1 - 1 = FirstSeq
  BY <1>0
<1>. QED  BY <1>0, <1>1, <1>3, <1>9, <1>10 DEF Num, Byte

\* Within a round, numbers tell frames apart.
LEMMA NumApart ==
  ASSUME NEW a \in Nat \ {0}, NEW b \in Nat \ {0}, a <= b, b - a < SeqSpace, Num(a) = Num(b)
  PROVE  a = b
<1>0. SeqSpace \in 1 .. 256 /\ FirstSeq \in 0 .. SeqSpace - 1
  BY LinkAssumption DEF LinkAssumption
<1>. DEFINE n == FirstSeq + a - 1
            r == n % SeqSpace
            d == b - a
<1>1. n \in Nat /\ d \in 0 .. SeqSpace - 1 /\ FirstSeq + b - 1 = n + d /\ n + d \in Nat
  BY <1>0
<1>2. r \in 0 .. SeqSpace - 1 /\ (n + d) % SeqSpace = r
  BY <1>1, Remainder DEF Num
<1>3. PICK q1 \in Nat : n = SeqSpace * q1 + r
  BY <1>1, Remainder
<1>4. PICK q2 \in Nat : n + d = SeqSpace * q2 + r
  BY <1>1, <1>2, Remainder
<1>5. SeqSpace * q1 + d = SeqSpace * q2 + 0
  <2>1. SeqSpace * q1 \in Nat /\ SeqSpace * q2 \in Nat
    BY <1>0
  <2>. HIDE DEF n, r, d
  <2>. QED  BY <1>0, <1>1, <1>2, <1>3, <1>4, <2>1
<1>6. d = 0
  <2>1. SeqSpace \in Nat \ {0} /\ 0 \in 0 .. SeqSpace - 1
    BY <1>0
  <2>. HIDE DEF n, r, d
  <2>. QED  BY <1>1, <1>5, <2>1, SameQuotient
<1>. QED  BY <1>1, <1>6

\* Every code is a byte, and one of the five.
LEMMA CodeValues ==
  /\ Codes \subseteq Byte /\ Levels \subseteq Codes /\ Opcodes \subseteq Codes
  /\ FRAME_ACK \in Codes /\ FRAME_NAK \in Codes
  /\ FRAME_ACK \notin Opcodes /\ FRAME_NAK \notin Opcodes /\ FRAME_ACK # FRAME_NAK
  /\ Opcodes = Levels \union {DEV_MODE_TOGGLE} /\ DEV_MODE_TOGGLE \notin Levels
  /\ \A d \in 0 .. 6 : d \notin Opcodes /\ d # FRAME_NAK
BY DEF Levels, Codes, Opcodes, Byte, FRAME_ACK, FRAME_NAK, DEV_MODE_TOGGLE, DEV_OSD_BRIGHT,
       DEV_OSD_SLEEP

\* A marked byte is no byte, and shows which one it was.
LEMMA Marks ==
  ASSUME NEW a \in Byte, NEW b \in Byte
  PROVE  /\ Mark(a) \in Sym \ Codes /\ Byte \subseteq Sym
         /\ Mark(a) \in Byte <=> a \notin Codes
         /\ a \notin Codes => Mark(a) = a
         /\ Mark(a) = Mark(b) => a = b
<1>1. ASSUME NEW c \in 0 .. 255
      PROVE  /\ c \in Int /\ c \in 0 .. 511 /\ 256 + c \in 0 .. 511
             /\ 256 + c \notin 0 .. 255
  <2>1. c \in Int /\ 0 <= c /\ c <= 255
    OBVIOUS
  <2>2. 0 <= 256 + c /\ 256 + c <= 511 /\ ~(256 + c <= 255)
    BY <2>1
  <2>. QED  BY <2>1, <2>2
<1>2. a \in Int /\ b \in Int /\ (256 + a = 256 + b => a = b)
  BY <1>1 DEF Byte
<1>. HIDE DEF Codes
<1>3. /\ Mark(a) = IF a \in Codes THEN 256 + a ELSE a
      /\ Mark(b) = IF b \in Codes THEN 256 + b ELSE b
  BY DEF Mark
<1>4. /\ \A c \in Byte : c \in Sym /\ 256 + c \in Sym /\ 256 + c \notin Byte
      /\ Codes \subseteq Byte
  BY <1>1, CodeValues DEF Byte, Sym
<1>5. CASE a \in Codes
  BY <1>2, <1>3, <1>4, <1>5
<1>6. CASE a \notin Codes
  BY <1>2, <1>3, <1>4, <1>6
<1>. QED  BY <1>4, <1>5, <1>6

\* Within a round, signs tell frames apart.
LEMMA SignApart ==
  ASSUME NEW a \in Nat \ {0}, NEW b \in Nat \ {0}, a <= b, b - a < SeqSpace, Sign(a) = Sign(b)
  PROVE  a = b
<1>1. Num(a) \in Byte /\ Num(b) \in Byte
  BY NumNext
<1>2. Num(a) = Num(b)
  BY <1>1, Marks DEF Sign
<1>. QED  BY <1>2, NumApart

\* What the constants are.
LEMMA Constants ==
  /\ SeqSpace \in 1 .. 256 /\ FirstSeq \in 0 .. SeqSpace - 1
  /\ MaxAttempts \in Nat \ {0} /\ MaxFails \in 1 .. SeqSpace - 1
  /\ InboxCap \in Nat \ {0, 1} /\ CursorX \in Byte
  /\ MaxSends \in Nat /\ MaxEvents \in Nat /\ MaxFaults \in Nat
BY LinkAssumption DEF LinkAssumption

\* A part of a string of bytes is one.
LEMMA Part ==
  ASSUME NEW B, NEW s \in Seq(B), NEW m \in Nat \ {0}, NEW n \in Nat, n <= Len(s)
  PROVE  /\ SubSeq(s, m, n) \in Seq(B)
         /\ Len(SubSeq(s, m, n)) = IF m <= n THEN n - m + 1 ELSE 0
         /\ \A k \in 1 .. n - m + 1 : SubSeq(s, m, n)[k] = s[m + k - 1]
<1>1. \A k \in m .. n : s[k] \in B
  BY ElementOfSeq
<1>. QED  BY <1>1, SubSeqProperties

\* A string read behind another.
LEMMA Joined ==
  ASSUME NEW B, NEW a \in Seq(B), NEW b \in Seq(B)
  PROVE  /\ a \o b \in Seq(B) /\ Len(a \o b) = Len(a) + Len(b)
         /\ \A k \in 1 .. Len(a) : (a \o b)[k] = a[k]
         /\ \A k \in Len(a) + 1 .. Len(a) + Len(b) : (a \o b)[k] = b[k - Len(a)]
<1>1. Len(a) \in Nat /\ Len(b) \in Nat
  OBVIOUS
<1>2. /\ a \o b \in Seq(B) /\ Len(a \o b) = Len(a) + Len(b)
      /\ \A k \in 1 .. Len(a) + Len(b) :
           (a \o b)[k] = IF k <= Len(a) THEN a[k] ELSE b[k - Len(a)]
  BY ConcatProperties
<1>. QED  BY <1>1, <1>2

\* What stands at a place behind the first.
LEMMA JoinedBehind ==
  ASSUME NEW B, NEW a \in Seq(B), NEW b \in Seq(B), NEW j \in 1 .. Len(b)
  PROVE  (a \o b)[Len(a) + j] = b[j]
<1>1. Len(a) \in Nat /\ Len(b) \in Nat /\ j \in Nat
  OBVIOUS
<1>. DEFINE k == Len(a) + j
<1>2. k \in Len(a) + 1 .. Len(a) + Len(b) /\ k - Len(a) = j
  BY <1>1
<1>3. \A l \in Len(a) + 1 .. Len(a) + Len(b) : (a \o b)[l] = b[l - Len(a)]
  BY Joined
<1>. HIDE DEF k
<1>4. (a \o b)[k] = b[j]
  BY <1>2, <1>3
<1>. QED  BY <1>4 DEF k

\* pump_inbox moves bytes.
LEMMA PumpType ==
  ASSUME inbox \in Seq(Byte), toHost \in Seq(Byte), NEW n \in 0 .. Len(toHost), PumpInbox(n)
  PROVE  inbox' \in Seq(Byte) /\ toHost' \in Seq(Byte)
<1>1. InboxCap \in Nat /\ Len(inbox) \in Nat /\ Len(toHost) \in Nat
  BY Constants
<1>2. SubSeq(toHost, 1, n) \in Seq(Byte) /\ SubSeq(toHost, n + 1, Len(toHost)) \in Seq(Byte)
  BY <1>1, Part
<1>. DEFINE box == inbox \o SubSeq(toHost, 1, n)
<1>3. box \in Seq(Byte) /\ Len(box) \in Nat
  BY <1>2, ConcatProperties
<1>4. TrimInbox(box) \in Seq(Byte)
  <2>. HIDE DEF box
  <2>1. CASE Len(box) > InboxCap
    <3>1. Len(box) - InboxCap + 1 \in Nat \ {0}
      BY <1>1, <1>3, <2>1
    <3>. QED  BY <1>3, <2>1, <3>1, Part DEF TrimInbox
  <2>. QED  BY <1>3, <2>1 DEF TrimInbox
<1>. QED  BY <1>2, <1>4 DEF PumpInbox

\* The loop over the attempts.
LEMMA NextAttemptStage ==
  ASSUME TypeOK, Stages, outcome = "pending", NextAttempt
  PROVE  /\ attempt' \in 0 .. MaxAttempts /\ fails' \in 0 .. MaxFails
         /\ \/ pc' = "write" /\ outcome' = outcome /\ fails' = fails /\ attempt' < MaxAttempts
            \/ pc' = "idle" /\ outcome' = "err" /\ fails' = fails + 1 /\ fails' < MaxFails
            \/ pc' = "closed" /\ outcome' = "err" /\ fails' = fails + 1
<1>1. attempt \in Nat /\ attempt < MaxAttempts /\ fails \in Nat /\ fails < MaxFails
  BY Constants DEF TypeOK, Stages
<1>2. CASE attempt + 1 < MaxAttempts
  BY <1>1, <1>2, Constants DEF NextAttempt, TypeOK
<1>3. CASE ~(attempt + 1 < MaxAttempts)
  BY <1>1, <1>3, Constants DEF NextAttempt, TypeOK
<1>. QED  BY <1>2, <1>3

\* At the start.
LEMMA TypeInit == Init => TypeOK /\ Stages
<1>. SUFFICES ASSUME Init PROVE TypeOK /\ Stages
  OBVIOUS
<1>1. TypeOK
  BY Constants DEF Init, TypeOK, NoFrame
<1>2. Stages
  BY Constants DEF Init, Stages
<1>. QED  BY <1>1, <1>2

\* Calls on the host's side keep types and stages.
LEMMA SendTypes ==
  ASSUME TypeOK, Stages, SendFrame \/ WriteFrame \/ WriteError \/ Timeout
  PROVE  TypeOK' /\ Stages'
<1>1. CASE SendFrame
  <2>1. sent \in Nat /\ seq \in 0 .. SeqSpace - 1 /\ (seq + 1) % SeqSpace \in 0 .. SeqSpace - 1
    <3>1. sent \in Nat /\ seq \in 0 .. SeqSpace - 1 /\ seq + 1 \in Nat
      BY Constants DEF TypeOK
    <3>. QED  BY <3>1, Remainder
  <2>2. TypeOK'
    BY <1>1, <2>1, Constants DEF TypeOK, SendFrame, histVars
  <2>3. Stages'
    BY <1>1, <2>1, Constants DEF TypeOK, Stages, SendFrame
  <2>. QED  BY <2>2, <2>3
<1>2. CASE WriteFrame
  <2>1. [seq |-> cur, id |-> sent, cut |-> FALSE] \in Frames
    BY DEF TypeOK, Frames
  <2>2. toDev' \in Seq(Frames)
    BY <1>2, <2>1, AppendProperties DEF TypeOK, WriteFrame
  <2>3. TypeOK'
    BY <1>2, <2>2 DEF TypeOK, WriteFrame, histVars
  <2>4. Stages'
    BY <1>2 DEF Stages, WriteFrame
  <2>. QED  BY <2>3, <2>4
<1>3. CASE WriteError \/ Timeout
  <2>1. outcome = "pending" /\ NextAttempt /\ pc # "closed"
    BY <1>3 DEF Stages, WriteError, Timeout
  <2>2. [seq |-> cur, id |-> sent, cut |-> TRUE] \in Frames
    BY DEF TypeOK, Frames
  <2>3. toDev' \in Seq(Frames)
    <3>1. toDev \in Seq(Frames)
      BY DEF TypeOK
    <3>2. Append(toDev, [seq |-> cur, id |-> sent, cut |-> TRUE]) \in Seq(Frames)
      BY <2>2, <3>1, AppendProperties
    <3>. QED  BY <1>3, <3>1, <3>2 DEF WriteError, Timeout
  <2>4. UNCHANGED <<seq, cur, sent, inbox, i, toHost, partial, shown, raised, polled, dropped>>
        /\ faults' \in Nat
    <3>1. UNCHANGED <<seq, cur, sent, inbox, i, toHost, partial, shown, raised, polled, dropped>>
          /\ faults' \in {faults, faults + 1}
      BY <1>3 DEF WriteError, Timeout, histVars
    <3>. QED  BY <3>1 DEF TypeOK
  <2>5. TypeOK'
    BY <2>1, <2>3, <2>4, NextAttemptStage DEF TypeOK
  <2>6. Stages'
    BY <2>1, <2>4, NextAttemptStage, SMTT(30) DEF Stages, TypeOK
  <2>. QED  BY <2>5, <2>6
<1>. QED  BY <1>1, <1>2, <1>3

\* A count is a number.
LEMMA OpBytesType ==
  ASSUME NEW B, NEW s \in Seq(B)
  PROVE  OpBytes(s) \in Nat
<1>1. IsFiniteSet(1 .. Len(s))
  BY FS_Interval
<1>2. IsFiniteSet({k \in 1 .. Len(s) : s[k] \in Opcodes})
  BY <1>1, FS_Subset
<1>. QED  BY <1>2, FS_CardinalityType DEF OpBytes

\* wait_ack keeps them.
LEMMA WaitTypes ==
  ASSUME TypeOK, Stages,
         BeginScan \/ ScanAck \/ ScanNak \/ ScanDefer \/ ScanRemove \/ EndScan
  PROVE  TypeOK' /\ Stages'
<1>0. inbox \in Seq(Byte) /\ Len(inbox) \in Nat /\ toHost \in Seq(Byte) /\ i \in Nat \ {0}
  BY DEF TypeOK
<1>1. CASE BeginScan
  <2>1. PICK n \in 0 .. Len(toHost) : PumpInbox(n)
    BY <1>1 DEF BeginScan
  <2>2. inbox' \in Seq(Byte) /\ toHost' \in Seq(Byte)
    BY <1>0, <2>1, PumpType
  <2>3. TypeOK'
    BY <1>1, <2>2 DEF TypeOK, BeginScan, histVars
  <2>. QED  BY <1>1, <2>3 DEF Stages, BeginScan
<1>2. ASSUME ScanAck \/ ScanNak
      PROVE  inbox' \in Seq(Byte) /\ dropped' \in Nat
  <2>1. i + 1 <= Len(inbox) /\ DrainThroughReply
    BY <1>2 DEF ScanAck, ScanNak, ReplyAt
  <2>2. SubSeq(inbox, i + 2, Len(inbox)) \in Seq(Byte) /\ SubSeq(inbox, 1, i - 1) \in Seq(Byte)
    BY <1>0, <2>1, Part
  <2>3. OpBytes(SubSeq(inbox, 1, i - 1)) \in Nat /\ dropped \in Nat
    BY <2>2, OpBytesType DEF TypeOK
  <2>. QED  BY <2>1, <2>2, <2>3 DEF DrainThroughReply
<1>3. CASE ScanAck
  <2>1. TypeOK'
    BY <1>2, <1>3, Constants DEF TypeOK, ScanAck
  <2>2. Stages'
    BY <1>3, Constants DEF Stages, ScanAck, TypeOK
  <2>. QED  BY <2>1, <2>2
<1>4. CASE ScanNak
  <2>1. outcome = "pending" /\ NextAttempt
    BY <1>4 DEF Stages, ScanNak
  <2>2. TypeOK'
    BY <1>2, <1>4, <2>1, NextAttemptStage DEF TypeOK, ScanNak
  <2>3. Stages'
    BY <1>4, <2>1, NextAttemptStage DEF Stages, ScanNak, TypeOK
  <2>. QED  BY <2>2, <2>3
<1>5. CASE ScanDefer
  <2>1. i' \in Nat \ {0}
    BY <1>0, <1>5 DEF ScanDefer
  <2>2. TypeOK'
    BY <1>5, <2>1 DEF TypeOK, ScanDefer, histVars
  <2>. QED  BY <1>5, <2>2 DEF Stages, ScanDefer
<1>6. CASE ScanRemove
  <2>1. SubSeq(inbox, 1, i - 1) \in Seq(Byte) /\ SubSeq(inbox, i + 1, Len(inbox)) \in Seq(Byte)
    BY <1>0, <1>6, Part DEF ScanRemove
  <2>2. inbox' \in Seq(Byte)
    BY <1>6, <2>1, ConcatProperties DEF ScanRemove, RemoveAt
  <2>3. TypeOK'
    BY <1>6, <2>2 DEF TypeOK, ScanRemove, histVars
  <2>. QED  BY <1>6, <2>3 DEF Stages, ScanRemove
<1>7. CASE EndScan
  <2>1. TypeOK'
    BY <1>7 DEF TypeOK, EndScan, histVars
  <2>. QED  BY <1>7, <2>1 DEF Stages, EndScan
<1>. QED  BY <1>1, <1>3, <1>4, <1>5, <1>6, <1>7

\* So does poll_events.
LEMMA PollTypes ==
  ASSUME TypeOK, Stages,
         PollSome \/ DrainToggle \/ DrainLevel \/ DrainOther \/ EndDrain
  PROVE  TypeOK' /\ Stages'
<1>0. inbox \in Seq(Byte) /\ Len(inbox) \in Nat /\ toHost \in Seq(Byte)
  BY DEF TypeOK
<1>1. CASE PollSome
  <2>1. PICK n \in 0 .. Len(toHost) : PollEvents(n)
    BY <1>1 DEF PollSome
  <2>2. inbox' \in Seq(Byte) /\ toHost' \in Seq(Byte)
    BY <1>0, <2>1, PumpType DEF PollEvents
  <2>3. TypeOK'
    BY <2>1, <2>2 DEF TypeOK, PollEvents, histVars
  <2>. QED  BY <2>1, <2>3 DEF Stages, PollEvents
<1>2. CASE DrainToggle \/ DrainOther
  <2>1. inbox' \in Seq(Byte)
    BY <1>0, <1>2, HeadTailProperties DEF DrainToggle, DrainOther
  <2>2. polled' \in Seq(Seq(Byte))
    <3>1. <<DEV_MODE_TOGGLE>> \in Seq(Byte)
      BY DEF DEV_MODE_TOGGLE, Byte
    <3>2. polled \in Seq(Seq(Byte))
      BY DEF TypeOK
    <3>3. Append(polled, <<DEV_MODE_TOGGLE>>) \in Seq(Seq(Byte))
      BY <3>1, <3>2, AppendProperties
    <3>. QED  BY <1>2, <3>2, <3>3 DEF DrainToggle, DrainOther, histVars
  <2>3. TypeOK'
    BY <1>2, <2>1, <2>2 DEF TypeOK, DrainToggle, DrainOther, histVars
  <2>. QED  BY <1>2, <2>3 DEF Stages, DrainToggle, DrainOther
<1>3. CASE DrainLevel
  <2>1. inbox' \in Seq(Byte)
    BY <1>0, <1>3, Part DEF DrainLevel
  <2>2. inbox[1] \in Byte /\ (IF inbox[2] > 6 THEN 6 ELSE inbox[2]) \in Byte
    <3>1. inbox[1] \in Byte /\ inbox[2] \in Byte
      BY <1>0, <1>3, ElementOfSeq DEF DrainLevel
    <3>. QED  BY <3>1 DEF Byte
  <2>3. polled' \in Seq(Seq(Byte))
    BY <1>3, <2>2, Pair, AppendProperties DEF DrainLevel, TypeOK
  <2>4. TypeOK'
    BY <1>3, <2>1, <2>3 DEF TypeOK, DrainLevel
  <2>. QED  BY <1>3, <2>4 DEF Stages, DrainLevel
<1>4. CASE EndDrain
  <2>1. TypeOK'
    BY <1>4 DEF TypeOK, EndDrain, histVars
  <2>. QED  BY <1>4, <2>1 DEF Stages, EndDrain
<1>. QED  BY <1>1, <1>2, <1>3, <1>4

\* The parts of a frame on the wire.
LEMMA FrameFields ==
  ASSUME NEW f \in Frames
  PROVE  f.seq \in 0 .. SeqSpace - 1 /\ f.seq \in Byte /\ f.id \in Nat
<1>1. f.seq \in 0 .. SeqSpace - 1 /\ f.id \in Nat
  BY DEF Frames
<1>. QED  BY <1>1, Constants DEF Byte

\* And the panel.
LEMMA DeviceTypes ==
  ASSUME TypeOK, Stages, DeviceFrame \/ DeviceCut \/ DeviceEvent
  PROVE  TypeOK' /\ Stages'
<1>0. /\ toHost \in Seq(Byte) /\ toDev \in Seq(Frames)
      /\ FRAME_ACK \in Byte /\ FRAME_NAK \in Byte
      /\ partial # NoFrame => partial \in Byte
      /\ shown \in Nat /\ faults \in Nat
  BY DEF TypeOK, FRAME_ACK, FRAME_NAK, Byte
<1>1. Stages'
  BY DEF Stages, DeviceFrame, DeviceCut, DeviceEvent, hostVars
<1>2. ASSUME toDev # <<>>
      PROVE  /\ Head(toDev) \in Frames /\ Tail(toDev) \in Seq(Frames)
             /\ Head(toDev).seq \in 0 .. SeqSpace - 1 /\ Head(toDev).seq \in Byte
             /\ Head(toDev).id \in Nat
  <2>1. Head(toDev) \in Frames /\ Tail(toDev) \in Seq(Frames)
    BY <1>0, <1>2, HeadTailProperties
  <2>. QED  BY <2>1, FrameFields
<1>3. CASE DeviceFrame
  <2>1. toHost \o <<FRAME_ACK, Head(toDev).seq>> \in Seq(Byte)
    BY <1>0, <1>2, <1>3, Pair, ConcatProperties DEF DeviceFrame
  <2>2. partial # NoFrame => toHost \o <<FRAME_NAK, partial>> \in Seq(Byte)
    BY <1>0, Pair, ConcatProperties
  <2>3. toHost' \in Seq(Byte) /\ shown' \in Nat /\ faults' \in Nat
    <3>1. CASE partial = NoFrame
      <4>1. shown' = Head(toDev).id /\ toDev # <<>>
        BY <1>3, <3>1 DEF DeviceFrame
      <4>2. toHost' \in {toHost, toHost \o <<FRAME_ACK, Head(toDev).seq>>}
            /\ faults' \in {faults, faults + 1}
        BY <1>3, <3>1 DEF DeviceFrame
      <4>3. shown' \in Nat
        BY <1>2, <4>1
      <4>4. faults' \in Nat
        BY <1>0, <4>2
      <4>. QED  BY <1>0, <2>1, <4>2, <4>3, <4>4
    <3>2. CASE partial # NoFrame
      BY <1>0, <1>3, <2>2, <3>2 DEF DeviceFrame
    <3>. QED  BY <3>1, <3>2
  <2>4. TypeOK'
    BY <1>2, <1>3, <2>3 DEF DeviceFrame, TypeOK, hostVars, histVars
  <2>. QED  BY <1>1, <2>4
<1>4. CASE DeviceCut
  <2>1. toHost' \in Seq(Byte)
    BY <1>0, <1>4, Pair, ConcatProperties DEF DeviceCut
  <2>2. partial' \in Byte \union {NoFrame} /\ faults' \in Nat
    <3>1. partial' \in {NoFrame, Head(toDev).seq, CursorX, partial} /\ faults' \in {faults, faults + 1}
      BY <1>4 DEF DeviceCut
    <3>2. Head(toDev).seq \in Byte /\ CursorX \in Byte
      BY <1>2, <1>4, Constants DEF DeviceCut
    <3>. QED  BY <3>1, <3>2 DEF TypeOK
  <2>3. TypeOK'
    BY <1>2, <1>4, <2>1, <2>2 DEF DeviceCut, TypeOK, hostVars, histVars
  <2>. QED  BY <1>1, <2>3
<1>5. CASE DeviceEvent
  <2>1. PICK e \in Events : raised' = Append(raised, e) /\ toHost' = toHost \o e
    BY <1>5 DEF DeviceEvent
  <2>2. toHost' \in Seq(Byte)
    BY <1>0, <2>1, EventBytes, ConcatProperties
  <2>3. raised' \in Seq(Events)
    BY <2>1, AppendProperties DEF TypeOK
  <2>4. TypeOK'
    BY <1>5, <2>2, <2>3 DEF DeviceEvent, TypeOK, hostVars
  <2>. QED  BY <1>1, <2>4
<1>. QED  BY <1>3, <1>4, <1>5

\* So every step does.
LEMMA TypeNext == TypeOK /\ Stages /\ [Next]_vars => TypeOK' /\ Stages'
<1>. SUFFICES ASSUME TypeOK, Stages, [Next]_vars PROVE TypeOK' /\ Stages'
  OBVIOUS
<1>1. CASE UNCHANGED vars
  <2>1. TypeOK'
    BY <1>1 DEF TypeOK, vars, hostVars, histVars
  <2>. QED  BY <1>1, <2>1 DEF Stages, vars, hostVars
<1>. QED  BY <1>1, SendTypes, WaitTypes, PollTypes, DeviceTypes DEF Next, HostStep

\* Every variable keeps its type; no attempt and no failure is counted twice.
THEOREM TypeTheorem == Spec => []TypeOK
<1>1. Spec => [](TypeOK /\ Stages)
  BY TypeInit, TypeNext, PTL DEF Spec
<1>. QED  BY <1>1, PTL

-----------------------------------------------------------------------------
(* What the host has still to look at                                      *)

\* What is left of a stream keeps its sense when no level and no ACK is parted
\* from the byte behind it, and none is made by what goes.  p says where each
\* byte of t was in s.
LEMMA StreamKept ==
  ASSUME NEW B, NEW s \in Seq(B), NEW t \in Seq(B), NEW lo \in Nat, NEW hi \in Nat,
         NEW p \in [1 .. Len(t) -> 1 .. Len(s)],
         \A k \in 1 .. Len(t) : t[k] = s[p[k]],
         \A k, l \in 1 .. Len(t) : k < l => p[k] < p[l],
         \A k \in 1 .. Len(t) :
           (t[k] \in Levels \/ AckAt(t, k)) /\ p[k] < Len(s)
             => k < Len(t) /\ p[k + 1] = p[k] + 1,
         \A k \in 1 .. Len(t) : AckAt(t, k) => AckAt(s, p[k]),
         WellFormed(s), Genuine(s, lo, hi), InOrder(s, lo, hi)
  PROVE  WellFormed(t) /\ Genuine(t, lo, hi) /\ InOrder(t, lo, hi)
<1>0. Len(s) \in Nat /\ Len(t) \in Nat
  OBVIOUS
<1>1. ASSUME NEW k \in 1 .. Len(t), t[k] \in Levels
      PROVE  k < Len(t) /\ t[k + 1] \in 0 .. 6
  <2>1. p[k] \in 1 .. Len(s) /\ s[p[k]] \in Levels
    BY <1>1
  <2>2. p[k] < Len(s) /\ s[p[k] + 1] \in 0 .. 6
    BY <2>1 DEF WellFormed
  <2>3. k < Len(t) /\ p[k + 1] = p[k] + 1
    BY <1>1, <2>2
  <2>. QED  BY <1>0, <2>2, <2>3
<1>2. ASSUME NEW k \in 1 .. Len(t), AckAt(t, k)
      PROVE  /\ k < Len(t) /\ p[k] \in 1 .. Len(s) /\ AckAt(s, p[k])
             /\ t[k + 1] = s[p[k] + 1]
  <2>1. p[k] \in 1 .. Len(s) /\ AckAt(s, p[k])
    BY <1>2
  <2>2. p[k] < Len(s)
    BY <2>1 DEF WellFormed
  <2>3. k < Len(t) /\ p[k + 1] = p[k] + 1
    BY <1>2, <2>2
  <2>. QED  BY <1>0, <2>1, <2>3
<1>3. WellFormed(t)
  BY <1>1, <1>2 DEF WellFormed
<1>4. Genuine(t, lo, hi)
  BY <1>2 DEF Genuine
<1>5. InOrder(t, lo, hi)
  <2>. SUFFICES ASSUME NEW k \in 1 .. Len(t), NEW l \in 1 .. Len(t), NEW a \in (lo .. hi) \ {0},
                       k < l, AckAt(t, k), AckAt(t, l), t[k + 1] = Sign(a)
                PROVE  \E b \in a .. hi : t[l + 1] = Sign(b)
    BY DEF InOrder
  <2>1. /\ p[k] \in 1 .. Len(s) /\ AckAt(s, p[k]) /\ s[p[k] + 1] = Sign(a)
        /\ p[l] \in 1 .. Len(s) /\ AckAt(s, p[l]) /\ t[l + 1] = s[p[l] + 1]
    BY <1>2
  <2>2. p[k] < p[l]
    OBVIOUS
  <2>. QED  BY <2>1, <2>2 DEF InOrder
<1>. QED  BY <1>3, <1>4, <1>5

\* The first m bytes go; the last of them is no level.
LEMMA StreamSuffix ==
  ASSUME NEW B, NEW s \in Seq(B), NEW t \in Seq(B), NEW lo \in Nat, NEW hi \in Nat,
         NEW m \in 0 .. Len(s), m > 0 => s[m] \notin Levels,
         Len(t) = Len(s) - m, \A k \in 1 .. Len(t) : t[k] = s[k + m],
         WellFormed(s), Genuine(s, lo, hi), InOrder(s, lo, hi)
  PROVE  /\ WellFormed(t) /\ Genuine(t, lo, hi) /\ InOrder(t, lo, hi)
         /\ \A k \in 1 .. Len(t) : AckAt(t, k) => AckAt(s, k + m)
<1>0. Len(s) \in Nat /\ Len(t) \in Nat
  OBVIOUS
<1>. DEFINE p == [k \in 1 .. Len(t) |-> k + m]
<1>1. p \in [1 .. Len(t) -> 1 .. Len(s)] /\ \A k \in 1 .. Len(t) : p[k] = k + m
  BY <1>0
<1>2. \A k \in 1 .. Len(t) : AckAt(t, k) => AckAt(s, k + m)
  <2>. SUFFICES ASSUME NEW k \in 1 .. Len(t), AckAt(t, k) PROVE AckAt(s, k + m)
    OBVIOUS
  <2>1. s[k + m] = FRAME_ACK /\ ~DataAt(t, k)
    BY DEF AckAt
  <2>2. CASE k = 1
    BY <1>0, <2>1, <2>2 DEF AckAt, DataAt
  <2>3. CASE k > 1
    <3>1. k - 1 \in 1 .. Len(t) /\ t[k - 1] = s[k - 1 + m] /\ k - 1 + m = k + m - 1
      BY <1>0, <2>3
    <3>. QED  BY <1>0, <2>1, <2>3, <3>1 DEF AckAt, DataAt
  <2>. QED  BY <2>2, <2>3
<1>3. \A k \in 1 .. Len(t) : k + m < Len(s) => k < Len(t) /\ k + 1 \in 1 .. Len(t)
  BY <1>0
<1>. HIDE DEF p
<1>4. \A k, l \in 1 .. Len(t) : k < l => p[k] < p[l]
  BY <1>0, <1>1
<1>5. \A k \in 1 .. Len(t) : p[k] < Len(s) => k < Len(t) /\ p[k + 1] = p[k] + 1
  BY <1>0, <1>1, <1>3
<1>6. \A k \in 1 .. Len(t) : t[k] = s[p[k]] /\ (AckAt(t, k) => AckAt(s, p[k]))
  BY <1>1, <1>2
<1>. QED  BY <1>1, <1>2, <1>4, <1>5, <1>6, StreamKept

\* Byte j goes, behind a whole opcode or nothing.
LEMMA StreamRemove ==
  ASSUME NEW B, NEW s \in Seq(B), NEW t \in Seq(B), NEW lo \in Nat, NEW hi \in Nat,
         NEW j \in 1 .. Len(s), s[j] \notin Levels,
         j > 1 => s[j - 1] = DEV_MODE_TOGGLE \/ DataAt(s, j - 1),
         Len(t) = Len(s) - 1,
         \A k \in 1 .. Len(t) : t[k] = IF k < j THEN s[k] ELSE s[k + 1],
         WellFormed(s), Genuine(s, lo, hi), InOrder(s, lo, hi)
  PROVE  WellFormed(t) /\ Genuine(t, lo, hi) /\ InOrder(t, lo, hi)
<1>0. Len(s) \in Nat /\ Len(t) \in Nat
  OBVIOUS
<1>. DEFINE p == [k \in 1 .. Len(t) |-> IF k < j THEN k ELSE k + 1]
<1>1. /\ p \in [1 .. Len(t) -> 1 .. Len(s)]
      /\ \A k \in 1 .. Len(t) : p[k] = IF k < j THEN k ELSE k + 1
  BY <1>0
<1>2. \A k \in 1 .. Len(t) : AckAt(t, k) => AckAt(s, p[k])
  <2>. SUFFICES ASSUME NEW k \in 1 .. Len(t), AckAt(t, k) PROVE AckAt(s, p[k])
    OBVIOUS
  <2>1. s[p[k]] = FRAME_ACK /\ ~DataAt(t, k)
    BY <1>1 DEF AckAt
  <2>2. ~DataAt(s, p[k])
    <3>1. CASE k < j
      <4>1. k > 1 => k - 1 \in 1 .. Len(t) /\ t[k - 1] = s[k - 1]
        <5>1. k > 1 => k - 1 \in 1 .. Len(t) /\ k - 1 < j
          BY <1>0, <3>1
        <5>. QED  BY <5>1
      <4>. QED  BY <1>1, <2>1, <3>1, <4>1 DEF DataAt
    <3>2. CASE k = j
      BY <1>0, <1>1, <3>2 DEF DataAt
    <3>3. CASE k > j
      <4>1. k - 1 \in 1 .. Len(t) /\ ~(k - 1 < j) /\ t[k - 1] = s[k - 1 + 1] /\ k > 1
        BY <1>0, <3>3
      <4>2. k - 1 + 1 = p[k] - 1
        BY <1>0, <1>1, <3>3
      <4>. QED  BY <2>1, <4>1, <4>2 DEF DataAt
    <3>. QED  BY <3>1, <3>2, <3>3
  <2>. QED  BY <2>1, <2>2 DEF AckAt
<1>3. ASSUME NEW k \in 1 .. Len(t), k + 1 = j
      PROVE  t[k] \notin Levels /\ ~AckAt(t, k)
  <2>1. t[k] = s[k] /\ k = j - 1 /\ j > 1
    BY <1>0, <1>3
  <2>2. CASE s[k] = DEV_MODE_TOGGLE
    BY <2>1, <2>2 DEF AckAt, Levels, DEV_MODE_TOGGLE, FRAME_ACK, DEV_OSD_BRIGHT, DEV_OSD_SLEEP
  <2>3. CASE DataAt(s, k)
    <3>1. k > 1 /\ k - 1 \in 1 .. Len(s) /\ s[k - 1] \in Levels /\ k - 1 + 1 = k
      BY <1>0, <2>3 DEF DataAt
    <3>2. s[k] \in 0 .. 6
      BY <3>1 DEF WellFormed
    <3>3. k - 1 \in 1 .. Len(t) /\ t[k - 1] = s[k - 1]
      BY <1>0, <1>3, <3>1
    <3>4. DataAt(t, k)
      BY <3>1, <3>3 DEF DataAt
    <3>5. t[k] \notin Levels
      BY <2>1, <3>2, SMTT(30) DEF Levels, DEV_OSD_BRIGHT, DEV_OSD_SLEEP
    <3>. QED  BY <3>4, <3>5 DEF AckAt
  <2>. QED  BY <2>1, <2>2, <2>3
<1>. HIDE DEF p
<1>4. \A k, l \in 1 .. Len(t) : k < l => p[k] < p[l]
  BY <1>0, <1>1
<1>5. ASSUME NEW k \in 1 .. Len(t), t[k] \in Levels \/ AckAt(t, k), p[k] < Len(s)
      PROVE  k < Len(t) /\ p[k + 1] = p[k] + 1
  <2>1. k + 1 # j
    BY <1>3, <1>5
  <2>2. k < Len(t)
    BY <1>0, <1>1, <1>5, <2>1
  <2>3. k + 1 \in 1 .. Len(t)
    BY <1>0, <2>2
  <2>. QED  BY <1>0, <1>1, <2>1, <2>2, <2>3
<1>6. \A k \in 1 .. Len(t) : t[k] = s[p[k]]
  BY <1>1
<1>. QED  BY <1>1, <1>2, <1>4, <1>5, <1>6, StreamKept

\* What the panel writes at once, as it was meant: an opcode, or a reply, whose
\* number cannot be taken for a code; an ACK only for frame id.
Opcode(r) ==
  \/ Len(r) = 1 /\ r[1] = DEV_MODE_TOGGLE
  \/ Len(r) = 2 /\ r[1] \in Levels /\ r[2] \in 0 .. 6
Reply(r, id) ==
  /\ Len(r) = 2 /\ r[1] \in {FRAME_ACK, FRAME_NAK} /\ r[2] \notin Codes
  /\ r[1] = FRAME_ACK => id > 0 /\ r[2] = Sign(id)

\* What may be written behind a stream, so that it stays well-formed, genuine and in order.
LEMMA StreamAppend ==
  ASSUME NEW B, NEW s \in Seq(B), NEW r \in Seq(B), NEW lo \in Nat, NEW hi \in Nat, NEW top \in Nat,
         lo <= hi, hi <= top, top - lo < SeqSpace, Opcode(r) \/ Reply(r, top),
         WellFormed(s), Genuine(s, lo, hi), InOrder(s, lo, hi)
  PROVE  WellFormed(s \o r) /\ Genuine(s \o r, lo, top) /\ InOrder(s \o r, lo, top)
<1>. DEFINE t == s \o r
            n == Len(s)
<1>0. n \in Nat /\ Len(r) \in 1 .. 2 /\ SeqSpace \in Nat
  BY Constants DEF Opcode, Reply
<1>1. /\ t \in Seq(B) /\ Len(t) = n + Len(r)
      /\ \A k \in 1 .. n : t[k] = s[k]
      /\ t[n + 1] = r[1]
      /\ Len(r) = 2 => t[n + 2] = r[2]
  <2>1. /\ t \in Seq(B) /\ Len(t) = n + Len(r)
        /\ \A k \in 1 .. n + Len(r) : t[k] = IF k <= n THEN s[k] ELSE r[k - n]
    BY ConcatProperties
  <2>. HIDE DEF t, n
  <2>2. n + 1 \in 1 .. n + Len(r) /\ n + 1 - n = 1 /\ ~(n + 1 <= n)
    BY <1>0, SMTT(30)
  <2>3. ASSUME Len(r) = 2 PROVE n + 2 \in 1 .. n + Len(r) /\ n + 2 - n = 2
    BY <1>0, <2>3
  <2>4. \A k \in 1 .. n : k \in 1 .. n + Len(r) /\ k <= n
    <3>1. \A l \in 1 .. 2, k \in 1 .. n : k \in 1 .. n + l /\ k <= n
      BY <1>0
    <3>. QED  BY <1>0, <3>1
  <2>5. \A k \in 1 .. n : t[k] = s[k]
    BY <2>1, <2>4
  <2>6. ASSUME NEW j \in 1 .. Len(r) PROVE t[n + j] = r[j]
    <3>. DEFINE e == n + j
    <3>1. e \in 1 .. n + Len(r) /\ ~(e <= n) /\ e - n = j
      BY <1>0
    <3>. HIDE DEF e
    <3>2. t[e] = IF e <= n THEN s[e] ELSE r[e - n]
      BY <2>1, <3>1, Zenon
    <3>3. t[e] = r[j]
      BY <3>1, <3>2, Zenon
    <3>. QED  BY <3>3 DEF e
  <2>7. t[n + 1] = r[1] /\ (Len(r) = 2 => t[n + 2] = r[2])
    <3>1. \A l \in 1 .. 2 : 1 \in 1 .. l /\ (l = 2 => 2 \in 1 .. l)
      OBVIOUS
    <3>2. 1 \in 1 .. Len(r) /\ (Len(r) = 2 => 2 \in 1 .. Len(r))
      BY <1>0, <3>1, Zenon
    <3>. QED  BY <2>6, <3>2, Zenon
  <2>. QED  BY <2>1, <2>5, <2>6, <2>7
<1>2. n > 0 => s[n] \notin Levels
  BY <1>0 DEF WellFormed
<1>. HIDE DEF t, n
<1>. USE DEF FRAME_ACK, FRAME_NAK, Codes, Opcodes, Levels, DEV_MODE_TOGGLE, DEV_OSD_BRIGHT,
             DEV_OSD_SLEEP
<1>3. \A k \in 1 .. n : AckAt(t, k) <=> AckAt(s, k)
  <2>1. \A k \in 1 .. n : k > 1 => k - 1 \in 1 .. n
    BY <1>0
  <2>. QED  BY <1>1, <2>1 DEF AckAt, DataAt
<1>4. AckAt(t, n + 1) => r[1] = FRAME_ACK /\ Len(r) = 2 /\ top > 0 /\ t[n + 2] = Sign(top)
  BY <1>1 DEF AckAt, Opcode, Reply
<1>5. Len(r) = 2 => ~AckAt(t, n + 2)
  <2>1. n + 2 > 1 /\ n + 2 - 1 = n + 1
    BY <1>0
  <2>2. CASE Opcode(r)
    <3>1. Len(r) = 2 => t[n + 1] \in Levels
      BY <1>1, <2>2 DEF Opcode
    <3>2. Len(r) = 2 => DataAt(t, n + 2)
      <4>1. t[n + 2 - 1] = t[n + 1]
        BY <2>1
      <4>. HIDE DEF Levels
      <4>. QED  BY <1>0, <2>1, <3>1, <4>1 DEF DataAt
    <3>. QED  BY <3>2 DEF AckAt
  <2>3. CASE Reply(r, top)
    BY <1>1, <2>3 DEF AckAt, Reply
  <2>. QED  BY <2>2, <2>3
<1>6. \A k \in 1 .. Len(t) : k \in 1 .. n \/ k = n + 1 \/ (Len(r) = 2 /\ k = n + 2)
  <2>1. CASE Len(r) = 1
    BY <1>0, <1>1, <2>1
  <2>2. CASE Len(r) = 2
    BY <1>0, <1>1, <2>2
  <2>. QED  BY <1>0, <2>1, <2>2
<1>7. \A k \in 1 .. n : AckAt(s, k) => k < n /\ t[k + 1] = s[k + 1]
  <2>1. \A k \in 1 .. n : AckAt(s, k) => k < n
    BY DEF WellFormed, n
  <2>2. \A k \in 1 .. n : k < n => k + 1 \in 1 .. n
    BY <1>0
  <2>. QED  BY <1>1, <2>1, <2>2
<1>8. WellFormed(t)
  <2>. SUFFICES ASSUME NEW k \in 1 .. Len(t)
                PROVE  /\ t[k] \in Levels => k < Len(t) /\ t[k + 1] \in 0 .. 6
                       /\ AckAt(t, k) => k < Len(t)
    BY DEF WellFormed
  <2>1. CASE k \in 1 .. n
    <3>1. /\ s[k] \in Levels => k < n /\ s[k + 1] \in 0 .. 6
          /\ AckAt(s, k) => k < n
      BY <2>1 DEF WellFormed, n
    <3>2. k < n => k + 1 \in 1 .. n
      BY <1>0, <2>1
    <3>. QED  BY <1>0, <1>1, <1>3, <2>1, <3>1, <3>2, SMTT(30)
  <2>2. CASE k = n + 1
    <3>1. n + 1 + 1 = n + 2 /\ (Len(r) = 2 => n + 1 < Len(t))
      BY <1>0, <1>1, SMTT(30)
    <3>2. t[n + 1] \in Levels => Len(r) = 2 /\ t[n + 2] \in 0 .. 6
      <4>1. CASE Opcode(r)
        <5>1. r[1] \in Levels => Len(r) = 2 /\ r[2] \in 0 .. 6
          BY <4>1 DEF Opcode
        <5>. HIDE DEF Levels
        <5>. QED  BY <1>1, <5>1
      <4>2. CASE Reply(r, top)
        <5>1. r[1] \notin Levels
          BY <4>2 DEF Reply
        <5>. HIDE DEF Levels
        <5>. QED  BY <1>1, <5>1
      <4>. QED  BY <4>1, <4>2
    <3>. QED  BY <1>4, <2>2, <3>1, <3>2
  <2>3. CASE Len(r) = 2 /\ k = n + 2
    <3>1. t[n + 2] \notin Levels
      BY <1>1, <2>3, SMTT(30) DEF Opcode, Reply
    <3>. QED  BY <1>5, <2>3, <3>1
  <2>. QED  BY <1>6, <2>1, <2>2, <2>3
<1>9. ASSUME NEW k \in 1 .. Len(t), AckAt(t, k)
      PROVE  \/ k \in 1 .. n /\ AckAt(s, k) /\ t[k + 1] = s[k + 1]
             \/ k = n + 1 /\ top > 0 /\ t[k + 1] = Sign(top)
  <2>1. n + 1 + 1 = n + 2
    BY <1>0
  <2>. QED  BY <1>3, <1>4, <1>5, <1>6, <1>7, <1>9, <2>1
<1>10. ASSUME NEW k \in 1 .. n, AckAt(s, k)
       PROVE  \E id \in (lo .. hi) \ {0} : s[k + 1] = Sign(id)
  BY <1>10 DEF Genuine, n
<1>11. Genuine(t, lo, top)
  <2>. SUFFICES ASSUME NEW k \in 1 .. Len(t), AckAt(t, k)
                PROVE  \E id \in (lo .. top) \ {0} : t[k + 1] = Sign(id)
    BY DEF Genuine
  <2>1. CASE k \in 1 .. n /\ AckAt(s, k) /\ t[k + 1] = s[k + 1]
    <3>1. PICK id \in (lo .. hi) \ {0} : s[k + 1] = Sign(id)
      BY <1>10, <2>1
    <3>2. id \in (lo .. top) \ {0}
      BY <3>1
    <3>. QED  BY <2>1, <3>1, <3>2
  <2>2. CASE k = n + 1 /\ top > 0 /\ t[k + 1] = Sign(top)
    <3>1. top \in (lo .. top) \ {0}
      BY <2>2
    <3>. QED  BY <2>2, <3>1
  <2>. QED  BY <1>9, <2>1, <2>2
<1>12. InOrder(t, lo, top)
  <2>. SUFFICES ASSUME NEW k \in 1 .. Len(t), NEW l \in 1 .. Len(t), NEW a \in (lo .. top) \ {0},
                       k < l, AckAt(t, k), AckAt(t, l), t[k + 1] = Sign(a)
                PROVE  \E b \in a .. top : t[l + 1] = Sign(b)
    BY DEF InOrder
  <2>1. CASE l \in 1 .. n /\ AckAt(s, l) /\ t[l + 1] = s[l + 1]
    <3>1. k \in 1 .. n /\ AckAt(s, k) /\ t[k + 1] = s[k + 1]
      BY <1>0, <1>9, <2>1
    <3>2. PICK id \in (lo .. hi) \ {0} : s[k + 1] = Sign(id)
      BY <1>10, <3>1
    <3>3. id = a
      <4>1. CASE id <= a
        <5>1. id \in Nat \ {0} /\ a \in Nat \ {0} /\ a - id < SeqSpace
          BY <1>0, <4>1
        <5>. QED  BY <3>1, <3>2, <4>1, <5>1, SignApart
      <4>2. CASE a <= id
        <5>1. id \in Nat \ {0} /\ a \in Nat \ {0} /\ id - a < SeqSpace
          BY <1>0, <4>2
        <5>. QED  BY <3>1, <3>2, <4>2, <5>1, SignApart
      <4>. QED  BY <4>1, <4>2
    <3>4. PICK b \in a .. hi : s[l + 1] = Sign(b)
      BY <2>1, <3>1, <3>2, <3>3 DEF InOrder, n
    <3>5. b \in a .. top
      BY <3>4
    <3>. QED  BY <2>1, <3>4, <3>5
  <2>2. CASE l = n + 1 /\ top > 0 /\ t[l + 1] = Sign(top)
    <3>1. top \in a .. top
      OBVIOUS
    <3>. QED  BY <2>2, <3>1
  <2>. QED  BY <1>9, <2>1, <2>2
<1>. QED  BY <1>8, <1>11, <1>12 DEF t

\* What reading does: the number it looks for is marked, all else is as it was.
LEMMA ReadingIs ==
  ASSUME NEW s \in Seq(Byte), NEW c \in Codes \union {NoFrame}
  PROVE  /\ Reading(s, c) \in Seq(Sym) /\ Len(Reading(s, c)) = Len(s)
         /\ \A k \in 1 .. Len(s) :
              /\ Reading(s, c)[k] = IF NumberAt(s, k, c) THEN Mark(c) ELSE s[k]
              /\ NumberAt(s, k, c) => c \in Codes /\ Reading(s, c)[k] \notin Byte
              /\ ~NumberAt(s, k, c) => Reading(s, c)[k] = s[k] /\ Reading(s, c)[k] \in Byte
         /\ c = NoFrame => Reading(s, c) = s
<1>1. NoFrame \notin Byte /\ Codes \subseteq Byte /\ Byte \subseteq Sym
  BY CodeValues DEF NoFrame, Byte, Sym
<1>2. ASSUME NEW k \in 1 .. Len(s)
      PROVE  /\ s[k] \in Byte /\ s[k] \in Sym
             /\ NumberAt(s, k, c) => c \in Codes /\ Mark(c) \notin Byte /\ Mark(c) \in Sym
  <2>1. s[k] \in Byte
    BY ElementOfSeq
  <2>2. NumberAt(s, k, c) => c \in Codes
    BY <1>1, <2>1 DEF NumberAt
  <2>3. c \in Codes => Mark(c) \notin Byte /\ Mark(c) \in Sym
    BY <1>1, Marks
  <2>. QED  BY <1>1, <2>1, <2>2, <2>3
<1>. DEFINE t == Reading(s, c)
<1>3. Len(s) \in Nat /\ t = [k \in 1 .. Len(s) |-> IF NumberAt(s, k, c) THEN Mark(c) ELSE s[k]]
  BY DEF Reading
<1>. HIDE DEF t
<1>4. ASSUME NEW k \in 1 .. Len(s)
      PROVE  t[k] = IF NumberAt(s, k, c) THEN Mark(c) ELSE s[k]
  BY <1>3
<1>5. t \in Seq(Sym) /\ Len(t) = Len(s)
  <2>1. \A k \in 1 .. Len(s) : (IF NumberAt(s, k, c) THEN Mark(c) ELSE s[k]) \in Sym
    BY <1>2
  <2>2. t \in [1 .. Len(s) -> Sym]
    BY <1>3, <2>1
  <2>. QED  BY <1>3, <2>2
<1>6. ASSUME NEW k \in 1 .. Len(s)
      PROVE  /\ t[k] = IF NumberAt(s, k, c) THEN Mark(c) ELSE s[k]
             /\ NumberAt(s, k, c) => c \in Codes /\ t[k] \notin Byte
             /\ ~NumberAt(s, k, c) => t[k] = s[k] /\ t[k] \in Byte
  BY <1>2, <1>4
<1>7. c = NoFrame => t = s
  <2>. SUFFICES ASSUME c = NoFrame PROVE t = s
    OBVIOUS
  <2>1. NoFrame \notin Codes
    BY <1>1
  <2>2. \A k \in 1 .. Len(s) : t[k] = s[k] /\ t[k] \in Byte
    BY <1>6, <2>1
  <2>3. t \in Seq(Byte)
    <3>1. Len(t) \in Nat /\ t \in [1 .. Len(t) -> Byte]
      BY <1>3, <1>5, <2>2
    <3>. QED  BY <3>1
  <2>. QED  BY <1>5, <2>2, <2>3, SeqEqual
<1>. QED  BY <1>5, <1>6, <1>7 DEF t

\* Behind a string that does not end in the middle of a reply, only the number of
\* an ACK written with it is marked.
LEMMA ReadingAppend ==
  ASSUME NEW s \in Seq(Byte), NEW r \in Seq(Byte), NEW c \in Codes \union {NoFrame},
         Len(r) \in 1 .. 2, Len(s) > 0 => ~(AckAt(s, Len(s)) /\ r[1] = c),
         NEW q \in Seq(Sym), Len(q) = Len(r), q[1] = r[1],
         Len(r) = 2 => q[2] = IF r[1] = FRAME_ACK /\ r[2] = c THEN Mark(c) ELSE r[2],
         r[1] = FRAME_ACK /\ Len(s) > 0 => s[Len(s)] \notin Levels
  PROVE  Reading(s \o r, c) = Reading(s, c) \o q
<1>. DEFINE n == Len(s)
            t == s \o r
            u == Reading(t, c)
            v == Reading(s, c) \o q
<1>1. n \in Nat /\ Len(r) \in {1, 2} /\ Len(q) = Len(r)
  OBVIOUS
<1>2. /\ t \in Seq(Byte) /\ Len(t) = n + Len(r)
      /\ \A k \in 1 .. n : t[k] = s[k]
      /\ \A k \in n + 1 .. n + Len(r) : t[k] = r[k - n]
  BY Joined
<1>3. /\ Reading(s, c) \in Seq(Sym) /\ Len(Reading(s, c)) = n
      /\ \A k \in 1 .. n : Reading(s, c)[k] = IF NumberAt(s, k, c) THEN Mark(c) ELSE s[k]
  BY ReadingIs
<1>4. /\ u \in Seq(Sym) /\ Len(u) = Len(t)
      /\ \A k \in 1 .. Len(t) : u[k] = IF NumberAt(t, k, c) THEN Mark(c) ELSE t[k]
  BY <1>2, ReadingIs
<1>5. /\ v \in Seq(Sym) /\ Len(v) = n + Len(q)
      /\ \A k \in 1 .. n : v[k] = Reading(s, c)[k]
      /\ \A k \in n + 1 .. n + Len(q) : v[k] = q[k - n]
  <2>. DEFINE w == Reading(s, c)
  <2>1. w \in Seq(Sym) /\ Len(w) = n
    BY <1>3
  <2>. HIDE DEF w, n
  <2>2. /\ w \o q \in Seq(Sym) /\ Len(w \o q) = Len(w) + Len(q)
        /\ \A k \in 1 .. Len(w) : (w \o q)[k] = w[k]
        /\ \A k \in Len(w) + 1 .. Len(w) + Len(q) : (w \o q)[k] = q[k - Len(w)]
    BY <2>1, Joined
  <2>. QED  BY <2>1, <2>2 DEF w
<1>. HIDE DEF n, t, u, v
<1>6. ASSUME NEW k \in 1 .. n PROVE u[k] = v[k]
  <2>1. k \in 1 .. Len(t)
    BY <1>1, <1>2
  <2>2. (k > 1 => k - 1 \in 1 .. n) /\ (k - 1 > 1 => k - 1 - 1 \in 1 .. n)
    BY <1>1
  <2>3. NumberAt(t, k, c) <=> NumberAt(s, k, c)
    BY <1>2, <2>2 DEF NumberAt, AckAt, DataAt
  <2>4. u[k] = IF NumberAt(t, k, c) THEN Mark(c) ELSE t[k]
    BY <1>4, <2>1
  <2>5. v[k] = IF NumberAt(s, k, c) THEN Mark(c) ELSE s[k]
    BY <1>3, <1>5
  <2>. QED  BY <1>2, <2>3, <2>4, <2>5
<1>7. u[n + 1] = v[n + 1]
  <2>1. n + 1 \in 1 .. Len(t) /\ n + 1 \in n + 1 .. n + Len(r) /\ n + 1 - n = 1
    <3>1. Len(t) = n + 1 \/ Len(t) = n + 2
      BY <1>1, <1>2
    <3>2. n + 1 \in n + 1 .. n + 1 /\ n + 1 \in n + 1 .. n + 2 /\ n + 1 \in 1 .. n + 1 /\ n + 1 \in 1 .. n + 2
          /\ n + 1 - n = 1
      BY <1>1
    <3>. QED  BY <1>1, <3>1, <3>2
  <2>2. t[n + 1] = r[1] /\ v[n + 1] = q[1]
    <3>1. 1 \in 1 .. Len(r) /\ 1 \in 1 .. Len(q) /\ Len(Reading(s, c)) = n
      BY <1>1, <1>3
    <3>2. (s \o r)[Len(s) + 1] = r[1] /\ (Reading(s, c) \o q)[Len(Reading(s, c)) + 1] = q[1]
      BY <1>3, <3>1, JoinedBehind
    <3>. QED  BY <3>1, <3>2 DEF n, t, v
  <2>3. ~NumberAt(t, n + 1, c)
    <3>. SUFFICES ASSUME NumberAt(t, n + 1, c) PROVE FALSE
      OBVIOUS
    <3>1. n > 0 /\ n + 1 - 1 = n /\ r[1] = c /\ AckAt(t, n)
      BY <1>1, <2>2 DEF NumberAt
    <3>2. n \in 1 .. n /\ (n > 1 => n - 1 \in 1 .. n)
      BY <1>1, <3>1
    <3>3. AckAt(s, n)
      BY <1>2, <3>1, <3>2 DEF AckAt, DataAt
    <3>. QED  BY <3>1, <3>3 DEF n
  <2>. QED  BY <1>4, <2>1, <2>2, <2>3
<1>8. Len(r) = 2 => u[n + 2] = v[n + 2]
  <2>. SUFFICES ASSUME Len(r) = 2 PROVE u[n + 2] = v[n + 2]
    OBVIOUS
  <2>1. /\ n + 1 \in n + 1 .. n + Len(r) /\ n + 1 - n = 1
        /\ n + 2 \in 1 .. Len(t) /\ n + 2 \in n + 1 .. n + Len(r) /\ n + 2 - n = 2
        /\ n + 2 > 1 /\ n + 2 - 1 = n + 1
    BY <1>1, <1>2
  <2>2. t[n + 1] = r[1] /\ t[n + 2] = r[2] /\ v[n + 2] = q[2]
    <3>1. 1 \in 1 .. Len(r) /\ 2 \in 1 .. Len(r) /\ 2 \in 1 .. Len(q) /\ Len(Reading(s, c)) = n
      BY <1>1, <1>3
    <3>2. /\ (s \o r)[Len(s) + 1] = r[1] /\ (s \o r)[Len(s) + 2] = r[2]
          /\ (Reading(s, c) \o q)[Len(Reading(s, c)) + 2] = q[2]
      BY <1>3, <3>1, JoinedBehind
    <3>. QED  BY <3>1, <3>2 DEF n, t, v
  <2>3. AckAt(t, n + 1) <=> r[1] = FRAME_ACK
    <3>1. r[1] = FRAME_ACK => ~DataAt(t, n + 1)
      <4>. SUFFICES ASSUME r[1] = FRAME_ACK, DataAt(t, n + 1) PROVE FALSE
        OBVIOUS
      <4>1. n > 0 /\ n + 1 - 1 = n /\ t[n] \in Levels
        BY <1>1 DEF DataAt
      <4>2. n \in 1 .. n
        BY <1>1, <4>1
      <4>. QED  BY <1>2, <4>1, <4>2 DEF n
    <3>. QED  BY <2>2, <3>1 DEF AckAt
  <2>4. NumberAt(t, n + 2, c) <=> r[1] = FRAME_ACK /\ r[2] = c
    <3>1. \A x : x > 1 /\ x - 1 = n + 1
                  => (NumberAt(t, x, c) <=> t[x] = c /\ AckAt(t, n + 1))
      BY DEF NumberAt
    <3>2. NumberAt(t, n + 2, c) <=> t[n + 2] = c /\ AckAt(t, n + 1)
      BY <1>1, <2>1, <3>1
    <3>. QED  BY <2>2, <2>3, <3>2, Zenon
  <2>. QED  BY <1>4, <2>1, <2>2, <2>4
<1>9. \A k \in 1 .. Len(u) : u[k] = v[k]
  <2>1. \A k \in 1 .. Len(u) : k \in 1 .. n \/ k = n + 1 \/ (Len(r) = 2 /\ k = n + 2)
    <3>1. Len(u) = n + Len(r) /\ n \in Nat /\ (Len(r) = 1 \/ Len(r) = 2)
      BY <1>1, <1>2, <1>4
    <3>2. \A l \in {1, 2} : \A k \in 1 .. n + l : k \in 1 .. n \/ k = n + 1 \/ (l = 2 /\ k = n + 2)
      BY <1>1
    <3>. QED  BY <3>1, <3>2
  <2>. QED  BY <1>6, <1>7, <1>8, <2>1
<1>10. u = v
  BY <1>1, <1>2, <1>4, <1>5, <1>9, SeqEqual
<1>. QED  BY <1>10 DEF u, v, t

\* When byte j goes, which is no level, no ACK whose number is sought and behind
\* neither, the marks stay where they are.
LEMMA ReadingRemove ==
  ASSUME NEW s \in Seq(Byte), NEW t \in Seq(Byte), NEW c \in Codes \union {NoFrame},
         NEW j \in 1 .. Len(s), s[j] \notin Levels,
         j > 1 => ~AckAt(s, j - 1) /\ s[j - 1] \notin Levels,
         j < Len(s) => ~(AckAt(s, j) /\ s[j + 1] = c),
         Len(t) = Len(s) - 1,
         \A k \in 1 .. Len(t) : t[k] = IF k < j THEN s[k] ELSE s[k + 1]
  PROVE  \A k \in 1 .. Len(t) : Reading(t, c)[k] = Reading(s, c)[IF k < j THEN k ELSE k + 1]
<1>1. Len(s) \in Nat /\ Len(t) \in Nat
  OBVIOUS
<1>2. \A k \in 1 .. Len(s) : Reading(s, c)[k] = IF NumberAt(s, k, c) THEN Mark(c) ELSE s[k]
  BY ReadingIs
<1>3. \A k \in 1 .. Len(t) : Reading(t, c)[k] = IF NumberAt(t, k, c) THEN Mark(c) ELSE t[k]
  BY ReadingIs
<1>. SUFFICES ASSUME NEW k \in 1 .. Len(t)
              PROVE  Reading(t, c)[k] = Reading(s, c)[IF k < j THEN k ELSE k + 1]
  OBVIOUS
<1>4. CASE k < j
  <2>1. k \in 1 .. Len(s) /\ t[k] = s[k]
    BY <1>1, <1>4
  <2>2. (k > 1 => t[k - 1] = s[k - 1]) /\ (k - 1 > 1 => t[k - 1 - 1] = s[k - 1 - 1])
    <3>1. /\ k > 1 => k - 1 \in 1 .. Len(t) /\ k - 1 < j
          /\ k - 1 > 1 => k - 1 - 1 \in 1 .. Len(t) /\ k - 1 - 1 < j
      BY <1>1, <1>4
    <3>. QED  BY <3>1
  <2>3. NumberAt(t, k, c) <=> NumberAt(s, k, c)
    BY <2>1, <2>2 DEF NumberAt, AckAt, DataAt
  <2>. QED  BY <1>2, <1>3, <1>4, <2>1, <2>3
<1>5. CASE k = j
  <2>1. k + 1 \in 1 .. Len(s) /\ t[k] = s[k + 1] /\ ~(k < j) /\ k + 1 - 1 = j /\ j < Len(s)
    BY <1>1, <1>5
  <2>2. (k > 1 => t[k - 1] = s[k - 1]) /\ (k - 1 > 1 => t[k - 1 - 1] = s[k - 1 - 1])
    <3>1. /\ k > 1 => k - 1 \in 1 .. Len(t) /\ k - 1 < j
          /\ k - 1 > 1 => k - 1 - 1 \in 1 .. Len(t) /\ k - 1 - 1 < j
      BY <1>1, <1>5
    <3>. QED  BY <3>1
  <2>3. ~NumberAt(t, k, c)
    BY <1>5, <2>2 DEF NumberAt, AckAt, DataAt
  <2>4. ~NumberAt(s, k + 1, c)
    BY <1>5, <2>1 DEF NumberAt
  <2>. QED  BY <1>2, <1>3, <2>1, <2>3, <2>4
<1>6. CASE k = j + 1
  <2>1. /\ k + 1 \in 1 .. Len(s) /\ t[k] = s[k + 1] /\ ~(k < j) /\ k > 1 /\ k - 1 = j /\ k + 1 > 1
        /\ k + 1 - 1 = j + 1 /\ k - 1 \in 1 .. Len(t) /\ ~(k - 1 < j) /\ k - 1 + 1 = j + 1
        /\ j + 1 - 1 = j /\ j + 1 > 1
    BY <1>1, <1>6
  <2>2. t[j] = s[j + 1]
    BY <2>1
  <2>3. ~DataAt(s, j + 1)
    BY <2>1 DEF DataAt
  <2>4. ~DataAt(t, j)
    <3>1. j > 1 => j - 1 \in 1 .. Len(t) /\ j - 1 < j
      BY <1>1, <2>1
    <3>2. j > 1 => t[j - 1] = s[j - 1]
      BY <3>1
    <3>. QED  BY <3>2 DEF DataAt
  <2>5. NumberAt(t, k, c) <=> NumberAt(s, k + 1, c)
    BY <2>1, <2>2, <2>3, <2>4 DEF NumberAt, AckAt
  <2>. QED  BY <1>2, <1>3, <2>1, <2>5
<1>7. CASE k > j + 1
  <2>1. /\ k + 1 \in 1 .. Len(s) /\ t[k] = s[k + 1] /\ ~(k < j) /\ k > 1 /\ k + 1 > 1
        /\ k - 1 \in 1 .. Len(t) /\ ~(k - 1 < j) /\ k - 1 + 1 = k + 1 - 1
        /\ k - 1 - 1 \in 1 .. Len(t) /\ ~(k - 1 - 1 < j) /\ k - 1 - 1 + 1 = k + 1 - 1 - 1
        /\ k - 1 > 1 /\ k + 1 - 1 > 1
    BY <1>1, <1>7
  <2>2. t[k - 1] = s[k + 1 - 1] /\ t[k - 1 - 1] = s[k + 1 - 1 - 1]
    <3>1. t[k - 1] = s[k - 1 + 1] /\ t[k - 1 - 1] = s[k - 1 - 1 + 1]
      BY <2>1
    <3>. QED  BY <2>1, <3>1
  <2>3. NumberAt(t, k, c) <=> NumberAt(s, k + 1, c)
    BY <2>1, <2>2 DEF NumberAt, AckAt, DataAt
  <2>. QED  BY <1>2, <1>3, <2>1, <2>3
<1>8. k < j \/ k = j \/ k = j + 1 \/ k > j + 1
  BY <1>1
<1>. QED  BY <1>4, <1>5, <1>6, <1>7, <1>8

\* Without the number nothing is marked.
LEMMA ReadingNone ==
  ASSUME NEW s \in Seq(Byte), NEW c \in Codes \union {NoFrame},
         \A k \in 1 .. Len(s) : ~NumberAt(s, k, c)
  PROVE  Reading(s, c) = s
<1>. DEFINE t == Reading(s, c)
<1>1. /\ t \in Seq(Sym) /\ Len(t) = Len(s) /\ Len(s) \in Nat
      /\ \A k \in 1 .. Len(s) : t[k] = s[k] /\ t[k] \in Byte
  BY ReadingIs
<1>. HIDE DEF t
<1>2. t \in Seq(Byte)
  <2>1. t \in [1 .. Len(s) -> Byte]
    BY <1>1
  <2>. QED  BY <1>1, <2>1
<1>3. t = s
  BY <1>1, <1>2, SeqEqual
<1>. QED  BY <1>3 DEF t

\* The inbox, and the wire behind it; and how they are read.
LEMMA StreamIs ==
  ASSUME inbox \in Seq(Byte), toHost \in Seq(Byte)
  PROVE  /\ raw \in Seq(Byte) /\ Len(raw) = Len(inbox) + Len(toHost)
         /\ \A k \in 1 .. Len(inbox) : raw[k] = inbox[k]
         /\ \A k \in 1 .. Len(toHost) : raw[Len(inbox) + k] = toHost[k]
         /\ code \in Codes \union {NoFrame} /\ NoFrame \notin Codes /\ NoFrame \notin Byte
         /\ stream \in Seq(Sym) /\ Len(stream) = Len(raw)
         /\ \A k \in 1 .. Len(raw) :
              /\ raw[k] \in Byte
              /\ stream[k] \in Byte => stream[k] = raw[k] /\ ~NumberAt(raw, k, code)
              /\ stream[k] \notin Byte => NumberAt(raw, k, code) /\ stream[k] = Mark(code) /\ code \in Codes
         /\ ~Coded => stream = raw
<1>1. /\ raw \in Seq(Byte) /\ Len(raw) = Len(inbox) + Len(toHost)
      /\ \A k \in 1 .. Len(inbox) + Len(toHost) :
           raw[k] = IF k <= Len(inbox) THEN inbox[k] ELSE toHost[k - Len(inbox)]
  BY ConcatProperties DEF raw
<1>2. Len(inbox) \in Nat /\ Len(toHost) \in Nat
  OBVIOUS
<1>3. \A k \in 1 .. Len(inbox) : k \in 1 .. Len(inbox) + Len(toHost) /\ k <= Len(inbox)
  BY <1>2
<1>4. \A k \in 1 .. Len(toHost) : /\ Len(inbox) + k \in 1 .. Len(inbox) + Len(toHost)
                                  /\ ~(Len(inbox) + k <= Len(inbox))
                                  /\ Len(inbox) + k - Len(inbox) = k
  BY <1>2
<1>5. code \in Codes \union {NoFrame} /\ (~Coded => code = NoFrame)
  BY DEF code, Coded
<1>6. NoFrame \notin Byte /\ NoFrame \notin Codes
  BY CodeValues DEF NoFrame, Byte
<1>7. /\ stream \in Seq(Sym) /\ Len(stream) = Len(raw)
      /\ \A k \in 1 .. Len(raw) :
           /\ stream[k] \in Byte => stream[k] = raw[k] /\ ~NumberAt(raw, k, code)
           /\ stream[k] \notin Byte => NumberAt(raw, k, code) /\ stream[k] = Mark(code) /\ code \in Codes
      /\ code = NoFrame => stream = raw
  BY <1>1, <1>5, ReadingIs DEF stream
<1>8. \A k \in 1 .. Len(raw) : raw[k] \in Byte
  BY <1>1, ElementOfSeq
<1>. QED  BY <1>1, <1>3, <1>4, <1>5, <1>6, <1>7, <1>8

\* Strings of bytes may be read in parts.
LEMMA InParts ==
  ASSUME NEW a \in Seq(Byte), NEW b \in Seq(Byte), NEW c \in Seq(Byte)
  PROVE  (a \o b) \o c = a \o (b \o c)
OBVIOUS

\* Reading moves the border between the inbox and the wire.
LEMMA PumpStream ==
  ASSUME inbox \in Seq(Byte), toHost \in Seq(Byte), Roomy, NEW n \in 0 .. Len(toHost), PumpInbox(n)
  PROVE  /\ inbox' = inbox \o SubSeq(toHost, 1, n)
         /\ toHost' = SubSeq(toHost, n + 1, Len(toHost))
         /\ raw' = raw
<1>1. InboxCap \in Nat /\ Len(inbox) \in Nat /\ Len(toHost) \in Nat
  BY Constants
<1>2. /\ SubSeq(toHost, 1, n) \in Seq(Byte) /\ SubSeq(toHost, n + 1, Len(toHost)) \in Seq(Byte)
      /\ Len(SubSeq(toHost, 1, n)) = n
  BY <1>1, Part
<1>. DEFINE box == inbox \o SubSeq(toHost, 1, n)
<1>3. box \in Seq(Byte) /\ Len(box) = Len(inbox) + n
  BY <1>2, ConcatProperties
<1>4. TrimInbox(box) = box
  <2>. HIDE DEF box
  <2>1. ~(Len(box) > InboxCap)
    BY <1>1, <1>3 DEF Roomy
  <2>. QED  BY <2>1 DEF TrimInbox
<1>5. inbox' = box /\ toHost' = SubSeq(toHost, n + 1, Len(toHost))
  BY <1>4 DEF PumpInbox
<1>6. SubSeq(toHost, 1, n) \o SubSeq(toHost, n + 1, Len(toHost)) = toHost
  <2>1. 1 \in 1 .. Len(toHost) + 1 /\ n \in 1 - 1 .. Len(toHost) /\ Len(toHost) \in n .. Len(toHost)
    BY <1>1
  <2>2. SubSeq(toHost, 1, n) \o SubSeq(toHost, n + 1, Len(toHost)) = SubSeq(toHost, 1, Len(toHost))
    BY <2>1, ConcatAdjacentSubSeq
  <2>. QED  BY <2>2, SubSeqFull
<1>7. raw' = inbox \o toHost
  <2>1. raw' = (inbox \o SubSeq(toHost, 1, n)) \o SubSeq(toHost, n + 1, Len(toHost))
    BY <1>5 DEF raw
  <2>2. raw' = inbox \o (SubSeq(toHost, 1, n) \o SubSeq(toHost, n + 1, Len(toHost)))
    <3>. DEFINE a == SubSeq(toHost, 1, n)
                b == SubSeq(toHost, n + 1, Len(toHost))
    <3>1. a \in Seq(Byte) /\ b \in Seq(Byte) /\ raw' = (inbox \o a) \o b
      BY <1>2, <2>1
    <3>. HIDE DEF a, b
    <3>2. (inbox \o a) \o b = inbox \o (a \o b)
      BY <3>1, InParts
    <3>3. raw' = inbox \o (a \o b)
      BY <3>1, <3>2
    <3>. QED  BY <3>3 DEF a, b
  <2>. QED  BY <1>6, <2>2
<1>. QED  BY <1>5, <1>7 DEF raw

\* A send that is k numbers old cannot be taken for the current one.
LEMMA Window ==
  ASSUME LinkInv
  PROVE  /\ lastOk \in Nat /\ lastOk <= shown /\ shown <= sent /\ sent - lastOk < SeqSpace
         /\ sent \in Nat /\ shown \in Nat /\ fails \in Nat
         /\ outcome = "pending" => lastOk < sent
<1>1. sent \in Nat /\ shown \in Nat /\ fails \in 0 .. MaxFails
  BY DEF LinkInv, TypeOK
<1>2. lastOk <= shown /\ shown <= sent
  BY DEF LinkInv, Numbered
<1>3. CASE outcome = "pending"
  <2>1. fails < sent /\ fails < MaxFails /\ lastOk = sent - 1 - fails
    BY <1>3 DEF LinkInv, Stages, lastOk
  <2>. QED  BY <1>1, <1>2, <2>1, Constants
<1>4. CASE outcome # "pending"
  <2>1. fails <= sent /\ lastOk = sent - fails
    BY <1>4 DEF LinkInv, Stages, lastOk
  <2>. QED  BY <1>1, <1>2, <1>4, <2>1, Constants
<1>. QED  BY <1>3, <1>4

\* A marked byte is the number of the send in progress, which is shown.
LEMMA Marked ==
  ASSUME LinkInv, NEW k \in 1 .. Len(stream), stream[k] \notin Byte
  PROVE  /\ Coded /\ code = cur /\ raw[k] = cur /\ stream[k] = Sign(sent) /\ shown = sent
         /\ k > 1 /\ AckAt(raw, k - 1)
         /\ \A l \in 1 .. Len(stream) : l # k => stream[l] \in Byte
<1>1. inbox \in Seq(Byte) /\ toHost \in Seq(Byte)
  BY DEF LinkInv, TypeOK
<1>2. NumberAt(raw, k, code) /\ stream[k] = Mark(code) /\ code \in Codes
  BY <1>1, StreamIs
<1>3. Coded /\ code = cur
  BY <1>1, <1>2, StreamIs DEF code
<1>4. outcome = "pending" /\ fails < sent /\ sent \in Nat /\ fails \in Nat /\ (sent > 0 => cur = Num(sent))
  BY <1>3, Window DEF Coded, LinkInv, Stages, Numbered
<1>5. cur = Num(sent)
  BY <1>4
<1>6. stream[k] = Sign(sent)
  BY <1>2, <1>3, <1>5 DEF Sign
<1>7. shown = sent /\ \A l \in 1 .. Len(stream) : l # k => stream[l] \in Byte
  BY DEF LinkInv, Once
<1>. QED  BY <1>2, <1>3, <1>6, <1>7 DEF NumberAt

\* Before and after a send nothing is marked, and no code is under way.
LEMMA Plain ==
  ASSUME LinkInv, ~Coded
  PROVE  /\ stream = raw /\ code = NoFrame /\ partial \notin Codes
         /\ \A k \in 1 .. Len(toDev) : toDev[k].seq \notin Codes
         /\ \A k \in 1 .. Len(stream) : stream[k] \in Byte
<1>1. inbox \in Seq(Byte) /\ toHost \in Seq(Byte)
  BY DEF LinkInv, TypeOK
<1>2. stream = raw /\ code = NoFrame /\ \A k \in 1 .. Len(stream) : stream[k] \in Byte
  BY <1>1, StreamIs DEF code
<1>. QED  BY <1>2 DEF LinkInv, Once

\* wait_ack looks at the first byte of an opcode, of a reply or of its rest, and
\* what it left behind is no part of a reply.
LEMMA AtFirstByte ==
  ASSUME LinkInv, pc = "scan", i <= Len(inbox)
  PROVE  /\ i \in 1 .. Len(inbox) /\ i \in 1 .. Len(stream)
         /\ raw[i] = inbox[i] /\ stream[i] = inbox[i]
         /\ ~DataAt(stream, i) /\ ~DataAt(raw, i)
         /\ i > 1 => /\ stream[i - 1] = DEV_MODE_TOGGLE \/ DataAt(stream, i - 1)
                     /\ raw[i - 1] \notin Levels /\ ~AckAt(raw, i - 1)
<1>0. inbox \in Seq(Byte) /\ toHost \in Seq(Byte) /\ i \in Nat \ {0} /\ Len(inbox) \in Nat
      /\ Len(toHost) \in Nat
  BY DEF LinkInv, TypeOK
<1>1. /\ i \in 1 .. Len(inbox) /\ Len(inbox) <= Len(stream) /\ Len(stream) \in Nat
      /\ \A k \in 1 .. Len(inbox) : k \in 1 .. Len(stream) /\ raw[k] = inbox[k]
      /\ \A k \in 1 .. Len(stream) : /\ stream[k] \in Byte => stream[k] = raw[k] /\ ~NumberAt(raw, k, code)
                                     /\ stream[k] \notin Byte => NumberAt(raw, k, code)
  BY <1>0, StreamIs
<1>2. ASSUME i > 1
      PROVE  /\ stream[i - 1] = DEV_MODE_TOGGLE \/ DataAt(stream, i - 1)
             /\ stream[i - 1] \notin Levels /\ raw[i - 1] = stream[i - 1] /\ ~AckAt(raw, i - 1)
  <2>1. i - 1 \in 1 .. Len(stream)
    BY <1>0, <1>1, <1>2
  <2>2. stream[i - 1] = DEV_MODE_TOGGLE \/ DataAt(stream, i - 1)
    BY <1>2 DEF LinkInv, Scanned
  <2>3. CASE stream[i - 1] = DEV_MODE_TOGGLE
    <3>1. stream[i - 1] \in Byte /\ DEV_MODE_TOGGLE # FRAME_ACK /\ DEV_MODE_TOGGLE \notin Levels
      BY <2>3, CodeValues DEF DEV_MODE_TOGGLE, FRAME_ACK, Byte
    <3>. QED  BY <1>1, <2>1, <2>2, <2>3, <3>1 DEF AckAt
  <2>4. CASE DataAt(stream, i - 1)
    <3>1. i - 1 > 1 /\ i - 1 - 1 \in 1 .. Len(stream) /\ i - 1 - 1 + 1 = i - 1
          /\ stream[i - 1 - 1] \in Levels
      BY <1>0, <2>1, <2>4 DEF DataAt
    <3>2. stream[i - 1] \in 0 .. 6
      BY <3>1 DEF LinkInv, StreamOK, WellFormed
    <3>3. stream[i - 1] \in Byte /\ stream[i - 1] \notin Levels /\ stream[i - 1 - 1] \in Byte
      <4>1. \A d \in 0 .. 6 : d \in Byte /\ d \notin Levels
        BY CodeValues DEF Byte
      <4>2. Levels \subseteq Byte
        BY CodeValues
      <4>. QED  BY <3>1, <3>2, <4>1, <4>2
    <3>4. raw[i - 1] = stream[i - 1] /\ raw[i - 1 - 1] \in Levels
      BY <1>1, <2>1, <3>1, <3>3
    <3>. QED  BY <2>2, <3>1, <3>3, <3>4 DEF AckAt, DataAt
  <2>. QED  BY <2>2, <2>3, <2>4
<1>3. stream[i] \in Byte
  <2>. SUFFICES ASSUME stream[i] \notin Byte PROVE FALSE
    OBVIOUS
  <2>1. i > 1 /\ AckAt(raw, i - 1)
    BY <1>0, <1>1, Marked
  <2>. QED  BY <1>2, <2>1
<1>4. ~DataAt(stream, i) /\ ~DataAt(raw, i)
  BY <1>2 DEF DataAt
<1>. QED  BY <1>0, <1>1, <1>2, <1>3, <1>4

\* The ACK that wait_ack finds is that of the current frame, which is shown.
LEMMA AckTrue ==
  ASSUME LinkInv, ScanAck
  PROVE  /\ shown = sent /\ outcome = "pending" /\ sent > 0
         /\ i \in 1 .. Len(stream) /\ AckAt(stream, i) /\ stream[i + 1] = Sign(sent)
<1>0. inbox \in Seq(Byte) /\ toHost \in Seq(Byte) /\ i \in Nat \ {0} /\ Len(inbox) \in Nat
  BY DEF LinkInv, TypeOK
<1>1. pc = "scan" /\ i + 1 <= Len(inbox) /\ inbox[i] = FRAME_ACK /\ inbox[i + 1] = cur
  BY DEF ScanAck, ReplyAt
<1>2. i <= Len(inbox) /\ i + 1 \in 1 .. Len(inbox) /\ i + 1 > 1 /\ i + 1 - 1 = i
  BY <1>0, <1>1
<1>3. outcome = "pending" /\ sent \in Nat /\ shown \in Nat /\ sent > 0 /\ cur = Num(sent)
  BY <1>1, Window DEF LinkInv, Stages, Numbered
<1>4. i \in 1 .. Len(stream) /\ AckAt(stream, i) /\ AckAt(raw, i)
  BY <1>0, <1>1, <1>2, AtFirstByte DEF AckAt
<1>5. raw[i + 1] = cur /\ i + 1 \in 1 .. Len(raw)
  <2>1. Len(raw) = Len(inbox) + Len(toHost) /\ Len(toHost) \in Nat
    BY <1>0, StreamIs
  <2>. QED  BY <1>0, <1>1, <1>2, <2>1, StreamIs
<1>6. stream[i + 1] = Sign(sent)
  <2>1. CASE cur \in Codes
    <3>1. Coded /\ code = cur
      BY <1>3, <2>1 DEF Coded, code
    <3>2. NumberAt(raw, i + 1, code)
      BY <1>2, <1>4, <1>5, <3>1 DEF NumberAt
    <3>3. stream[i + 1] = Mark(cur)
      BY <1>0, <1>5, <3>1, <3>2, StreamIs
    <3>. QED  BY <1>3, <3>3 DEF Sign
  <2>2. CASE cur \notin Codes
    <3>1. stream = raw
      BY <1>0, <2>2, StreamIs DEF Coded
    <3>2. cur \in Byte /\ Mark(cur) = cur
      BY <1>3, <2>2, NumNext, Marks
    <3>. QED  BY <1>3, <1>5, <3>1, <3>2 DEF Sign
  <2>. QED  BY <2>1, <2>2
<1>7. PICK id \in (lastOk .. shown) \ {0} : stream[i + 1] = Sign(id)
  BY <1>4 DEF LinkInv, StreamOK, Genuine
<1>8. id \in Nat \ {0} /\ id <= sent /\ sent - id < SeqSpace /\ sent \in Nat \ {0}
  BY <1>3, <1>7, Window, Constants
<1>9. id = sent
  BY <1>6, <1>7, <1>8, SignApart
<1>. QED  BY <1>3, <1>4, <1>6, <1>7, <1>9, Window

\* A retry or a failed send leaves the newest known frame what it was.
LEMMA LastOkKept ==
  ASSUME LinkInv,
         \/ outcome' = outcome /\ sent' = sent /\ fails' = fails
         \/ SendFrame
         \/ NextAttempt /\ outcome = "pending" /\ sent' = sent
  PROVE  lastOk' = lastOk
<1>0. sent \in Nat /\ fails \in Nat /\ TypeOK /\ Stages
  BY Window DEF LinkInv
<1>1. CASE outcome' = outcome /\ sent' = sent /\ fails' = fails
  BY <1>1 DEF lastOk
<1>2. CASE SendFrame
  <2>1. outcome # "pending" /\ outcome' = "pending" /\ sent' = sent + 1 /\ fails' = fails
    BY <1>0, <1>2 DEF SendFrame, Stages
  <2>. QED  BY <1>0, <2>1 DEF lastOk
<1>3. CASE NextAttempt /\ outcome = "pending" /\ sent' = sent
  <2>1. \/ outcome' = outcome /\ fails' = fails
        \/ outcome' = "err" /\ fails' = fails + 1
    BY <1>0, <1>3, NextAttemptStage
  <2>. QED  BY <1>0, <1>3, <2>1 DEF lastOk
<1>. QED  BY <1>1, <1>2, <1>3

\* The streams' sense depends on three values only.
LEMMA StreamSame ==
  ASSUME StreamOK, stream' = stream, lastOk' = lastOk, shown' = shown
  PROVE  StreamOK'
BY DEF StreamOK, WellFormed, Genuine, InOrder, AckAt, DataAt

\* What holds of a stream for fewer frames holds for more.
LEMMA StreamFrom ==
  ASSUME WellFormed(stream'), Genuine(stream', lastOk', shown'), InOrder(stream', lastOk', shown')
  PROVE  StreamOK'
BY DEF StreamOK, WellFormed, Genuine, InOrder, AckAt, DataAt

\* The host's steps that take nothing from the stream: to begin with, what they
\* do to the send and to the frames.
LEMMA QuietFrames ==
  ASSUME LinkInv, Prompt',
         \/ SendFrame \/ WriteFrame \/ WriteError \/ Timeout
         \/ BeginScan \/ ScanDefer \/ EndScan \/ PollSome \/ EndDrain
  PROVE  /\ shown' = shown /\ partial' = partial
         /\ \/ /\ ~Coded /\ ~Coded'
               /\ \/ toDev' = toDev
                  \/ /\ cur \notin Codes
                     /\ \E c \in BOOLEAN : toDev' = Append(toDev, [seq |-> cur, id |-> sent, cut |-> c])
            \/ SendFrame /\ ~Coded /\ toDev' = toDev /\ sent' = sent + 1
            \/ /\ Coded /\ Coded' /\ cur' = cur /\ sent' = sent /\ pc' # "write"
               /\ \/ pc # "write" /\ toDev' = toDev
                  \/ /\ pc = "write"
                     /\ toDev' = Append(toDev, [seq |-> cur, id |-> sent, cut |-> FALSE])
<1>0. outcome = "pending" <=> pc \in {"write", "wait", "scan"}
  BY DEF LinkInv, Stages
<1>1. CASE SendFrame
  BY <1>0, <1>1 DEF SendFrame, Coded
<1>2. CASE WriteError \/ Timeout
  <2>1. attempt \in Nat /\ cur' = cur /\ attempt' = attempt + 1
    BY <1>2 DEF WriteError, Timeout, NextAttempt, LinkInv, TypeOK
  <2>2. cur \notin Codes
    BY <2>1 DEF Prompt
  <2>. QED  BY <1>2, <2>1, <2>2 DEF WriteError, Timeout, Coded
<1>3. CASE WriteFrame \/ BeginScan \/ ScanDefer \/ EndScan \/ PollSome \/ EndDrain
  BY <1>0, <1>3 DEF WriteFrame, BeginScan, ScanDefer, EndScan, PollSome, PollEvents, EndDrain, Coded
<1>. QED  BY <1>1, <1>2, <1>3

\* Nothing that was read is taken for something else.
LEMMA QuietStream ==
  ASSUME LinkInv, Roomy, Prompt',
         \/ SendFrame \/ WriteFrame \/ WriteError \/ Timeout
         \/ BeginScan \/ ScanDefer \/ EndScan \/ PollSome \/ EndDrain
  PROVE  stream' = stream
<1>0. inbox \in Seq(Byte) /\ toHost \in Seq(Byte)
  BY DEF LinkInv, TypeOK
<1>1. raw' = raw
  <2>1. CASE BeginScan \/ PollSome
    <3>1. PICK n \in 0 .. Len(toHost) : PumpInbox(n)
      BY <2>1 DEF BeginScan, PollSome, PollEvents
    <3>. QED  BY <1>0, <3>1, PumpStream
  <2>2. CASE ~(BeginScan \/ PollSome)
    <3>1. inbox' = inbox /\ toHost' = toHost
      BY <2>2 DEF SendFrame, WriteFrame, WriteError, Timeout, ScanDefer, EndScan, EndDrain
    <3>. QED  BY <3>1 DEF raw
  <2>. QED  BY <2>1, <2>2
<1>2. CASE code' = code
  BY <1>1, <1>2 DEF stream
<1>3. CASE SendFrame
  <2>1. ~Coded
    BY <1>3 DEF SendFrame, Coded, LinkInv, Stages
  <2>2. stream = raw /\ raw \in Seq(Byte) /\ \A k \in 1 .. Len(stream) : stream[k] \in Byte
    BY <1>0, <2>1, Plain, StreamIs
  <2>3. code' \in Codes \union {NoFrame} /\ NoFrame \notin Byte
    BY <1>0, StreamIs DEF code, Coded
  <2>4. \A k \in 1 .. Len(raw) : ~NumberAt(raw, k, code')
    <3>. SUFFICES ASSUME NEW k \in 1 .. Len(raw), NumberAt(raw, k, code') PROVE FALSE
      OBVIOUS
    <3>1. k > 1 /\ AckAt(stream, k - 1) /\ stream[k] = code'
      BY <2>2 DEF NumberAt
    <3>2. k - 1 \in 1 .. Len(stream) /\ k - 1 + 1 = k
      BY <2>2, <3>1
    <3>3. PICK id \in (lastOk .. shown) \ {0} : stream[k] = Sign(id)
      BY <3>1, <3>2 DEF LinkInv, StreamOK, Genuine
    <3>4. id \in Nat \ {0}
      BY <3>3, Window
    <3>5. Sign(id) \notin Codes
      BY <3>4, NumNext, Marks DEF Sign
    <3>. QED  BY <2>2, <2>3, <3>1, <3>3, <3>5
  <2>. QED  BY <1>1, <2>2, <2>3, <2>4, ReadingNone DEF stream
<1>4. code' = code \/ SendFrame
  BY QuietFrames DEF code
<1>. QED  BY <1>2, <1>3, <1>4

\* The numbers that are codes stay where they are, in the frame of the send in progress.
LEMMA QuietOnce ==
  ASSUME LinkInv, Roomy, Prompt',
         \/ SendFrame \/ WriteFrame \/ WriteError \/ Timeout
         \/ BeginScan \/ ScanDefer \/ EndScan \/ PollSome \/ EndDrain
  PROVE  Once'
<1>0. /\ toDev \in Seq(Frames) /\ Len(toDev) \in Nat /\ shown \in Nat /\ sent \in Nat /\ shown <= sent
      /\ toDev' \in Seq(Frames)
      /\ cur \in 0 .. SeqSpace - 1
  <2>1. toDev' \in Seq(Frames)
    BY SendTypes, WaitTypes, PollTypes DEF LinkInv, TypeOK
  <2>. QED  BY <2>1, Window DEF LinkInv, TypeOK
<1>1. stream' = stream /\ shown' = shown /\ partial' = partial
  BY QuietStream, QuietFrames
<1>2. \A k \in 1 .. Len(stream') : ~Coded => stream'[k] \in Byte
  BY <1>1, Plain
<1>3. CASE ~Coded /\ toDev' = toDev /\ (Coded' => shown' < sent')
  BY <1>1, <1>2, <1>3, Plain DEF Once
<1>4. ASSUME NEW c \in BOOLEAN, toDev' = Append(toDev, [seq |-> cur, id |-> sent, cut |-> c])
      PROVE  /\ Len(toDev') = Len(toDev) + 1 /\ toDev' # <<>>
             /\ \A k \in 1 .. Len(toDev) : toDev'[k] = toDev[k]
             /\ toDev'[Len(toDev')].seq = cur /\ toDev'[Len(toDev')].id = sent
             /\ \A k \in 1 .. Len(toDev') : k \in 1 .. Len(toDev) \/ k = Len(toDev')
  <2>. DEFINE f == [seq |-> cur, id |-> sent, cut |-> c]
  <2>1. f \in Frames /\ f.seq = cur /\ f.id = sent
    BY <1>0 DEF Frames
  <2>. HIDE DEF f
  <2>2. /\ Len(toDev') = Len(toDev) + 1 /\ toDev'[Len(toDev) + 1] = f
        /\ \A k \in 1 .. Len(toDev) : toDev'[k] = toDev[k]
    BY <1>0, <1>4, <2>1, AppendProperties DEF f
  <2>3. toDev' # <<>>
    BY <1>0, <2>2, EmptySeq
  <2>. QED  BY <1>0, <2>1, <2>2, <2>3
<1>5. CASE /\ ~Coded /\ ~Coded' /\ cur \notin Codes
           /\ \E c \in BOOLEAN : toDev' = Append(toDev, [seq |-> cur, id |-> sent, cut |-> c])
  <2>1. \A k \in 1 .. Len(toDev') : toDev'[k].seq \notin Codes
    BY <1>4, <1>5, Plain
  <2>. QED  BY <1>1, <1>2, <1>5, <2>1, Plain DEF Once
<1>6. CASE /\ Coded /\ Coded' /\ cur' = cur /\ sent' = sent /\ pc' # "write"
           /\ pc # "write" /\ toDev' = toDev
  BY <1>1, <1>6 DEF LinkInv, Once
<1>7. CASE /\ Coded /\ Coded' /\ cur' = cur /\ sent' = sent /\ pc' # "write" /\ pc = "write"
           /\ toDev' = Append(toDev, [seq |-> cur, id |-> sent, cut |-> FALSE])
  <2>1. /\ \A k \in 1 .. Len(toDev) : toDev[k].seq \notin Codes
        /\ partial \notin Codes /\ shown < sent
    BY <1>7 DEF LinkInv, Once
  <2>2. FALSE \in BOOLEAN
    OBVIOUS
  <2>3. \A k \in 1 .. Len(toDev') : toDev'[k].seq \in Codes => k = Len(toDev') /\ toDev'[k].id = sent
    BY <1>4, <1>7, <2>1, <2>2
  <2>. QED  BY <1>1, <1>7, <2>1, <2>3 DEF LinkInv, Once
<1>8. SendFrame => shown < sent + 1
  BY <1>0
<1>. QED  BY <1>1, <1>3, <1>5, <1>6, <1>7, <1>8, QuietFrames

\* Of the invariant, these steps disturb only where the scan is.
LEMMA QuietStep ==
  ASSUME LinkInv, Roomy, Prompt',
         \/ SendFrame \/ WriteFrame \/ WriteError \/ Timeout
         \/ BeginScan \/ ScanDefer \/ EndScan \/ PollSome \/ EndDrain
  PROVE  /\ StreamOK' /\ Scanned' /\ Once'
         /\ stream' = stream /\ lastOk' = lastOk /\ shown' = shown
<1>0. /\ inbox \in Seq(Byte) /\ toHost \in Seq(Byte) /\ i \in Nat \ {0}
      /\ Len(inbox) \in Nat /\ Len(inbox') \in Nat
  <2>1. inbox' \in Seq(Byte)
    BY SendTypes, WaitTypes, PollTypes DEF LinkInv, TypeOK
  <2>2. TypeOK
    BY DEF LinkInv
  <2>. QED  BY <2>1, <2>2 DEF TypeOK
<1>1. stream' = stream /\ shown' = shown /\ Once'
  BY QuietStream, QuietFrames, QuietOnce
<1>2. lastOk' = lastOk
  <2>1. CASE WriteError \/ Timeout
    <3>1. NextAttempt /\ outcome = "pending" /\ sent' = sent
      BY <2>1 DEF WriteError, Timeout, LinkInv, Stages
    <3>. QED  BY <3>1, LastOkKept
  <2>2. CASE SendFrame
    BY <2>2, LastOkKept
  <2>3. CASE WriteFrame \/ BeginScan \/ ScanDefer \/ EndScan \/ PollSome \/ EndDrain
    <3>1. outcome' = outcome /\ sent' = sent /\ fails' = fails
      BY <2>3 DEF WriteFrame, BeginScan, ScanDefer, EndScan, PollSome, PollEvents, EndDrain
    <3>. QED  BY <3>1, LastOkKept
  <2>. QED  BY <2>1, <2>2, <2>3
<1>3. Scanned'
  <2>1. CASE BeginScan
    BY <1>0, <2>1 DEF BeginScan, Scanned
  <2>2. CASE ScanDefer
    <3>1. pc = "scan" /\ i <= Len(inbox) /\ inbox' = inbox
      BY <2>2 DEF ScanDefer
    <3>2. stream[i] = inbox[i]
      BY <3>1, AtFirstByte
    <3>3. CASE inbox[i] = DEV_MODE_TOGGLE /\ i' = i + 1
      <4>1. i' - 1 = i /\ i' <= Len(inbox) + 1
        BY <1>0, <3>1, <3>3
      <4>2. stream'[i' - 1] = DEV_MODE_TOGGLE
        BY <1>1, <3>2, <3>3, <4>1
      <4>. QED  BY <3>1, <4>1, <4>2 DEF Scanned
    <3>4. CASE inbox[i] \in {DEV_OSD_BRIGHT, DEV_OSD_SLEEP} /\ i + 1 <= Len(inbox) /\ i' = i + 2
      <4>1. i' - 1 = i + 1 /\ i + 1 - 1 = i /\ i + 1 > 1 /\ i' <= Len(inbox) + 1
        BY <1>0, <3>4
      <4>2. DataAt(stream, i' - 1)
        BY <1>0, <3>2, <3>4, <4>1 DEF DataAt, Levels
      <4>3. DataAt(stream', i' - 1)
        BY <1>1, <4>2 DEF DataAt
      <4>. QED  BY <3>1, <4>1, <4>3 DEF Scanned, DataAt
    <3>. QED  BY <2>2, <3>3, <3>4 DEF ScanDefer
  <2>3. CASE ~(BeginScan \/ ScanDefer)
    <3>1. pc' # "scan"
      <4>1. CASE WriteError \/ Timeout
        <5>1. NextAttempt /\ outcome = "pending"
          BY <4>1 DEF WriteError, Timeout, LinkInv, Stages
        <5>. QED  BY <5>1, NextAttemptStage DEF LinkInv
      <4>2. CASE SendFrame \/ WriteFrame \/ EndScan \/ PollSome \/ EndDrain
        BY <4>2 DEF SendFrame, WriteFrame, EndScan, PollSome, PollEvents, EndDrain
      <4>. QED  BY <2>3, <4>1, <4>2
    <3>. QED  BY <3>1 DEF Scanned
  <2>. QED  BY <2>1, <2>2, <2>3
<1>. QED  BY <1>1, <1>2, <1>3, StreamSame DEF LinkInv

\* The first m bytes go.
LEMMA WithoutFirst ==
  ASSUME NEW B, NEW a \in Seq(B), NEW b \in Seq(B), NEW m \in 0 .. Len(a)
  PROVE  /\ SubSeq(a, m + 1, Len(a)) \in Seq(B)
         /\ SubSeq(a, m + 1, Len(a)) \o b \in Seq(B)
         /\ Len(SubSeq(a, m + 1, Len(a)) \o b) = Len(a \o b) - m
         /\ \A k \in 1 .. Len(a \o b) - m :
              (SubSeq(a, m + 1, Len(a)) \o b)[k] = (a \o b)[k + m]
<1>. DEFINE c == SubSeq(a, m + 1, Len(a))
<1>1. Len(a) \in Nat /\ Len(b) \in Nat
  OBVIOUS
<1>2. /\ c \in Seq(B) /\ Len(c) = Len(a) - m
      /\ \A k \in 1 .. Len(a) - m : c[k] = a[k + m]
  <2>1. /\ c \in Seq(B) /\ Len(c) = IF m + 1 <= Len(a) THEN Len(a) - (m + 1) + 1 ELSE 0
        /\ \A k \in 1 .. Len(a) - (m + 1) + 1 : c[k] = a[m + 1 + k - 1]
    BY <1>1, Part
  <2>2. \A k \in 1 .. Len(a) - m : k \in 1 .. Len(a) - (m + 1) + 1 /\ m + 1 + k - 1 = k + m
    BY <1>1
  <2>. HIDE DEF c
  <2>. QED  BY <1>1, <2>1, <2>2
<1>. HIDE DEF c
<1>3. /\ c \o b \in Seq(B) /\ Len(c \o b) = Len(a) - m + Len(b)
      /\ \A k \in 1 .. Len(c) : (c \o b)[k] = c[k]
      /\ \A k \in Len(c) + 1 .. Len(c) + Len(b) : (c \o b)[k] = b[k - Len(c)]
  BY <1>2, Joined
<1>4. ASSUME NEW k \in 1 .. Len(a) + Len(b) - m
      PROVE  (c \o b)[k] = (a \o b)[k + m]
  <2>1. CASE k <= Len(a) - m
    <3>1. k \in 1 .. Len(c) /\ k + m \in 1 .. Len(a)
      BY <1>1, <1>2, <2>1
    <3>. QED  BY <1>2, <1>3, <3>1, Joined
  <2>2. CASE k > Len(a) - m
    <3>1. /\ k \in Len(c) + 1 .. Len(c) + Len(b) /\ k + m \in Len(a) + 1 .. Len(a) + Len(b)
          /\ k - Len(c) = k + m - Len(a)
      BY <1>1, <1>2, <2>2
    <3>. QED  BY <1>3, <3>1, Joined, SMTT(30)
  <2>3. k <= Len(a) - m \/ k > Len(a) - m
    BY <1>1
  <2>. QED  BY <2>1, <2>2, <2>3
<1>5. Len(a \o b) = Len(a) + Len(b)
  BY Joined
<1>6. Len(c \o b) = Len(a \o b) - m /\ Len(a \o b) - m = Len(a) + Len(b) - m
  BY <1>1, <1>3, <1>5
<1>7. \A k \in 1 .. Len(a \o b) - m : (c \o b)[k] = (a \o b)[k + m]
  <2>. DEFINE d == c \o b
              e == a \o b
  <2>1. \A k \in 1 .. Len(a) + Len(b) - m : d[k] = e[k + m]
    BY <1>4
  <2>2. Len(e) - m = Len(a) + Len(b) - m
    BY <1>6
  <2>. HIDE DEF d, e
  <2>3. \A k \in 1 .. Len(e) - m : d[k] = e[k + m]
    BY <2>1, <2>2
  <2>. QED  BY <2>3 DEF d, e
<1>8. c \in Seq(B) /\ c \o b \in Seq(B)
  BY <1>2, <1>3
<1>. QED  BY <1>6, <1>7, <1>8 DEF c

\* Byte j goes.
LEMMA WithoutOne ==
  ASSUME NEW B, NEW a \in Seq(B), NEW j \in 1 .. Len(a)
  PROVE  /\ RemoveAt(a, j) \in Seq(B) /\ Len(RemoveAt(a, j)) = Len(a) - 1
         /\ \A k \in 1 .. Len(a) - 1 : RemoveAt(a, j)[k] = IF k < j THEN a[k] ELSE a[k + 1]
<1>. DEFINE c == SubSeq(a, 1, j - 1)
            d == SubSeq(a, j + 1, Len(a))
<1>1. Len(a) \in Nat
  OBVIOUS
<1>2. /\ c \in Seq(B) /\ Len(c) = j - 1
      /\ \A k \in 1 .. j - 1 : c[k] = a[k]
  <2>1. /\ c \in Seq(B) /\ Len(c) = IF 1 <= j - 1 THEN j - 1 - 1 + 1 ELSE 0
        /\ \A k \in 1 .. j - 1 - 1 + 1 : c[k] = a[1 + k - 1]
    BY <1>1, Part
  <2>. HIDE DEF c
  <2>. QED  BY <1>1, <2>1
<1>3. /\ d \in Seq(B) /\ Len(d) = Len(a) - j
      /\ \A k \in 1 .. Len(a) - j : d[k] = a[j + k]
  <2>1. /\ d \in Seq(B) /\ Len(d) = IF j + 1 <= Len(a) THEN Len(a) - (j + 1) + 1 ELSE 0
        /\ \A k \in 1 .. Len(a) - (j + 1) + 1 : d[k] = a[j + 1 + k - 1]
    BY <1>1, Part
  <2>2. \A k \in 1 .. Len(a) - j : k \in 1 .. Len(a) - (j + 1) + 1 /\ j + 1 + k - 1 = j + k
    BY <1>1
  <2>. HIDE DEF d
  <2>. QED  BY <1>1, <2>1, <2>2
<1>4. RemoveAt(a, j) = c \o d
  BY DEF RemoveAt
<1>. HIDE DEF c, d
<1>5. /\ c \o d \in Seq(B) /\ Len(c \o d) = Len(a) - 1
      /\ \A k \in 1 .. Len(c) : (c \o d)[k] = c[k]
      /\ \A k \in Len(c) + 1 .. Len(c) + Len(d) : (c \o d)[k] = d[k - Len(c)]
  <2>1. Len(c) + Len(d) = Len(a) - 1
    BY <1>1, <1>2, <1>3
  <2>. QED  BY <1>2, <1>3, <2>1, Joined
<1>6. ASSUME NEW k \in 1 .. Len(a) - 1
      PROVE  (c \o d)[k] = IF k < j THEN a[k] ELSE a[k + 1]
  <2>1. CASE k < j
    <3>1. k \in 1 .. j - 1
      BY <1>1, <2>1
    <3>. QED  BY <1>2, <1>5, <2>1, <3>1
  <2>2. CASE ~(k < j)
    <3>1. /\ k \in Len(c) + 1 .. Len(c) + Len(d) /\ k - Len(c) \in 1 .. Len(a) - j
          /\ j + (k - Len(c)) = k + 1
      BY <1>1, <1>2, <1>3, <2>2
    <3>. QED  BY <1>3, <1>5, <2>2, <3>1
  <2>. QED  BY <2>1, <2>2
<1>. QED  BY <1>4, <1>5, <1>6

\* A reply, or an opcode at the front, is taken with what is before it, and no
\* number is sought any more.
LEMMA StreamTaken ==
  ASSUME LinkInv, NEW m \in 1 .. Len(inbox), stream[m] \notin Levels, ~Coded',
         \A k \in 1 .. Len(stream) : k > m => stream[k] \in Byte,
         inbox' = SubSeq(inbox, m + 1, Len(inbox)), toHost' = toHost
  PROVE  /\ stream' \in Seq(Sym) /\ Len(stream') = Len(stream) - m
         /\ \A k \in 1 .. Len(stream') : stream'[k] = stream[k + m] /\ stream'[k] \in Byte
         /\ WellFormed(stream') /\ Genuine(stream', lastOk, shown) /\ InOrder(stream', lastOk, shown)
         /\ \A k \in 1 .. Len(stream') : AckAt(stream', k) => AckAt(stream, k + m)
<1>. DEFINE t == SubSeq(inbox, m + 1, Len(inbox)) \o toHost
<1>1. inbox \in Seq(Byte) /\ toHost \in Seq(Byte) /\ Len(inbox) \in Nat /\ Len(toHost) \in Nat
  BY DEF LinkInv, TypeOK
<1>2. /\ stream \in Seq(Sym) /\ Len(stream) = Len(raw) /\ Len(raw) = Len(inbox) + Len(toHost)
      /\ \A k \in 1 .. Len(raw) : stream[k] \in Byte => stream[k] = raw[k]
  BY <1>1, StreamIs
<1>3. /\ t \in Seq(Byte) /\ Len(t) = Len(stream) - m
      /\ \A k \in 1 .. Len(raw) - m : t[k] = raw[k + m]
  <2>1. m \in 0 .. Len(inbox)
    BY <1>1
  <2>2. /\ t \in Seq(Byte) /\ Len(t) = Len(inbox \o toHost) - m
        /\ \A k \in 1 .. Len(inbox \o toHost) - m : t[k] = (inbox \o toHost)[k + m]
    <3>1. /\ t \in Seq(Byte) /\ Len(t) = Len(inbox \o toHost) - m
      BY <1>1, <2>1, WithoutFirst
    <3>2. \A k \in 1 .. Len(inbox \o toHost) - m : t[k] = (inbox \o toHost)[k + m]
      BY <1>1, <2>1, WithoutFirst, SMTT(60)
    <3>. QED  BY <3>1, <3>2
  <2>. QED  BY <1>2, <2>2 DEF raw
<1>4. stream' = t
  <2>1. raw' = t /\ code' = NoFrame
    BY DEF raw, code
  <2>2. \A k \in 1 .. Len(t) : t[k] # NoFrame
    <3>1. NoFrame \notin Byte
      BY DEF NoFrame, Byte
    <3>. HIDE DEF t
    <3>. QED  BY <1>3, <3>1, ElementOfSeq
  <2>3. Reading(t, NoFrame) = t
    <3>. HIDE DEF t
    <3>. QED  BY <1>3, <2>2, ReadingNone DEF NumberAt
  <2>. QED  BY <2>1, <2>3 DEF stream
<1>. HIDE DEF t
<1>5. \A k \in 1 .. Len(t) : t[k] = stream[k + m]
  <2>1. \A k \in 1 .. Len(t) : k \in 1 .. Len(raw) - m /\ k + m \in 1 .. Len(raw) /\ k + m > m
    BY <1>1, <1>2, <1>3
  <2>. QED  BY <1>2, <1>3, <2>1
<1>6. Byte \subseteq Sym /\ t \in Seq(Sym) /\ \A k \in 1 .. Len(t) : t[k] \in Byte
  <2>1. Byte \subseteq Sym
    BY DEF Byte, Sym
  <2>2. \A k \in 1 .. Len(t) : t[k] \in Byte
    BY <1>3, ElementOfSeq
  <2>3. Len(t) \in Nat /\ t \in [1 .. Len(t) -> Sym]
    BY <1>3, <2>1, <2>2
  <2>. QED  BY <2>1, <2>2, <2>3
<1>7. m \in 0 .. Len(stream) /\ lastOk \in Nat /\ shown \in Nat
  BY <1>1, <1>2, Window
<1>8. WellFormed(stream) /\ Genuine(stream, lastOk, shown) /\ InOrder(stream, lastOk, shown)
  BY DEF LinkInv, StreamOK
<1>9. /\ WellFormed(t) /\ Genuine(t, lastOk, shown) /\ InOrder(t, lastOk, shown)
      /\ \A k \in 1 .. Len(t) : AckAt(t, k) => AckAt(stream, k + m)
  BY <1>2, <1>3, <1>5, <1>6, <1>7, <1>8, StreamSuffix
<1>. QED  BY <1>3, <1>4, <1>5, <1>6, <1>9

\* A send that is over has left no code behind.
LEMMA OnceOver ==
  ASSUME LinkInv, ~Coded', \A k \in 1 .. Len(stream') : stream'[k] \in Byte,
         Coded => shown = sent, toDev' = toDev, partial' = partial
  PROVE  Once'
<1>1. sent \in Nat
  BY Window
<1>2. partial \notin Codes /\ \A k \in 1 .. Len(toDev) : toDev[k].seq \notin Codes
  BY <1>1 DEF LinkInv, Once
<1>. QED  BY <1>2 DEF Once

\* The reply that is found, and what is before it, leave the stream whole.
LEMMA ReplyTaken ==
  ASSUME LinkInv, Prompt', ScanAck \/ ScanNak
  PROVE  /\ i + 1 \in 1 .. Len(inbox) /\ stream[i + 1] \notin Codes /\ stream[i + 1] \notin Levels
         /\ inbox' = SubSeq(inbox, i + 1 + 1, Len(inbox)) /\ toHost' = toHost
         /\ pc' # "scan" /\ shown' = shown /\ ~Coded' /\ (ScanNak => ~Coded)
         /\ \A k \in 1 .. Len(stream) : k # i + 1 => stream[k] \in Byte
         /\ toDev' = toDev /\ partial' = partial /\ (Coded => shown = sent)
<1>1. inbox \in Seq(Byte) /\ toHost \in Seq(Byte) /\ i \in Nat \ {0} /\ Len(inbox) \in Nat
  BY DEF LinkInv, TypeOK
<1>2. /\ pc = "scan" /\ i + 1 <= Len(inbox) /\ inbox[i + 1] = cur /\ DrainThroughReply
      /\ cur' = cur /\ toHost' = toHost /\ shown' = shown /\ toDev' = toDev /\ partial' = partial
  BY DEF ScanAck, ScanNak, ReplyAt
<1>3. i + 1 \in 1 .. Len(inbox) /\ i + 1 \in 1 .. Len(stream) /\ raw[i + 1] = cur /\ i + 2 = i + 1 + 1
  <2>1. Len(stream) = Len(inbox) + Len(toHost) /\ Len(toHost) \in Nat
    BY <1>1, StreamIs
  <2>. QED  BY <1>1, <1>2, <2>1, StreamIs
<1>4. outcome = "pending"
  BY <1>2 DEF LinkInv, Stages
<1>5. inbox' = SubSeq(inbox, i + 1 + 1, Len(inbox))
  BY <1>2, <1>3 DEF DrainThroughReply
<1>6. CASE cur \in Codes
  <2>1. ~ScanNak
    <3>. SUFFICES ASSUME ScanNak PROVE FALSE
      OBVIOUS
    <3>1. attempt' = attempt + 1 /\ attempt \in Nat
      BY DEF ScanNak, NextAttempt, LinkInv, TypeOK
    <3>. QED  BY <1>2, <1>6, <3>1 DEF Prompt
  <2>2. ScanAck /\ pc' # "scan" /\ ~Coded'
    BY <2>1 DEF ScanAck, Coded
  <2>3. shown = sent /\ sent \in Nat \ {0} /\ stream[i + 1] = Sign(sent) /\ cur = Num(sent)
    BY <2>2, AckTrue, Window DEF LinkInv, Numbered
  <2>4. stream[i + 1] \notin Byte /\ stream[i + 1] \notin Codes
    BY <1>6, <2>3, NumNext, Marks DEF Sign
  <2>5. \A k \in 1 .. Len(stream) : k # i + 1 => stream[k] \in Byte
    BY <1>3, <2>4, Marked
  <2>6. stream[i + 1] \notin Levels
    BY <2>4, CodeValues
  <2>. QED  BY <1>2, <1>3, <1>5, <2>1, <2>2, <2>3, <2>4, <2>5, <2>6
<1>7. CASE cur \notin Codes
  <2>1. ~Coded /\ ~Coded'
    BY <1>2, <1>7 DEF Coded
  <2>2. stream[i + 1] = cur /\ \A k \in 1 .. Len(stream) : stream[k] \in Byte
    BY <1>3, <2>1, Plain
  <2>3. pc' # "scan"
    <3>1. CASE ScanAck
      BY <3>1 DEF ScanAck
    <3>2. CASE ScanNak
      <4>1. NextAttempt
        BY <3>2 DEF ScanNak
      <4>. QED  BY <1>4, <4>1, NextAttemptStage DEF LinkInv
    <3>. QED  BY <3>1, <3>2
  <2>. QED  BY <1>2, <1>3, <1>5, <1>7, <2>1, <2>2, <2>3, CodeValues
<1>. QED  BY <1>6, <1>7

\* After an ACK no older one is left.
LEMMA AckStep ==
  ASSUME LinkInv, Prompt', ScanAck
  PROVE  StreamOK' /\ Scanned' /\ Once' /\ lastOk' = sent
<1>. DEFINE m == i + 1
<1>1. /\ m \in 1 .. Len(inbox) /\ stream[m] \notin Levels
      /\ inbox' = SubSeq(inbox, m + 1, Len(inbox)) /\ toHost' = toHost
      /\ pc' # "scan" /\ shown' = shown /\ ~Coded'
      /\ \A k \in 1 .. Len(stream) : k # m => stream[k] \in Byte
  BY ReplyTaken
<1>2. /\ shown = sent /\ sent \in Nat \ {0} /\ i \in Nat \ {0}
      /\ i \in 1 .. Len(stream) /\ AckAt(stream, i) /\ stream[i + 1] = Sign(sent)
  BY AckTrue, Window DEF LinkInv, TypeOK
<1>3. lastOk' = sent
  BY <1>2 DEF ScanAck, lastOk
<1>4. /\ stream' \in Seq(Sym) /\ Len(stream') = Len(stream) - m
      /\ \A k \in 1 .. Len(stream') : stream'[k] = stream[k + m] /\ stream'[k] \in Byte
      /\ WellFormed(stream')
      /\ \A k \in 1 .. Len(stream') : AckAt(stream', k) => AckAt(stream, k + m)
  <2>. HIDE DEF m
  <2>1. \A k \in 1 .. Len(stream) : k > m => stream[k] \in Byte
    BY <1>1
  <2>. QED  BY <1>1, <2>1, StreamTaken
<1>5. Len(stream) \in Nat /\ Len(stream') \in Nat /\ lastOk \in Nat /\ lastOk <= sent
  <2>1. inbox \in Seq(Byte) /\ toHost \in Seq(Byte)
    BY DEF LinkInv, TypeOK
  <2>. QED  BY <1>2, <1>4, <2>1, StreamIs, Window
<1>6. ASSUME NEW k \in 1 .. Len(stream'), AckAt(stream', k)
      PROVE  stream'[k + 1] = Sign(sent)
  <2>1. k < Len(stream')
    BY <1>4, <1>6 DEF WellFormed
  <2>2. k + 1 \in 1 .. Len(stream') /\ k + m \in 1 .. Len(stream) /\ i < k + m
        /\ k + 1 + m = k + m + 1
    BY <1>1, <1>2, <1>4, <1>5, <2>1
  <2>3. stream'[k + 1] = stream[k + m + 1] /\ AckAt(stream, k + m)
    <3>. HIDE DEF m
    <3>. QED  BY <1>4, <1>6, <2>2
  <2>4. sent \in (lastOk .. shown) \ {0}
    BY <1>2, <1>5
  <2>5. \E b \in sent .. shown : stream[k + m + 1] = Sign(b)
    <3>. HIDE DEF m
    <3>. QED  BY <1>2, <2>2, <2>3, <2>4 DEF LinkInv, StreamOK, InOrder
  <2>. QED  BY <1>2, <2>3, <2>5
<1>7. Genuine(stream', sent, sent) /\ InOrder(stream', sent, sent)
  <2>1. sent \in (sent .. sent) \ {0} /\ \A a \in (sent .. sent) \ {0} : sent \in a .. sent
    BY <1>2
  <2>. QED  BY <1>6, <2>1 DEF Genuine, InOrder
<1>8. Scanned'
  BY <1>1 DEF Scanned
<1>9. StreamOK'
  BY <1>1, <1>2, <1>3, <1>4, <1>7, StreamFrom
<1>10. Once'
  BY <1>4, ReplyTaken, OnceOver
<1>. QED  BY <1>3, <1>8, <1>9, <1>10

\* A NAK costs an attempt and nothing else.
LEMMA NakStep ==
  ASSUME LinkInv, Prompt', ScanNak
  PROVE  StreamOK' /\ Scanned' /\ Once' /\ lastOk' = lastOk
<1>. DEFINE m == i + 1
<1>1. /\ m \in 1 .. Len(inbox) /\ stream[m] \notin Levels
      /\ inbox' = SubSeq(inbox, m + 1, Len(inbox)) /\ toHost' = toHost
      /\ pc' # "scan" /\ shown' = shown /\ ~Coded'
      /\ \A k \in 1 .. Len(stream) : k # m => stream[k] \in Byte
  BY ReplyTaken
<1>2. lastOk' = lastOk
  BY LastOkKept DEF ScanNak, LinkInv, Stages
<1>. HIDE DEF m
<1>3. /\ WellFormed(stream') /\ Genuine(stream', lastOk, shown) /\ InOrder(stream', lastOk, shown)
      /\ \A k \in 1 .. Len(stream') : stream'[k] \in Byte
  <2>1. \A k \in 1 .. Len(stream) : k > m => stream[k] \in Byte
    BY <1>1
  <2>. QED  BY <1>1, <2>1, StreamTaken
<1>4. Once'
  BY <1>3, ReplyTaken, OnceOver
<1>. QED  BY <1>1, <1>2, <1>3, <1>4, StreamFrom DEF Scanned

\* What poll_events takes leaves the stream whole.
LEMMA DrainStep ==
  ASSUME LinkInv, DrainToggle \/ DrainLevel \/ DrainOther
  PROVE  StreamOK' /\ Scanned' /\ Once' /\ lastOk' = lastOk /\ shown' = shown
<1>1. inbox \in Seq(Byte) /\ toHost \in Seq(Byte) /\ Len(inbox) \in Nat
  BY DEF LinkInv, TypeOK
<1>2. /\ lastOk' = lastOk /\ shown' = shown /\ toHost' = toHost /\ pc' # "scan"
      /\ toDev' = toDev /\ partial' = partial /\ ~Coded /\ ~Coded'
  <2>1. pc = "drain" /\ outcome' = outcome
    BY DEF DrainToggle, DrainLevel, DrainOther
  <2>. QED  BY <2>1 DEF DrainToggle, DrainLevel, DrainOther, lastOk, Coded, LinkInv, Stages
<1>3. \E m \in 1 .. Len(inbox) : /\ stream[m] \notin Levels
                                 /\ inbox' = SubSeq(inbox, m + 1, Len(inbox))
  <2>1. CASE DrainToggle \/ DrainOther
    <3>1. inbox # <<>> /\ inbox' = Tail(inbox) /\ inbox[1] \notin Levels
      BY <2>1, CodeValues DEF DrainToggle, DrainOther
    <3>2. 1 \in 1 .. Len(inbox) /\ raw[1] = inbox[1] /\ Tail(inbox) = SubSeq(inbox, 1 + 1, Len(inbox))
      BY <1>1, <3>1, EmptySeq, StreamIs, TailIsSubSeq
    <3>. QED  BY <1>2, <3>1, <3>2, Plain
  <2>2. CASE DrainLevel
    <3>1. 2 \in 1 .. Len(inbox) /\ 1 \in 1 .. Len(inbox) /\ inbox[1] \in Levels
          /\ inbox' = SubSeq(inbox, 2 + 1, Len(inbox))
      BY <1>1, <2>2 DEF DrainLevel, Levels
    <3>2. stream[1] \in Levels /\ 1 \in 1 .. Len(stream) /\ 1 + 1 = 2
      BY <1>1, <1>2, <3>1, Plain, StreamIs
    <3>3. stream[2] \in 0 .. 6
      BY <3>2 DEF LinkInv, StreamOK, WellFormed
    <3>4. stream[2] \notin Levels
      BY <3>3, CodeValues
    <3>. QED  BY <3>1, <3>4
  <2>. QED  BY <2>1, <2>2
<1>4. /\ WellFormed(stream') /\ Genuine(stream', lastOk, shown) /\ InOrder(stream', lastOk, shown)
      /\ \A k \in 1 .. Len(stream') : stream'[k] \in Byte
  BY <1>2, <1>3, Plain, StreamTaken
<1>5. Once'
  BY <1>2, <1>4, OnceOver
<1>. QED  BY <1>2, <1>4, <1>5, StreamFrom DEF Scanned

\* What wait_ack removes is no part of an opcode, and no whole reply to a frame.
LEMMA RemoveStep ==
  ASSUME LinkInv, Prompt, ScanRemove
  PROVE  /\ StreamOK' /\ Scanned' /\ Once' /\ lastOk' = lastOk /\ shown' = shown
         /\ i \in 1 .. Len(stream) /\ stream' \in Seq(Sym) /\ Len(stream') = Len(stream) - 1
         /\ stream[i] = inbox[i]
         /\ \A k \in 1 .. Len(stream') : /\ stream'[k] = stream[IF k < i THEN k ELSE k + 1]
                                         /\ stream'[k] \in Levels => k + 1 # i
<1>. DEFINE t == RemoveAt(inbox, i) \o toHost
<1>1. inbox \in Seq(Byte) /\ toHost \in Seq(Byte) /\ Len(inbox) \in Nat /\ Len(toHost) \in Nat
  BY DEF LinkInv, TypeOK
<1>2. /\ pc = "scan" /\ i <= Len(inbox) /\ inbox[i] \notin Opcodes /\ NoReplyAt
      /\ inbox' = RemoveAt(inbox, i) /\ toHost' = toHost /\ i' = i /\ pc' = pc
      /\ shown' = shown /\ lastOk' = lastOk /\ code' = code /\ (Coded' <=> Coded)
      /\ sent' = sent /\ toDev' = toDev /\ partial' = partial
  BY DEF ScanRemove, histVars, lastOk, code, Coded
<1>3. /\ i \in 1 .. Len(inbox) /\ i \in 1 .. Len(stream)
      /\ stream[i] \notin Levels /\ raw[i] \notin Levels /\ stream[i] = inbox[i]
      /\ i > 1 => /\ stream[i - 1] = DEV_MODE_TOGGLE \/ DataAt(stream, i - 1)
                  /\ raw[i - 1] \notin Levels /\ ~AckAt(raw, i - 1)
  BY <1>2, AtFirstByte, CodeValues
<1>4. /\ RemoveAt(inbox, i) \in Seq(Byte) /\ Len(RemoveAt(inbox, i)) = Len(inbox) - 1
      /\ \A k \in 1 .. Len(inbox) - 1 :
           RemoveAt(inbox, i)[k] = IF k < i THEN inbox[k] ELSE inbox[k + 1]
  BY <1>1, <1>3, WithoutOne
<1>5. t \in Seq(Byte) /\ Len(t) = Len(raw) - 1
  <2>1. t \in Seq(Byte) /\ Len(t) = Len(inbox) - 1 + Len(toHost)
    BY <1>1, <1>4, Joined
  <2>2. Len(raw) = Len(inbox) + Len(toHost)
    BY <1>1, StreamIs
  <2>. HIDE DEF t
  <2>. QED  BY <1>1, <2>1, <2>2
<1>6. ASSUME NEW k \in 1 .. Len(raw) - 1
      PROVE  t[k] = IF k < i THEN raw[k] ELSE raw[k + 1]
  <2>0. Len(raw) = Len(inbox) + Len(toHost)
    BY <1>1, StreamIs
  <2>1. CASE k \in 1 .. Len(inbox) - 1
    <3>1. /\ t[k] = RemoveAt(inbox, i)[k] /\ k \in 1 .. Len(inbox) /\ k + 1 \in 1 .. Len(inbox)
      BY <1>1, <1>4, <2>1, Joined
    <3>. QED  BY <1>1, <1>4, <2>1, <3>1, StreamIs
  <2>2. CASE k > Len(inbox) - 1
    <3>1. /\ k - (Len(inbox) - 1) \in 1 .. Len(toHost) /\ ~(k < i)
          /\ Len(inbox) + (k - (Len(inbox) - 1)) = k + 1
          /\ k \in Len(inbox) - 1 + 1 .. Len(inbox) - 1 + Len(toHost)
      BY <1>1, <1>3, <2>0, <2>2
    <3>2. t[k] = toHost[k - (Len(inbox) - 1)]
      BY <1>1, <1>4, <3>1, Joined
    <3>3. raw[k + 1] = toHost[k - (Len(inbox) - 1)]
      BY <1>1, <3>1, StreamIs
    <3>. QED  BY <3>1, <3>2, <3>3
  <2>3. k \in 1 .. Len(inbox) - 1 \/ k > Len(inbox) - 1
    BY <1>1
  <2>. QED  BY <2>1, <2>2, <2>3
<1>. DEFINE u == Reading(t, code)
<1>7. /\ raw \in Seq(Byte) /\ stream \in Seq(Sym) /\ Len(stream) = Len(raw) /\ Len(stream) \in Nat
      /\ lastOk \in Nat /\ shown \in Nat /\ code \in Codes \union {NoFrame}
      /\ WellFormed(stream) /\ Genuine(stream, lastOk, shown) /\ InOrder(stream, lastOk, shown)
  BY <1>1, StreamIs, Window DEF LinkInv, StreamOK
<1>8. stream' = u
  BY <1>2 DEF stream, raw
<1>9. i < Len(raw) => ~(AckAt(raw, i) /\ raw[i + 1] = code)
  <2>. SUFFICES ASSUME i < Len(raw), AckAt(raw, i), raw[i + 1] = code PROVE FALSE
    OBVIOUS
  <2>1. i + 1 \in 1 .. Len(raw)
    BY <1>3, <1>7
  <2>2. Coded /\ code = cur /\ cur \in Codes
    BY <1>1, <2>1, StreamIs DEF code, Coded
  <2>3. inbox[i] = FRAME_ACK
    BY <1>1, <1>3, StreamIs DEF AckAt
  <2>4. i # Len(inbox)
    BY <1>2, <2>2, <2>3 DEF Prompt
  <2>5. i + 1 \in 1 .. Len(inbox) /\ i + 1 <= Len(inbox)
    BY <1>1, <1>3, <2>4
  <2>6. inbox[i + 1] = cur
    BY <1>1, <2>2, <2>5, StreamIs
  <2>. QED  BY <1>2, <2>3, <2>5, <2>6 DEF NoReplyAt, ReplyAt
<1>10. /\ u \in Seq(Sym) /\ Len(u) = Len(stream) - 1
       /\ \A k \in 1 .. Len(u) : u[k] = stream[IF k < i THEN k ELSE k + 1]
  <2>. HIDE DEF t
  <2>1. u \in Seq(Sym) /\ Len(u) = Len(t)
    BY <1>5, <1>7, ReadingIs
  <2>2. \A k \in 1 .. Len(t) : u[k] = Reading(raw, code)[IF k < i THEN k ELSE k + 1]
    <3>1. i \in 1 .. Len(raw)
      BY <1>3, <1>7
    <3>2. \A k \in 1 .. Len(t) : t[k] = IF k < i THEN raw[k] ELSE raw[k + 1]
      BY <1>5, <1>6
    <3>. QED  BY <1>3, <1>5, <1>7, <1>9, <3>1, <3>2, ReadingRemove
  <2>. HIDE DEF u
  <2>. QED  BY <1>5, <1>7, <2>1, <2>2 DEF stream
<1>. HIDE DEF t, u
<1>11. \A k \in 1 .. Len(u) : u[k] = IF k < i THEN stream[k] ELSE stream[k + 1]
  BY <1>10
<1>12. WellFormed(u) /\ Genuine(u, lastOk, shown) /\ InOrder(u, lastOk, shown)
  BY <1>3, <1>7, <1>10, <1>11, StreamRemove
<1>13. \A k \in 1 .. Len(u) : u[k] \in Levels => k + 1 # i
  <2>. SUFFICES ASSUME NEW k \in 1 .. Len(u), u[k] \in Levels, k + 1 = i PROVE FALSE
    OBVIOUS
  <2>1. i > 1 /\ k = i - 1 /\ stream[i - 1] \in Levels
    BY <1>3, <1>11
  <2>2. stream[i - 1] # DEV_MODE_TOGGLE
    BY <2>1, CodeValues
  <2>3. i - 1 > 1 /\ stream[i - 1 - 1] \in Levels
    BY <1>3, <2>1, <2>2 DEF DataAt
  <2>4. i - 1 - 1 \in 1 .. Len(stream) /\ i - 1 - 1 + 1 = i - 1
    BY <1>3, <2>3
  <2>5. stream[i - 1] \in 0 .. 6
    BY <1>7, <2>3, <2>4 DEF WellFormed
  <2>. QED  BY <2>1, <2>5, CodeValues
<1>14. StreamOK'
  BY <1>2, <1>8, <1>12, StreamFrom
<1>15. Scanned'
  <2>1. i' <= Len(inbox') + 1
    BY <1>1, <1>2, <1>3, <1>4
  <2>2. ASSUME i > 1
        PROVE  u[i - 1] = DEV_MODE_TOGGLE \/ DataAt(u, i - 1)
    <3>1. i - 1 \in 1 .. Len(u) /\ u[i - 1] = stream[i - 1]
      BY <1>3, <1>7, <1>10, <1>11, <2>2
    <3>2. i - 1 > 1 => u[i - 1 - 1] = stream[i - 1 - 1]
      <4>1. i - 1 > 1 => i - 1 - 1 \in 1 .. Len(u) /\ i - 1 - 1 < i
        BY <1>3, <1>7, <1>10, <2>2
      <4>. QED  BY <1>11, <4>1
    <3>. QED  BY <1>3, <2>2, <3>1, <3>2 DEF DataAt
  <2>. QED  BY <1>2, <1>8, <2>1, <2>2 DEF Scanned, DataAt
<1>16. Once'
  <2>1. ASSUME NEW k \in 1 .. Len(u), NEW l \in 1 .. Len(u), u[k] \notin Byte, u[l] \notin Byte
        PROVE  k = l /\ shown = sent
    <3>. DEFINE p(x) == IF x < i THEN x ELSE x + 1
    <3>1. p(k) \in 1 .. Len(stream) /\ p(l) \in 1 .. Len(stream)
      BY <1>3, <1>7, <1>10
    <3>2. u[k] = stream[p(k)] /\ u[l] = stream[p(l)]
      BY <1>10
    <3>3. p(k) = p(l) /\ shown = sent
      <4>. HIDE DEF p
      <4>. QED  BY <2>1, <3>1, <3>2 DEF LinkInv, Once
    <3>. QED  BY <1>3, <1>7, <1>10, <3>3
  <2>. QED  BY <1>2, <1>8, <2>1 DEF LinkInv, Once
<1>. QED  BY <1>2, <1>3, <1>8, <1>10, <1>13, <1>14, <1>15, <1>16

\* A frame may be shown whose ACK is lost.
LEMMA StreamShown ==
  ASSUME NEW B, NEW s \in Seq(B), NEW lo \in Nat, NEW hi \in Nat, NEW top \in Nat,
         lo <= hi, hi <= top, top - lo < SeqSpace,
         WellFormed(s), Genuine(s, lo, hi), InOrder(s, lo, hi)
  PROVE  Genuine(s, lo, top) /\ InOrder(s, lo, top)
<1>0. SeqSpace \in Nat
  BY Constants
<1>1. ASSUME NEW k \in 1 .. Len(s), AckAt(s, k)
      PROVE  \E id \in (lo .. hi) \ {0} : s[k + 1] = Sign(id)
  BY <1>1 DEF Genuine
<1>2. Genuine(s, lo, top)
  <2>. SUFFICES ASSUME NEW k \in 1 .. Len(s), AckAt(s, k)
                PROVE  \E id \in (lo .. top) \ {0} : s[k + 1] = Sign(id)
    BY DEF Genuine
  <2>1. PICK id \in (lo .. hi) \ {0} : s[k + 1] = Sign(id)
    BY <1>1
  <2>2. id \in (lo .. top) \ {0}
    BY <2>1
  <2>. QED  BY <2>1, <2>2
<1>3. InOrder(s, lo, top)
  <2>. SUFFICES ASSUME NEW k \in 1 .. Len(s), NEW l \in 1 .. Len(s), NEW a \in (lo .. top) \ {0},
                       k < l, AckAt(s, k), AckAt(s, l), s[k + 1] = Sign(a)
                PROVE  \E b \in a .. top : s[l + 1] = Sign(b)
    BY DEF InOrder
  <2>1. PICK id \in (lo .. hi) \ {0} : s[k + 1] = Sign(id)
    BY <1>1
  <2>2. id = a
    <3>1. CASE id <= a
      <4>1. id \in Nat \ {0} /\ a \in Nat \ {0} /\ a - id < SeqSpace
        BY <1>0, <3>1
      <4>. QED  BY <2>1, <3>1, <4>1, SignApart
    <3>2. CASE a <= id
      <4>1. id \in Nat \ {0} /\ a \in Nat \ {0} /\ id - a < SeqSpace
        BY <1>0, <3>2
      <4>. QED  BY <2>1, <3>2, <4>1, SignApart
    <3>. QED  BY <3>1, <3>2
  <2>3. PICK b \in a .. hi : s[l + 1] = Sign(b)
    BY <2>1, <2>2 DEF InOrder
  <2>4. b \in a .. top
    BY <2>3
  <2>. QED  BY <2>3, <2>4
<1>. QED  BY <1>2, <1>3

\* The frame at the front is newer than what is shown.
LEMMA FrontFrame ==
  ASSUME LinkInv, toDev # <<>>
  PROVE  /\ Head(toDev).id \in 1 .. sent /\ shown <= Head(toDev).id
         /\ Head(toDev).seq = Num(Head(toDev).id) /\ Head(toDev).seq \in Byte
         /\ sent - lastOk < SeqSpace /\ Len(toDev) \in Nat \ {0}
         /\ Tail(toDev) \in Seq(Frames) /\ Len(Tail(toDev)) = Len(toDev) - 1
         /\ \A k \in 1 .. Len(toDev) - 1 : Tail(toDev)[k] = toDev[k + 1]
<1>1. toDev \in Seq(Frames)
  BY DEF LinkInv, TypeOK
<1>2. /\ Len(toDev) \in Nat \ {0} /\ Head(toDev) = toDev[1] /\ 1 \in 1 .. Len(toDev)
      /\ Tail(toDev) \in Seq(Frames) /\ Len(Tail(toDev)) = Len(toDev) - 1
      /\ \A k \in 1 .. Len(toDev) - 1 : Tail(toDev)[k] = toDev[k + 1]
  <2>1. Len(toDev) \in Nat \ {0}
    BY <1>1, EmptySeq
  <2>2. /\ Head(toDev) = toDev[1]
        /\ Tail(toDev) \in Seq(Frames) /\ Len(Tail(toDev)) = Len(toDev) - 1
        /\ \A k \in 1 .. Len(Tail(toDev)) : Tail(toDev)[k] = toDev[k + 1]
    BY <1>1, HeadTailProperties
  <2>. QED  BY <2>1, <2>2
<1>3. toDev[1].seq \in Byte
  BY <1>1, <1>2, ElementOfSeq, FrameFields
<1>. QED  BY <1>2, <1>3, Window DEF LinkInv, Numbered

\* While an ACK with the number of the send in progress is unread, the panel has no
\* frame left to acknowledge.
LEMMA NoMark ==
  ASSUME LinkInv, toDev # <<>>
  PROVE  \A k \in 1 .. Len(stream) : stream[k] \in Byte
<1>. SUFFICES ASSUME NEW k \in 1 .. Len(stream), stream[k] \notin Byte PROVE FALSE
  OBVIOUS
<1>1. Coded /\ shown = sent /\ sent \in Nat /\ (sent > 0 => cur = Num(sent)) /\ outcome = "pending"
  BY Marked, Window DEF Coded, LinkInv, Numbered
<1>2. sent > 0 /\ cur \in Codes
  BY <1>1, Window DEF Coded
<1>3. Head(toDev).id = sent /\ Head(toDev).seq = Num(Head(toDev).id)
  BY <1>1, FrontFrame
<1>4. Head(toDev) = toDev[1] /\ 1 \in 1 .. Len(toDev)
  <2>1. toDev \in Seq(Frames)
    BY DEF LinkInv, TypeOK
  <2>. QED  BY <2>1, EmptySeq, HeadTailProperties
<1>5. toDev[1].seq \in Codes
  BY <1>1, <1>2, <1>3, <1>4
<1>6. shown < sent
  BY <1>4, <1>5 DEF LinkInv, Once
<1>. QED  BY <1>1, <1>6

\* The panel writes behind everything else; an ACK, only while none is marked.
LEMMA StreamWritten ==
  ASSUME LinkInv, UNCHANGED hostVars, NEW r \in Seq(Byte), NEW q \in Seq(Sym), toHost' = toHost \o r,
         Len(r) \in 1 .. 2, Len(q) = Len(r), q[1] = r[1],
         Len(r) = 2 => q[2] = IF r[1] = FRAME_ACK /\ r[2] = code THEN Mark(code) ELSE r[2],
         r[1] = FRAME_ACK => \A k \in 1 .. Len(stream) : stream[k] \in Byte
  PROVE  stream' = stream \o q
<1>1. inbox \in Seq(Byte) /\ toHost \in Seq(Byte) /\ inbox' = inbox /\ code' = code
  BY DEF LinkInv, TypeOK, hostVars, code, Coded
<1>2. raw' = raw \o r
  <2>1. (inbox \o toHost) \o r = inbox \o (toHost \o r)
    BY <1>1, InParts
  <2>. QED  BY <1>1, <2>1 DEF raw
<1>. DEFINE n == Len(stream)
<1>3. /\ n = Len(raw) /\ n \in Nat /\ raw \in Seq(Byte) /\ code \in Codes \union {NoFrame}
      /\ \A k \in 1 .. n : stream[k] \in Byte => stream[k] = raw[k]
      /\ n > 0 => n \in 1 .. n
  BY <1>1, StreamIs
<1>4. WellFormed(stream)
  BY DEF LinkInv, StreamOK
<1>5. ASSUME n > 0, AckAt(raw, n), r[1] = code PROVE FALSE
  <2>1. CASE stream[n] \in Byte
    <3>1. stream[n] = FRAME_ACK
      BY <1>3, <1>5, <2>1 DEF AckAt
    <3>2. ~DataAt(stream, n)
      <4>. SUFFICES ASSUME n > 1, stream[n - 1] \in Levels PROVE FALSE
        BY DEF DataAt
      <4>1. stream[n - 1] \in Byte /\ n - 1 \in 1 .. n
        BY <1>3, CodeValues
      <4>. QED  BY <1>3, <1>5, <4>1 DEF AckAt, DataAt
    <3>. QED  BY <1>3, <1>4, <1>5, <3>1, <3>2 DEF AckAt, WellFormed
  <2>2. CASE stream[n] \notin Byte
    <3>1. code = cur /\ raw[n] = cur
      BY <1>3, <1>5, <2>2, Marked
    <3>. QED  BY <1>3, <1>5, <2>2, <3>1 DEF AckAt
  <2>. QED  BY <2>1, <2>2
<1>6. ASSUME n > 0, r[1] = FRAME_ACK PROVE raw[n] \notin Levels
  BY <1>3, <1>4, <1>6 DEF WellFormed
<1>7. Reading(raw \o r, code) = Reading(raw, code) \o q
  BY <1>3, <1>5, <1>6, ReadingAppend
<1>. QED  BY <1>1, <1>2, <1>7 DEF stream

\* The reply to a frame as the stream has it.
LEMMA DeviceReply ==
  ASSUME LinkInv, DeviceFrame \/ DeviceCut
  PROVE  \/ toHost' = toHost /\ stream' = stream
         \/ \E q \in Seq(Sym) : /\ stream' = stream \o q /\ Reply(q, shown')
                                /\ q[2] \notin Byte => shown' = sent
<1>1. UNCHANGED hostVars /\ toDev # <<>> /\ (DeviceCut => shown' = shown) /\ raw' = inbox \o toHost'
  BY DEF DeviceFrame, DeviceCut, hostVars, raw
<1>. DEFINE f == Head(toDev)
<1>2. /\ f.id \in 1 .. sent /\ f.seq = Num(f.id) /\ f.seq \in Byte /\ sent \in Nat
      /\ partial \in Byte \union {NoFrame} /\ partial \notin Codes
      /\ \A k \in 1 .. Len(stream) : stream[k] \in Byte
  <2>1. partial \notin Codes
    BY <1>1 DEF LinkInv, Once
  <2>. QED  BY <1>1, <2>1, FrontFrame, NoMark, Window DEF LinkInv, TypeOK
<1>3. f.seq \in Codes => Coded /\ f.id = sent
  <2>1. toDev \in Seq(Frames)
    BY DEF LinkInv, TypeOK
  <2>2. f = toDev[1] /\ 1 \in 1 .. Len(toDev)
    BY <1>1, <2>1, EmptySeq, HeadTailProperties
  <2>. QED  BY <2>2 DEF LinkInv, Once
<1>4. NoFrame \notin Byte /\ FRAME_ACK \in Byte /\ FRAME_NAK \in Byte /\ FRAME_ACK # FRAME_NAK
  BY DEF NoFrame, FRAME_ACK, FRAME_NAK, Byte
<1>5. CASE toHost' = toHost
  BY <1>1, <1>5 DEF stream, code, Coded, hostVars, raw
<1>6. CASE partial # NoFrame /\ toHost' = toHost \o <<FRAME_NAK, partial>> /\ shown' = shown
  <2>. DEFINE q == <<FRAME_NAK, partial>>
  <2>1. q \in Seq(Byte) /\ q \in Seq(Sym) /\ Len(q) = 2 /\ q[1] = FRAME_NAK /\ q[2] = partial
    <3>1. Byte \subseteq Sym
      BY DEF Byte, Sym
    <3>2. partial \in Byte /\ partial \in Sym /\ FRAME_NAK \in Sym
      BY <1>2, <1>4, <1>6, <3>1
    <3>. QED  BY <1>4, <3>2, Pair
  <2>0. toHost' = toHost \o q
    BY <1>6
  <2>. HIDE DEF q
  <2>2. stream' = stream \o q
    <3>1. Len(q) \in 1 .. 2 /\ q[1] # FRAME_ACK
      BY <1>4, <2>1
    <3>. QED  BY <1>1, <2>0, <2>1, <3>1, StreamWritten
  <2>3. Reply(q, shown') /\ q[2] \in Byte
    BY <1>2, <1>4, <1>6, <2>1 DEF Reply
  <2>. QED  BY <2>1, <2>2, <2>3
<1>7. CASE partial = NoFrame /\ toHost' = toHost \o <<FRAME_ACK, f.seq>> /\ shown' = f.id
  <2>. DEFINE r == <<FRAME_ACK, f.seq>>
              q == <<FRAME_ACK, Mark(f.seq)>>
  <2>. HIDE DEF f
  <2>1. r \in Seq(Byte) /\ Len(r) = 2 /\ r[1] = FRAME_ACK /\ r[2] = f.seq
    BY <1>2, <1>4, Pair
  <2>2. Mark(f.seq) \in Sym \ Codes /\ FRAME_ACK \in Sym
    BY <1>2, <1>4, Marks
  <2>3. q \in Seq(Sym) /\ Len(q) = 2 /\ q[1] = FRAME_ACK /\ q[2] = Mark(f.seq)
    BY <2>2
  <2>. HIDE DEF r, q
  <2>4. code \in Codes \union {NoFrame}
    BY DEF code, Coded
  <2>5. f.seq \in Codes => code = f.seq
    <3>. SUFFICES ASSUME f.seq \in Codes PROVE code = f.seq
      OBVIOUS
    <3>1. Coded /\ f.id = sent /\ sent > 0
      BY <1>2, <1>3
    <3>. QED  BY <1>2, <3>1 DEF code, LinkInv, Numbered
  <2>6. q[2] = IF r[1] = FRAME_ACK /\ r[2] = code THEN Mark(code) ELSE r[2]
    <3>1. CASE f.seq \in Codes
      BY <2>1, <2>3, <2>5, <3>1
    <3>2. CASE f.seq \notin Codes
      <4>1. Mark(f.seq) = f.seq /\ f.seq # code
        BY <1>2, <1>4, <2>4, <3>2, Marks
      <4>. QED  BY <2>1, <2>3, <4>1
    <3>. QED  BY <3>1, <3>2
  <2>7. stream' = stream \o q
    <3>1. Len(r) \in 1 .. 2 /\ Len(q) = Len(r) /\ q[1] = r[1] /\ toHost' = toHost \o r
      BY <1>7, <2>1, <2>3 DEF r
    <3>. QED  BY <1>1, <1>2, <2>1, <2>3, <2>6, <3>1, StreamWritten
  <2>8. Reply(q, shown')
    BY <1>2, <1>7, <2>2, <2>3 DEF Reply, Sign
  <2>9. q[2] \notin Byte => shown' = sent
    BY <1>2, <1>3, <1>7, <2>3, Marks
  <2>. QED  BY <2>3, <2>7, <2>8, <2>9
<1>8. CASE DeviceFrame
  BY <1>5, <1>6, <1>7, <1>8 DEF DeviceFrame
<1>9. CASE DeviceCut
  BY <1>1, <1>5, <1>6, <1>9 DEF DeviceCut
<1>. QED  BY <1>8, <1>9

\* An opcode is written as it is.
LEMMA EventWritten ==
  ASSUME LinkInv, NEW e \in Events, UNCHANGED hostVars, toHost' = toHost \o e
  PROVE  stream' = stream \o e /\ e \in Seq(Sym) /\ Opcode(e)
<1>1. /\ e \in Seq(Byte) /\ Len(e) \in 1 .. 2
      /\ e[1] \in Opcodes /\ Opcode(e)
  BY EventBytes, CodeValues DEF Opcode
<1>2. e[1] # FRAME_ACK
  BY <1>1, CodeValues
<1>3. e \in Seq(Sym)
  <2>1. Byte \subseteq Sym
    BY DEF Byte, Sym
  <2>2. Len(e) \in Nat /\ e \in [1 .. Len(e) -> Byte]
    BY <1>1
  <2>3. e \in [1 .. Len(e) -> Sym]
    BY <2>1, <2>2
  <2>. QED  BY <2>2, <2>3
<1>. QED  BY <1>1, <1>2, <1>3, StreamWritten

\* What is marked in a stream with two bytes more.
LEMMA MarkedBehind ==
  ASSUME NEW s \in Seq(Sym), NEW q \in Seq(Sym), Len(q) \in 1 .. 2, q[1] \in Byte,
         \A k \in 1 .. Len(s) : s[k] \in Byte,
         NEW k \in 1 .. Len(s \o q), (s \o q)[k] \notin Byte
  PROVE  Len(q) = 2 /\ k = Len(s) + 2 /\ q[2] \notin Byte
<1>1. Len(s) \in Nat /\ Len(s \o q) = Len(s) + Len(q)
  BY Joined
<1>2. k \notin 1 .. Len(s)
  BY Joined
<1>3. k \in Len(s) + 1 .. Len(s) + Len(q) /\ k - Len(s) \in 1 .. 2 /\ (Len(q) = 1 => k - Len(s) = 1)
  BY <1>1, <1>2
<1>4. (s \o q)[k] = q[k - Len(s)]
  BY <1>3, Joined
<1>5. k - Len(s) = 2
  BY <1>3, <1>4
<1>. QED  BY <1>1, <1>3, <1>4, <1>5

\* The panel's steps keep the stream whole.
LEMMA DeviceStream ==
  ASSUME LinkInv, DeviceFrame \/ DeviceCut \/ DeviceEvent
  PROVE  StreamOK' /\ Scanned' /\ lastOk' = lastOk
<1>1. /\ stream \in Seq(Sym) /\ lastOk \in Nat /\ shown \in Nat /\ lastOk <= shown
      /\ shown - lastOk < SeqSpace /\ sent \in Nat /\ shown <= sent
      /\ WellFormed(stream) /\ Genuine(stream, lastOk, shown) /\ InOrder(stream, lastOk, shown)
      /\ inbox \in Seq(Byte) /\ toHost \in Seq(Byte) /\ Len(inbox) <= Len(stream)
      /\ Len(inbox) \in Nat
  <2>1. inbox \in Seq(Byte) /\ toHost \in Seq(Byte)
    BY DEF LinkInv, TypeOK
  <2>2. SeqSpace \in Nat
    BY Constants
  <2>. QED  BY <2>1, <2>2, StreamIs, Window DEF LinkInv, StreamOK
<1>2. lastOk' = lastOk /\ UNCHANGED hostVars
  BY DEF DeviceFrame, DeviceCut, DeviceEvent, hostVars, lastOk
<1>3. shown' \in Nat /\ shown <= shown' /\ shown' - lastOk < SeqSpace
  <2>1. CASE shown' = shown
    BY <1>1, <2>1
  <2>2. CASE toDev # <<>> /\ shown' = Head(toDev).id
    <3>1. Head(toDev).id \in 1 .. sent /\ shown <= Head(toDev).id /\ sent - lastOk < SeqSpace
      BY <2>2, FrontFrame
    <3>. QED  BY <1>1, <2>2, <3>1, Constants
  <2>. QED  BY <2>1, <2>2 DEF DeviceFrame, DeviceCut, DeviceEvent
<1>4. ASSUME NEW q \in Seq(Sym), stream' = stream \o q, Opcode(q) \/ Reply(q, shown')
      PROVE  StreamOK' /\ Scanned'
  <2>1. /\ WellFormed(stream \o q) /\ Genuine(stream \o q, lastOk, shown')
        /\ InOrder(stream \o q, lastOk, shown')
    BY <1>1, <1>3, <1>4, StreamAppend
  <2>2. StreamOK'
    BY <1>2, <1>4, <2>1, StreamFrom
  <2>3. Scanned'
    <3>. SUFFICES ASSUME pc = "scan" PROVE Scanned'
      BY <1>2 DEF Scanned, hostVars
    <3>1. i <= Len(inbox) + 1 /\ i \in Nat \ {0}
      BY DEF LinkInv, Scanned, TypeOK
    <3>2. i > 1 => i - 1 \in 1 .. Len(stream)
      BY <1>1, <3>1
    <3>3. i - 1 > 1 => i - 1 - 1 \in 1 .. Len(stream)
      BY <1>1, <3>1
    <3>4. \A k \in 1 .. Len(stream) : stream'[k] = stream[k]
      BY <1>1, <1>4, Joined
    <3>5. i > 1 => stream'[i - 1] = DEV_MODE_TOGGLE \/ DataAt(stream', i - 1)
      BY <3>2, <3>3, <3>4 DEF LinkInv, Scanned, DataAt
    <3>. QED  BY <1>2, <3>1, <3>5 DEF Scanned, DataAt, hostVars
  <2>. QED  BY <2>2, <2>3
<1>5. ASSUME stream' = stream
      PROVE  StreamOK' /\ Scanned'
  <2>1. Genuine(stream, lastOk, shown') /\ InOrder(stream, lastOk, shown')
    BY <1>1, <1>3, StreamShown
  <2>2. StreamOK'
    BY <1>1, <1>2, <1>5, <2>1, StreamFrom
  <2>. QED  BY <1>2, <1>5, <2>2 DEF LinkInv, Scanned, DataAt, hostVars
<1>6. CASE DeviceFrame \/ DeviceCut
  BY <1>2, <1>4, <1>5, <1>6, DeviceReply
<1>7. CASE DeviceEvent
  <2>1. PICK e \in Events : toHost' = toHost \o e
    BY <1>7 DEF DeviceEvent
  <2>. QED  BY <1>2, <1>4, <2>1, EventWritten
<1>. QED  BY <1>6, <1>7

\* And the codes where they are.
LEMMA DeviceOnce ==
  ASSUME CursorX \notin Codes, LinkInv, DeviceFrame \/ DeviceCut \/ DeviceEvent
  PROVE  Once'
<1>1. UNCHANGED hostVars /\ (Coded' <=> Coded)
  BY DEF DeviceFrame, DeviceCut, DeviceEvent, hostVars, Coded
<1>2. stream \in Seq(Sym) /\ Len(stream) \in Nat
  <2>1. inbox \in Seq(Byte) /\ toHost \in Seq(Byte)
    BY DEF LinkInv, TypeOK
  <2>. QED  BY <2>1, StreamIs
<1>3. CASE DeviceEvent
  <2>1. PICK e \in Events : toHost' = toHost \o e
    BY <1>3 DEF DeviceEvent
  <2>2. toDev' = toDev /\ partial' = partial /\ shown' = shown
    BY <1>3 DEF DeviceEvent
  <2>3. stream' = stream \o e /\ e \in Seq(Byte) /\ e \in Seq(Sym)
    BY <1>1, <2>1, EventWritten, EventBytes
  <2>4. /\ Len(stream') = Len(stream) + Len(e)
        /\ \A k \in 1 .. Len(stream) : stream'[k] = stream[k]
        /\ \A k \in Len(stream) + 1 .. Len(stream) + Len(e) : stream'[k] = e[k - Len(stream)]
    BY <1>2, <2>3, Joined
  <2>5. \A k \in 1 .. Len(stream') : stream'[k] \notin Byte => k \in 1 .. Len(stream) /\ stream[k] \notin Byte
    <3>. SUFFICES ASSUME NEW k \in 1 .. Len(stream'), stream'[k] \notin Byte
                  PROVE  k \in 1 .. Len(stream) /\ stream[k] \notin Byte
      OBVIOUS
    <3>1. Len(e) \in Nat /\ \A l \in 1 .. Len(e) : e[l] \in Byte
      BY <2>3, ElementOfSeq
    <3>2. CASE k \notin 1 .. Len(stream)
      <4>1. k \in Len(stream) + 1 .. Len(stream) + Len(e) /\ k - Len(stream) \in 1 .. Len(e)
        BY <1>2, <2>4, <3>1, <3>2
      <4>. QED  BY <2>4, <3>1, <4>1
    <3>. QED  BY <2>4, <3>2
  <2>6. \A k, l \in 1 .. Len(stream') :
          stream'[k] \notin Byte /\ stream'[l] \notin Byte => k = l /\ shown' = sent'
    BY <1>1, <2>2, <2>5 DEF LinkInv, Once, hostVars
  <2>. QED  BY <1>1, <2>2, <2>6 DEF LinkInv, Once, hostVars
<1>4. CASE DeviceFrame \/ DeviceCut
  <2>1. toDev # <<>> /\ toDev' = Tail(toDev)
    BY <1>4 DEF DeviceFrame, DeviceCut
  <2>. DEFINE f == Head(toDev)
  <2>2. toDev \in Seq(Frames) /\ f = toDev[1] /\ 1 \in 1 .. Len(toDev)
    <3>1. toDev \in Seq(Frames)
      BY DEF LinkInv, TypeOK
    <3>. QED  BY <2>1, <3>1, EmptySeq, HeadTailProperties
  <2>3. /\ Len(toDev) \in Nat \ {0} /\ Len(toDev') = Len(toDev) - 1
        /\ \A k \in 1 .. Len(toDev') : toDev'[k] = toDev[k + 1] /\ k + 1 \in 1 .. Len(toDev) /\ k + 1 # 1
        /\ f.id \in 1 .. sent /\ f.seq = Num(f.id) /\ f.seq \in Byte
        /\ sent \in Nat /\ shown \in Nat /\ shown <= sent
    BY <2>1, FrontFrame, Window
  <2>4. \A k \in 1 .. Len(toDev) : toDev[k].seq \in Codes =>
          Coded /\ toDev[k].id = sent /\ k = Len(toDev) /\ pc # "write" /\ shown < sent
    BY DEF LinkInv, Once
  <2>5. partial \notin Codes
    BY <2>1 DEF LinkInv, Once
  <2>6. Coded /\ f.id = sent => f.seq \in Codes
    <3>. SUFFICES ASSUME Coded, f.id = sent PROVE f.seq \in Codes
      OBVIOUS
    <3>1. sent > 0
      BY <2>3
    <3>. QED  BY <2>3, <3>1 DEF Coded, LinkInv, Numbered
  <2>7. shown' = shown \/ shown' = f.id
    BY <1>4 DEF DeviceFrame, DeviceCut
  <2>8. Coded /\ f.seq \notin Codes /\ shown < sent => shown' < sent
    BY <2>3, <2>6, <2>7
  <2>9. \A k \in 1 .. Len(toDev') : toDev'[k].seq \in Codes =>
          /\ Coded /\ toDev'[k].id = sent /\ k = Len(toDev') /\ pc # "write" /\ shown' < sent
    <3>. SUFFICES ASSUME NEW k \in 1 .. Len(toDev'), toDev'[k].seq \in Codes
                  PROVE  /\ Coded /\ toDev'[k].id = sent /\ k = Len(toDev') /\ pc # "write"
                         /\ shown' < sent
      OBVIOUS
    <3>1. /\ Coded /\ toDev'[k].id = sent /\ k + 1 = Len(toDev) /\ pc # "write" /\ shown < sent
          /\ Len(toDev) # 1
      BY <2>3, <2>4
    <3>2. f.seq \notin Codes
      BY <2>2, <2>4, <3>1
    <3>. QED  BY <2>3, <2>8, <3>1, <3>2
  <2>10. partial' \in Codes => Coded /\ toDev' = <<>> /\ pc # "write" /\ shown' < sent
    <3>. SUFFICES ASSUME partial' \in Codes
                  PROVE  Coded /\ toDev' = <<>> /\ pc # "write" /\ shown' < sent
      OBVIOUS
    <3>1. NoFrame \notin Codes
      BY CodeValues DEF NoFrame, Byte
    <3>2. DeviceCut /\ partial' = f.seq /\ shown' = shown
      BY <1>4, <2>5, <3>1 DEF DeviceFrame, DeviceCut
    <3>3. Coded /\ 1 = Len(toDev) /\ pc # "write" /\ shown < sent
      BY <2>2, <2>4, <3>2
    <3>4. toDev' \in Seq(Frames)
      BY <2>1, FrontFrame
    <3>5. toDev' = <<>>
      <4>1. Len(toDev') = Len(toDev) - 1
        BY <2>1, FrontFrame
      <4>2. Len(toDev') = 0
        BY <3>3, <4>1
      <4>. QED  BY <3>4, <4>2, EmptySeq
    <3>. QED  BY <3>2, <3>3, <3>5
  <2>11. Coded /\ pc = "write" => shown' < sent
    <3>. SUFFICES ASSUME Coded, pc = "write" PROVE shown' < sent
      OBVIOUS
    <3>1. shown < sent /\ f.seq \notin Codes
      BY <2>2, <2>4 DEF LinkInv, Once
    <3>. QED  BY <2>8, <3>1
  <2>12. \A k, l \in 1 .. Len(stream') :
           stream'[k] \notin Byte /\ stream'[l] \notin Byte => k = l /\ shown' = sent
    <3>1. \A k \in 1 .. Len(stream) : stream[k] \in Byte
      BY <2>1, NoMark
    <3>2. CASE stream' = stream
      BY <3>1, <3>2
    <3>3. ASSUME NEW q \in Seq(Sym), stream' = stream \o q, Reply(q, shown'),
                 q[2] \notin Byte => shown' = sent
          PROVE  \A k \in 1 .. Len(stream') :
                   stream'[k] \notin Byte => k = Len(stream) + 2 /\ shown' = sent
      <4>1. Len(q) \in 1 .. 2 /\ q[1] \in Byte
        BY <3>3 DEF Reply, FRAME_ACK, FRAME_NAK, Byte
      <4>. QED  BY <1>2, <3>1, <3>3, <4>1, MarkedBehind
    <3>4. sent' = sent
      BY <1>1 DEF hostVars
    <3>. QED  BY <1>4, <3>2, <3>3, <3>4, DeviceReply
  <2>. QED  BY <1>1, <2>9, <2>10, <2>11, <2>12 DEF Once, hostVars
<1>. QED  BY <1>3, <1>4

-----------------------------------------------------------------------------
(* The invariant                                                           *)

\* The frames under way stay numbered when the panel takes one or the host
\* writes the current one again.
LEMMA FramesStep ==
  ASSUME LinkInv,
         \/ toDev' = toDev /\ shown' = shown
         \/ toDev # <<>> /\ toDev' = Tail(toDev) /\ shown' \in {shown, Head(toDev).id}
         \/ /\ sent > 0 /\ shown' = shown
            /\ \E c \in BOOLEAN : toDev' = Append(toDev, [seq |-> cur, id |-> sent, cut |-> c]),
         sent' \in {sent, sent + 1}
  PROVE  /\ \A k \in 1 .. Len(toDev') : /\ toDev'[k].id \in 1 .. sent'
                                        /\ shown' <= toDev'[k].id
                                        /\ toDev'[k].seq = Num(toDev'[k].id)
         /\ \A k, l \in 1 .. Len(toDev') : k < l => toDev'[k].id <= toDev'[l].id
<1>1. /\ toDev \in Seq(Frames) /\ Len(toDev) \in Nat /\ sent \in Nat /\ shown \in Nat /\ shown <= sent
      /\ \A k \in 1 .. Len(toDev) : /\ toDev[k].id \in 1 .. sent
                                    /\ shown <= toDev[k].id
                                    /\ toDev[k].seq = Num(toDev[k].id)
      /\ \A k, l \in 1 .. Len(toDev) : k < l => toDev[k].id <= toDev[l].id
      /\ sent > 0 => cur = Num(sent)
  BY Window DEF LinkInv, TypeOK, Numbered
<1>2. \A n \in 1 .. sent : n \in 1 .. sent'
  BY <1>1
<1>3. CASE toDev' = toDev /\ shown' = shown
  BY <1>1, <1>2, <1>3
<1>4. CASE toDev # <<>> /\ toDev' = Tail(toDev) /\ shown' \in {shown, Head(toDev).id}
  <2>1. /\ Len(toDev') = Len(toDev) - 1
        /\ \A k \in 1 .. Len(toDev) - 1 : toDev'[k] = toDev[k + 1]
    BY <1>4, FrontFrame
  <2>2. \A k \in 1 .. Len(toDev) : shown <= toDev[k].id /\ toDev[1].id <= toDev[k].id
    <3>1. \A k \in 1 .. Len(toDev) : 1 \in 1 .. Len(toDev) /\ (k = 1 \/ 1 < k)
      BY <1>1
    <3>2. 1 \in 1 .. Len(toDev) => toDev[1].id <= toDev[1].id
      BY <1>1
    <3>. QED  BY <1>1, <3>1, <3>2
  <2>3. \A k \in 1 .. Len(toDev) - 1 : k + 1 \in 1 .. Len(toDev)
    BY <1>1
  <2>4. Head(toDev) = toDev[1]
    BY <1>1, <1>4, HeadTailProperties
  <2>5. \A k, l \in 1 .. Len(toDev) - 1 : k < l => k + 1 < l + 1
    BY <1>1
  <2>6. \A k \in 1 .. Len(toDev) - 1 : shown' <= toDev[k + 1].id
    BY <1>4, <2>2, <2>3, <2>4
  <2>. QED  BY <1>1, <1>2, <2>1, <2>3, <2>5, <2>6
<1>5. ASSUME NEW c \in BOOLEAN, sent > 0, shown' = shown,
             toDev' = Append(toDev, [seq |-> cur, id |-> sent, cut |-> c])
      PROVE  /\ \A k \in 1 .. Len(toDev') : /\ toDev'[k].id \in 1 .. sent'
                                            /\ shown' <= toDev'[k].id
                                            /\ toDev'[k].seq = Num(toDev'[k].id)
             /\ \A k, l \in 1 .. Len(toDev') : k < l => toDev'[k].id <= toDev'[l].id
  <2>. DEFINE f == [seq |-> cur, id |-> sent, cut |-> c]
  <2>1. f \in Frames /\ f.id = sent /\ f.seq = cur
    BY DEF LinkInv, TypeOK, Frames
  <2>. HIDE DEF f
  <2>2. /\ Len(toDev') = Len(toDev) + 1 /\ toDev'[Len(toDev) + 1] = f
        /\ \A k \in 1 .. Len(toDev) : toDev'[k] = toDev[k]
    BY <1>1, <1>5, <2>1, AppendProperties DEF f
  <2>3. \A k \in 1 .. Len(toDev') : k \in 1 .. Len(toDev) \/ k = Len(toDev) + 1
    BY <1>1, <2>2
  <2>4. sent \in 1 .. sent' /\ cur = Num(sent)
    BY <1>1, <1>5
  <2>5. \A k, l \in 1 .. Len(toDev') : k < l => k \in 1 .. Len(toDev)
    BY <1>1, <2>2
  <2>6. \A k \in 1 .. Len(toDev) : toDev[k].id <= sent
    BY <1>1
  <2>. QED  BY <1>1, <1>2, <1>5, <2>1, <2>2, <2>3, <2>4, <2>5, <2>6
<1>. QED  BY <1>3, <1>4, <1>5

\* What else the numbering needs, for a step within a call.
LEMMA NumberedKept ==
  ASSUME LinkInv, seq' = seq, cur' = cur, sent' = sent, lastOk' <= shown', shown' <= sent,
         \/ toDev' = toDev /\ shown' = shown
         \/ toDev # <<>> /\ toDev' = Tail(toDev) /\ shown' \in {shown, Head(toDev).id}
         \/ /\ sent > 0 /\ shown' = shown
            /\ \E c \in BOOLEAN : toDev' = Append(toDev, [seq |-> cur, id |-> sent, cut |-> c])
  PROVE  Numbered'
<1>1. /\ \A k \in 1 .. Len(toDev') : /\ toDev'[k].id \in 1 .. sent'
                                     /\ shown' <= toDev'[k].id
                                     /\ toDev'[k].seq = Num(toDev'[k].id)
      /\ \A k, l \in 1 .. Len(toDev') : k < l => toDev'[k].id <= toDev'[l].id
  BY FramesStep
<1>2. seq = Num(sent + 1) /\ (sent > 0 => cur = Num(sent))
  BY DEF LinkInv, Numbered
<1>3. Num(sent') = Num(sent) /\ Num(sent' + 1) = Num(sent + 1)
  OBVIOUS
<1>. QED  BY <1>1, <1>2, <1>3 DEF Numbered

\* next_seq gives consecutive numbers.
LEMMA NumberedSend ==
  ASSUME LinkInv, SendFrame
  PROVE  Numbered'
<1>1. /\ sent' = sent + 1 /\ cur' = seq /\ seq' = (seq + 1) % SeqSpace
      /\ toDev' = toDev /\ shown' = shown
  BY DEF SendFrame
<1>2. sent \in Nat /\ seq = Num(sent + 1) /\ lastOk <= shown /\ shown <= sent /\ shown \in Nat
  BY Window DEF LinkInv, Numbered
<1>3. lastOk' = lastOk
  BY LastOkKept
<1>4. sent + 1 \in Nat \ {0} /\ Num(sent + 1 + 1) = (Num(sent + 1) + 1) % SeqSpace
  BY <1>2, NumNext
<1>5. cur' = Num(sent') /\ seq' = Num(sent' + 1)
  BY <1>1, <1>2, <1>4
<1>6. lastOk' <= shown' /\ shown' <= sent'
  BY <1>1, <1>2, <1>3
<1>7. /\ \A k \in 1 .. Len(toDev') : /\ toDev'[k].id \in 1 .. sent'
                                     /\ shown' <= toDev'[k].id
                                     /\ toDev'[k].seq = Num(toDev'[k].id)
      /\ \A k, l \in 1 .. Len(toDev') : k < l => toDev'[k].id <= toDev'[l].id
  BY <1>1, FramesStep
<1>. QED  BY <1>5, <1>6, <1>7 DEF Numbered

\* The wire has nothing to say at first.
LEMMA LinkInit == Init => LinkInv
<1>. SUFFICES ASSUME Init PROVE LinkInv
  OBVIOUS
<1>1. TypeOK /\ Stages
  BY TypeInit
<1>2. Numbered
  <2>1. Num(0 + 1) = FirstSeq
    <3>1. Num(1) = FirstSeq /\ 0 + 1 = 1
      BY NumNext
    <3>. QED  BY <3>1
  <2>. QED  BY <2>1 DEF Init, Numbered, lastOk
<1>3. raw = <<>> /\ Len(raw) = 0 /\ ~Coded
  BY ConcatEmptySeq, EmptySeq DEF Init, raw, Coded
<1>4. stream = <<>> /\ Len(stream) = 0
  <2>1. inbox \in Seq(Byte) /\ toHost \in Seq(Byte)
    BY <1>1 DEF TypeOK
  <2>. QED  BY <1>3, <2>1, StreamIs
<1>5. StreamOK
  BY <1>4 DEF StreamOK, WellFormed, Genuine, InOrder
<1>6. NoFrame \notin Codes
  BY CodeValues DEF NoFrame, Byte
<1>7. Once
  <2>1. toDev = <<>> /\ Len(toDev) = 0 /\ partial = NoFrame
    BY EmptySeq DEF Init
  <2>. QED  BY <1>3, <1>4, <1>6, <2>1 DEF Once
<1>. QED  BY <1>1, <1>2, <1>5, <1>7 DEF LinkInv, Init, Scanned

\* Every step keeps the invariant, as long as the inbox has room and the sends whose
\* number is a code succeed at once.
LEMMA LinkNext ==
  ASSUME CursorX \notin Codes, LinkInv, Roomy, Prompt, Prompt', [Next]_vars
  PROVE  LinkInv'
<1>1. TypeOK' /\ Stages'
  BY TypeNext DEF LinkInv
<1>2. lastOk <= shown /\ shown <= sent /\ sent \in Nat /\ shown \in Nat /\ Numbered
  BY Window DEF LinkInv
<1>3. CASE SendFrame
  BY <1>1, <1>3, NumberedSend, QuietStep DEF LinkInv
<1>4. CASE WriteFrame \/ WriteError
  <2>1. StreamOK' /\ Scanned' /\ Once' /\ lastOk' = lastOk /\ shown' = shown
    BY <1>4, QuietStep
  <2>2. outcome = "pending"
    BY <1>4 DEF LinkInv, Stages, WriteFrame, WriteError
  <2>3. sent > 0
    BY <1>2, <2>2 DEF LinkInv, Stages, TypeOK
  <2>4. /\ seq' = seq /\ cur' = cur /\ sent' = sent
        /\ \/ toDev' = toDev
           \/ \E c \in BOOLEAN : toDev' = Append(toDev, [seq |-> cur, id |-> sent, cut |-> c])
    BY <1>4 DEF WriteFrame, WriteError
  <2>5. Numbered'
    BY <1>2, <2>1, <2>3, <2>4, NumberedKept
  <2>. QED  BY <1>1, <2>1, <2>5 DEF LinkInv
<1>5. CASE Timeout \/ BeginScan \/ ScanDefer \/ EndScan \/ PollSome \/ EndDrain
  <2>1. StreamOK' /\ Scanned' /\ Once' /\ lastOk' = lastOk /\ shown' = shown
    BY <1>5, QuietStep
  <2>2. UNCHANGED <<seq, cur, sent, toDev>>
    BY <1>5 DEF Timeout, BeginScan, ScanDefer, EndScan, PollSome, PollEvents, EndDrain
  <2>3. Numbered'
    BY <1>2, <2>1, <2>2, NumberedKept
  <2>. QED  BY <1>1, <2>1, <2>3 DEF LinkInv
<1>6. CASE ScanAck
  <2>1. StreamOK' /\ Scanned' /\ Once' /\ lastOk' = sent /\ shown = sent
    BY <1>6, AckStep, AckTrue
  <2>2. UNCHANGED <<seq, cur, sent, toDev, shown>>
    BY <1>6 DEF ScanAck
  <2>3. Numbered'
    BY <1>2, <2>1, <2>2, NumberedKept
  <2>. QED  BY <1>1, <2>1, <2>3 DEF LinkInv
<1>7. CASE ScanNak \/ ScanRemove \/ DrainToggle \/ DrainLevel \/ DrainOther
  <2>1. UNCHANGED <<seq, cur, sent, toDev, shown>>
    BY <1>7 DEF ScanNak, ScanRemove, DrainToggle, DrainLevel, DrainOther
  <2>2. StreamOK' /\ Scanned' /\ Once' /\ lastOk' = lastOk
    BY <1>7, NakStep, RemoveStep, DrainStep
  <2>3. Numbered'
    BY <1>2, <2>1, <2>2, NumberedKept
  <2>. QED  BY <1>1, <2>2, <2>3 DEF LinkInv
<1>8. CASE DeviceFrame \/ DeviceCut \/ DeviceEvent
  <2>1. StreamOK' /\ Scanned' /\ Once' /\ lastOk' = lastOk
    BY <1>8, DeviceStream, DeviceOnce
  <2>2. /\ UNCHANGED <<seq, cur, sent>>
        /\ \/ toDev' = toDev /\ shown' = shown
           \/ toDev # <<>> /\ toDev' = Tail(toDev) /\ shown' \in {shown, Head(toDev).id}
    BY <1>8 DEF DeviceFrame, DeviceCut, DeviceEvent, hostVars
  <2>3. lastOk' <= shown' /\ shown' <= sent
    <3>1. lastOk \in Nat
      BY Window
    <3>2. toDev # <<>> => Head(toDev).id \in 1 .. sent /\ shown <= Head(toDev).id
      BY FrontFrame
    <3>. QED  BY <1>2, <2>1, <2>2, <3>1, <3>2
  <2>4. Numbered'
    BY <2>2, <2>3, NumberedKept
  <2>. QED  BY <1>1, <2>1, <2>4 DEF LinkInv
<1>9. CASE UNCHANGED vars
  <2>1. UNCHANGED <<pc, seq, cur, sent, inbox, i, outcome, fails, toDev, toHost, partial, shown>>
    BY <1>9 DEF vars, hostVars
  <2>2. stream' = stream /\ lastOk' = lastOk /\ (Coded' <=> Coded)
    BY <2>1 DEF stream, raw, code, Coded, lastOk
  <2>3. StreamOK'
    BY <2>1, <2>2, StreamSame DEF LinkInv
  <2>4. Scanned' /\ Once'
    BY <2>1, <2>2 DEF LinkInv, Scanned, DataAt, Once
  <2>5. Numbered'
    BY <1>2, <2>1, <2>2, NumberedKept
  <2>. QED  BY <1>1, <2>3, <2>4, <2>5 DEF LinkInv
<1>. QED  BY <1>3, <1>4, <1>5, <1>6, <1>7, <1>8, <1>9 DEF Next, HostStep

\* So LinkInv holds throughout.
LEMMA LinkInvariant ==
  ASSUME CursorX \notin Codes PROVE Spec /\ []Roomy /\ []Prompt => []LinkInv
<1>1. Init => LinkInv
  BY LinkInit
<1>2. LinkInv /\ Roomy /\ Prompt /\ Prompt' /\ [Next]_vars => LinkInv'
  BY LinkNext
<1>. QED  BY <1>1, <1>2, PTL DEF Spec

-----------------------------------------------------------------------------
(* What send_frame promises                                                *)

\* Every step of the link is a step of FrameDelivery or changes nothing in it.
LEMMA DeliveryStep ==
  ASSUME LinkInv, [Next]_vars
  PROVE  [Delivery!Next]_(Delivery!vars)
<1>1. TypeOK /\ Stages /\ sent \in Nat /\ shown \in Nat
  BY DEF LinkInv, TypeOK
<1>2. CASE SendFrame
  BY <1>1, <1>2 DEF SendFrame, Stages, Delivery!Next, Delivery!Submit
<1>3. CASE WriteError \/ Timeout \/ ScanNak
  <2>1. NextAttempt /\ outcome = "pending" /\ sent' = sent /\ shown' = shown
    BY <1>1, <1>3 DEF WriteError, Timeout, ScanNak, Stages
  <2>2. outcome' = outcome \/ outcome' = "err"
    BY <1>1, <2>1, NextAttemptStage
  <2>. QED  BY <2>1, <2>2 DEF Delivery!Next, Delivery!GiveUp, Delivery!vars
<1>4. CASE ScanAck
  <2>1. shown = sent /\ outcome = "pending"
    BY <1>4, AckTrue
  <2>. QED  BY <1>4, <2>1 DEF ScanAck, Delivery!Next, Delivery!Confirm
<1>5. CASE DeviceFrame
  <2>1. toDev # <<>> /\ sent' = sent /\ outcome' = outcome
    BY <1>5 DEF DeviceFrame, hostVars
  <2>2. shown' = shown \/ shown' = Head(toDev).id
    BY <1>5 DEF DeviceFrame
  <2>3. Head(toDev).id \in 1 .. sent /\ shown <= Head(toDev).id
    BY <2>1, FrontFrame
  <2>4. shown' = shown \/ shown' \in (shown + 1) .. sent
    BY <1>1, <2>2, <2>3
  <2>. QED  BY <2>1, <2>4 DEF Delivery!Next, Delivery!Show, Delivery!vars
<1>6. CASE \/ WriteFrame \/ BeginScan \/ ScanDefer \/ ScanRemove \/ EndScan
           \/ PollSome \/ DrainToggle \/ DrainLevel \/ DrainOther \/ EndDrain
           \/ DeviceCut \/ DeviceEvent \/ UNCHANGED vars
  <2>1. UNCHANGED <<sent, shown, outcome>>
    BY <1>6 DEF WriteFrame, BeginScan, ScanDefer, ScanRemove, EndScan, PollSome, PollEvents,
                DrainToggle, DrainLevel, DrainOther, EndDrain, DeviceCut, DeviceEvent, vars,
                hostVars
  <2>. QED  BY <2>1 DEF Delivery!vars
<1>. QED  BY <1>2, <1>3, <1>4, <1>5, <1>6 DEF Next, HostStep

\* Whatever is lost, late or cut on the wire, frames are shown in the order they
\* were sent and a send that returned Ok has its frame on the panel, in a session of
\* any length, as long as the inbox has room and the sends whose number is a code
\* succeed at once.
THEOREM DeliveryTheorem ==
  ASSUME CursorX \notin Codes
  PROVE  Spec /\ []Roomy /\ []Prompt => ImplementsDelivery
<1>1. Init => Delivery!Init
  BY DEF Init, Delivery!Init
<1>2. LinkInv /\ [Next]_vars => [Delivery!Next]_(Delivery!vars)
  BY DeliveryStep
<1>3. Spec /\ []Roomy /\ []Prompt => []LinkInv
  BY LinkInvariant
<1>. QED  BY <1>1, <1>2, <1>3, PTL DEF Spec, ImplementsDelivery, Delivery!Spec

-----------------------------------------------------------------------------
(* Counting opcodes                                                        *)

\* Opcode bytes are counted part by part.
LEMMA OpBytesJoin ==
  ASSUME NEW S, NEW a \in Seq(S), NEW b \in Seq(S)
  PROVE  OpBytes(a \o b) = OpBytes(a) + OpBytes(b)
<1>. DEFINE n == Len(a)
            A == {k \in 1 .. Len(a) : a[k] \in Opcodes}
            B == {k \in 1 .. Len(b) : b[k] \in Opcodes}
            C == {k \in n + 1 .. n + Len(b) : b[k - n] \in Opcodes}
            f == [k \in B |-> n + k]
<1>0. n \in Nat /\ Len(b) \in Nat
  OBVIOUS
<1>1. /\ a \o b \in Seq(S) /\ Len(a \o b) = n + Len(b)
      /\ \A k \in 1 .. n : (a \o b)[k] = a[k]
      /\ \A k \in n + 1 .. n + Len(b) : (a \o b)[k] = b[k - n]
  BY Joined
<1>2. IsFiniteSet(A) /\ IsFiniteSet(B) /\ IsFiniteSet(C)
  <2>1. IsFiniteSet(1 .. Len(a)) /\ IsFiniteSet(1 .. Len(b)) /\ IsFiniteSet(n + 1 .. n + Len(b))
    BY <1>0, FS_Interval
  <2>2. A \in SUBSET (1 .. Len(a)) /\ B \in SUBSET (1 .. Len(b)) /\ C \in SUBSET (n + 1 .. n + Len(b))
    OBVIOUS
  <2>. HIDE DEF A, B, C
  <2>. QED  BY <2>1, <2>2, FS_Subset
<1>3. Cardinality(C) = Cardinality(B)
  <2>1. f \in [B -> C] /\ \A k \in B : f[k] = n + k
    <3>1. \A k \in B : n + k \in C
      <4>1. \A k \in B : n + k \in n + 1 .. n + Len(b) /\ n + k - n = k
        BY <1>0
      <4>. QED  BY <4>1
    <3>. QED  BY <3>1
  <2>2. \A x, y \in B : f[x] = f[y] => x = y
    <3>1. \A x, y \in B : x \in Int /\ y \in Int
      OBVIOUS
    <3>. HIDE DEF f, B
    <3>. QED  BY <1>0, <2>1, <3>1
  <2>3. \A c \in C : \E x \in B : f[x] = c
    <3>. SUFFICES ASSUME NEW c \in C PROVE \E x \in B : f[x] = c
      OBVIOUS
    <3>1. c - n \in B /\ n + (c - n) = c
      BY <1>0
    <3>. HIDE DEF f, B, C
    <3>. QED  BY <2>1, <3>1
  <2>. HIDE DEF f, B, C
  <2>4. f \in Bijection(B, C)
    BY <2>1, <2>2, <2>3, Fun_IsBij
  <2>5. ExistsBijection(B, C)
    BY <2>4, Fun_ExistsBij
  <2>. QED  BY <1>2, <2>5, FS_Bijection
<1>4. A \intersect C = {}
  BY <1>0
<1>5. {k \in 1 .. Len(a \o b) : (a \o b)[k] \in Opcodes} = A \union C
  <2>1. \A k \in 1 .. n + Len(b) : k \in 1 .. n \/ k \in n + 1 .. n + Len(b)
    BY <1>0
  <2>2. \A k \in 1 .. n : k \in 1 .. n + Len(b) /\ k \notin n + 1 .. n + Len(b)
    BY <1>0
  <2>3. \A k \in n + 1 .. n + Len(b) : k \in 1 .. n + Len(b)
    BY <1>0
  <2>. QED  BY <1>1, <2>1, <2>2, <2>3
<1>6. OpBytes(a) = Cardinality(A) /\ OpBytes(b) = Cardinality(B)
      /\ OpBytes(a \o b) = Cardinality(A \union C)
  BY <1>5 DEF OpBytes
<1>. HIDE DEF A, B, C
<1>7. Cardinality(A \union C) = Cardinality(A) + Cardinality(C) - Cardinality({})
  BY <1>2, <1>4, FS_Union
<1>8. Cardinality({}) = 0 /\ Cardinality(A) \in Nat /\ Cardinality(C) \in Nat
  BY <1>2, FS_EmptySet, FS_CardinalityType
<1>. QED  BY <1>3, <1>6, <1>7, <1>8

\* One byte, and two.
LEMMA OpBytesShort ==
  ASSUME NEW B, NEW x \in B
  PROVE  /\ <<x>> \in Seq(B) /\ Len(<<x>>) = 1 /\ <<x>>[1] = x
         /\ OpBytes(<<x>>) = IF x \in Opcodes THEN 1 ELSE 0
         /\ \A y \in B : <<x, y>> = <<x>> \o <<y>>
<1>1. <<x>> \in Seq(B) /\ Len(<<x>>) = 1 /\ <<x>>[1] = x
  OBVIOUS
<1>2. {k \in 1 .. Len(<<x>>) : <<x>>[k] \in Opcodes} = IF x \in Opcodes THEN {1} ELSE {}
  <2>1. 1 .. 1 = {1}
    OBVIOUS
  <2>. QED  BY <1>1, <2>1
<1>3. Cardinality({1}) = 1 /\ Cardinality({}) = 0
  BY FS_Singleton, FS_EmptySet
<1>. QED  BY <1>1, <1>2, <1>3 DEF OpBytes

\* A whole opcode counts once, a reply without codes not at all.
LEMMA OpBytesWritten ==
  ASSUME NEW B, NEW r \in Seq(B)
  PROVE  /\ Opcode(r) => OpBytes(r) = 1
         /\ \A id \in Nat : Reply(r, id) => OpBytes(r) = 0
<1>1. CASE Len(r) = 1
  <2>1. r[1] \in B /\ r = <<r[1]>>
    BY <1>1
  <2>. QED  BY <1>1, <2>1, OpBytesShort, CodeValues DEF Opcode, Reply
<1>2. CASE Len(r) = 2
  <2>1. r[1] \in B /\ r[2] \in B /\ r = <<r[1], r[2]>>
    BY <1>2
  <2>2. OpBytes(r) = OpBytes(<<r[1]>>) + OpBytes(<<r[2]>>)
    <3>1. /\ <<r[1]>> \in Seq(B) /\ <<r[2]>> \in Seq(B)
          /\ <<r[1], r[2]>> = <<r[1]>> \o <<r[2]>>
      BY <2>1, OpBytesShort
    <3>2. OpBytes(<<r[1]>> \o <<r[2]>>) = OpBytes(<<r[1]>>) + OpBytes(<<r[2]>>)
      BY <3>1, OpBytesJoin
    <3>. QED  BY <2>1, <3>1, <3>2
  <2>3. /\ OpBytes(<<r[1]>>) = IF r[1] \in Opcodes THEN 1 ELSE 0
        /\ OpBytes(<<r[2]>>) = IF r[2] \in Opcodes THEN 1 ELSE 0
    BY <2>1, OpBytesShort
  <2>4. Opcode(r) => r[1] \in Opcodes /\ r[2] \notin Opcodes
    BY <1>2, CodeValues DEF Opcode
  <2>5. \A id \in Nat : Reply(r, id) => r[1] \notin Opcodes /\ r[2] \notin Opcodes
    BY <1>2, CodeValues DEF Reply
  <2>. QED  BY <2>2, <2>3, <2>4, <2>5
<1>. QED  BY <1>1, <1>2 DEF Opcode, Reply

\* A string and its two parts.
LEMMA OpBytesSplit ==
  ASSUME NEW B, NEW a \in Seq(B), NEW m \in 0 .. Len(a)
  PROVE  /\ SubSeq(a, 1, m) \in Seq(B) /\ SubSeq(a, m + 1, Len(a)) \in Seq(B)
         /\ OpBytes(a) = OpBytes(SubSeq(a, 1, m)) + OpBytes(SubSeq(a, m + 1, Len(a)))
<1>. DEFINE b == SubSeq(a, 1, m)
            c == SubSeq(a, m + 1, Len(a))
<1>1. Len(a) \in Nat
  OBVIOUS
<1>2. b \in Seq(B) /\ c \in Seq(B)
  BY <1>1, Part
<1>3. b \o c = a
  <2>1. 1 \in 1 .. Len(a) + 1 /\ m \in 1 - 1 .. Len(a) /\ Len(a) \in m .. Len(a)
    BY <1>1
  <2>2. b \o c = SubSeq(a, 1, Len(a))
    BY <2>1, ConcatAdjacentSubSeq
  <2>. QED  BY <2>2, SubSeqFull
<1>. HIDE DEF b, c
<1>4. OpBytes(b \o c) = OpBytes(b) + OpBytes(c)
  BY <1>2, OpBytesJoin
<1>. QED  BY <1>2, <1>3, <1>4 DEF b, c

\* A beginning and its last byte.
LEMMA OpBytesLast ==
  ASSUME NEW B, NEW a \in Seq(B), NEW m \in 1 .. Len(a)
  PROVE  /\ OpBytes(SubSeq(a, 1, m))
              = OpBytes(SubSeq(a, 1, m - 1)) + (IF a[m] \in Opcodes THEN 1 ELSE 0)
         /\ OpBytes(SubSeq(a, 1, 0)) = 0
<1>. DEFINE b == SubSeq(a, 1, m)
            c == SubSeq(a, 1, m - 1)
            d == <<a[m]>>
<1>1. Len(a) \in Nat /\ a[m] \in B
  OBVIOUS
<1>2. /\ b \in Seq(B) /\ Len(b) = m /\ \A k \in 1 .. m : b[k] = a[k]
      /\ c \in Seq(B) /\ Len(c) = m - 1 /\ \A k \in 1 .. m - 1 : c[k] = a[k]
  <2>1. /\ b \in Seq(B) /\ Len(b) = IF 1 <= m THEN m - 1 + 1 ELSE 0
        /\ \A k \in 1 .. m - 1 + 1 : b[k] = a[1 + k - 1]
    BY <1>1, Part
  <2>2. /\ c \in Seq(B) /\ Len(c) = IF 1 <= m - 1 THEN m - 1 - 1 + 1 ELSE 0
        /\ \A k \in 1 .. m - 1 - 1 + 1 : c[k] = a[1 + k - 1]
    BY <1>1, Part
  <2>. HIDE DEF b, c
  <2>. QED  BY <1>1, <2>1, <2>2
<1>3. d \in Seq(B) /\ Len(d) = 1 /\ d[1] = a[m] /\ OpBytes(d) = IF a[m] \in Opcodes THEN 1 ELSE 0
  BY <1>1, OpBytesShort
<1>. HIDE DEF b, c, d
<1>4. c \o d \in Seq(B) /\ Len(c \o d) = m /\ \A k \in 1 .. m : (c \o d)[k] = b[k]
  <2>1. /\ c \o d \in Seq(B) /\ Len(c \o d) = m - 1 + 1
        /\ \A k \in 1 .. m - 1 : (c \o d)[k] = c[k]
        /\ \A k \in m - 1 + 1 .. m - 1 + 1 : (c \o d)[k] = d[k - (m - 1)]
    <3>1. /\ c \o d \in Seq(B) /\ Len(c \o d) = Len(c) + Len(d)
          /\ \A k \in 1 .. Len(c) : (c \o d)[k] = c[k]
          /\ \A k \in Len(c) + 1 .. Len(c) + Len(d) : (c \o d)[k] = d[k - Len(c)]
      <4>1. c \in Seq(B) /\ d \in Seq(B)
        BY <1>2, <1>3
      <4>. QED  BY <4>1, Joined, SMTT(60)
    <3>. QED  BY <1>2, <1>3, <3>1
  <2>2. m \in m - 1 + 1 .. m - 1 + 1 /\ m - (m - 1) = 1 /\ m - 1 + 1 = m
    BY <1>1
  <2>3. \A k \in 1 .. m : k \in 1 .. m - 1 \/ k = m
    BY <1>1
  <2>4. (c \o d)[m] = b[m]
    BY <1>2, <1>3, <2>1, <2>2
  <2>5. \A k \in 1 .. m - 1 : k \in 1 .. m
    BY <1>1
  <2>. QED  BY <1>2, <2>1, <2>2, <2>3, <2>4, <2>5
<1>5. c \o d = b
  BY <1>2, <1>4, SeqEqual
<1>6. OpBytes(b) = OpBytes(c) + OpBytes(d)
  BY <1>2, <1>3, <1>5, OpBytesJoin
<1>7. OpBytes(SubSeq(a, 1, 0)) = 0
  <2>1. {k \in 1 .. 0 : SubSeq(a, 1, 0)[k] \in Opcodes} = {} /\ Len(SubSeq(a, 1, 0)) = 0
    BY <1>1, Part
  <2>. QED  BY <2>1, FS_EmptySet DEF OpBytes
<1>. QED  BY <1>3, <1>6, <1>7 DEF b, c

\* What is left behind the first m bytes.
LEMMA OpBytesRest ==
  ASSUME NEW B, NEW s \in Seq(B), NEW t \in Seq(B), NEW m \in 0 .. Len(s),
         Len(t) = Len(s) - m, \A k \in 1 .. Len(t) : t[k] = s[k + m]
  PROVE  /\ OpBytes(s) = OpBytes(SubSeq(s, 1, m)) + OpBytes(t)
         /\ SubSeq(s, 1, m) \in Seq(B) /\ OpBytes(SubSeq(s, 1, m)) \in Nat
<1>. DEFINE c == SubSeq(s, m + 1, Len(s))
<1>1. Len(s) \in Nat
  OBVIOUS
<1>2. c \in Seq(B) /\ Len(c) = Len(s) - m /\ \A k \in 1 .. Len(t) : c[k] = s[k + m]
  <2>1. /\ c \in Seq(B) /\ Len(c) = IF m + 1 <= Len(s) THEN Len(s) - (m + 1) + 1 ELSE 0
        /\ \A k \in 1 .. Len(s) - (m + 1) + 1 : c[k] = s[m + 1 + k - 1]
    BY <1>1, Part
  <2>2. \A k \in 1 .. Len(t) : k \in 1 .. Len(s) - (m + 1) + 1 /\ m + 1 + k - 1 = k + m
    BY <1>1
  <2>. HIDE DEF c
  <2>. QED  BY <1>1, <2>1, <2>2
<1>. HIDE DEF c
<1>3. c = t
  BY <1>2, SeqEqual
<1>4. OpBytes(s) = OpBytes(SubSeq(s, 1, m)) + OpBytes(c) /\ SubSeq(s, 1, m) \in Seq(B)
  BY OpBytesSplit DEF c
<1>. QED  BY <1>3, <1>4, OpBytesType

\* A byte that goes counts for itself.
LEMMA OpBytesWithout ==
  ASSUME NEW B, NEW s \in Seq(B), NEW t \in Seq(B), NEW j \in 1 .. Len(s), s[j] \notin Opcodes,
         Len(t) = Len(s) - 1, \A k \in 1 .. Len(t) : t[k] = s[IF k < j THEN k ELSE k + 1]
  PROVE  OpBytes(t) = OpBytes(s)
<1>. DEFINE a == SubSeq(s, 1, j - 1)
            c == SubSeq(s, j + 1, Len(s))
<1>1. Len(s) \in Nat /\ j \in 0 .. Len(s) /\ j - 1 \in 0 .. Len(s)
  OBVIOUS
<1>2. a \in Seq(B) /\ c \in Seq(B) /\ OpBytes(s) = OpBytes(SubSeq(s, 1, j)) + OpBytes(c)
  BY <1>1, OpBytesSplit
<1>3. OpBytes(SubSeq(s, 1, j)) = OpBytes(a) + 0
  BY OpBytesLast
<1>4. t = a \o c
  <2>1. /\ RemoveAt(s, j) \in Seq(B) /\ Len(RemoveAt(s, j)) = Len(s) - 1
        /\ \A k \in 1 .. Len(s) - 1 : RemoveAt(s, j)[k] = IF k < j THEN s[k] ELSE s[k + 1]
    BY WithoutOne
  <2>2. \A k \in 1 .. Len(t) : t[k] = RemoveAt(s, j)[k]
    BY <2>1
  <2>3. t = RemoveAt(s, j)
    <3>. DEFINE u == RemoveAt(s, j)
    <3>. HIDE DEF u
    <3>1. u \in Seq(B) /\ Len(u) = Len(t) /\ \A k \in 1 .. Len(t) : t[k] = u[k]
      BY <2>1, <2>2 DEF u
    <3>. QED  BY <3>1, SeqEqual DEF u
  <2>. QED  BY <2>3 DEF RemoveAt
<1>. HIDE DEF a, c
<1>5. OpBytes(a \o c) = OpBytes(a) + OpBytes(c) /\ OpBytes(a) \in Nat
  BY <1>2, OpBytesJoin, OpBytesType
<1>. QED  BY <1>2, <1>3, <1>4, <1>5

\* The types the counts rest on.
LEMMA Counts ==
  ASSUME LinkInv
  PROVE  /\ inbox \in Seq(Byte) /\ toHost \in Seq(Byte) /\ stream \in Seq(Sym)
         /\ Len(inbox) \in Nat /\ Len(stream) \in Nat /\ Len(inbox) <= Len(stream)
         /\ i \in Nat \ {0} /\ polled \in Seq(Seq(Byte)) /\ raised \in Seq(Events)
         /\ OpBytes(stream) \in Nat /\ dropped \in Nat /\ Len(polled) \in Nat /\ Len(raised) \in Nat
<1>1. /\ inbox \in Seq(Byte) /\ toHost \in Seq(Byte) /\ i \in Nat \ {0}
      /\ polled \in Seq(Seq(Byte)) /\ raised \in Seq(Events) /\ dropped \in Nat
  BY DEF LinkInv, TypeOK
<1>2. Len(inbox) \in Nat /\ Len(toHost) \in Nat /\ Len(polled) \in Nat /\ Len(raised) \in Nat
  BY <1>1
<1>3. stream \in Seq(Sym) /\ Len(stream) = Len(inbox) + Len(toHost)
  BY <1>1, StreamIs
<1>4. OpBytes(stream) \in Nat
  BY <1>3, OpBytesType
<1>. QED  BY <1>1, <1>2, <1>3, <1>4

\* Where the stream has no number that is a code, it begins as the inbox does.
LEMMA FrontIs ==
  ASSUME LinkInv, NEW m \in 0 .. Len(inbox), \A k \in 1 .. m : stream[k] \in Byte
  PROVE  SubSeq(stream, 1, m) = SubSeq(inbox, 1, m)
<1>. DEFINE a == SubSeq(stream, 1, m)
            b == SubSeq(inbox, 1, m)
<1>1. /\ inbox \in Seq(Byte) /\ toHost \in Seq(Byte) /\ stream \in Seq(Sym)
      /\ Len(inbox) \in Nat /\ Len(stream) \in Nat /\ Len(inbox) <= Len(stream) /\ 1 \in Nat \ {0}
  BY Counts
<1>2. m \in Nat /\ m <= Len(inbox) /\ m <= Len(stream) /\ m - 1 + 1 = m
  BY <1>1
<1>3. /\ a \in Seq(Sym) /\ Len(a) = IF 1 <= m THEN m - 1 + 1 ELSE 0
      /\ \A k \in 1 .. m - 1 + 1 : a[k] = stream[1 + k - 1]
  BY <1>1, <1>2, Part
<1>4. /\ b \in Seq(Byte) /\ Len(b) = IF 1 <= m THEN m - 1 + 1 ELSE 0
      /\ \A k \in 1 .. m - 1 + 1 : b[k] = inbox[1 + k - 1]
  BY <1>1, <1>2, Part
<1>. HIDE DEF a, b
<1>5. Byte \subseteq Sym
  BY DEF Byte, Sym
<1>6. b \in Seq(Sym)
  BY <1>4, <1>5
<1>7. ASSUME NEW k \in 1 .. m
      PROVE  a[k] = b[k]
  <2>1. k \in 1 .. Len(inbox) /\ k \in 1 .. Len(raw) /\ 1 + k - 1 = k /\ k \in 1 .. m - 1 + 1
    <3>1. Len(raw) = Len(stream)
      BY <1>1, StreamIs
    <3>. QED  BY <1>1, <1>2, <3>1
  <2>2. stream[k] \in Byte /\ stream[k] = raw[k] /\ raw[k] = inbox[k]
    BY <1>1, <2>1, StreamIs
  <2>. QED  BY <1>3, <1>4, <2>1, <2>2
<1>8. Len(a) = Len(b) /\ Len(a) = m
  BY <1>2, <1>3, <1>4
<1>9. a = b
  BY <1>3, <1>6, <1>7, <1>8, SeqEqual
<1>. QED  BY <1>9 DEF a, b

\* Every opcode the panel sent was returned, dropped with a reply, or is in the stream.
Counted == Len(raised) = Len(polled) + dropped + OpBytes(stream)

\* The same of the bytes as they are, while none of them is the number of a send.
LEMMA CountedBytes ==
  ASSUME LinkInv, Counted
  PROVE  Coded \/ EventsAccounted
<1>. SUFFICES ASSUME ~Coded PROVE EventsAccounted
  OBVIOUS
<1>1. inbox \in Seq(Byte) /\ toHost \in Seq(Byte) /\ dropped \in Nat /\ Len(polled) \in Nat
  BY Counts
<1>2. OpBytes(inbox) \in Nat /\ OpBytes(toHost) \in Nat
  BY <1>1, OpBytesType
<1>3. stream = inbox \o toHost
  BY Plain DEF raw
<1>4. OpBytes(stream) = OpBytes(inbox) + OpBytes(toHost)
  BY <1>1, <1>3, OpBytesJoin
<1>. QED  BY <1>1, <1>2, <1>4 DEF Counted, EventsAccounted

\* A reply is taken: what goes before it is counted as dropped.
LEMMA ReplyCounts ==
  ASSUME LinkInv, Prompt', Counted, ScanAck \/ ScanNak
  PROVE  Counted'
<1>1. /\ i + 1 \in 1 .. Len(inbox) /\ stream[i + 1] \notin Codes /\ stream[i + 1] \notin Levels
      /\ inbox' = SubSeq(inbox, i + 1 + 1, Len(inbox)) /\ toHost' = toHost /\ ~Coded'
      /\ \A k \in 1 .. Len(stream) : k # i + 1 => stream[k] \in Byte
  BY ReplyTaken
<1>2. /\ UNCHANGED <<raised, polled>> /\ inbox[i] \in {FRAME_ACK, FRAME_NAK} /\ pc = "scan"
      /\ dropped' = dropped + OpBytes(SubSeq(inbox, 1, i - 1))
  BY DEF ScanAck, ScanNak, ReplyAt, DrainThroughReply
<1>3. /\ inbox \in Seq(Byte) /\ stream \in Seq(Sym)
      /\ Len(inbox) \in Nat /\ Len(stream) \in Nat /\ Len(inbox) <= Len(stream) /\ i \in Nat \ {0}
      /\ OpBytes(stream) \in Nat /\ dropped \in Nat /\ Len(polled) \in Nat /\ Len(raised) \in Nat
  BY Counts
<1>4. /\ i <= Len(inbox) /\ i \in 1 .. Len(stream) /\ i + 1 \in 1 .. Len(stream)
      /\ i + 1 \in 0 .. Len(stream) /\ i + 1 - 1 = i /\ i - 1 \in 0 .. Len(inbox)
      /\ \A k \in 1 .. i - 1 : k \in 1 .. Len(stream) /\ k # i + 1
      /\ \A k \in 1 .. Len(stream) : k > i + 1 => k # i + 1
  BY <1>1, <1>3
<1>5. stream[i] \notin Opcodes /\ stream[i + 1] \notin Opcodes
  <2>1. stream[i] = inbox[i]
    BY <1>2, <1>4, AtFirstByte
  <2>. QED  BY <1>1, <1>2, <2>1, CodeValues
<1>6. OpBytes(SubSeq(stream, 1, i)) = OpBytes(SubSeq(stream, 1, i - 1)) + 0
  BY <1>3, <1>4, <1>5, OpBytesLast
<1>7. OpBytes(SubSeq(stream, 1, i + 1)) = OpBytes(SubSeq(stream, 1, i)) + 0
  <2>1. OpBytes(SubSeq(stream, 1, i + 1))
          = OpBytes(SubSeq(stream, 1, i + 1 - 1)) + (IF stream[i + 1] \in Opcodes THEN 1 ELSE 0)
    BY <1>3, <1>4, OpBytesLast, SMTT(60)
  <2>. QED  BY <1>4, <1>5, <2>1
<1>8. SubSeq(stream, 1, i - 1) = SubSeq(inbox, 1, i - 1)
  <2>1. \A k \in 1 .. i - 1 : stream[k] \in Byte
    BY <1>1, <1>4
  <2>. QED  BY <1>4, <2>1, FrontIs
<1>9. /\ stream' \in Seq(Sym) /\ Len(stream') = Len(stream) - (i + 1)
      /\ \A k \in 1 .. Len(stream') : stream'[k] = stream[k + (i + 1)]
  <2>1. \A k \in 1 .. Len(stream) : k > i + 1 => stream[k] \in Byte
    BY <1>1, <1>4
  <2>. QED  BY <1>1, <2>1, StreamTaken, SMTT(60)
<1>10. /\ OpBytes(stream) = OpBytes(SubSeq(stream, 1, i + 1)) + OpBytes(stream')
       /\ OpBytes(SubSeq(stream, 1, i + 1)) \in Nat /\ OpBytes(stream') \in Nat
  <2>. DEFINE m == i + 1
              t == stream'
  <2>1. m \in 0 .. Len(stream) /\ t \in Seq(Sym) /\ Len(t) = Len(stream) - m
    BY <1>4, <1>9
  <2>2. \A k \in 1 .. Len(t) : t[k] = stream[k + m]
    BY <1>9
  <2>. HIDE DEF m, t
  <2>3. OpBytes(stream) = OpBytes(SubSeq(stream, 1, m)) + OpBytes(t) /\ OpBytes(SubSeq(stream, 1, m)) \in Nat
    <3>1. stream \in Seq(Sym)
      BY <1>3
    <3>. QED  BY <2>1, <2>2, <3>1, OpBytesRest, SMTT(60)
  <2>4. OpBytes(t) \in Nat
    BY <2>1, OpBytesType
  <2>. QED  BY <2>3, <2>4 DEF m, t
<1>11. OpBytes(SubSeq(inbox, 1, i - 1)) \in Nat
  <2>1. SubSeq(inbox, 1, i - 1) \in Seq(Byte)
    BY <1>3, <1>4, OpBytesSplit
  <2>. QED  BY <2>1, OpBytesType
<1>12. OpBytes(stream) = OpBytes(SubSeq(inbox, 1, i - 1)) + OpBytes(stream')
  <2>1. OpBytes(SubSeq(stream, 1, i + 1)) = OpBytes(SubSeq(inbox, 1, i - 1))
    <3>1. OpBytes(SubSeq(stream, 1, i - 1)) = OpBytes(SubSeq(inbox, 1, i - 1))
      BY <1>8
    <3>2. OpBytes(SubSeq(stream, 1, i)) = OpBytes(SubSeq(inbox, 1, i - 1))
      BY <1>6, <1>11, <3>1
    <3>. QED  BY <1>7, <1>11, <3>2
  <2>. QED  BY <1>10, <2>1
<1>13. raised' = raised /\ polled' = polled
  BY <1>2
<1>14. Len(raised) = Len(polled) + dropped + OpBytes(stream)
  BY DEF Counted
<1>15. Len(raised) = Len(polled) + (dropped + OpBytes(SubSeq(inbox, 1, i - 1))) + OpBytes(stream')
  <2>. DEFINE d == OpBytes(SubSeq(inbox, 1, i - 1))
              b == OpBytes(stream)
              c == OpBytes(stream')
              p == Len(polled)
              n == Len(raised)
  <2>1. d \in Nat /\ c \in Nat /\ p \in Nat /\ dropped \in Nat
    BY <1>3, <1>10, <1>11
  <2>2. b = d + c /\ n = p + dropped + b
    BY <1>12, <1>14
  <2>. HIDE DEF d, b, c, p, n
  <2>3. n = p + (dropped + d) + c
    BY <2>1, <2>2
  <2>. QED  BY <2>3 DEF d, c, p, n
<1>. QED  BY <1>2, <1>13, <1>15 DEF Counted

\* poll_events takes one opcode and returns it, or takes another byte.
LEMMA DrainCounts ==
  ASSUME LinkInv, Counted, DrainToggle \/ DrainLevel \/ DrainOther
  PROVE  Counted'
<1>1. /\ inbox \in Seq(Byte) /\ stream \in Seq(Sym) /\ polled \in Seq(Seq(Byte))
      /\ Len(inbox) \in Nat /\ Len(stream) \in Nat /\ Len(inbox) <= Len(stream)
      /\ OpBytes(stream) \in Nat /\ dropped \in Nat /\ Len(polled) \in Nat /\ Len(raised) \in Nat
  BY Counts
<1>2. ~Coded /\ ~Coded' /\ UNCHANGED <<raised, dropped, toHost>>
  BY DEF LinkInv, Stages, Coded, DrainToggle, DrainLevel, DrainOther, histVars
<1>3. /\ \A k \in 1 .. Len(stream) : stream[k] \in Byte
      /\ \A k \in 1 .. Len(inbox) : stream[k] = inbox[k]
  <2>1. toHost \in Seq(Byte)
    BY Counts
  <2>. QED  BY <1>1, <1>2, <2>1, Plain, StreamIs
<1>4. ASSUME NEW m \in 1 .. 2, m <= Len(inbox), stream[m] \notin Levels,
             inbox' = SubSeq(inbox, m + 1, Len(inbox)),
             OpBytes(SubSeq(stream, 1, m)) + Len(polled) = Len(polled')
      PROVE  Counted'
  <2>1. m \in 1 .. Len(inbox) /\ m \in 0 .. Len(stream)
    BY <1>1, <1>4
  <2>2. /\ stream' \in Seq(Sym) /\ Len(stream') = Len(stream) - m
        /\ \A k \in 1 .. Len(stream') : stream'[k] = stream[k + m]
    <3>1. \A k \in 1 .. Len(stream) : k > m => stream[k] \in Byte
      BY <1>3
    <3>2. toHost' = toHost
      BY <1>2
    <3>. QED  BY <1>2, <1>4, <2>1, <3>1, <3>2, StreamTaken
  <2>3. /\ OpBytes(stream) = OpBytes(SubSeq(stream, 1, m)) + OpBytes(stream')
        /\ OpBytes(SubSeq(stream, 1, m)) \in Nat /\ OpBytes(stream') \in Nat
    <3>. DEFINE t == stream'
    <3>1. t \in Seq(Sym) /\ Len(t) = Len(stream) - m
      BY <2>2
    <3>2. \A k \in 1 .. Len(t) : t[k] = stream[k + m]
      BY <2>2
    <3>. HIDE DEF t
    <3>3. OpBytes(stream) = OpBytes(SubSeq(stream, 1, m)) + OpBytes(t) /\ OpBytes(SubSeq(stream, 1, m)) \in Nat
      BY <1>1, <2>1, <3>1, <3>2, OpBytesRest
    <3>4. OpBytes(t) \in Nat
      BY <3>1, OpBytesType
    <3>. QED  BY <3>3, <3>4 DEF t
  <2>. QED  BY <1>1, <1>2, <1>4, <2>3 DEF Counted
<1>5. ASSUME 1 <= Len(inbox)
      PROVE  /\ 1 \in 1 .. Len(inbox) /\ stream[1] = inbox[1]
             /\ OpBytes(SubSeq(stream, 1, 1)) = IF inbox[1] \in Opcodes THEN 1 ELSE 0
  <2>1. 1 \in 1 .. Len(inbox) /\ 1 \in 1 .. Len(stream) /\ 1 - 1 = 0
    BY <1>1, <1>5
  <2>2. /\ OpBytes(SubSeq(stream, 1, 1))
             = OpBytes(SubSeq(stream, 1, 1 - 1)) + (IF stream[1] \in Opcodes THEN 1 ELSE 0)
        /\ OpBytes(SubSeq(stream, 1, 0)) = 0
    BY <1>1, <2>1, OpBytesLast, SMTT(60)
  <2>. QED  BY <1>3, <2>1, <2>2
<1>6. CASE DrainToggle \/ DrainOther
  <2>1. /\ inbox # <<>> /\ inbox' = Tail(inbox) /\ inbox[1] \notin Levels
        /\ \/ inbox[1] \in Opcodes /\ polled' = Append(polled, <<DEV_MODE_TOGGLE>>)
           \/ inbox[1] \notin Opcodes /\ polled' = polled
    BY <1>6, CodeValues DEF DrainToggle, DrainOther, histVars
  <2>2. 1 <= Len(inbox) /\ inbox' = SubSeq(inbox, 1 + 1, Len(inbox)) /\ 1 \in 1 .. 2
    BY <1>1, <2>1, EmptySeq, TailIsSubSeq
  <2>3. Len(polled') = Len(polled) + (IF inbox[1] \in Opcodes THEN 1 ELSE 0)
    <3>1. <<DEV_MODE_TOGGLE>> \in Seq(Byte)
      BY DEF DEV_MODE_TOGGLE, Byte
    <3>. QED  BY <1>1, <2>1, <3>1, AppendProperties
  <2>4. OpBytes(SubSeq(stream, 1, 1)) + Len(polled) = Len(polled') /\ stream[1] \notin Levels
    BY <1>1, <1>5, <2>1, <2>2, <2>3
  <2>. QED  BY <1>4, <2>2, <2>4
<1>7. CASE DrainLevel
  <2>1. /\ Len(inbox) >= 2 /\ inbox[1] \in Levels /\ inbox' = SubSeq(inbox, 2 + 1, Len(inbox))
        /\ polled' = Append(polled, <<inbox[1], IF inbox[2] > 6 THEN 6 ELSE inbox[2]>>)
    BY <1>7 DEF DrainLevel, Levels
  <2>2. /\ 2 \in 1 .. 2 /\ 2 <= Len(inbox) /\ 1 <= Len(inbox) /\ 1 \in 1 .. Len(inbox)
        /\ 2 \in 1 .. Len(inbox) /\ 1 \in 1 .. Len(stream) /\ 2 \in 1 .. Len(stream)
        /\ 1 + 1 = 2 /\ 2 - 1 = 1
    BY <1>1, <2>1
  <2>3. stream[1] = inbox[1] /\ stream[2] = inbox[2]
    BY <1>3, <2>2
  <2>4. stream[2] \in 0 .. 6
    BY <2>1, <2>2, <2>3 DEF LinkInv, StreamOK, WellFormed
  <2>5. inbox[1] \in Opcodes /\ stream[2] \notin Opcodes /\ stream[2] \notin Levels
    BY <2>1, <2>4, CodeValues
  <2>6. OpBytes(SubSeq(stream, 1, 2)) = OpBytes(SubSeq(stream, 1, 1)) + 0
    <3>1. OpBytes(SubSeq(stream, 1, 2))
            = OpBytes(SubSeq(stream, 1, 2 - 1)) + (IF stream[2] \in Opcodes THEN 1 ELSE 0)
      BY <1>1, <2>2, OpBytesLast, SMTT(60)
    <3>. QED  BY <2>2, <2>5, <3>1
  <2>7. Len(polled') = Len(polled) + 1
    <3>1. inbox[1] \in Byte /\ (IF inbox[2] > 6 THEN 6 ELSE inbox[2]) \in Byte
      BY <1>1, <2>2, ElementOfSeq DEF Byte
    <3>2. <<inbox[1], IF inbox[2] > 6 THEN 6 ELSE inbox[2]>> \in Seq(Byte)
      BY <3>1, Pair
    <3>. QED  BY <1>1, <2>1, <3>2, AppendProperties
  <2>8. OpBytes(SubSeq(stream, 1, 2)) + Len(polled) = Len(polled')
    BY <1>1, <1>5, <2>2, <2>5, <2>6, <2>7
  <2>. QED  BY <1>4, <2>1, <2>2, <2>5, <2>8
<1>. QED  BY <1>6, <1>7

\* The panel writes each opcode once.
LEMMA DeviceCounts ==
  ASSUME LinkInv, Counted, DeviceFrame \/ DeviceCut \/ DeviceEvent
  PROVE  Counted'
<1>1. /\ stream \in Seq(Sym) /\ raised \in Seq(Events)
      /\ OpBytes(stream) \in Nat /\ dropped \in Nat /\ Len(polled) \in Nat /\ Len(raised) \in Nat
  BY Counts
<1>2. UNCHANGED <<polled, dropped>> /\ UNCHANGED hostVars
  BY DEF DeviceFrame, DeviceCut, DeviceEvent, histVars
<1>3. CASE DeviceEvent
  <2>1. PICK e \in Events : raised' = Append(raised, e) /\ toHost' = toHost \o e
    BY <1>3 DEF DeviceEvent
  <2>2. stream' = stream \o e /\ e \in Seq(Sym) /\ OpBytes(e) = 1
    BY <1>2, <2>1, EventWritten, OpBytesWritten
  <2>3. OpBytes(stream \o e) = OpBytes(stream) + OpBytes(e)
    BY <1>1, <2>2, OpBytesJoin
  <2>4. Len(raised') = Len(raised) + 1
    BY <1>1, <2>1, AppendProperties
  <2>. QED  BY <1>1, <1>2, <2>2, <2>3, <2>4 DEF Counted
<1>4. CASE DeviceFrame \/ DeviceCut
  <2>1. raised' = raised
    BY <1>4 DEF DeviceFrame, DeviceCut, histVars
  <2>2. OpBytes(stream') = OpBytes(stream)
    <3>1. CASE stream' = stream
      BY <3>1
    <3>2. ASSUME NEW q \in Seq(Sym), stream' = stream \o q, Reply(q, shown')
          PROVE  OpBytes(stream') = OpBytes(stream)
      <4>1. shown' \in Nat
        BY TypeNext, <1>4 DEF LinkInv, TypeOK, Next
      <4>2. OpBytes(q) = 0
        BY <3>2, <4>1, OpBytesWritten
      <4>3. OpBytes(stream \o q) = OpBytes(stream) + OpBytes(q)
        BY <1>1, OpBytesJoin
      <4>. QED  BY <1>1, <3>2, <4>2, <4>3
    <3>. QED  BY <1>4, <3>1, <3>2, DeviceReply
  <2>. QED  BY <1>2, <2>1, <2>2 DEF Counted
<1>. QED  BY <1>3, <1>4

\* The count is kept by every step.
LEMMA CountedNext ==
  ASSUME LinkInv, Counted, Roomy, Prompt, Prompt', [Next]_vars
  PROVE  Counted'
<1>1. CASE \/ SendFrame \/ WriteFrame \/ WriteError \/ Timeout
           \/ BeginScan \/ ScanDefer \/ EndScan \/ PollSome \/ EndDrain
  <2>1. stream' = stream
    BY <1>1, QuietStep
  <2>2. UNCHANGED <<polled, raised, dropped>>
    BY <1>1 DEF SendFrame, WriteFrame, WriteError, Timeout, BeginScan, ScanDefer, EndScan, PollSome,
                PollEvents, EndDrain, histVars
  <2>. QED  BY <2>1, <2>2 DEF Counted
<1>2. CASE ScanAck \/ ScanNak
  BY <1>2, ReplyCounts
<1>3. CASE ScanRemove
  <2>1. UNCHANGED <<raised, polled, dropped>> /\ inbox[i] \notin Opcodes
    BY <1>3 DEF ScanRemove, histVars
  <2>2. /\ i \in 1 .. Len(stream) /\ stream' \in Seq(Sym) /\ Len(stream') = Len(stream) - 1
        /\ stream[i] = inbox[i]
        /\ \A k \in 1 .. Len(stream') : stream'[k] = stream[IF k < i THEN k ELSE k + 1]
    BY <1>3, RemoveStep
  <2>3. stream \in Seq(Sym) /\ stream[i] \notin Opcodes
    BY <2>1, <2>2, Counts
  <2>4. OpBytes(stream') = OpBytes(stream)
    <3>. DEFINE t == stream'
    <3>1. /\ t \in Seq(Sym) /\ Len(t) = Len(stream) - 1
          /\ \A k \in 1 .. Len(t) : t[k] = stream[IF k < i THEN k ELSE k + 1]
      BY <2>2
    <3>. HIDE DEF t
    <3>2. OpBytes(t) = OpBytes(stream)
      BY <2>2, <2>3, <3>1, OpBytesWithout
    <3>. QED  BY <3>2 DEF t
  <2>. QED  BY <2>1, <2>4 DEF Counted
<1>4. CASE DrainToggle \/ DrainLevel \/ DrainOther
  BY <1>4, DrainCounts
<1>5. CASE DeviceFrame \/ DeviceCut \/ DeviceEvent
  BY <1>5, DeviceCounts
<1>6. CASE UNCHANGED vars
  <2>1. UNCHANGED <<polled, raised, dropped, stream>>
    BY <1>6 DEF vars, hostVars, histVars, stream, raw, code, Coded
  <2>. QED  BY <2>1 DEF Counted
<1>. QED  BY <1>1, <1>2, <1>3, <1>4, <1>5, <1>6 DEF Next, HostStep

\* Nothing is on the wire to begin with.
LEMMA StreamInit ==
  ASSUME Init
  PROVE  stream = <<>>
<1>1. LinkInv /\ Len(inbox) = 0 /\ Len(toHost) = 0
  BY LinkInit, EmptySeq DEF Init
<1>2. inbox \in Seq(Byte) /\ toHost \in Seq(Byte) /\ stream \in Seq(Sym)
  BY <1>1, Counts
<1>3. Len(stream) = Len(inbox) + Len(toHost)
  BY <1>2, StreamIs
<1>4. Len(stream) = 0
  BY <1>1, <1>3
<1>. QED  BY <1>2, <1>4, EmptySeq

\* Nor was anything raised.
LEMMA CountedInit ==
  ASSUME Init
  PROVE  Counted
<1>1. Len(<<>>) = 0 /\ {k \in 1 .. 0 : <<>>[k] \in Opcodes} = {}
  BY EmptySeq
<1>2. OpBytes(<<>>) = 0
  BY <1>1, FS_EmptySet DEF OpBytes
<1>3. stream = <<>>
  BY StreamInit
<1>. QED  BY <1>1, <1>2, <1>3 DEF Init, Counted

\* Every button event is returned by poll_events, still queued, or was removed
\* together with a reply that came after it; while a send whose number is a code is
\* out, that number may stand among the opcodes queued.
THEOREM AccountedTheorem ==
  ASSUME CursorX \notin Codes
  PROVE  Spec /\ []Roomy /\ []Prompt => [](Coded \/ EventsAccounted)
<1>1. Init => Counted
  BY CountedInit
<1>2. LinkInv /\ Counted /\ Roomy /\ Prompt /\ Prompt' /\ [Next]_vars => Counted'
  BY CountedNext
<1>3. LinkInv /\ Counted => Coded \/ EventsAccounted
  BY CountedBytes
<1>4. Spec /\ []Roomy /\ []Prompt => []LinkInv
  BY LinkInvariant
<1>. QED  BY <1>1, <1>2, <1>3, <1>4, PTL DEF Spec

-----------------------------------------------------------------------------
(* Where what poll_events returns comes from                               *)

\* The first bytes of opcodes, and the opcode that starts at k.
OpsAt(s) == {k \in 1 .. Len(s) : s[k] \in Opcodes}
EventAt(s, k) == IF s[k] \in Levels THEN <<s[k], s[k + 1]>> ELSE <<s[k]>>

\* f finds each opcode returned among those raised; g finds each one unread,
\* behind all of those.
Traces(f, g, pol, rai, s) ==
  /\ f \in [1 .. Len(pol) -> 1 .. Len(rai)]
  /\ g \in [OpsAt(s) -> 1 .. Len(rai)]
  /\ \A k \in 1 .. Len(pol) : pol[k] = rai[f[k]]
  /\ \A k, l \in 1 .. Len(pol) : k < l => f[k] < f[l]
  /\ \A k \in OpsAt(s) : EventAt(s, k) = rai[g[k]]
  /\ \A k, l \in OpsAt(s) : k < l => g[k] < g[l]
  /\ \A k \in 1 .. Len(pol), l \in OpsAt(s) : f[k] < g[l]

\* Some assignment is a trace.
Traced(pol, rai, s) == \E f, g : Traces(f, g, pol, rai, s)

\* Positions up to one more, and behind the first n.
LEMMA UpTo ==
  ASSUME NEW n \in Nat
  PROVE  \A k \in 1 .. n + 1 : (k \in 1 .. n /\ k <= n) \/ (k = n + 1 /\ ~(k <= n))
OBVIOUS

\* Positions behind the first n, counted from there.
LEMMA Behind ==
  ASSUME NEW n \in Nat, NEW l \in 1 .. 2
  PROVE  /\ \A k \in n + 1 .. n + l : (k = n + 1 /\ k - n = 1) \/ (k = n + 2 /\ k - n = 2 /\ l = 2)
         /\ \A k \in 1 .. n + l : k \in 1 .. n + 2
OBVIOUS

\* Taking bytes that are no opcodes, or whole opcodes, disturbs no trace.
LEMMA TraceKept ==
  ASSUME NEW B, NEW pol \in Seq(Seq(Byte)), NEW rai \in Seq(Events), NEW s \in Seq(B), NEW t \in Seq(B),
         NEW p \in [1 .. Len(t) -> 1 .. Len(s)],
         \A k \in 1 .. Len(t) : t[k] = s[p[k]],
         \A k, l \in 1 .. Len(t) : k < l => p[k] < p[l],
         \A k \in 1 .. Len(t) : t[k] \in Levels => k < Len(t) /\ p[k + 1] = p[k] + 1,
         Traced(pol, rai, s)
  PROVE  Traced(pol, rai, t)
<1>1. PICK f, g : Traces(f, g, pol, rai, s)
  BY DEF Traced
<1>. DEFINE h == [k \in OpsAt(t) |-> g[p[k]]]
<1>2. \A k \in OpsAt(t) : k \in 1 .. Len(t) /\ p[k] \in OpsAt(s)
  BY DEF OpsAt
<1>3. \A k \in OpsAt(t) : EventAt(t, k) = EventAt(s, p[k])
  <2>. SUFFICES ASSUME NEW k \in OpsAt(t) PROVE EventAt(t, k) = EventAt(s, p[k])
    OBVIOUS
  <2>1. t[k] = s[p[k]] /\ k \in 1 .. Len(t)
    BY <1>2
  <2>2. CASE t[k] \in Levels
    <3>1. k + 1 \in 1 .. Len(t) /\ p[k + 1] = p[k] + 1
      BY <2>1, <2>2
    <3>. QED  BY <2>1, <2>2, <3>1 DEF EventAt
  <2>. QED  BY <2>1, <2>2 DEF EventAt
<1>4. h \in [OpsAt(t) -> 1 .. Len(rai)] /\ \A k \in OpsAt(t) : h[k] = g[p[k]]
  BY <1>1, <1>2 DEF Traces
<1>. HIDE DEF h
<1>5. Traces(f, h, pol, rai, t)
  BY <1>1, <1>2, <1>3, <1>4 DEF Traces
<1>. QED  BY <1>5 DEF Traced

\* The opcode at the front is the oldest of the unread.
LEMMA TracePolled ==
  ASSUME NEW B, NEW pol \in Seq(Seq(Byte)), NEW rai \in Seq(Events), NEW s \in Seq(B), NEW t \in Seq(B),
         NEW e \in Seq(Byte), NEW m \in 1 .. 2, 1 \in OpsAt(s), e = EventAt(s, 1),
         Len(t) = Len(s) - m, \A k \in 1 .. Len(t) : t[k] = s[k + m],
         WellFormed(t), Traced(pol, rai, s)
  PROVE  Traced(Append(pol, e), rai, t)
<1>1. PICK f, g : Traces(f, g, pol, rai, s)
  BY DEF Traced
<1>. DEFINE n == Len(pol)
            q == Append(pol, e)
            f1 == [k \in 1 .. n + 1 |-> IF k <= n THEN f[k] ELSE g[1]]
            g1 == [k \in OpsAt(t) |-> g[k + m]]
<1>2. n \in Nat /\ Len(s) \in Nat /\ Len(t) \in Nat /\ Len(rai) \in Nat
  OBVIOUS
<1>3. /\ Len(q) = n + 1 /\ q[n + 1] = e
      /\ \A k \in 1 .. n : q[k] = pol[k]
  BY AppendProperties
<1>4. \A k \in 1 .. n + 1 : (k \in 1 .. n /\ k <= n) \/ (k = n + 1 /\ ~(k <= n))
  <2>. HIDE DEF n, q, f1, g1
  <2>. QED  BY <1>2, UpTo
<1>5. \A k \in OpsAt(t) : k + m \in OpsAt(s) /\ 1 < k + m /\ EventAt(t, k) = EventAt(s, k + m) /\ k \in Int
  <2>. SUFFICES ASSUME NEW k \in OpsAt(t)
                PROVE  k + m \in OpsAt(s) /\ 1 < k + m /\ EventAt(t, k) = EventAt(s, k + m) /\ k \in Int
    OBVIOUS
  <2>1. k \in 1 .. Len(t) /\ t[k] = s[k + m] /\ k + m \in 1 .. Len(s) /\ 1 < k + m
    BY <1>2 DEF OpsAt
  <2>2. k + m \in OpsAt(s)
    BY <2>1 DEF OpsAt
  <2>3. CASE t[k] \in Levels
    <3>1. k < Len(t)
      BY <2>1, <2>3 DEF WellFormed
    <3>2. k + 1 \in 1 .. Len(t) /\ k + 1 + m = k + m + 1
      BY <1>2, <2>1, <3>1
    <3>3. t[k + 1] = s[k + m + 1]
      BY <3>2, SMTT(30)
    <3>. QED  BY <2>1, <2>2, <2>3, <3>3 DEF EventAt
  <2>. QED  BY <2>1, <2>2, <2>3 DEF EventAt
<1>6. /\ f1 \in [1 .. n + 1 -> 1 .. Len(rai)]
      /\ \A k \in 1 .. n : f1[k] = f[k]
      /\ f1[n + 1] = g[1]
  <2>1. \A k \in 1 .. n + 1 : (IF k <= n THEN f[k] ELSE g[1]) \in 1 .. Len(rai)
    BY <1>1, <1>4 DEF Traces
  <2>2. \A k \in 1 .. n : k \in 1 .. n + 1 /\ k <= n
    BY <1>2
  <2>3. n + 1 \in 1 .. n + 1 /\ ~(n + 1 <= n)
    BY <1>2
  <2>. QED  BY <2>1, <2>2, <2>3
<1>7. g1 \in [OpsAt(t) -> 1 .. Len(rai)] /\ \A k \in OpsAt(t) : g1[k] = g[k + m]
  BY <1>1, <1>5 DEF Traces
<1>. HIDE DEF n, q, f1, g1
<1>8. \A k \in 1 .. n + 1 : q[k] = rai[f1[k]]
  BY <1>1, <1>3, <1>4, <1>6 DEF Traces, n
<1>9. \A k, l \in 1 .. n + 1 : k < l => f1[k] < f1[l]
  <2>. SUFFICES ASSUME NEW k \in 1 .. n + 1, NEW l \in 1 .. n + 1, k < l PROVE f1[k] < f1[l]
    OBVIOUS
  <2>1. k \in 1 .. n
    BY <1>2
  <2>2. CASE l \in 1 .. n
    BY <1>1, <1>6, <2>1, <2>2 DEF Traces, n
  <2>3. CASE l = n + 1
    BY <1>1, <1>6, <2>1, <2>3 DEF Traces, n
  <2>. QED  BY <1>4, <2>2, <2>3
<1>10. \A k, l \in OpsAt(t) : k < l => g1[k] < g1[l]
  <2>. SUFFICES ASSUME NEW k \in OpsAt(t), NEW l \in OpsAt(t), k < l PROVE g1[k] < g1[l]
    OBVIOUS
  <2>1. k + m \in OpsAt(s) /\ l + m \in OpsAt(s) /\ k + m < l + m
    BY <1>5
  <2>. QED  BY <1>1, <1>7, <2>1 DEF Traces
<1>11. \A k \in 1 .. n + 1, l \in OpsAt(t) : f1[k] < g1[l]
  <2>. SUFFICES ASSUME NEW k \in 1 .. n + 1, NEW l \in OpsAt(t) PROVE f1[k] < g1[l]
    OBVIOUS
  <2>1. l + m \in OpsAt(s) /\ 1 < l + m /\ g1[l] = g[l + m]
    BY <1>5, <1>7
  <2>2. CASE k \in 1 .. n
    BY <1>1, <1>6, <2>1, <2>2 DEF Traces, n
  <2>3. CASE k = n + 1
    BY <1>1, <1>6, <2>1, <2>3 DEF Traces
  <2>. QED  BY <1>4, <2>2, <2>3
<1>12. Traces(f1, g1, q, rai, t)
  BY <1>1, <1>3, <1>5, <1>6, <1>7, <1>8, <1>9, <1>10, <1>11 DEF Traces
<1>. QED  BY <1>12 DEF Traced, q

\* What is written behind disturbs no trace; an opcode is the newest raised.
LEMMA TraceWritten ==
  ASSUME NEW B, NEW pol \in Seq(Seq(Byte)), NEW rai \in Seq(Events), NEW s \in Seq(B), NEW r \in Seq(B),
         NEW ra \in Seq(Events), WellFormed(s), Traced(pol, rai, s),
         \/ Opcode(r) /\ r \in Events /\ ra = Append(rai, r)
         \/ ra = rai /\ Len(r) = 2 /\ r[1] \notin Opcodes /\ r[2] \notin Opcodes
  PROVE  Traced(pol, ra, s \o r)
<1>1. PICK f, g : Traces(f, g, pol, rai, s)
  BY DEF Traced
<1>. DEFINE t == s \o r
            n == Len(s)
            g1 == [k \in OpsAt(t) |-> IF k <= n THEN g[k] ELSE Len(rai) + 1]
<1>2. n \in Nat /\ Len(rai) \in Nat /\ Len(r) \in 1 .. 2
  BY DEF Opcode
<1>3. /\ t \in Seq(B) /\ Len(t) = n + Len(r)
      /\ \A k \in 1 .. n : t[k] = s[k]
      /\ \A k \in n + 1 .. n + Len(r) : t[k] = r[k - n]
  BY Joined
<1>4. /\ Len(rai) <= Len(ra) /\ Len(ra) \in Nat
      /\ \A k \in 1 .. Len(rai) : ra[k] = rai[k]
  <2>1. CASE ra = rai
    BY <1>2, <2>1
  <2>2. CASE r \in Events /\ ra = Append(rai, r)
    BY <1>2, <2>2, AppendProperties
  <2>. QED  BY <2>1, <2>2
<1>. HIDE DEF t, n, g1
<1>5. \A k \in OpsAt(t) : k \in 1 .. n => k \in OpsAt(s) /\ EventAt(t, k) = EventAt(s, k)
  <2>. SUFFICES ASSUME NEW k \in OpsAt(t), k \in 1 .. n
                PROVE  k \in OpsAt(s) /\ EventAt(t, k) = EventAt(s, k)
    OBVIOUS
  <2>1. t[k] = s[k] /\ k \in OpsAt(s) /\ k \in 1 .. Len(s)
    BY <1>3 DEF OpsAt, n
  <2>2. CASE s[k] \in Levels
    <3>1. k < n
      BY <2>1, <2>2 DEF WellFormed, n
    <3>2. k + 1 \in 1 .. n
      BY <1>2, <3>1
    <3>. QED  BY <1>3, <2>1, <2>2, <3>2 DEF EventAt
  <2>. QED  BY <2>1, <2>2 DEF EventAt
<1>6. \A k \in OpsAt(t) : k \notin 1 .. n =>
         /\ k = n + 1 /\ ~(k <= n) /\ r \in Events /\ ra = Append(rai, r)
         /\ EventAt(t, k) = r
  <2>. SUFFICES ASSUME NEW k \in OpsAt(t), k \notin 1 .. n
                PROVE  /\ k = n + 1 /\ ~(k <= n) /\ r \in Events /\ ra = Append(rai, r)
                       /\ EventAt(t, k) = r
    OBVIOUS
  <2>1. k \in n + 1 .. n + Len(r) /\ t[k] = r[k - n] /\ r[k - n] \in Opcodes
    BY <1>2, <1>3 DEF OpsAt
  <2>2. (k = n + 1 /\ k - n = 1) \/ (k = n + 2 /\ k - n = 2 /\ Len(r) = 2)
    <3>1. Len(r) = 1 \/ Len(r) = 2
      BY <1>2
    <3>2. k \in Int /\ n + 1 <= k /\ k <= n + Len(r)
      BY <1>2, <2>1
    <3>. QED  BY <1>2, <2>1, Behind
  <2>3. Opcode(r) /\ r \in Events /\ ra = Append(rai, r)
    BY <2>1, <2>2
  <2>4. k = n + 1 /\ k - n = 1
    BY <2>1, <2>2, <2>3, CodeValues DEF Opcode
  <2>5. EventAt(t, k) = r
    <3>1. CASE Len(r) = 1
      <4>1. r = <<r[1]>> /\ r[1] \notin Levels
        BY <2>3, <3>1, CodeValues DEF Opcode, Levels, DEV_OSD_BRIGHT, DEV_OSD_SLEEP, DEV_MODE_TOGGLE
      <4>. QED  BY <2>1, <2>4, <4>1 DEF EventAt
    <3>2. CASE Len(r) = 2
      <4>1. r = <<r[1], r[2]>> /\ r[1] \in Levels
        BY <2>3, <3>2 DEF Opcode
      <4>2. k + 1 \in n + 1 .. n + Len(r) /\ (k + 1) - n = 2
        BY <1>2, <2>4, <3>2
      <4>3. t[k + 1] = r[2]
        BY <1>3, <4>2
      <4>. QED  BY <2>1, <2>4, <4>1, <4>3 DEF EventAt
    <3>. QED  BY <1>2, <3>1, <3>2
  <2>. QED  BY <1>2, <2>3, <2>4, <2>5
<1>7. /\ g1 \in [OpsAt(t) -> 1 .. Len(ra)]
      /\ \A k \in OpsAt(t) : k \in 1 .. n => g1[k] = g[k] /\ g[k] \in 1 .. Len(rai)
      /\ \A k \in OpsAt(t) : k \notin 1 .. n => g1[k] = Len(rai) + 1
  <2>1. \A k \in OpsAt(t) : k \in 1 .. n => k <= n /\ g[k] \in 1 .. Len(rai) /\ g[k] \in 1 .. Len(ra)
    <3>1. \A k \in OpsAt(t) : k \in 1 .. n => g[k] \in 1 .. Len(rai)
      BY <1>1, <1>5 DEF Traces
    <3>. QED  BY <1>2, <1>4, <3>1
  <2>2. \A k \in OpsAt(t) : k \notin 1 .. n => ~(k <= n) /\ Len(rai) + 1 \in 1 .. Len(ra)
    <3>. SUFFICES ASSUME NEW k \in OpsAt(t), k \notin 1 .. n
                  PROVE  ~(k <= n) /\ Len(rai) + 1 \in 1 .. Len(ra)
      OBVIOUS
    <3>1. ~(k <= n) /\ r \in Events /\ ra = Append(rai, r)
      BY <1>6
    <3>. QED  BY <1>2, <3>1, AppendProperties
  <2>. QED  BY <2>1, <2>2 DEF g1
<1>8. \A k \in OpsAt(t) : EventAt(t, k) = ra[g1[k]]
  <2>. SUFFICES ASSUME NEW k \in OpsAt(t) PROVE EventAt(t, k) = ra[g1[k]]
    OBVIOUS
  <2>1. CASE k \in 1 .. n
    BY <1>1, <1>4, <1>5, <1>7, <2>1 DEF Traces
  <2>2. CASE k \notin 1 .. n
    <3>1. EventAt(t, k) = r /\ r \in Events /\ ra = Append(rai, r) /\ g1[k] = Len(rai) + 1
      BY <1>6, <1>7, <2>2
    <3>. QED  BY <3>1, AppendProperties
  <2>. QED  BY <2>1, <2>2
<1>9. \A k, l \in OpsAt(t) : k < l => g1[k] < g1[l]
  <2>. SUFFICES ASSUME NEW k \in OpsAt(t), NEW l \in OpsAt(t), k < l PROVE g1[k] < g1[l]
    OBVIOUS
  <2>1. k \in 1 .. n + 2 /\ l \in 1 .. n + 2
    <3>1. k \in 1 .. n + Len(r) /\ l \in 1 .. n + Len(r)
      BY <1>3 DEF OpsAt
    <3>. QED  BY <1>2, <3>1, Behind
  <2>2. CASE l \in 1 .. n
    <3>1. k \in 1 .. n
      BY <1>2, <2>1, <2>2
    <3>. QED  BY <1>1, <1>5, <1>7, <2>2, <3>1 DEF Traces
  <2>3. CASE l \notin 1 .. n
    <3>1. k \in 1 .. n
      BY <1>2, <1>6, <2>1, <2>3
    <3>2. g1[k] = g[k] /\ g[k] \in 1 .. Len(rai) /\ g1[l] = Len(rai) + 1
      BY <1>7, <2>3, <3>1
    <3>. QED  BY <1>2, <3>2
  <2>. QED  BY <2>2, <2>3
<1>10. \A k \in 1 .. Len(pol), l \in OpsAt(t) : f[k] < g1[l]
  <2>. SUFFICES ASSUME NEW k \in 1 .. Len(pol), NEW l \in OpsAt(t) PROVE f[k] < g1[l]
    OBVIOUS
  <2>1. CASE l \in 1 .. n
    BY <1>1, <1>5, <1>7, <2>1 DEF Traces
  <2>2. CASE l \notin 1 .. n
    <3>1. f[k] \in 1 .. Len(rai)
      BY <1>1 DEF Traces
    <3>. QED  BY <1>2, <1>7, <2>2, <3>1
  <2>. QED  BY <2>1, <2>2
<1>11. f \in [1 .. Len(pol) -> 1 .. Len(ra)] /\ \A k \in 1 .. Len(pol) : pol[k] = ra[f[k]]
  <2>1. \A k \in 1 .. Len(pol) : f[k] \in 1 .. Len(rai) /\ f[k] \in 1 .. Len(ra)
    <3>1. \A k \in 1 .. Len(pol) : f[k] \in 1 .. Len(rai)
      BY <1>1 DEF Traces
    <3>2. \A v \in 1 .. Len(rai) : v \in 1 .. Len(ra)
      BY <1>2, <1>4
    <3>. QED  BY <3>1, <3>2
  <2>. QED  BY <1>1, <1>4, <2>1 DEF Traces
<1>12. Traces(f, g1, pol, ra, t)
  BY <1>1, <1>7, <1>8, <1>9, <1>10, <1>11 DEF Traces
<1>. QED  BY <1>12 DEF Traced, t

\* Each opcode returned or unread is one that was raised, in order.
Trace == Traced(polled, raised, stream)

\* The first bytes of a stream go, and no opcode is returned.
LEMMA TraceTaken ==
  ASSUME LinkInv, Trace, NEW m \in 1 .. Len(inbox), stream[m] \notin Levels, ~Coded',
         \A k \in 1 .. Len(stream) : k > m => stream[k] \in Byte,
         inbox' = SubSeq(inbox, m + 1, Len(inbox)), toHost' = toHost,
         UNCHANGED <<polled, raised>>
  PROVE  Trace'
<1>1. /\ polled \in Seq(Seq(Byte)) /\ raised \in Seq(Events) /\ stream \in Seq(Sym)
      /\ Len(stream) \in Nat /\ Len(inbox) \in Nat /\ Len(inbox) <= Len(stream)
  BY Counts
<1>2. /\ stream' \in Seq(Sym) /\ Len(stream') = Len(stream) - m
      /\ \A k \in 1 .. Len(stream') : stream'[k] = stream[k + m]
      /\ WellFormed(stream')
  BY StreamTaken
<1>. DEFINE t == stream'
            p == [k \in 1 .. Len(t) |-> k + m]
<1>3. /\ t \in Seq(Sym) /\ Len(t) = Len(stream) - m /\ Len(t) \in Nat /\ WellFormed(t)
      /\ \A k \in 1 .. Len(t) : t[k] = stream[k + m]
  BY <1>2
<1>. HIDE DEF t
<1>4. p \in [1 .. Len(t) -> 1 .. Len(stream)] /\ \A k \in 1 .. Len(t) : p[k] = k + m
  BY <1>1, <1>3
<1>. HIDE DEF p
<1>5. \A k, l \in 1 .. Len(t) : k < l => p[k] < p[l]
  BY <1>1, <1>3, <1>4
<1>6. \A k \in 1 .. Len(t) : t[k] \in Levels => k < Len(t) /\ p[k + 1] = p[k] + 1
  <2>. SUFFICES ASSUME NEW k \in 1 .. Len(t), t[k] \in Levels
                PROVE  k < Len(t) /\ p[k + 1] = p[k] + 1
    OBVIOUS
  <2>1. k < Len(t)
    BY <1>3 DEF WellFormed
  <2>2. k + 1 \in 1 .. Len(t)
    BY <1>3, <2>1
  <2>. QED  BY <1>1, <1>4, <2>1, <2>2
<1>7. \A k \in 1 .. Len(t) : t[k] = stream[p[k]]
  BY <1>3, <1>4
<1>8. Traced(polled, raised, t)
  BY <1>1, <1>3, <1>4, <1>5, <1>6, <1>7, TraceKept DEF Trace
<1>. QED  BY <1>8 DEF Trace, t

\* Nor when wait_ack removes a byte.
LEMMA TraceRemoved ==
  ASSUME LinkInv, Trace, Prompt, ScanRemove
  PROVE  Trace'
<1>1. /\ polled \in Seq(Seq(Byte)) /\ raised \in Seq(Events) /\ stream \in Seq(Sym)
      /\ Len(stream) \in Nat /\ polled' = polled /\ raised' = raised
  BY Counts DEF ScanRemove, histVars
<1>2. /\ i \in 1 .. Len(stream) /\ stream' \in Seq(Sym) /\ Len(stream') = Len(stream) - 1
      /\ \A k \in 1 .. Len(stream') : /\ stream'[k] = stream[IF k < i THEN k ELSE k + 1]
                                      /\ stream'[k] \in Levels => k + 1 # i
      /\ WellFormed(stream')
  BY RemoveStep DEF StreamOK, WellFormed
<1>. DEFINE t == stream'
            p == [k \in 1 .. Len(t) |-> IF k < i THEN k ELSE k + 1]
<1>3. /\ t \in Seq(Sym) /\ Len(t) = Len(stream) - 1 /\ Len(t) \in Nat /\ WellFormed(t)
      /\ \A k \in 1 .. Len(t) : /\ t[k] = stream[IF k < i THEN k ELSE k + 1]
                                /\ t[k] \in Levels => k + 1 # i
  BY <1>1, <1>2
<1>. HIDE DEF t
<1>4. /\ p \in [1 .. Len(t) -> 1 .. Len(stream)]
      /\ \A k \in 1 .. Len(t) : p[k] = IF k < i THEN k ELSE k + 1
  BY <1>1, <1>2, <1>3
<1>. HIDE DEF p
<1>5. \A k, l \in 1 .. Len(t) : k < l => p[k] < p[l]
  <2>. SUFFICES ASSUME NEW k \in 1 .. Len(t), NEW l \in 1 .. Len(t), k < l PROVE p[k] < p[l]
    OBVIOUS
  <2>1. /\ p[k] = (IF k < i THEN k ELSE k + 1) /\ p[l] = (IF l < i THEN l ELSE l + 1)
        /\ k \in Int /\ l \in Int /\ i \in Int
    BY <1>2, <1>4
  <2>. QED  BY <2>1
<1>6. \A k \in 1 .. Len(t) : t[k] \in Levels => k < Len(t) /\ p[k + 1] = p[k] + 1
  <2>. SUFFICES ASSUME NEW k \in 1 .. Len(t), t[k] \in Levels
                PROVE  k < Len(t) /\ p[k + 1] = p[k] + 1
    OBVIOUS
  <2>1. k < Len(t) /\ k + 1 # i
    BY <1>3 DEF WellFormed
  <2>2. k + 1 \in 1 .. Len(t)
    BY <1>3, <2>1
  <2>. QED  BY <1>1, <1>2, <1>4, <2>1, <2>2
<1>7. \A k \in 1 .. Len(t) : t[k] = stream[p[k]]
  BY Zenon, <1>3, <1>4
<1>8. Traced(polled, raised, t)
  BY <1>1, <1>3, <1>4, <1>5, <1>6, <1>7, TraceKept DEF Trace
<1>. QED  BY <1>1, <1>8 DEF Trace, t

\* poll_events returns the opcode at the front as it was raised.
LEMMA TraceReturned ==
  ASSUME LinkInv, Trace, DrainToggle \/ DrainLevel
  PROVE  Trace'
<1>1. /\ polled \in Seq(Seq(Byte)) /\ raised \in Seq(Events) /\ inbox \in Seq(Byte)
      /\ Len(inbox) \in Nat /\ stream \in Seq(Sym) /\ Len(stream) \in Nat
      /\ Len(inbox) <= Len(stream)
  BY Counts
<1>2. UNCHANGED <<toHost, raised>> /\ ~Coded /\ ~Coded'
  BY DEF LinkInv, Stages, Coded, DrainToggle, DrainLevel
<1>3. /\ \A k \in 1 .. Len(stream) : stream[k] \in Byte
      /\ \A k \in 1 .. Len(inbox) : stream[k] = inbox[k]
  <2>1. toHost \in Seq(Byte)
    BY Counts
  <2>. QED  BY <1>1, <1>2, <2>1, Plain, StreamIs
<1>4. ASSUME NEW m \in 1 .. 2, m <= Len(inbox), stream[m] \notin Levels, inbox[1] \in Opcodes,
             inbox' = SubSeq(inbox, m + 1, Len(inbox)),
             EventAt(stream, 1) \in Seq(Byte), polled' = Append(polled, EventAt(stream, 1))
      PROVE  Trace'
  <2>1. m \in 1 .. Len(inbox) /\ 1 \in 1 .. Len(inbox) /\ 1 \in 1 .. Len(stream)
    BY <1>1, <1>4
  <2>2. 1 \in OpsAt(stream)
    BY <1>3, <1>4, <2>1 DEF OpsAt
  <2>3. /\ stream' \in Seq(Sym) /\ Len(stream') = Len(stream) - m
        /\ \A k \in 1 .. Len(stream') : stream'[k] = stream[k + m]
        /\ WellFormed(stream')
    <3>1. \A k \in 1 .. Len(stream) : k > m => stream[k] \in Byte
      BY <1>3
    <3>. QED  BY <1>2, <1>4, <2>1, <3>1, StreamTaken
  <2>. DEFINE t == stream'
              e == EventAt(stream, 1)
  <2>4. /\ t \in Seq(Sym) /\ Len(t) = Len(stream) - m /\ WellFormed(t) /\ e \in Seq(Byte)
        /\ \A k \in 1 .. Len(t) : t[k] = stream[k + m]
    BY <1>4, <2>3
  <2>5. e = EventAt(stream, 1)
    OBVIOUS
  <2>. HIDE DEF t, e
  <2>6. Traced(polled, raised, stream)
    BY DEF Trace
  <2>7. Traced(Append(polled, e), raised, t)
    BY <1>1, <2>2, <2>4, <2>5, <2>6, TracePolled
  <2>. QED  BY <1>2, <1>4, <2>5, <2>7 DEF Trace, t
<1>5. CASE DrainToggle
  <2>1. inbox # <<>> /\ inbox[1] = DEV_MODE_TOGGLE /\ inbox' = Tail(inbox)
        /\ polled' = Append(polled, <<DEV_MODE_TOGGLE>>)
    BY <1>5 DEF DrainToggle
  <2>2. 1 <= Len(inbox) /\ 1 \in 1 .. Len(inbox) /\ Tail(inbox) = SubSeq(inbox, 1 + 1, Len(inbox))
    BY <1>1, <2>1, EmptySeq, TailIsSubSeq
  <2>3. stream[1] = DEV_MODE_TOGGLE /\ DEV_MODE_TOGGLE \notin Levels /\ DEV_MODE_TOGGLE \in Opcodes
    BY <1>3, <2>1, <2>2, CodeValues
  <2>4. EventAt(stream, 1) = <<DEV_MODE_TOGGLE>> /\ EventAt(stream, 1) \in Seq(Byte)
    BY <2>3 DEF EventAt, DEV_MODE_TOGGLE, Byte
  <2>5. 1 \in 1 .. 2
    OBVIOUS
  <2>. QED  BY <1>4, <2>1, <2>2, <2>3, <2>4, <2>5
<1>6. CASE DrainLevel
  <2>1. /\ Len(inbox) >= 2 /\ inbox[1] \in Levels /\ inbox' = SubSeq(inbox, 2 + 1, Len(inbox))
        /\ polled' = Append(polled, <<inbox[1], IF inbox[2] > 6 THEN 6 ELSE inbox[2]>>)
    BY <1>6 DEF DrainLevel, Levels
  <2>2. 1 \in 1 .. Len(inbox) /\ 2 \in 1 .. Len(inbox) /\ 1 \in 1 .. Len(stream) /\ 1 + 1 = 2
        /\ inbox[1] \in Byte /\ inbox[2] \in Byte
    BY <1>1, <2>1, ElementOfSeq
  <2>3. stream[1] = inbox[1] /\ stream[2] = inbox[2]
    BY <1>3, <2>2
  <2>4. stream[2] \in 0 .. 6
    BY <2>1, <2>2, <2>3 DEF LinkInv, StreamOK, WellFormed
  <2>5. (IF inbox[2] > 6 THEN 6 ELSE inbox[2]) = stream[2] /\ stream[2] \notin Levels
    BY <2>3, <2>4, CodeValues
  <2>6. EventAt(stream, 1) = <<inbox[1], stream[2]>> /\ <<inbox[1], stream[2]>> \in Seq(Byte)
    BY <2>1, <2>2, <2>3, Pair DEF EventAt
  <2>7. polled' = Append(polled, EventAt(stream, 1)) /\ inbox[1] \in Opcodes
    BY <2>1, <2>5, <2>6, CodeValues
  <2>8. 2 \in 1 .. 2 /\ 2 <= Len(inbox)
    BY <1>1, <2>1
  <2>. QED  BY <1>4, <2>1, <2>5, <2>6, <2>7, <2>8
<1>. QED  BY <1>5, <1>6

\* The panel writes an opcode when the button raises it.
LEMMA TraceDevice ==
  ASSUME LinkInv, Trace, DeviceFrame \/ DeviceCut \/ DeviceEvent
  PROVE  Trace'
<1>1. /\ polled \in Seq(Seq(Byte)) /\ raised \in Seq(Events) /\ stream \in Seq(Sym)
      /\ polled' = polled /\ UNCHANGED hostVars
  BY Counts DEF DeviceFrame, DeviceCut, DeviceEvent, histVars
<1>2. WellFormed(stream) /\ Traced(polled, raised, stream)
  BY DEF LinkInv, StreamOK, Trace
<1>3. CASE DeviceEvent
  <2>1. PICK e \in Events : raised' = Append(raised, e) /\ toHost' = toHost \o e
    BY <1>3 DEF DeviceEvent
  <2>2. stream' = stream \o e /\ e \in Seq(Sym) /\ Opcode(e)
    BY <1>1, <2>1, EventWritten
  <2>3. Append(raised, e) \in Seq(Events)
    BY <1>1, AppendProperties
  <2>4. Traced(polled, Append(raised, e), stream \o e)
    BY <1>1, <1>2, <2>2, <2>3, TraceWritten
  <2>. QED  BY <1>1, <2>1, <2>2, <2>4 DEF Trace
<1>4. CASE DeviceFrame \/ DeviceCut
  <2>1. raised' = raised
    BY <1>4 DEF DeviceFrame, DeviceCut, histVars
  <2>2. CASE stream' = stream
    BY <1>1, <2>1, <2>2 DEF Trace
  <2>3. ASSUME NEW q \in Seq(Sym), stream' = stream \o q, Reply(q, shown')
        PROVE  Trace'
    <3>1. Len(q) = 2 /\ q[1] \notin Opcodes /\ q[2] \notin Opcodes
      BY <2>3, CodeValues DEF Reply
    <3>2. Traced(polled, raised, stream \o q)
      BY <1>1, <1>2, <3>1, TraceWritten
    <3>. QED  BY <1>1, <2>1, <2>3, <3>2 DEF Trace
  <2>. QED  BY <1>4, <2>2, <2>3, DeviceReply
<1>. QED  BY <1>3, <1>4

\* The trace is kept by every step.
LEMMA TraceNext ==
  ASSUME LinkInv, Trace, Roomy, Prompt, Prompt', [Next]_vars
  PROVE  Trace'
<1>1. CASE \/ SendFrame \/ WriteFrame \/ WriteError \/ Timeout
           \/ BeginScan \/ ScanDefer \/ EndScan \/ PollSome \/ EndDrain
  <2>1. stream' = stream
    BY <1>1, QuietStep
  <2>2. polled' = polled /\ raised' = raised
    BY <1>1 DEF SendFrame, WriteFrame, WriteError, Timeout, BeginScan, ScanDefer, EndScan, PollSome,
                PollEvents, EndDrain, histVars
  <2>. QED  BY <2>1, <2>2 DEF Trace
<1>2. CASE ScanAck \/ ScanNak
  <2>1. /\ i + 1 \in 1 .. Len(inbox) /\ inbox' = SubSeq(inbox, i + 1 + 1, Len(inbox))
        /\ toHost' = toHost /\ stream[i + 1] \notin Levels /\ ~Coded'
        /\ \A k \in 1 .. Len(stream) : k # i + 1 => stream[k] \in Byte
    BY <1>2, ReplyTaken
  <2>2. polled' = polled /\ raised' = raised
    BY <1>2 DEF ScanAck, ScanNak
  <2>3. \A k \in 1 .. Len(stream) : k > i + 1 => stream[k] \in Byte
    <3>1. i \in Nat /\ Len(stream) \in Nat
      BY Counts
    <3>. QED  BY <2>1, <3>1
  <2>. QED  BY <2>1, <2>2, <2>3, TraceTaken
<1>3. CASE ScanRemove
  BY <1>3, TraceRemoved
<1>4. CASE DrainToggle \/ DrainLevel
  BY <1>4, TraceReturned
<1>5. CASE DrainOther
  <2>1. inbox # <<>> /\ inbox' = Tail(inbox) /\ inbox[1] \notin Levels
        /\ UNCHANGED <<toHost, polled, raised>>
    BY <1>5, CodeValues DEF DrainOther, histVars
  <2>2. inbox \in Seq(Byte) /\ toHost \in Seq(Byte) /\ ~Coded /\ ~Coded'
    BY <1>5, Counts DEF DrainOther, LinkInv, Stages, Coded
  <2>3. 1 \in 1 .. Len(inbox) /\ Tail(inbox) = SubSeq(inbox, 1 + 1, Len(inbox))
    BY <2>1, <2>2, EmptySeq, TailIsSubSeq
  <2>4. stream[1] = inbox[1] /\ \A k \in 1 .. Len(stream) : k > 1 => stream[k] \in Byte
    BY <2>2, <2>3, Plain, StreamIs
  <2>5. stream[1] \notin Levels
    BY <2>1, <2>4
  <2>. QED  BY <2>1, <2>2, <2>3, <2>4, <2>5, TraceTaken
<1>6. CASE DeviceFrame \/ DeviceCut \/ DeviceEvent
  BY <1>6, TraceDevice
<1>7. CASE UNCHANGED vars
  <2>1. UNCHANGED <<polled, raised, stream>>
    BY <1>7 DEF vars, hostVars, histVars, stream, raw, code, Coded
  <2>. QED  BY <2>1 DEF Trace
<1>. QED  BY <1>1, <1>2, <1>3, <1>4, <1>5, <1>6, <1>7 DEF Next, HostStep

\* Nothing was raised or returned yet.
LEMMA TraceInit ==
  ASSUME Init
  PROVE  Trace
<1>1. polled = <<>> /\ raised = <<>>
  BY DEF Init
<1>2. stream = <<>>
  BY StreamInit
<1>. DEFINE e == [k \in {} |-> k]
<1>3. Len(<<>>) = 0 /\ 1 .. 0 = {} /\ OpsAt(<<>>) = {}
  BY EmptySeq DEF OpsAt
<1>4. e \in [{} -> 1 .. 0]
  OBVIOUS
<1>. HIDE DEF e
<1>5. Traces(e, e, <<>>, <<>>, <<>>)
  BY <1>3, <1>4 DEF Traces
<1>. QED  BY <1>1, <1>2, <1>5 DEF Trace, Traced

\* poll_events returns only what the button sent, with its level, in that order,
\* and nothing twice.
THEOREM NoPhantomTheorem ==
  ASSUME CursorX \notin Codes
  PROVE  Spec /\ []Roomy /\ []Prompt => []NoPhantomEvent
<1>1. Init => Trace
  BY TraceInit
<1>2. LinkInv /\ Trace /\ Roomy /\ Prompt /\ Prompt' /\ [Next]_vars => Trace'
  BY TraceNext
<1>3. Trace => NoPhantomEvent
  <2>. SUFFICES ASSUME NEW f, NEW g, Traces(f, g, polled, raised, stream) PROVE NoPhantomEvent
    BY DEF Trace, Traced
  <2>. QED  BY DEF Traces, NoPhantomEvent
<1>4. Spec /\ []Roomy /\ []Prompt => []LinkInv
  BY LinkInvariant
<1>. QED  BY <1>1, <1>2, <1>3, <1>4, PTL DEF Spec

====
