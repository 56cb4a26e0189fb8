------------------------------ MODULE SerialLink ------------------------------
(***************************************************************************)
(* One open port between the daemon and the panel: BuddySerial::send_frame *)
(* with its retries, wait_ack's scan of the inbox byte by byte, poll_events *)
(* and drain_device_events, and the panel's side of the exchange, a frame  *)
(* at a time (ingest's byte parser is FrameRx's subject).                  *)
(*                                                                         *)
(* The two directions are FIFO.  A frame travels whole or cut short; bytes *)
(* towards the host travel as bytes, because acknowledgements and button   *)
(* opcodes share the stream and the host tells them apart only by value.   *)
(***************************************************************************)
EXTENDS Integers, Sequences, FiniteSets, SequencesExt

CONSTANTS
  SeqSpace,       \* sequence numbers wrap at this value (u8: 256)
  FirstSeq,     \* the sequence number of the first send modelled
  MaxAttempts,  \* transmissions of one frame before send_frame gives up (5)
  MaxFails,     \* failed sends in a row after which the session drops the port
  InboxCap,     \* INBOX_CAP
  CursorX,      \* the header byte after seq: taken for seq when seq is lost
  Events,       \* opcodes the panel may send, each as the bytes it writes
  MaxSends,     \* bound: calls of send_frame
  MaxEvents,    \* bound: opcodes the panel sends
  MaxWork,      \* bound: calls, and opcodes counted twice, together
  MaxFaults     \* bound: overruns, write errors and lost replies

FRAME_ACK == 6
FRAME_NAK == 21
DEV_MODE_TOGGLE == 18
DEV_OSD_BRIGHT == 19
DEV_OSD_SLEEP == 20

Byte == 0 .. 255
Opcodes == {DEV_MODE_TOGGLE, DEV_OSD_BRIGHT, DEV_OSD_SLEEP}
NoFrame == -1

ASSUME LinkAssumption ==
  /\ SeqSpace \in 1 .. 256
  /\ FirstSeq \in 0 .. SeqSpace - 1
  /\ MaxAttempts \in Nat \ {0}
  /\ MaxFails \in 1 .. SeqSpace - 1
  /\ InboxCap \in Nat \ {0, 1}
  /\ CursorX \in Byte
  /\ Events \subseteq {<<DEV_MODE_TOGGLE>>} \union ({DEV_OSD_BRIGHT, DEV_OSD_SLEEP} \X (0 .. 6))
  /\ MaxSends \in Nat /\ MaxEvents \in Nat /\ MaxWork \in Nat /\ MaxFaults \in Nat

VARIABLES
  pc,       \* where the host is: "idle", "write", "wait", "scan", "drain", "closed"
  seq,      \* BuddySerial.seq, the next sequence number
  cur,      \* the sequence number of the send in progress (or of the last one)
  sent,     \* how many sends were begun; also the identity of the newest frame
  attempt,  \* send_frame's loop counter
  inbox,    \* BuddySerial.inbox
  i,        \* wait_ack's index into inbox, from 1
  outcome,  \* what the newest send returned: "none", "pending", "ok" or "err"
  fails,    \* sends in a row that failed
  toDev,    \* frames on their way to the panel
  toHost,   \* bytes on their way to the host
  partial,  \* seq of the frame ingest is in the middle of, or NoFrame
  shown,    \* identity of the last frame the panel applied
  raised,   \* history: opcodes the panel sent
  polled,   \* history: opcodes poll_events returned
  dropped,  \* history: opcode bytes wait_ack removed with a reply
  faults    \* faults so far

hostVars == <<pc, seq, cur, sent, attempt, inbox, i, outcome, fails>>
histVars == <<raised, polled, dropped>>
vars == <<hostVars, toDev, toHost, partial, shown, histVars, faults>>

OpBytes(s) == Cardinality({k \in 1 .. Len(s) : s[k] \in Opcodes})

Init ==
  /\ pc = "idle" /\ seq = FirstSeq /\ cur = FirstSeq
  /\ sent = 0 /\ attempt = 0 /\ inbox = <<>> /\ i = 1
  /\ outcome = "none" /\ fails = 0
  /\ toDev = <<>> /\ toHost = <<>> /\ partial = NoFrame /\ shown = 0
  /\ raised = <<>> /\ polled = <<>> /\ dropped = 0 /\ faults = 0

-----------------------------------------------------------------------------
(* send_frame                                                              *)

\* next_seq takes the number, the frame is built, and the attempts begin.
SendFrame ==
  /\ pc = "idle" /\ sent < MaxSends /\ sent + 2 * Len(raised) < MaxWork
  /\ cur' = seq /\ seq' = (seq + 1) % SeqSpace
  /\ sent' = sent + 1 /\ attempt' = 0 /\ outcome' = "pending" /\ pc' = "write"
  /\ UNCHANGED <<inbox, i, fails, toDev, toHost, partial, shown, histVars, faults>>

\* Mutant of NextAttempt: one attempt too many.
NextAttemptOneMore ==
  /\ attempt' = attempt + 1
  /\ IF attempt < MaxAttempts
       THEN pc' = "write" /\ UNCHANGED <<outcome, fails>>
       ELSE outcome' = "err" /\ fails' = fails + 1 /\ pc' = "closed"

\* An attempt failed: go round the loop, or return the error.  The session
\* counts errors in a row and leaves, closing the port, at MaxFails.
NextAttempt ==
  /\ attempt' = attempt + 1
  /\ IF attempt + 1 < MaxAttempts
       THEN pc' = "write" /\ UNCHANGED <<outcome, fails>>
       ELSE /\ outcome' = "err"
            /\ fails' = fails + 1
            /\ pc' = IF fails + 1 < MaxFails THEN "idle" ELSE "closed"

\* Every 64-byte chunk was written; wait_ack begins.
WriteFrame ==
  /\ pc = "write"
  /\ toDev' = Append(toDev, [seq |-> cur, id |-> sent, cut |-> FALSE])
  /\ pc' = "wait"
  /\ UNCHANGED <<seq, cur, sent, attempt, inbox, i, outcome, fails, toHost, partial,
                 shown, histVars, faults>>

\* A chunk failed: none or some of the frame left, and no reply is awaited.
WriteError ==
  /\ pc = "write" /\ faults < MaxFaults
  /\ faults' = faults + 1
  /\ \/ toDev' = toDev
     \/ toDev' = Append(toDev, [seq |-> cur, id |-> sent, cut |-> TRUE])
  /\ NextAttempt
  /\ UNCHANGED <<seq, cur, sent, inbox, i, toHost, partial, shown, histVars>>

-----------------------------------------------------------------------------
(* pump_inbox: read what has arrived, which may end between two bytes the  *)
(* panel wrote together, and keep the newest InboxCap bytes.               *)

TrimInbox(box) ==
  IF Len(box) > InboxCap THEN SubSeq(box, Len(box) - InboxCap + 1, Len(box)) ELSE box

PumpInbox(n) ==
  /\ inbox' = TrimInbox(inbox \o SubSeq(toHost, 1, n))
  /\ toHost' = SubSeq(toHost, n + 1, Len(toHost))

-----------------------------------------------------------------------------
(* wait_ack                                                                *)

\* One pass of the outer loop: pump, then scan from the front.
BeginScan ==
  /\ pc = "wait"
  /\ \E n \in 0 .. Len(toHost) : PumpInbox(n)
  /\ i' = 1 /\ pc' = "scan"
  /\ UNCHANGED <<seq, cur, sent, attempt, outcome, fails, toDev, partial, shown,
                 histVars, faults>>

\* Mutant of Timeout: the deadline counts only while nothing has been read.
TimeoutQuiet ==
  /\ pc = "wait" /\ inbox = <<>>
  /\ NextAttempt
  /\ UNCHANGED <<seq, cur, sent, inbox, i, toDev, toHost, partial, shown, histVars, faults>>

\* The deadline passed.
Timeout ==
  /\ pc = "wait"
  /\ NextAttempt
  /\ UNCHANGED <<seq, cur, sent, inbox, i, toDev, toHost, partial, shown, histVars, faults>>

\* Mutant of ReplyAt: a reply to any frame will do.
ReplyAtAnySeq(code) == i + 1 <= Len(inbox) /\ inbox[i] = code

ReplyAt(code) == i + 1 <= Len(inbox) /\ inbox[i] = code /\ inbox[i + 1] = cur

\* inbox.drain(..=i + 1): the reply goes, and everything deferred before it.
DrainThroughReply ==
  /\ inbox' = SubSeq(inbox, i + 2, Len(inbox))
  /\ dropped' = dropped + OpBytes(SubSeq(inbox, 1, i - 1))

ScanAck ==
  /\ pc = "scan" /\ ReplyAt(FRAME_ACK)
  /\ DrainThroughReply
  /\ outcome' = "ok" /\ fails' = 0 /\ pc' = "idle"
  /\ UNCHANGED <<seq, cur, sent, attempt, i, toDev, toHost, partial, shown, raised,
                 polled, faults>>

ScanNak ==
  /\ pc = "scan" /\ ReplyAt(FRAME_NAK)
  /\ DrainThroughReply
  /\ NextAttempt
  /\ UNCHANGED <<seq, cur, sent, i, toDev, toHost, partial, shown, raised, polled, faults>>

NoReplyAt == ~ReplyAt(FRAME_ACK) /\ ~ReplyAt(FRAME_NAK)

\* Mutant of ScanDefer: the data byte of a level is not skipped.
ScanDeferOneByte ==
  /\ pc = "scan" /\ i <= Len(inbox) /\ NoReplyAt /\ inbox[i] \in Opcodes /\ i' = i + 1
  /\ UNCHANGED <<pc, seq, cur, sent, attempt, inbox, outcome, fails, toDev, toHost,
                 partial, shown, histVars, faults>>

\* An opcode with all its bytes is left for poll_events.
ScanDefer ==
  /\ pc = "scan" /\ i <= Len(inbox) /\ NoReplyAt
  /\ \/ inbox[i] = DEV_MODE_TOGGLE /\ i' = i + 1
     \/ inbox[i] \in {DEV_OSD_BRIGHT, DEV_OSD_SLEEP} /\ i + 1 <= Len(inbox) /\ i' = i + 2
  /\ UNCHANGED <<pc, seq, cur, sent, attempt, inbox, outcome, fails, toDev, toHost,
                 partial, shown, histVars, faults>>

\* Mutant of ScanRemove: a half-received level goes too.
ScanRemovePartial ==
  /\ pc = "scan" /\ i <= Len(inbox) /\ NoReplyAt
  /\ inbox[i] \notin Opcodes \/ (i = Len(inbox) /\ inbox[i] # DEV_MODE_TOGGLE)
  /\ inbox' = RemoveAt(inbox, i)
  /\ UNCHANGED <<pc, seq, cur, sent, attempt, i, outcome, fails, toDev, toHost,
                 partial, shown, histVars, faults>>

\* Any other byte is removed.
ScanRemove ==
  /\ pc = "scan" /\ i <= Len(inbox) /\ NoReplyAt
  /\ inbox[i] \notin Opcodes
  /\ inbox' = RemoveAt(inbox, i)
  /\ UNCHANGED <<pc, seq, cur, sent, attempt, i, outcome, fails, toDev, toHost,
                 partial, shown, histVars, faults>>

\* The end of the inbox, or an opcode whose data byte has not come yet.
EndScan ==
  /\ pc = "scan"
  /\ \/ i > Len(inbox)
     \/ i = Len(inbox) /\ inbox[i] \in {DEV_OSD_BRIGHT, DEV_OSD_SLEEP}
  /\ pc' = "wait"
  /\ UNCHANGED <<seq, cur, sent, attempt, inbox, i, outcome, fails, toDev, toHost,
                 partial, shown, histVars, faults>>

-----------------------------------------------------------------------------
(* poll_events and drain_device_events                                     *)

PollEvents(n) ==
  /\ pc = "idle"
  /\ PumpInbox(n)
  /\ pc' = "drain"
  /\ UNCHANGED <<seq, cur, sent, attempt, i, outcome, fails, toDev, partial, shown,
                 histVars, faults>>

DrainToggle ==
  /\ pc = "drain" /\ inbox # <<>> /\ Head(inbox) = DEV_MODE_TOGGLE
  /\ inbox' = Tail(inbox)
  /\ polled' = Append(polled, <<DEV_MODE_TOGGLE>>)
  /\ UNCHANGED <<pc, seq, cur, sent, attempt, i, outcome, fails, toDev, toHost,
                 partial, shown, raised, dropped, faults>>

\* Mutant of DrainLevel: it waits for a byte after the data byte.
DrainLevelLate ==
  /\ pc = "drain" /\ Len(inbox) > 2 /\ inbox[1] \in {DEV_OSD_BRIGHT, DEV_OSD_SLEEP}
  /\ inbox' = SubSeq(inbox, 3, Len(inbox))
  /\ polled' = Append(polled, SubSeq(inbox, 1, 2))
  /\ UNCHANGED <<pc, seq, cur, sent, attempt, i, outcome, fails, toDev, toHost,
                 partial, shown, raised, dropped, faults>>

\* The data byte is clamped to the highest level.
DrainLevel ==
  /\ pc = "drain" /\ Len(inbox) >= 2 /\ inbox[1] \in {DEV_OSD_BRIGHT, DEV_OSD_SLEEP}
  /\ inbox' = SubSeq(inbox, 3, Len(inbox))
  /\ polled' = Append(polled, <<inbox[1], IF inbox[2] > 6 THEN 6 ELSE inbox[2]>>)
  /\ UNCHANGED <<pc, seq, cur, sent, attempt, i, outcome, fails, toDev, toHost,
                 partial, shown, raised, dropped, faults>>

DrainOther ==
  /\ pc = "drain" /\ inbox # <<>> /\ Head(inbox) \notin Opcodes
  /\ inbox' = Tail(inbox)
  /\ UNCHANGED <<pc, seq, cur, sent, attempt, i, outcome, fails, toDev, toHost,
                 partial, shown, histVars, faults>>

EndDrain ==
  /\ pc = "drain"
  /\ \/ inbox = <<>>
     \/ Len(inbox) = 1 /\ inbox[1] \in {DEV_OSD_BRIGHT, DEV_OSD_SLEEP}
  /\ pc' = "idle"
  /\ UNCHANGED <<seq, cur, sent, attempt, inbox, i, outcome, fails, toDev, toHost,
                 partial, shown, histVars, faults>>

-----------------------------------------------------------------------------
(* The panel: ingest, applyPayload and reply, a frame at a time            *)

\* A whole frame met at a frame boundary is applied, then acknowledged; in the
\* middle of another one it completes that one, whose CRC then fails.
DeviceFrame ==
  /\ toDev # <<>> /\ ~Head(toDev).cut
  /\ toDev' = Tail(toDev)
  /\ IF partial = NoFrame
       THEN /\ shown' = Head(toDev).id
            /\ \/ toHost' = toHost \o <<FRAME_ACK, Head(toDev).seq>> /\ UNCHANGED faults
               \/ faults < MaxFaults /\ faults' = faults + 1 /\ UNCHANGED toHost
       ELSE /\ toHost' = toHost \o <<FRAME_NAK, partial>>
            /\ UNCHANGED <<shown, faults>>
  /\ partial' = NoFrame
  /\ UNCHANGED <<hostVars, histVars>>

\* Bytes are missing: written short by the host, or lost in a receive overrun.
\* The magic may be gone (nothing is parsed), or the seq byte (the next header
\* byte stands in for it), or payload bytes (ingest waits for the rest); or the
\* bytes still complete the frame that was waiting.
DeviceCut ==
  /\ toDev # <<>>
  /\ \/ Head(toDev).cut /\ UNCHANGED faults
     \/ ~Head(toDev).cut /\ faults < MaxFaults /\ faults' = faults + 1
  /\ toDev' = Tail(toDev)
  /\ partial' \in IF partial = NoFrame THEN {NoFrame, Head(toDev).seq, CursorX}
                                      ELSE {NoFrame, partial}
  /\ toHost' = IF partial # NoFrame /\ partial' = NoFrame
                 THEN toHost \o <<FRAME_NAK, partial>> ELSE toHost
  /\ UNCHANGED <<hostVars, shown, histVars>>

\* The button: an opcode, between two replies.
DeviceEvent ==
  /\ Len(raised) < MaxEvents /\ sent + 2 * Len(raised) < MaxWork - 1
  /\ \E e \in Events : raised' = Append(raised, e) /\ toHost' = toHost \o e
  /\ UNCHANGED <<hostVars, toDev, partial, shown, polled, dropped, faults>>

-----------------------------------------------------------------------------
PollSome == \E n \in 0 .. Len(toHost) : PollEvents(n)
PollAll == PollEvents(Len(toHost))

HostStep ==
  \/ WriteFrame \/ BeginScan \/ ScanAck \/ ScanNak \/ ScanDefer \/ ScanRemove \/ EndScan
  \/ PollSome \/ DrainToggle \/ DrainLevel \/ DrainOther \/ EndDrain

Next ==
  \/ SendFrame \/ WriteError \/ Timeout \/ HostStep
  \/ DeviceFrame \/ DeviceCut \/ DeviceEvent

\* The host thread keeps running, its clock reaches every deadline, the session
\* loop keeps polling and what the panel wrote reaches the host in the end.
Fairness == WF_vars(HostStep) /\ SF_vars(Timeout) /\ SF_vars(PollAll)

Spec == Init /\ [][Next]_vars /\ Fairness

-----------------------------------------------------------------------------
Frames == [seq : 0 .. SeqSpace - 1, id : Nat, cut : BOOLEAN]

\* Every variable keeps its type.
TypeOK ==
  /\ pc \in {"idle", "write", "wait", "scan", "drain", "closed"}
  /\ seq \in 0 .. SeqSpace - 1 /\ cur \in 0 .. SeqSpace - 1
  /\ sent \in Nat /\ attempt \in 0 .. MaxAttempts
  /\ inbox \in Seq(Byte) /\ i \in Nat \ {0}
  /\ outcome \in {"none", "pending", "ok", "err"} /\ fails \in 0 .. MaxFails
  /\ toDev \in Seq(Frames) /\ toHost \in Seq(Byte)
  /\ partial \in Byte \union {NoFrame} /\ shown \in Nat
  /\ raised \in Seq(Events) /\ polled \in Seq(Seq(Byte)) /\ dropped \in Nat /\ faults \in Nat

\* Every opcode the panel sent has been returned by poll_events, is still
\* queued, or was removed together with a reply that came after it: no other
\* scan or poll loses one, split reads and half-received opcodes included.
EventsAccounted ==
  Len(raised) = Len(polled) + dropped + OpBytes(inbox) + OpBytes(toHost)

\* serial_io.rs:179 drops "non-opcode bytes": what poll_events returns was sent
\* by the button, with its level, in that order, and never twice.
NoPhantomEvent ==
  \E f \in [1 .. Len(polled) -> 1 .. Len(raised)] :
    /\ \A k \in 1 .. Len(polled) : polled[k] = raised[f[k]]
    /\ \A k, l \in 1 .. Len(polled) : k < l => f[k] < f[l]

\* serial_io.rs:104 says wait_ack defers opcodes to poll_events: none is lost.
NoEventDropped == dropped = 0

\* A button press reaches the session loop (or is lost with a reply, see
\* EventsAccounted) as long as the port stays open.
EventsReported ==
  \A k \in 1 .. MaxEvents :
    (Len(raised) >= k) ~> (Len(polled) + dropped >= k \/ pc = "closed")

Delivery == INSTANCE FrameDelivery WITH sent <- sent, shown <- shown, outcome <- outcome

\* What the session loop may assume of send_frame (bridge.rs records the
\* snapshot as last_status only after an Ok), as FrameDelivery has it: frames are
\* shown in order and a send that returned Ok has its frame on the panel, although
\* replies may be late, belong to an earlier attempt or an earlier send, or be cut
\* in half.
ImplementsDelivery == Delivery!Spec

\* Every send returns, whatever the panel does.
SendsReturn == Delivery!Returns
=============================================================================
