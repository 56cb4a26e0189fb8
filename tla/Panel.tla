--------------------------------- MODULE Panel ---------------------------------
(***************************************************************************)
(* The panel's one button, its sleep and the alert strip, which meet: a    *)
(* tap wakes the panel, or dismisses the alert, or opens the OSD; an alert *)
(* wakes the panel and keeps it awake.                                     *)
(*                                                                         *)
(* One pass of the main loop is a sample of the button, its edge, its long *)
(* press, the alert's and the idle part of osd::tick, a frame, a flush.    *)
(* Time is kept as ages: now - x, as the code computes them, modulo the    *)
(* size of the clock.  An age that will be set before it is next looked at *)
(* is kept at 0.                                                           *)
(***************************************************************************)
EXTENDS Integers

CONSTANTS
  BTN_DEBOUNCE_MS, BTN_LONG_MS, IDLE_CLOSE_MS,
  SleepTime,  \* of the sleep level in force; 0 is never
  ClockSize,  \* millis() wraps at this value (2^32)
  Texts,      \* what an alert may say
  Confs,      \* the style's flags and alert_hold_sec, with the bounds, see Conf
  MaxPass     \* bound: time a pass of the loop takes

ITEM_COUNT == 3
None == 0
\* Bounds: flips, changes of the button's pin, bounces included; frames, those
\* the panel is sent and losses of the link.
Conf == [tap : BOOLEAN, wake : BOOLEAN, hold : Nat, flips : Nat, frames : Nat]

ASSUME PanelAssumption ==
  /\ ClockSize \in Nat /\ ClockSize % 2 = 0 /\ MaxPass \in Nat
  /\ \A t \in {BTN_DEBOUNCE_MS, BTN_LONG_MS, IDLE_CLOSE_MS, SleepTime} :
       t \in 0 .. ClockSize - MaxPass - 1
  /\ BTN_DEBOUNCE_MS < BTN_LONG_MS /\ (SleepTime = 0 \/ BTN_LONG_MS < SleepTime)
  /\ Texts \subseteq Nat \ {None}
  /\ Confs \subseteq Conf /\ \A c \in Confs : c.hold + MaxPass < ClockSize \div 2

VARIABLES
  pc,         \* where the pass is
  conf,       \* g_dismiss_on_tap_cfg, g_wake_on_alert_cfg and the style's hold
  \* the button
  raw,        \* btn_raw, TRUE while it is not pressed
  changeAge,  \* since btn_change_ms
  stable,     \* btn_stable
  downAge,    \* since btn_down_ms
  longSent,   \* btn_long_sent
  consumed,   \* g_wake_consumed
  \* the OSD and sleep
  open, item,
  asleep,     \* g_asleep
  idleAge,    \* since g_last_activity_ms
  alertWas,   \* g_alert_was_up
  \* the status page
  statusUi,   \* status_ui_
  dirty,      \* status_dirty_
  live,       \* what statusBuildAlert makes of the snapshot
  latch,      \* g_alert_latch
  ack,        \* g_alert_ack
  until,      \* (int32_t)(now - g_alert_until_ms), or Unset while that is 0
  strip,      \* g_alert_shown: what is on the glass; None unless g_alert_on
  \* history and bounds
  owed,       \* presses that were no bounces, less the wakes, short and long presses
  quiet,      \* time nothing asked for the panel's light
  tapped,     \* the text tapped away last since the alert began
  hidden,     \* the same, while it is what the alert says
  said,       \* what the alert said at the last flush that looked
  shownFor,   \* time that has been on the strip
  flips, frames

buttonVars == <<raw, changeAge, stable, downAge, longSent, consumed, owed, flips>>
osdVars == <<open, item>>
sleepVars == <<asleep, idleAge, quiet>>
alertVars == <<latch, ack, until, strip, tapped, hidden, said, shownFor>>
pageVars == <<statusUi, dirty, live>>
vars == <<pc, conf, buttonVars, osdVars, sleepVars, alertWas, alertVars, pageVars, frames>>

Unset == ClockSize

Init ==
  /\ pc = "wait" /\ conf \in Confs
  /\ raw = TRUE /\ changeAge = 0 /\ stable = TRUE /\ downAge = 0
  /\ longSent = FALSE /\ consumed = FALSE
  /\ open = FALSE /\ item = 0 /\ asleep = FALSE /\ idleAge = 0 /\ alertWas = FALSE
  /\ statusUi = FALSE /\ dirty = FALSE /\ live = None
  /\ latch = None /\ ack = None /\ until = Unset /\ strip = None
  /\ owed = 0 /\ quiet = 0 /\ tapped = None /\ hidden = None /\ said = None
  /\ shownFor = 0
  /\ flips = 0 /\ frames = 0

-----------------------------------------------------------------------------
(* pollButton                                                              *)

Older(age, d) == (age + d) % ClockSize

\* The signed difference wraps half way round.
Later(diff, d) ==
  IF diff = Unset THEN Unset
  ELSE IF diff + d < ClockSize \div 2 THEN diff + d ELSE diff + d - ClockSize

\* Time passes, and the pin is read.
Sample(d) ==
  /\ pc = "wait" /\ pc' = "edge"
  /\ \E level \in BOOLEAN :
       /\ level # raw => flips < conf.flips
       /\ flips' = IF level # raw THEN flips + 1 ELSE flips
       /\ raw' = level
       /\ changeAge' = IF level # raw \/ level = stable THEN 0 ELSE Older(changeAge, d)
  /\ downAge' = IF stable \/ longSent THEN 0 ELSE Older(downAge, d)
  /\ idleAge' = IF asleep THEN 0 ELSE Older(idleAge, d)
  /\ until' = Later(until, d)
  /\ quiet' = IF quiet + d > SleepTime THEN SleepTime ELSE quiet + d
  /\ shownFor' = IF strip = None \/ shownFor >= conf.hold THEN shownFor ELSE shownFor + d
  /\ UNCHANGED <<conf, stable, longSent, consumed, owed, osdVars, asleep, alertWas,
                 latch, ack, strip, tapped, hidden, said, pageVars, frames>>

Debounced == changeAge >= BTN_DEBOUNCE_MS /\ raw # stable
AlertUp == statusUi /\ strip # None

\* Something that keeps the panel lit.
Activity == asleep' = FALSE /\ idleAge' = 0 /\ quiet' = 0

\* Mutant of Press: a long press is remembered from the press before.
PressLongKept ==
  /\ pc = "edge" /\ Debounced /\ stable
  /\ stable' = FALSE /\ downAge' = 0
  /\ Activity
  /\ consumed' = (consumed \/ asleep) /\ owed' = (IF asleep THEN owed ELSE owed + 1)
  /\ pc' = "long"
  /\ UNCHANGED <<conf, raw, changeAge, longSent, flips, osdVars, alertWas, alertVars, pageVars,
                 frames>>

\* The button goes down.  A press that wakes the panel does nothing else.
Press ==
  /\ pc = "edge" /\ Debounced /\ stable
  /\ stable' = FALSE /\ downAge' = 0 /\ longSent' = FALSE
  /\ Activity
  /\ consumed' = (consumed \/ asleep) /\ owed' = (IF asleep THEN owed ELSE owed + 1)
  /\ pc' = "long"
  /\ UNCHANGED <<conf, raw, changeAge, flips, osdVars, alertWas, alertVars, pageVars, frames>>

\* Mutant of Dismiss: the alert the last frame brought, not the one on the glass.
DismissLive ==
  /\ ack' = live
  /\ tapped' = strip /\ hidden' = strip
  /\ dirty' = TRUE
  /\ UNCHANGED <<statusUi, live, latch, until, strip, said, shownFor>>

\* statusGuiDismissAlert and requestStatusRepaint: what is on the glass.
Dismiss ==
  /\ ack' = strip
  /\ tapped' = strip /\ hidden' = strip
  /\ dirty' = TRUE
  /\ UNCHANGED <<statusUi, live, latch, until, strip, said, shownFor>>

\* Mutant of ShortPress: one row too many.
ShortPressPastEnd ==
  \/ /\ open /\ item + 1 > ITEM_COUNT
     /\ open' = FALSE /\ UNCHANGED <<item, idleAge, alertVars, pageVars>>
  \/ /\ open /\ item + 1 <= ITEM_COUNT
     /\ item' = item + 1 /\ idleAge' = 0 /\ UNCHANGED <<open, alertVars, pageVars>>
  \/ /\ ~open /\ AlertUp /\ conf.tap
     /\ Dismiss /\ UNCHANGED <<osdVars, idleAge>>
  \/ /\ ~open /\ ~(AlertUp /\ conf.tap)
     /\ open' = TRUE /\ item' = 0 /\ idleAge' = 0 /\ UNCHANGED <<alertVars, pageVars>>

\* handleShortPress: the next row, past the last one; or the alert; or the OSD.
ShortPress ==
  \/ /\ open /\ item + 1 >= ITEM_COUNT
     /\ open' = FALSE /\ UNCHANGED <<item, idleAge, alertVars, pageVars>>
  \/ /\ open /\ item + 1 < ITEM_COUNT
     /\ item' = item + 1 /\ idleAge' = 0 /\ UNCHANGED <<open, alertVars, pageVars>>
  \/ /\ ~open /\ AlertUp /\ conf.tap
     /\ Dismiss /\ UNCHANGED <<osdVars, idleAge>>
  \/ /\ ~open /\ ~(AlertUp /\ conf.tap)
     /\ open' = TRUE /\ item' = 0 /\ idleAge' = 0 /\ UNCHANGED <<alertVars, pageVars>>

\* The button comes up.
Release ==
  /\ pc = "edge" /\ Debounced /\ ~stable
  /\ stable' = TRUE /\ consumed' = FALSE
  /\ IF consumed \/ longSent
       THEN UNCHANGED <<owed, osdVars, idleAge, alertVars, pageVars>>
       ELSE owed' = owed - 1 /\ ShortPress
  /\ pc' = "long"
  /\ UNCHANGED <<conf, raw, changeAge, downAge, longSent, flips, asleep, quiet, alertWas,
                 frames>>

NoEdge ==
  /\ pc = "edge" /\ ~Debounced
  /\ pc' = "long"
  /\ UNCHANGED <<conf, buttonVars, osdVars, sleepVars, alertWas, alertVars, pageVars, frames>>

IsLong == ~stable /\ ~longSent /\ downAge >= BTN_LONG_MS

\* handleLongPress: a toggle or a level is sent (see OsdSync and Session).
LongPress ==
  /\ pc = "long" /\ IsLong
  /\ longSent' = TRUE
  /\ IF consumed THEN UNCHANGED <<owed, idleAge>> ELSE owed' = owed - 1 /\ idleAge' = 0
  /\ pc' = "alert"
  /\ UNCHANGED <<conf, raw, changeAge, stable, downAge, consumed, flips, osdVars, asleep,
                 quiet, alertWas, alertVars, pageVars, frames>>

NotLong ==
  /\ pc = "long" /\ ~IsLong
  /\ pc' = "alert"
  /\ UNCHANGED <<conf, buttonVars, osdVars, sleepVars, alertWas, alertVars, pageVars, frames>>

-----------------------------------------------------------------------------
(* The rest of osd::tick                                                   *)

\* Mutant of Alert: the end of an alert does not restart the idle timer.
AlertNoRestart ==
  /\ pc = "alert" /\ pc' = "idle"
  /\ idleAge' = IF conf.wake /\ AlertUp /\ asleep THEN 0 ELSE idleAge
  /\ asleep' = (asleep /\ ~(conf.wake /\ AlertUp))
  /\ alertWas' = AlertUp
  /\ quiet' = IF conf.wake /\ AlertUp THEN 0 ELSE quiet
  /\ UNCHANGED <<conf, buttonVars, osdVars, alertVars, pageVars, frames>>

\* An alert wakes the panel; its end restarts the idle timer.
Alert ==
  /\ pc = "alert" /\ pc' = "idle"
  /\ idleAge' = IF conf.wake /\ ((AlertUp /\ asleep) \/ (~AlertUp /\ alertWas)) THEN 0 ELSE idleAge
  /\ asleep' = (asleep /\ ~(conf.wake /\ AlertUp))
  /\ alertWas' = AlertUp
  /\ quiet' = IF conf.wake /\ AlertUp THEN 0 ELSE quiet
  /\ UNCHANGED <<conf, buttonVars, osdVars, alertVars, pageVars, frames>>

\* Mutants of Idle: an alert does not hold sleep off; any alert does.
IdleNoHold ==
  /\ pc = "idle" /\ pc' = "ingest"
  /\ open' = (open /\ idleAge < IDLE_CLOSE_MS)
  /\ asleep' = (asleep \/ (~open' /\ SleepTime > 0 /\ idleAge >= SleepTime))
  /\ UNCHANGED <<conf, buttonVars, item, idleAge, quiet, alertWas, alertVars, pageVars, frames>>
IdleAnyAlert ==
  /\ pc = "idle" /\ pc' = "ingest"
  /\ open' = (open /\ idleAge < IDLE_CLOSE_MS)
  /\ asleep' = (asleep \/ (~open' /\ ~AlertUp /\ SleepTime > 0 /\ idleAge >= SleepTime))
  /\ UNCHANGED <<conf, buttonVars, item, idleAge, quiet, alertWas, alertVars, pageVars, frames>>

\* The OSD closes, and the panel goes to sleep, when nobody used it for a while.
Idle ==
  /\ pc = "idle" /\ pc' = "ingest"
  /\ open' = (open /\ idleAge < IDLE_CLOSE_MS)
  /\ asleep' = (asleep \/ (/\ ~open' /\ ~(conf.wake /\ AlertUp)
                           /\ SleepTime > 0 /\ idleAge >= SleepTime))
  /\ UNCHANGED <<conf, buttonVars, item, idleAge, quiet, alertWas, alertVars, pageVars, frames>>

-----------------------------------------------------------------------------
(* Frames and the flush                                                    *)

\* statusGuiReset, as far as the alert goes.
GuiReset ==
  /\ latch' = None /\ ack' = None /\ until' = Unset /\ strip' = None
  /\ tapped' = None /\ hidden' = None /\ said' = None /\ shownFor' = 0

Receive ==
  /\ pc = "ingest" /\ frames < conf.frames /\ frames' = frames + 1
  /\ UNCHANGED <<conf, buttonVars, osdVars, alertWas>>

\* FLAG_ACTIVITY: the host had input.
NoteActivity == Activity \/ UNCHANGED sleepVars

\* Any other change of the snapshot makes the page dirty as well.
StatusFrame ==
  /\ Receive /\ NoteActivity /\ pc' = "ingest"
  /\ live' \in Texts \union {None}
  /\ statusUi' = TRUE
  /\ dirty' \in IF statusUi /\ live' = live THEN {dirty, TRUE} ELSE {TRUE}
  /\ UNCHANGED alertVars

TerminalFrame ==
  /\ Receive /\ NoteActivity /\ pc' = "ingest"
  /\ IF statusUi THEN GuiReset ELSE UNCHANGED alertVars
  /\ statusUi' = FALSE /\ UNCHANGED <<dirty, live>>

\* BYE, or twelve seconds of silence: the Lost banner, once the input is read.
LinkLost ==
  /\ Receive /\ pc' = "flush"
  /\ statusUi' = FALSE /\ dirty' = FALSE /\ GuiReset
  /\ UNCHANGED <<live, sleepVars>>

NoFrame ==
  /\ pc = "ingest" /\ pc' = "flush"
  /\ UNCHANGED <<conf, buttonVars, osdVars, sleepVars, alertWas, alertVars, pageVars, frames>>

\* What the strip is to show, with the time its text runs out.
Strip(t) == IF ack = live \/ (conf.hold > 0 /\ t # Unset /\ t >= 0) THEN None ELSE live

\* resolveAlertText.
Resolve ==
  IF live = None
    THEN /\ latch' = None /\ ack' = None /\ until' = Unset /\ strip' = None
         /\ tapped' = None
    ELSE /\ latch' = live
         /\ until' = IF latch = live THEN until ELSE IF conf.hold > 0 THEN - conf.hold ELSE Unset
         /\ strip' = Strip(until')
         /\ UNCHANGED <<ack, tapped>>

\* statusGuiNeedsAlertTick, but for the rolling of long texts.
NeedsAlertTick == until # Unset /\ latch # None /\ until >= 0

Flush ==
  /\ pc = "flush" /\ pc' = "wait"
  /\ statusUi
  /\ IF dirty \/ NeedsAlertTick
       THEN /\ Resolve
            /\ hidden' = (IF live = hidden THEN hidden ELSE None)
            /\ said' = live
            /\ shownFor' = (IF live = said THEN shownFor ELSE 0)
       ELSE UNCHANGED alertVars
  /\ dirty' = FALSE
  /\ UNCHANGED <<conf, buttonVars, osdVars, sleepVars, alertWas, statusUi, live, frames>>

\* Terminal mode, no link, or less than 16 ms since the last flush.
NoFlush ==
  /\ pc = "flush" /\ pc' = "wait"
  /\ UNCHANGED <<conf, buttonVars, osdVars, sleepVars, alertWas, alertVars, pageVars, frames>>

Samples == \E d \in 0 .. MaxPass : Sample(d)
Button == Samples \/ Press \/ Release \/ NoEdge \/ LongPress \/ NotLong
Loop == Button \/ Alert \/ Idle \/ NoFrame \/ Flush \/ NoFlush
Frame == StatusFrame \/ TerminalFrame \/ LinkLost

Next == Loop \/ Frame

\* loop() is called again and again, time passes, and 16 ms do.
Fairness == WF_vars(Loop) /\ SF_vars(Sample(1)) /\ SF_vars(Flush)

Spec == Init /\ [][Next]_vars /\ Fairness

-----------------------------------------------------------------------------
Ages == 0 .. ClockSize - 1

\* Every variable keeps its type; the OSD's row is one of its rows.
TypeOK ==
  /\ pc \in {"wait", "edge", "long", "alert", "idle", "ingest", "flush"} /\ conf \in Confs
  /\ \A b \in {raw, stable, longSent, consumed, open, asleep, alertWas, statusUi, dirty} :
       b \in BOOLEAN
  /\ \A a \in {changeAge, downAge, idleAge} : a \in Ages
  /\ item \in 0 .. ITEM_COUNT - 1
  /\ \A t \in {live, latch, ack, strip, tapped, hidden, said} : t \in Texts \union {None}
  /\ until \in (- (ClockSize \div 2)) .. (ClockSize \div 2 - 1) \union {Unset}
  /\ \A n \in {quiet, shownFor, flips, frames} : n \in Nat /\ owed \in Int

\* A press does one thing, whether it is short, long, bounces, wakes the panel,
\* or is under way when the panel goes to sleep or an alert wakes it: once the
\* button is up again every press has woken the panel, or been a short or a long
\* one, and none has been two of these.
EachPressOnce == stable => owed = 0

\* The panel goes dark only when no press, no input at the host and, with
\* wake_on_alert, no alert has asked for it for the whole of the sleep time
\* (configuration.md:320-322).
FallsAsleep == ~asleep /\ asleep' => quiet' >= SleepTime
SleepsOnlyQuiet == [][FallsAsleep]_vars

\* The alert's text was on the strip for its time.
TimeUp == conf.hold > 0 /\ shownFor >= conf.hold

\* After every flush an alert is on the strip unless its text is the one tapped
\* away last since the alert began, or was up for its time; a tap races the frame
\* that changes the text, and takes away what was seen and nothing else.  A text
\* tapped away stays away while the alert says nothing else.
FlushShowsAlert ==
  Flush => /\ live # None /\ strip' = None => live = tapped \/ TimeUp'
           /\ strip' # None => strip' = live /\ live # hidden
HiddenByTap == [][FlushShowsAlert]_vars

\* What the code says of a dismissal, that it lasts until the alert's text changes
\* (status_ui.h:14, status_ui.cpp:848): a text that comes back after another was
\* shown is a changed one, and on the strip.
FlushShowsChanged ==
  Flush /\ live # None /\ strip' = None => live = hidden' \/ TimeUp'
HiddenUntilChanged == [][FlushShowsChanged]_vars

\* An alert that lasts comes to be seen, and keeps the panel lit.
AlertSeen ==
  \A t \in Texts :
    <>[](statusUi /\ live = t /\ t # tapped /\ conf.hold = 0 /\ conf.wake)
      => <>[](strip = t /\ ~asleep)

\* A panel nobody uses goes dark in the end, an open OSD notwithstanding.
SleepsInTheEnd == <>[](~conf.wake \/ ~AlertUp) => <>[](asleep \/ SleepTime = 0)
=============================================================================
