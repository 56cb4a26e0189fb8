----------------------------- MODULE PanelProofs -----------------------------
(***************************************************************************)
(* What a press does, when the panel goes dark and what is on the alert    *)
(* strip, for any times, any size of the clock, any settings and texts and *)
(* any number of presses and frames.                                       *)
(***************************************************************************)
EXTENDS Panel, TLAPS

\* What the steps that concern neither the button nor sleep leave alone.
KeepsPress == UNCHANGED <<stable, consumed, longSent, owed>>
KeepsSleep == UNCHANGED <<asleep, alertWas, conf, idleAge, quiet>>

\* The steps by name.
LEMMA Steps ==
  ASSUME [Next]_vars
  PROVE  \/ \E d \in 0 .. MaxPass : Sample(d)
         \/ Press \/ Release \/ LongPress \/ Alert \/ Idle
         \/ StatusFrame \/ TerminalFrame \/ LinkLost
         \/ NoEdge \/ NotLong \/ NoFrame \/ Flush \/ NoFlush \/ UNCHANGED vars
BY DEF Next, Loop, Frame, Button, Samples

-----------------------------------------------------------------------------
(* A press does one thing                                                  *)

\* While the button is down the two flags say whether its press was used.
PressInv ==
  /\ stable \in BOOLEAN /\ consumed \in BOOLEAN /\ longSent \in BOOLEAN /\ asleep \in BOOLEAN
  /\ stable => ~consumed /\ owed = 0
  /\ ~stable /\ (consumed \/ longSent) => owed = 0
  /\ ~stable /\ ~consumed /\ ~longSent => owed = 1

\* At the start the button is up, and nothing is owed.
LEMMA PressInit == Init => PressInv
BY DEF Init, PressInv

\* A press is owed from its edge to its one effect; a release leaves nothing owed.
LEMMA PressNext == PressInv /\ [Next]_vars => PressInv'
<1>. SUFFICES ASSUME PressInv, [Next]_vars PROVE PressInv'
  OBVIOUS
<1>1. CASE \E d \in 0 .. MaxPass : Sample(d)
  BY <1>1 DEF Sample, PressInv
<1>2. CASE Press
  <2>1. owed = 0 /\ consumed = FALSE
    BY <1>2 DEF Press, PressInv
  <2>2. CASE asleep
    <3>1. owed' = 0 /\ consumed' = TRUE /\ longSent' = FALSE /\ stable' = FALSE /\ asleep' = FALSE
      <4>1. asleep = TRUE /\ asleep' = FALSE
        BY <1>2, <2>2 DEF Press, Activity, PressInv
      <4>2. owed' = 0 /\ longSent' = FALSE /\ stable' = FALSE
        BY <1>2, <2>1, <2>2 DEF Press
      <4>3. consumed' = TRUE
        BY <1>2, <4>1 DEF Press
      <4>. QED  BY <4>1, <4>2, <4>3
    <3>. QED  BY <3>1 DEF PressInv
  <2>3. CASE ~asleep
    <3>1. owed' = 1 /\ consumed' = FALSE /\ longSent' = FALSE /\ stable' = FALSE /\ asleep' = FALSE
      <4>1. asleep = FALSE /\ asleep' = FALSE
        BY <1>2, <2>3 DEF Press, Activity, PressInv
      <4>2. owed' = 1 /\ longSent' = FALSE /\ stable' = FALSE
        BY <1>2, <2>1, <2>3 DEF Press
      <4>3. consumed' = FALSE
        BY <1>2, <2>1, <4>1 DEF Press
      <4>. QED  BY <4>1, <4>2, <4>3
    <3>. QED  BY <3>1 DEF PressInv
  <2>. QED  BY <2>2, <2>3
<1>3. CASE Release
  <2>1. stable' = TRUE /\ consumed' = FALSE /\ UNCHANGED <<longSent, asleep>>
    BY <1>3 DEF Release
  <2>2. owed' = 0
    <3>1. CASE consumed \/ longSent
      BY <1>3, <3>1 DEF Release, PressInv
    <3>2. CASE ~(consumed \/ longSent)
      BY <1>3, <3>2 DEF Release, PressInv
    <3>. QED  BY <3>1, <3>2
  <2>. QED  BY <2>1, <2>2 DEF PressInv
<1>4. CASE LongPress
  <2>1. stable = FALSE /\ longSent = FALSE /\ longSent' = TRUE /\ UNCHANGED <<stable, consumed, asleep>>
    BY <1>4 DEF LongPress, IsLong, PressInv
  <2>2. owed' = 0
    BY <1>4, <2>1 DEF LongPress, PressInv
  <2>. QED  BY <2>1, <2>2 DEF PressInv
<1>5. CASE Alert \/ Idle
  <2>1. KeepsPress /\ asleep' \in BOOLEAN
    BY <1>5 DEF Alert, Idle, KeepsPress, buttonVars
  <2>. QED  BY <2>1 DEF PressInv, KeepsPress
<1>6. CASE StatusFrame \/ TerminalFrame \/ LinkLost
  <2>1. KeepsPress
    BY <1>6 DEF StatusFrame, TerminalFrame, LinkLost, Receive, KeepsPress, buttonVars
  <2>2. asleep' \in BOOLEAN
    BY <1>6 DEF StatusFrame, TerminalFrame, LinkLost, NoteActivity, Activity, sleepVars, PressInv
  <2>. QED  BY <2>1, <2>2 DEF PressInv, KeepsPress
<1>7. CASE NoEdge \/ NotLong \/ NoFrame \/ Flush \/ NoFlush \/ UNCHANGED vars
  <2>1. KeepsPress /\ UNCHANGED asleep
    BY <1>7 DEF NoEdge, NotLong, NoFrame, Flush, NoFlush, vars, buttonVars, sleepVars, KeepsPress
  <2>. QED  BY <2>1 DEF PressInv, KeepsPress
<1>. QED  BY <1>1, <1>2, <1>3, <1>4, <1>5, <1>6, <1>7, Steps

\* So PressInv always holds.
LEMMA PressInvariant == Spec => []PressInv
BY PressInit, PressNext, PTL DEF Spec

\* Once the button is up, every press has woken the panel, or been a short or a
\* long one, and none has been two of these.
THEOREM EachPressOnceTheorem == Spec => []EachPressOnce
<1>1. PressInv => EachPressOnce
  BY DEF PressInv, EachPressOnce
<1>. QED  BY <1>1, PressInvariant, PTL

-----------------------------------------------------------------------------
(* When the panel goes dark                                                *)

\* The idle timer runs ahead of the quiet time only under an alert that holds
\* sleep off, and tick has seen that alert.
SleepInv ==
  /\ idleAge \in Nat /\ quiet \in Nat
  /\ \/ quiet >= SleepTime \/ quiet >= idleAge
     \/ conf.wake /\ alertWas
  /\ pc = "idle" => (alertWas <=> AlertUp)

\* The sleep time is a number, below the size of the clock.
LEMMA SleepTimeNat == SleepTime \in Nat
<1>1. SleepTime \in 0 .. ClockSize - MaxPass - 1
  BY PanelAssumption, Zenon
<1>2. ClockSize \in Nat /\ MaxPass \in Nat
  BY PanelAssumption
<1>. QED  BY <1>1, <1>2

\* Both times start at 0.
LEMMA SleepInit == Init => SleepInv
BY DEF Init, SleepInv

\* An age that wraps is no older than one that does not.
LEMMA OlderBound ==
  ASSUME NEW age \in Nat, NEW d \in 0 .. MaxPass
  PROVE  Older(age, d) \in Nat /\ Older(age, d) <= age + d
<1>1. ClockSize \in Nat /\ ClockSize > 0
  BY PanelAssumption
<1>2. age + d \in Nat
  BY PanelAssumption
<1>. DEFINE n == age + d
            q == n \div ClockSize
<1>3. q \in Nat /\ n % ClockSize \in Nat /\ n = ClockSize * q + (n % ClockSize)
  BY <1>1, <1>2
<1>4. ClockSize * q >= 0
  <2>. HIDE DEF q
  <2>. QED  BY <1>1, <1>3
<1>5. n % ClockSize <= n
  <2>. HIDE DEF q
  <2>. QED  BY <1>1, <1>2, <1>3, <1>4
<1>. QED  BY <1>3, <1>5 DEF Older

\* The end of the alert restarts the timer in the pass that sees it.
LEMMA SleepNext == SleepInv /\ [Next]_vars => SleepInv'
<1>. SUFFICES ASSUME SleepInv, [Next]_vars PROVE SleepInv'
  OBVIOUS
<1>0. SleepTime \in Nat
  BY SleepTimeNat
<1>1. ASSUME NEW d \in 0 .. MaxPass, Sample(d) PROVE SleepInv'
  <2>1. d \in Nat /\ UNCHANGED <<conf, alertWas>> /\ pc' = "edge"
    BY <1>1, PanelAssumption DEF Sample
  <2>2. idleAge' \in Nat /\ idleAge' <= idleAge + d
    BY <1>1, <2>1, OlderBound DEF Sample, SleepInv
  <2>3. quiet' \in Nat /\ (quiet' = SleepTime \/ quiet' = quiet + d)
    BY <1>0, <1>1, <2>1 DEF Sample, SleepInv
  <2>. QED  BY <1>0, <2>1, <2>2, <2>3 DEF SleepInv
<1>2. CASE Press
  BY <1>0, <1>2 DEF Press, Activity, SleepInv
<1>3. CASE Release \/ LongPress
  <2>1. UNCHANGED <<conf, alertWas, quiet>> /\ pc' \in {"long", "alert"}
    BY <1>3 DEF Release, LongPress
  <2>2. idleAge' \in {idleAge, 0}
    <3>1. CASE LongPress
      BY <3>1 DEF LongPress
    <3>2. CASE Release
      BY <3>2 DEF Release, ShortPress
    <3>. QED  BY <1>3, <3>1, <3>2
  <2>. QED  BY <1>0, <2>1, <2>2 DEF SleepInv
<1>4. CASE Alert
  <2>1. pc' = "idle" /\ UNCHANGED <<conf, statusUi, strip>> /\ alertWas' = AlertUp
    BY <1>4 DEF Alert, alertVars, pageVars
  <2>2. alertWas' = AlertUp'
    BY <2>1 DEF AlertUp
  <2>3. CASE conf.wake /\ AlertUp
    <3>1. quiet' = 0 /\ idleAge' \in {idleAge, 0}
      BY <1>4, <2>3 DEF Alert
    <3>2. conf'.wake /\ alertWas'
      BY <2>1, <2>3
    <3>3. idleAge' \in Nat /\ quiet' \in Nat
      BY <3>1 DEF SleepInv
    <3>. QED  BY <2>2, <3>2, <3>3 DEF SleepInv
  <2>4. CASE ~(conf.wake /\ AlertUp)
    <3>1. quiet' = quiet /\ idleAge' \in {idleAge, 0}
      BY <1>4, <2>4 DEF Alert
    <3>2. conf.wake /\ alertWas => idleAge' = 0
      BY <1>4, <2>4 DEF Alert
    <3>. QED  BY <1>0, <2>1, <2>2, <3>1, <3>2 DEF SleepInv
  <2>. QED  BY <2>3, <2>4
<1>5. CASE Idle
  BY <1>5 DEF Idle, SleepInv
<1>6. CASE StatusFrame \/ TerminalFrame \/ LinkLost
  <2>1. UNCHANGED <<conf, alertWas>> /\ pc' \in {"ingest", "flush"}
    BY <1>6 DEF StatusFrame, TerminalFrame, LinkLost, Receive
  <2>2. (idleAge' = 0 /\ quiet' = 0) \/ UNCHANGED <<idleAge, quiet>>
    BY <1>6 DEF StatusFrame, TerminalFrame, LinkLost, NoteActivity, Activity, sleepVars
  <2>. QED  BY <1>0, <2>1, <2>2 DEF SleepInv
<1>7. CASE NoEdge \/ NotLong \/ NoFrame \/ Flush \/ NoFlush
  <2>1. KeepsSleep /\ pc' # "idle"
    BY <1>7 DEF NoEdge, NotLong, NoFrame, Flush, NoFlush, sleepVars, KeepsSleep
  <2>. QED  BY <2>1 DEF SleepInv, KeepsSleep
<1>8. CASE UNCHANGED vars
  BY <1>8 DEF vars, sleepVars, alertVars, pageVars, SleepInv, AlertUp
<1>. QED  BY <1>1, <1>2, <1>3, <1>4, <1>5, <1>6, <1>7, <1>8, Steps

\* Idle is the one step that puts the panel to sleep.
LEMMA OnlyQuiet == SleepInv /\ [Next]_vars => [FallsAsleep]_vars
<1>. SUFFICES ASSUME SleepInv, [Next]_vars, ~asleep, asleep' PROVE quiet' >= SleepTime
  BY DEF FallsAsleep
<1>0. SleepTime \in Nat
  BY SleepTimeNat
<1>1. CASE Idle
  <2>1. quiet' = quiet /\ idleAge >= SleepTime /\ ~(conf.wake /\ AlertUp) /\ pc = "idle"
    BY <1>1 DEF Idle
  <2>. QED  BY <1>0, <2>1 DEF SleepInv
<1>2. CASE ~Idle
  <2>1. asleep' = asleep \/ asleep' = FALSE \/ Alert
    <3>1. CASE Press \/ Release \/ LongPress
      BY <3>1 DEF Press, Release, LongPress, Activity
    <3>2. CASE StatusFrame \/ TerminalFrame \/ LinkLost
      BY <3>2 DEF StatusFrame, TerminalFrame, LinkLost, NoteActivity, Activity, sleepVars
    <3>3. CASE NoEdge \/ NotLong \/ NoFrame \/ Flush \/ NoFlush \/ UNCHANGED vars
      BY <3>3 DEF NoEdge, NotLong, NoFrame, Flush, NoFlush, vars, sleepVars
    <3>4. CASE \E d \in 0 .. MaxPass : Sample(d)
      BY <3>4 DEF Sample
    <3>. QED  BY <1>2, <3>1, <3>2, <3>3, <3>4, Steps
  <2>2. Alert => (asleep' => asleep)
    BY DEF Alert
  <2>. QED  BY <2>1, <2>2
<1>. QED  BY <1>1, <1>2

\* The panel goes dark only after a sleep time without presses, input at the host
\* or an alert that wakes.
THEOREM SleepsOnlyQuietTheorem == Spec => SleepsOnlyQuiet
<1>1. SleepInv /\ [Next]_vars => [FallsAsleep]_vars
  BY OnlyQuiet
<1>. QED  BY <1>1, SleepInit, SleepNext, PTL DEF Spec, SleepsOnlyQuiet


-----------------------------------------------------------------------------
(* Types                                                                   *)

Half == ClockSize \div 2
Turns == (- Half) .. (Half - 1) \union {Unset}

Flags ==
  /\ raw \in BOOLEAN /\ stable \in BOOLEAN /\ longSent \in BOOLEAN /\ consumed \in BOOLEAN
  /\ open \in BOOLEAN /\ asleep \in BOOLEAN /\ alertWas \in BOOLEAN
  /\ statusUi \in BOOLEAN /\ dirty \in BOOLEAN

Times ==
  /\ changeAge \in Ages /\ downAge \in Ages /\ idleAge \in Ages
  /\ quiet \in Nat /\ flips \in Nat /\ frames \in Nat /\ owed \in Int
  /\ item \in 0 .. ITEM_COUNT - 1

AlertTypes ==
  /\ latch \in Texts \union {None} /\ ack \in Texts \union {None} /\ strip \in Texts \union {None}
  /\ hidden \in Texts \union {None} /\ said \in Texts \union {None}
  /\ until \in Turns /\ tapped \in Texts \union {None} /\ shownFor \in Nat

Types ==
  /\ pc \in {"wait", "edge", "long", "alert", "idle", "ingest", "flush"} /\ conf \in Confs
  /\ Flags /\ Times /\ live \in Texts \union {None} /\ AlertTypes

\* What the constants are.
LEMMA ClockNat ==
  /\ ClockSize \in Nat /\ MaxPass \in Nat /\ Half \in Nat /\ ClockSize = 2 * Half
  /\ MaxPass < ClockSize /\ SleepTime \in Nat
<1>1. ClockSize \in Nat /\ ClockSize % 2 = 0 /\ MaxPass \in Nat
  BY PanelAssumption
<1>2. SleepTime \in 0 .. ClockSize - MaxPass - 1
  BY PanelAssumption, Zenon
<1>3. Half \in Nat /\ ClockSize = 2 * Half
  BY <1>1 DEF Half
<1>. QED  BY <1>1, <1>2, <1>3

\* The hold, and the alert's clock.
LEMMA HoldNat ==
  ASSUME NEW c \in Confs
  PROVE  c.hold \in Nat /\ c.hold + MaxPass < Half
<1>1. c \in Conf /\ c.hold + MaxPass < Half
  BY PanelAssumption DEF Half
<1>. QED  BY <1>1 DEF Conf

\* An age is less than a turn of the clock.
LEMMA OlderAge ==
  ASSUME NEW age \in Ages, NEW d \in 0 .. MaxPass
  PROVE  Older(age, d) \in Ages /\ 0 \in Ages
<1>1. age + d \in Nat /\ ClockSize \in Nat /\ ClockSize > 0
  BY ClockNat DEF Ages
<1>2. (age + d) % ClockSize \in 0 .. ClockSize - 1
  BY <1>1
<1>. QED  BY <1>1, <1>2 DEF Older, Ages

\* The alert's difference stays within half a turn, and runs on until it wraps.
LEMMA LaterTurn ==
  ASSUME NEW t \in Turns, NEW d \in 0 .. MaxPass
  PROVE  /\ Later(t, d) \in Turns
         /\ t = Unset <=> Later(t, d) = Unset
         /\ t # Unset /\ t + d < Half => Later(t, d) = t + d
<1>1. /\ ClockSize \in Nat /\ Half \in Nat /\ ClockSize = 2 * Half /\ MaxPass < ClockSize
      /\ d \in Nat /\ d < ClockSize /\ Unset = ClockSize
  BY ClockNat DEF Unset
<1>2. CASE t = Unset
  BY <1>1, <1>2 DEF Later, Turns, Half
<1>3. CASE t # Unset
  <2>1. t \in Int /\ - Half <= t /\ t < Half
    BY <1>1, <1>3 DEF Turns
  <2>2. CASE t + d < Half
    <3>1. Later(t, d) = t + d
      BY <1>3, <2>2 DEF Later, Half
    <3>2. t + d \in (- Half) .. (Half - 1) /\ t + d # Unset
      BY <1>1, <2>1, <2>2
    <3>. QED  BY <1>3, <3>1, <3>2 DEF Turns
  <2>3. CASE ~(t + d < Half)
    <3>1. Later(t, d) = t + d - ClockSize
      BY <1>3, <2>3 DEF Later, Half
    <3>2. t + d - ClockSize \in (- Half) .. (Half - 1) /\ t + d - ClockSize # Unset
      BY <1>1, <2>1, <2>3
    <3>. QED  BY <1>3, <2>3, <3>1, <3>2 DEF Turns
  <2>. QED  BY <2>2, <2>3
<1>. QED  BY <1>2, <1>3

\* At the start.
LEMMA TypesInit == Init => Types
<1>. SUFFICES ASSUME Init PROVE Types
  OBVIOUS
<1>1. ClockSize > 0 /\ ClockSize \in Nat /\ Unset \in Turns
  BY ClockNat DEF Turns
<1>2. Flags
  BY DEF Init, Flags
<1>3. Times
  BY <1>1 DEF Init, Times, Ages, ITEM_COUNT
<1>4. AlertTypes
  BY <1>1 DEF Init, AlertTypes
<1>. QED  BY <1>2, <1>3, <1>4 DEF Init, Types

\* The button.
LEMMA ButtonTypes ==
  ASSUME Types, (\E d \in 0 .. MaxPass : Sample(d)) \/ Press \/ Release \/ LongPress \/ NoEdge \/ NotLong
  PROVE  Types'
<1>0. 0 \in Ages
  BY ClockNat DEF Ages
<1>1. ASSUME NEW d \in 0 .. MaxPass, Sample(d) PROVE Types'
  <2>1. d \in Nat /\ SleepTime \in Nat
    BY ClockNat
  <2>2. changeAge' \in Ages /\ downAge' \in Ages /\ idleAge' \in Ages
    BY <1>0, <1>1, OlderAge DEF Sample, Types, Times
  <2>3. quiet' \in Nat /\ flips' \in Nat /\ shownFor' \in Nat
    BY <1>1, <2>1 DEF Sample, Types, Times, AlertTypes
  <2>4. until' \in Turns
    BY <1>1, LaterTurn DEF Sample, Types, AlertTypes
  <2>5. Flags'
    BY <1>1 DEF Sample, Types, Flags, osdVars, pageVars
  <2>6. Times'
    BY <1>1, <2>2, <2>3 DEF Sample, Types, Times, osdVars
  <2>7. AlertTypes'
    BY <1>1, <2>3, <2>4 DEF Sample, Types, AlertTypes
  <2>. QED  BY <1>1, <2>5, <2>6, <2>7 DEF Sample, Types, pageVars
<1>2. CASE Press
  <2>1. consumed' \in BOOLEAN
    BY <1>2 DEF Press, Types, Flags
  <2>2. Flags'
    BY <1>2, <2>1 DEF Press, Activity, Types, Flags, osdVars, pageVars
  <2>3. Times'
    BY <1>0, <1>2 DEF Press, Activity, Types, Times, osdVars
  <2>4. AlertTypes'
    BY <1>2 DEF Press, Types, AlertTypes, alertVars
  <2>. QED  BY <1>2, <2>2, <2>3, <2>4 DEF Press, Types, pageVars
<1>3. CASE Release
  <2>1. CASE consumed \/ longSent
    <3>1. UNCHANGED <<owed, osdVars, idleAge, alertVars, pageVars>>
      BY <1>3, <2>1 DEF Release
    <3>2. Flags'
      BY <1>3, <3>1 DEF Release, Types, Flags, osdVars, pageVars
    <3>3. Times'
      BY <1>3, <3>1 DEF Release, Types, Times, osdVars
    <3>4. AlertTypes'
      BY <3>1 DEF Types, AlertTypes, alertVars
    <3>. QED  BY <1>3, <3>1, <3>2, <3>3, <3>4 DEF Release, Types, pageVars
  <2>2. CASE ~(consumed \/ longSent)
    <3>1. owed' = owed - 1 /\ ShortPress
      BY <1>3, <2>2 DEF Release
    <3>2. /\ open' \in BOOLEAN /\ item' \in 0 .. ITEM_COUNT - 1 /\ idleAge' \in Ages
          /\ statusUi' = statusUi /\ dirty' \in BOOLEAN /\ live' = live
      <4>1. open' \in BOOLEAN
        BY <3>1 DEF ShortPress, Types, Flags, osdVars
      <4>2. item' \in 0 .. ITEM_COUNT - 1
        BY <3>1 DEF ShortPress, Types, Times, ITEM_COUNT, osdVars
      <4>3. idleAge' \in Ages
        BY <1>0, <3>1 DEF ShortPress, Types, Times
      <4>4. statusUi' = statusUi /\ dirty' \in BOOLEAN /\ live' = live
        BY <3>1 DEF ShortPress, Dismiss, Types, Flags, pageVars
      <4>. QED  BY <4>1, <4>2, <4>3, <4>4
    <3>3. AlertTypes'
      <4>1. CASE Dismiss /\ AlertUp
        BY <4>1 DEF Dismiss, AlertUp, Types, AlertTypes
      <4>2. CASE UNCHANGED alertVars
        BY <4>2 DEF Types, AlertTypes, alertVars
      <4>. QED  BY <3>1, <4>1, <4>2 DEF ShortPress
    <3>4. Flags'
      BY <1>3, <3>2 DEF Release, Types, Flags
    <3>5. Times'
      BY <1>3, <3>1, <3>2 DEF Release, Types, Times
    <3>. QED  BY <1>3, <3>2, <3>3, <3>4, <3>5 DEF Release, Types
  <2>. QED  BY <2>1, <2>2
<1>4. CASE LongPress
  <2>1. owed' \in Int /\ idleAge' \in Ages
    BY <1>0, <1>4 DEF LongPress, Types, Times
  <2>2. Flags' /\ Times' /\ AlertTypes'
    BY <1>4, <2>1 DEF LongPress, Types, Flags, Times, AlertTypes, osdVars, alertVars, pageVars
  <2>. QED  BY <1>4, <2>2 DEF LongPress, Types, pageVars
<1>5. CASE NoEdge \/ NotLong
  <2>1. Flags' /\ Times' /\ AlertTypes'
    BY <1>5 DEF NoEdge, NotLong, Types, Flags, Times, AlertTypes, buttonVars, osdVars, sleepVars,
                alertVars, pageVars
  <2>. QED  BY <1>5, <2>1 DEF NoEdge, NotLong, Types, pageVars
<1>. QED  BY <1>1, <1>2, <1>3, <1>4, <1>5


\* The page's alert, when statusGuiReset forgets it or a flush resolves it.
LEMMA ResolveTypes ==
  ASSUME Types, GuiReset \/ Flush
  PROVE  AlertTypes'
<1>0. Unset \in Turns /\ ClockSize \in Nat /\ Half \in Nat
  BY ClockNat DEF Turns
<1>1. CASE GuiReset
  BY <1>0, <1>1 DEF GuiReset, AlertTypes
<1>2. CASE Flush
  <2>1. conf.hold \in Nat /\ conf.hold < Half
    <3>1. conf \in Confs
      BY DEF Types
    <3>. QED  BY <1>0, <3>1, HoldNat, ClockNat
  <2>2. - conf.hold \in Turns
    BY <1>0, <2>1 DEF Turns
  <2>3. hidden' \in Texts \union {None} /\ said' \in Texts \union {None} /\ shownFor' \in Nat
    BY <1>2 DEF Flush, Types, AlertTypes, alertVars
  <2>4. CASE Resolve
    <3>1. CASE live = None
      BY <1>0, <2>3, <2>4, <3>1 DEF Resolve, Types, AlertTypes
    <3>2. CASE live # None
      <4>1. latch' \in Texts \union {None} /\ strip' \in Texts \union {None} /\ UNCHANGED <<ack, tapped>>
        BY <2>4, <3>2 DEF Resolve, Strip, Types
      <4>2. until' \in Turns
        BY <1>0, <2>2, <2>4, <3>2 DEF Resolve, Types, AlertTypes
      <4>. QED  BY <2>3, <4>1, <4>2 DEF Types, AlertTypes
    <3>. QED  BY <3>1, <3>2
  <2>5. CASE UNCHANGED alertVars
    BY <2>5 DEF Types, AlertTypes, alertVars
  <2>. QED  BY <1>2, <2>4, <2>5 DEF Flush
<1>. QED  BY <1>1, <1>2

\* tick, frames and the flush.
LEMMA LoopTypes ==
  ASSUME Types,
         Alert \/ Idle \/ StatusFrame \/ TerminalFrame \/ LinkLost \/ NoFrame \/ Flush \/ NoFlush
  PROVE  Types'
<1>0. 0 \in Ages
  BY ClockNat DEF Ages
<1>1. CASE Alert
  <2>1. asleep' \in BOOLEAN /\ alertWas' \in BOOLEAN
    BY <1>1 DEF Alert, AlertUp, Types, Flags
  <2>2. idleAge' \in Ages /\ quiet' \in Nat
    BY <1>0, <1>1 DEF Alert, Types, Times
  <2>3. Flags'
    BY <1>1, <2>1 DEF Alert, Types, Flags, buttonVars, osdVars, pageVars
  <2>4. Times' /\ AlertTypes'
    BY <1>1, <2>2 DEF Alert, Types, Times, AlertTypes, buttonVars, osdVars, alertVars
  <2>. QED  BY <1>1, <2>3, <2>4 DEF Alert, Types, pageVars
<1>2. CASE Idle
  <2>1. open' \in BOOLEAN /\ asleep' \in BOOLEAN
    BY <1>2 DEF Idle, Types, Flags
  <2>2. Flags'
    BY <1>2, <2>1 DEF Idle, Types, Flags, buttonVars, pageVars
  <2>3. Times' /\ AlertTypes'
    BY <1>2 DEF Idle, Types, Times, AlertTypes, buttonVars, alertVars
  <2>. QED  BY <1>2, <2>2, <2>3 DEF Idle, Types, pageVars
<1>3. ASSUME NoteActivity PROVE asleep' \in BOOLEAN /\ idleAge' \in Ages /\ quiet' \in Nat
  <2>1. asleep' \in BOOLEAN
    BY <1>3 DEF NoteActivity, Activity, Types, Flags, sleepVars
  <2>2. idleAge' \in Ages /\ quiet' \in Nat
    BY <1>0, <1>3 DEF NoteActivity, Activity, Types, Times, sleepVars
  <2>. QED  BY <2>1, <2>2
<1>4. CASE StatusFrame
  <2>1. dirty' \in BOOLEAN /\ statusUi' \in BOOLEAN /\ live' \in Texts \union {None}
    BY <1>4 DEF StatusFrame, Types, Flags
  <2>2. Flags'
    BY <1>3, <1>4, <2>1 DEF StatusFrame, Receive, Types, Flags, buttonVars, osdVars
  <2>3. Times'
    BY <1>3, <1>4 DEF StatusFrame, Receive, Types, Times, buttonVars, osdVars
  <2>4. AlertTypes'
    BY <1>4 DEF StatusFrame, Types, AlertTypes, alertVars
  <2>. QED  BY <1>4, <2>1, <2>2, <2>3, <2>4 DEF StatusFrame, Receive, Types
<1>5. CASE TerminalFrame
  <2>1. Flags'
    BY <1>3, <1>5 DEF TerminalFrame, Receive, Types, Flags, buttonVars, osdVars
  <2>2. Times'
    BY <1>3, <1>5 DEF TerminalFrame, Receive, Types, Times, buttonVars, osdVars
  <2>3. AlertTypes'
    <3>1. CASE GuiReset
      BY <3>1, ResolveTypes
    <3>2. CASE UNCHANGED alertVars
      BY <3>2 DEF Types, AlertTypes, alertVars
    <3>. QED  BY <1>5, <3>1, <3>2 DEF TerminalFrame
  <2>. QED  BY <1>5, <2>1, <2>2, <2>3 DEF TerminalFrame, Receive, Types
<1>6. CASE LinkLost
  <2>1. Flags'
    BY <1>6 DEF LinkLost, Receive, Types, Flags, buttonVars, osdVars, sleepVars
  <2>2. Times'
    BY <1>6 DEF LinkLost, Receive, Types, Times, buttonVars, osdVars, sleepVars
  <2>3. AlertTypes'
    BY <1>6, ResolveTypes DEF LinkLost
  <2>. QED  BY <1>6, <2>1, <2>2, <2>3 DEF LinkLost, Receive, Types
<1>7. CASE NoFrame \/ NoFlush
  <2>1. Flags' /\ Times' /\ AlertTypes'
    BY <1>7 DEF NoFrame, NoFlush, Types, Flags, Times, AlertTypes, buttonVars, osdVars,
                sleepVars, alertVars, pageVars
  <2>. QED  BY <1>7, <2>1 DEF NoFrame, NoFlush, Types, pageVars
<1>8. CASE Flush
  <2>1. Flags' /\ Times'
    BY <1>8 DEF Flush, Types, Flags, Times, buttonVars, osdVars, sleepVars
  <2>2. AlertTypes'
    BY <1>8, ResolveTypes
  <2>. QED  BY <1>8, <2>1, <2>2 DEF Flush, Types
<1>. QED  BY <1>1, <1>2, <1>4, <1>5, <1>6, <1>7, <1>8

\* So every step does.
LEMMA TypesNext == Types /\ [Next]_vars => Types'
<1>. SUFFICES ASSUME Types, [Next]_vars PROVE Types'
  OBVIOUS
<1>1. CASE UNCHANGED vars
  <2>1. Flags' /\ Times' /\ AlertTypes'
    BY <1>1 DEF vars, Types, Flags, Times, AlertTypes, buttonVars, osdVars, sleepVars, alertVars,
                pageVars
  <2>. QED  BY <1>1, <2>1 DEF vars, Types, pageVars
<1>. QED  BY <1>1, Steps, ButtonTypes, LoopTypes

\* Every variable keeps its type, the ages and the alert's signed difference over
\* any number of turns of the clock; the menu stays on its rows.
THEOREM TypeTheorem == Spec => []TypeOK
<1>1. Types => TypeOK
  <2>. SUFFICES ASSUME Types PROVE TypeOK
    OBVIOUS
  <2>1. \A b \in {raw, stable, longSent, consumed, open, asleep, alertWas, statusUi, dirty} :
          b \in BOOLEAN
    BY DEF Types, Flags
  <2>2. \A a \in {changeAge, downAge, idleAge} : a \in Ages
    BY DEF Types, Times
  <2>3. \A t \in {live, latch, ack, strip, tapped, hidden, said} : t \in Texts \union {None}
    BY DEF Types, AlertTypes
  <2>4. \A n \in {quiet, shownFor, flips, frames} : n \in Nat
    BY DEF Types, Times, AlertTypes
  <2>5. item \in 0 .. ITEM_COUNT - 1 /\ owed \in Int
    BY DEF Types, Times
  <2>6. until \in (- (ClockSize \div 2)) .. (ClockSize \div 2 - 1) \union {Unset}
    BY DEF Types, AlertTypes, Turns, Half
  <2>. QED  BY <2>1, <2>2, <2>3, <2>4, <2>5, <2>6 DEF Types, TypeOK
<1>. QED  BY <1>1, TypesInit, TypesNext, PTL DEF Spec


-----------------------------------------------------------------------------
(* What is on the strip                                                    *)

\* What the strip, the latch and their history have to do with each other.
Remembered ==
  /\ said = latch /\ strip \in {None, latch} /\ hidden \in {None, ack}
  /\ ack = tapped
  /\ until # Unset => conf.hold > 0

\* A page without its mark was resolved.
Resolved ==
  statusUi /\ ~dirty => latch = live /\ (strip # None => ack # strip)

\* An alert that is not tapped away is on the strip, and its time there is no less
\* than what has run of its hold; or it was there for all of it.
Held ==
  latch # None /\ ack # latch =>
    \/ conf.hold > 0 /\ shownFor >= conf.hold
    \/ strip = latch /\ (until # Unset => shownFor >= conf.hold + until)

AlertInv == Types /\ Remembered /\ Resolved /\ Held

\* No alert at the start, nor after statusGuiReset.
LEMMA NoAlert ==
  ASSUME GuiReset, ~statusUi'
  PROVE  Remembered' /\ Resolved' /\ Held'
BY DEF GuiReset, Remembered, Resolved, Held

\* As time passes the strip's time keeps up with the alert's.
LEMMA HeldSample ==
  ASSUME AlertInv, NEW d \in 0 .. MaxPass, Sample(d)
  PROVE  Remembered' /\ Resolved' /\ Held'
<1>1. /\ until \in Turns /\ shownFor \in Nat /\ conf \in Confs /\ d \in Nat /\ d <= MaxPass
      /\ ClockSize \in Nat /\ MaxPass \in Nat /\ Half \in Nat
  BY ClockNat DEF AlertInv, Types, AlertTypes
<1>2. conf.hold \in Nat /\ conf.hold + MaxPass < Half
  BY <1>1, HoldNat
<1>3. /\ UNCHANGED <<conf, latch, ack, strip, tapped, hidden, said, statusUi, dirty, live>>
      /\ until' = Later(until, d)
      /\ shownFor' = IF strip = None \/ shownFor >= conf.hold THEN shownFor ELSE shownFor + d
  BY DEF Sample, pageVars
<1>4. until = Unset <=> until' = Unset
  BY <1>1, <1>3, LaterTurn
<1>5. Remembered' /\ Resolved'
  BY <1>3, <1>4 DEF AlertInv, Remembered, Resolved
<1>6. ASSUME latch # None, ack # latch, ~(conf.hold > 0 /\ shownFor' >= conf.hold)
      PROVE  strip = latch /\ (until' # Unset => shownFor' >= conf.hold + until')
  <2>1. ~(conf.hold > 0 /\ shownFor >= conf.hold)
    BY <1>1, <1>2, <1>3, <1>6
  <2>2. strip = latch /\ (until # Unset => shownFor >= conf.hold + until)
    BY <1>6, <2>1 DEF AlertInv, Held
  <2>3. ASSUME until' # Unset PROVE shownFor' >= conf.hold + until'
    <3>1. until # Unset /\ until \in Int /\ conf.hold > 0
      BY <1>1, <1>4, <2>3 DEF Turns, AlertInv, Remembered
    <3>2. shownFor < conf.hold /\ shownFor >= conf.hold + until
      BY <1>1, <1>2, <2>1, <2>2, <3>1
    <3>3. until + d < Half
      BY <1>1, <1>2, <3>1, <3>2
    <3>4. until' = until + d
      BY <1>1, <1>3, <3>1, <3>3, LaterTurn
    <3>5. shownFor' = shownFor + d
      BY <1>1, <1>2, <1>3, <1>6, <2>2, <3>2
    <3>. QED  BY <1>1, <1>2, <3>1, <3>2, <3>4, <3>5
  <2>. QED  BY <2>2, <2>3
<1>7. Held'
  BY <1>3, <1>6 DEF Held
<1>. QED  BY <1>5, <1>7

\* A tap takes away what is on the strip, and the next flush is due.
LEMMA HeldRelease ==
  ASSUME AlertInv, Release
  PROVE  Remembered' /\ Resolved' /\ Held'
<1>1. conf' = conf
  BY DEF Release
<1>2. CASE UNCHANGED <<alertVars, pageVars>>
  BY <1>1, <1>2 DEF alertVars, pageVars, AlertInv, Remembered, Resolved, Held
<1>3. CASE AlertUp /\ Dismiss
  <2>1. /\ strip = latch /\ ack' = strip /\ hidden' = strip /\ tapped' = strip
        /\ dirty' = TRUE /\ UNCHANGED <<live, latch, until, strip, said, shownFor>>
    BY <1>3 DEF AlertUp, Dismiss, AlertInv, Remembered
  <2>. QED  BY <1>1, <2>1 DEF AlertInv, Remembered, Resolved, Held
<1>. QED  BY <1>2, <1>3 DEF Release, ShortPress

\* A flush resolves what the alert says, and starts the time of a new text.
LEMMA HeldFlush ==
  ASSUME AlertInv, Flush
  PROVE  Remembered' /\ Resolved' /\ Held' /\ FlushShowsAlert
<1>1. /\ until \in Turns /\ shownFor \in Nat /\ conf.hold \in Nat /\ UNCHANGED <<conf, statusUi, live>>
      /\ statusUi /\ dirty' = FALSE
  <2>1. conf \in Confs
    BY DEF AlertInv, Types
  <2>. QED  BY <2>1, HoldNat DEF AlertInv, Types, AlertTypes, Flush
<1>2. CASE dirty \/ NeedsAlertTick
  <2>1. /\ Resolve
        /\ hidden' = (IF live = hidden THEN hidden ELSE None)
        /\ said' = live /\ shownFor' = (IF live = said THEN shownFor ELSE 0)
    BY <1>2 DEF Flush
  <2>2. CASE live = None
    <3>1. /\ latch' = None /\ ack' = None /\ until' = Unset /\ strip' = None /\ tapped' = None
          /\ hidden' = None
      BY <2>1, <2>2 DEF Resolve
    <3>. QED  BY <1>1, <2>1, <2>2, <3>1 DEF Remembered, Resolved, Held, FlushShowsAlert, TimeUp
  <2>3. CASE live # None /\ ack = live
    <3>1. /\ latch' = live /\ strip' = None /\ ack' = ack /\ tapped' = tapped
          /\ until' = IF latch = live THEN until ELSE IF conf.hold > 0 THEN - conf.hold ELSE Unset
      BY <2>1, <2>3 DEF Resolve, Strip
    <3>2. ack = tapped /\ hidden' \in {None, ack'} /\ (until' # Unset => conf'.hold > 0)
      BY <1>1, <2>1, <2>3, <3>1 DEF AlertInv, Remembered
    <3>. QED  BY <1>1, <2>1, <2>3, <3>1, <3>2 DEF AlertInv, Remembered, Resolved, Held, FlushShowsAlert, TimeUp
  <2>4. CASE live # None /\ ack # live /\ latch = live
    <3>1. latch' = live /\ until' = until /\ strip' = Strip(until) /\ ack' = ack /\ tapped' = tapped
      BY <2>1, <2>4 DEF Resolve
    <3>2. shownFor' = shownFor /\ hidden' = None
      BY <2>1, <2>4 DEF AlertInv, Remembered
    <3>3. Held
      BY DEF AlertInv
    <3>4. \/ conf.hold > 0 /\ shownFor >= conf.hold
          \/ until # Unset => shownFor >= conf.hold + until
      BY <2>4, <3>3 DEF Held
    <3>5. until # Unset => until \in Int /\ conf.hold > 0
      BY <1>1, ClockNat DEF Turns, AlertInv, Remembered
    <3>6. CASE conf.hold > 0 /\ until # Unset /\ until >= 0
      <4>1. strip' = None
        BY <3>1, <3>6 DEF Strip
      <4>2. shownFor >= conf.hold
        BY <1>1, <3>4, <3>5, <3>6
      <4>. QED  BY <1>1, <2>1, <2>4, <3>1, <3>2, <3>6, <4>1, <4>2
                DEF AlertInv, Remembered, Resolved, Held, FlushShowsAlert, TimeUp
    <3>7. CASE ~(conf.hold > 0 /\ until # Unset /\ until >= 0)
      <4>1. strip' = live
        BY <2>4, <3>1, <3>7 DEF Strip
      <4>2. live # hidden
        BY <2>4 DEF AlertInv, Remembered
      <4>. QED  BY <1>1, <2>1, <2>4, <3>1, <3>2, <3>4, <4>1, <4>2
                DEF AlertInv, Remembered, Resolved, Held, FlushShowsAlert, TimeUp
    <3>. QED  BY <3>6, <3>7
  <2>5. CASE live # None /\ ack # live /\ latch # live
    <3>1. /\ latch' = live /\ strip' = Strip(until') /\ ack' = ack /\ tapped' = tapped
          /\ until' = IF conf.hold > 0 THEN - conf.hold ELSE Unset
      BY <2>1, <2>5 DEF Resolve
    <3>2. shownFor' = 0 /\ hidden' = None /\ live # hidden
      BY <2>1, <2>5 DEF AlertInv, Remembered
    <3>3. strip' = live
      BY <1>1, <2>5, <3>1 DEF Strip
    <3>4. until' # Unset => conf.hold > 0 /\ shownFor' >= conf.hold + until'
      BY <1>1, <3>1, <3>2
    <3>. QED  BY <1>1, <2>1, <2>5, <3>1, <3>2, <3>3, <3>4
              DEF AlertInv, Remembered, Resolved, Held, FlushShowsAlert, TimeUp
  <2>. QED  BY <2>2, <2>3, <2>4, <2>5
<1>3. CASE ~(dirty \/ NeedsAlertTick)
  <2>1. UNCHANGED alertVars /\ ~dirty
    BY <1>3 DEF Flush
  <2>2. latch = live /\ (strip # None => ack # strip)
    BY <1>1, <2>1 DEF AlertInv, Resolved
  <2>3. Remembered' /\ Resolved' /\ Held'
    BY <1>1, <2>1, <2>2 DEF alertVars, AlertInv, Remembered, Resolved, Held
  <2>4. live # None /\ strip = None => live = tapped \/ (conf.hold > 0 /\ shownFor >= conf.hold)
    BY <2>2 DEF AlertInv, Remembered, Held
  <2>5. strip # None => strip = live /\ live # hidden
    BY <2>2 DEF AlertInv, Remembered
  <2>. QED  BY <1>1, <2>1, <2>3, <2>4, <2>5 DEF alertVars, FlushShowsAlert, TimeUp
<1>. QED  BY <1>2, <1>3

\* Every other step leaves the strip alone, or makes the page dirty.
LEMMA AlertNext == AlertInv /\ [Next]_vars => AlertInv'
<1>. SUFFICES ASSUME AlertInv, [Next]_vars PROVE Remembered' /\ Resolved' /\ Held'
  BY TypesNext DEF AlertInv
<1>1. CASE UNCHANGED <<conf, alertVars, pageVars>>
  BY <1>1 DEF alertVars, pageVars, AlertInv, Remembered, Resolved, Held
<1>2. CASE Press \/ LongPress \/ Alert \/ Idle \/ NoEdge \/ NotLong \/ NoFrame \/ NoFlush \/ UNCHANGED vars
  BY <1>1, <1>2 DEF Press, LongPress, Alert, Idle, NoEdge, NotLong, NoFrame, NoFlush, vars
<1>3. CASE StatusFrame
  <2>1. UNCHANGED <<conf, alertVars>> /\ (dirty' \/ (statusUi /\ live' = live /\ dirty' = dirty))
    BY <1>3 DEF StatusFrame, Receive, AlertInv, Types, Flags
  <2>. QED  BY <2>1 DEF alertVars, AlertInv, Remembered, Resolved, Held
<1>4. CASE TerminalFrame
  <2>1. conf' = conf /\ ~statusUi' /\ (GuiReset \/ UNCHANGED alertVars)
    BY <1>4 DEF TerminalFrame, Receive
  <2>. QED  BY <2>1, NoAlert DEF alertVars, AlertInv, Remembered, Resolved, Held
<1>5. CASE LinkLost
  BY <1>5, NoAlert DEF LinkLost
<1>. QED  BY <1>2, <1>3, <1>4, <1>5, HeldSample, HeldRelease, HeldFlush, Steps

\* After every flush an alert is on the strip unless its text was the one tapped
\* away last or was up for its time, and what is on the strip is what the alert says.
THEOREM AlertTheorem == Spec => HiddenByTap
<1>1. Init => AlertInv
  BY TypesInit DEF Init, AlertInv, Remembered, Resolved, Held
<1>2. AlertInv /\ [Next]_vars => [FlushShowsAlert]_vars
  <2>. SUFFICES ASSUME AlertInv, Flush PROVE FlushShowsAlert
    BY DEF FlushShowsAlert
  <2>. QED  BY HeldFlush
<1>. QED  BY <1>1, <1>2, AlertNext, PTL DEF Spec, HiddenByTap

=============================================================================
