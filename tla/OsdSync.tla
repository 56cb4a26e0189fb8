-------------------------------- MODULE OsdSync --------------------------------
(***************************************************************************)
(* Brightness and sleep, the two settings the panel's button and the       *)
(* user's editor both change.  Each has four copies: the panel's level,    *)
(* its record in NVS, the daemon's configuration and buddy.config.  The    *)
(* button's choice travels up as an event, the file's down as the style of *)
(* a frame, which the panel keeps and compares on every pass of its loop.  *)
(*                                                                         *)
(* Level 0 is automatic brightness, or never to sleep.  A file may hold a  *)
(* brightness in percent, a sleep in seconds, or a brightness together     *)
(* with auto_brightness.  send_frame is taken as SerialLink has it.        *)
(***************************************************************************)
EXTENDS Integers, Sequences

CONSTANTS
  Steps,        \* BRIGHT_STEPS and SLEEP_STEPS (6 and 6)
  Default,      \* the levels of a panel never set (4 and 4)
  SLEEP_SECS,   \* seconds of each sleep level
  Edits,        \* what an editor leaves in [display], see Display
  MaxPresses,   \* bound: long presses
  MaxFaults     \* bound: edits, failures, restarts and toggles

Knobs == {"bright", "sleep"}
Level(k) == 0 .. Steps[k]
Display == [bright : Nat, auto : BOOLEAN, sleep : Nat]
None == -1

ASSUME OsdAssumption ==
  /\ Steps \in [Knobs -> Nat \ {0}]
  /\ Default \in [Knobs -> Nat] /\ \A k \in Knobs : Default[k] \in 1 .. Steps[k]
  /\ SLEEP_SECS \in [Level("sleep") -> Nat]
  /\ Edits \subseteq Display
  /\ MaxPresses \in Nat /\ MaxFaults \in Nat

VARIABLES
  \* the panel
  level,    \* g_bright_step (0 while g_auto_bright) and g_sleep_level
  hostVal,  \* g_host_bright and g_host_sleep, None before the first (0xFF)
  nvs,      \* the record persistOsd writes, None before the first
  style,    \* the style last received, or NoStyle
  hold,     \* millis() < g_ignore_host_osd_until
  \* the wire
  toHost,   \* events on their way: <<knob, level>>
  \* the daemon
  pc,       \* where its loop is
  mode,     \* "status" or "terminal"
  cfg,      \* cfg.style, its [display] part
  text,     \* what load_status_config read before it asks for the mtime
  \* the file
  file,     \* buddy.config, its [display] part
  seen,     \* cfg.mtime is the file's mtime
  \* history and bounds
  chosen,   \* the levels the user chose that nothing has overruled since, or None
  presses,
  faults

NoStyle == [bright |-> None, auto |-> FALSE, sleep |-> None]

panelVars == <<level, hostVal, nvs, style, hold>>
daemonVars == <<pc, mode, cfg, text>>
fileVars == <<file, seen>>
vars == <<panelVars, toHost, daemonVars, fileVars, chosen, presses, faults>>

NoChoice == [k \in Knobs |-> None]

Init ==
  /\ level = Default /\ hostVal = NoChoice /\ nvs = NoChoice
  /\ style = NoStyle /\ hold = FALSE
  /\ toHost = <<>>
  /\ pc = "off" /\ mode = "status"
  /\ file \in Edits /\ cfg = file /\ text = file /\ seen = FALSE
  /\ chosen = NoChoice /\ presses = 0 /\ faults = 0

Fault == faults < MaxFaults /\ faults' = faults + 1

-----------------------------------------------------------------------------
(* The panel                                                               *)

\* mapBright: a step, or percent rounded to one; the default if that gives none.
MapBright(v) ==
  IF v \in 1 .. Steps["bright"] THEN v
  ELSE LET s == (v * Steps["bright"] + 50) \div 100
       IN  IF s \in 1 .. Steps["bright"] THEN s ELSE Default["bright"]

\* A level, or seconds: the first level at least as long.
MapSleep(v) ==
  IF v <= Steps["sleep"] THEN v
  ELSE IF \E l \in Level("sleep") : SLEEP_SECS[l] >= v
       THEN CHOOSE l \in Level("sleep") :
              SLEEP_SECS[l] >= v /\ \A m \in 0 .. l - 1 : SLEEP_SECS[m] < v
       ELSE Steps["sleep"]

\* What syncFromStyle compares with g_host_*, and the level that stands for it.
HostValue(st, k) ==
  IF k = "bright" THEN IF st.auto THEN 0 ELSE st.bright ELSE MapSleep(st.sleep)
LevelOf(k, v) == IF k = "bright" /\ v # 0 THEN MapBright(v) ELSE v

\* Mutants of Cycle: g_host_* is not set; no window is opened; nothing is
\* persisted; the level does not wrap.
CycleHostKept(k) ==
  /\ level' = [level EXCEPT ![k] = (@ + 1) % (Steps[k] + 1)]
  /\ nvs' = level' /\ hold' = TRUE /\ UNCHANGED hostVal
CycleNoHold(k) ==
  /\ level' = [level EXCEPT ![k] = (@ + 1) % (Steps[k] + 1)]
  /\ hostVal' = [hostVal EXCEPT ![k] = level'[k]]
  /\ nvs' = level' /\ UNCHANGED hold
CycleNotPersisted(k) ==
  /\ level' = [level EXCEPT ![k] = (@ + 1) % (Steps[k] + 1)]
  /\ hostVal' = [hostVal EXCEPT ![k] = level'[k]]
  /\ hold' = TRUE /\ UNCHANGED nvs

\* cycleBrightness, cycleSleep.
Cycle(k) ==
  /\ level' = [level EXCEPT ![k] = (@ + 1) % (Steps[k] + 1)]
  /\ hostVal' = [hostVal EXCEPT ![k] = level'[k]]
  /\ nvs' = level'
  /\ hold' = TRUE

\* A long press on the OSD's row: the level changes here, and is reported.
Press(k) ==
  /\ presses < MaxPresses /\ presses' = presses + 1
  /\ Cycle(k)
  /\ toHost' = Append(toHost, <<k, level'[k]>>)
  /\ chosen' = IF pc # "off" /\ mode = "status" THEN [chosen EXCEPT ![k] = level'[k]]
                                                 ELSE chosen
  /\ UNCHANGED <<style, daemonVars, fileVars, faults>>

\* The daemon has answered a press: its last frame carries the configuration it
\* has now.  With no failure that takes a pass of its loop and the status second,
\* less than the 2.5 s of the window.  In terminal mode no such frame comes.
Answered == pc = "off" \/ (toHost = <<>> /\ (mode = "terminal" \/ style = cfg))

HoldEnds ==
  /\ hold /\ Answered
  /\ hold' = FALSE
  /\ UNCHANGED <<level, hostVal, nvs, style, toHost, daemonVars, fileVars, chosen,
                 presses, faults>>

\* The daemon is late: sends that fail take seconds each.
HoldEndsEarly ==
  /\ hold /\ ~Answered /\ Fault
  /\ hold' = FALSE /\ chosen' = NoChoice
  /\ UNCHANGED <<level, hostVal, nvs, style, toHost, daemonVars, fileVars, presses>>

Differs(k) == HostValue(style, k) # hostVal[k]

\* syncFromStyle, applyBrightFromHost, applySleepFromHost.
SyncFromStyle ==
  /\ style # NoStyle /\ ~hold
  /\ \E k \in Knobs : Differs(k)
  /\ hostVal' = [k \in Knobs |-> HostValue(style, k)]
  /\ level' = [k \in Knobs |-> IF Differs(k) THEN LevelOf(k, HostValue(style, k)) ELSE level[k]]
  /\ nvs' = level'
  /\ UNCHANGED <<style, hold, toHost, daemonVars, fileVars, chosen, presses, faults>>

\* Power is cut and restored: loadOsdFromEeprom.
Restart ==
  /\ Fault
  /\ level' = [k \in Knobs |-> IF nvs[k] = None THEN Default[k] ELSE nvs[k]]
  /\ hostVal' = nvs
  /\ style' = NoStyle /\ hold' = FALSE
  /\ toHost' = <<>> /\ pc' = "off" /\ chosen' = NoChoice
  /\ UNCHANGED <<nvs, mode, cfg, text, fileVars, presses>>

-----------------------------------------------------------------------------
(* The daemon                                                              *)

\* A session begins, in the mode startup_status names: what the panel sent before
\* is discarded.
Connect ==
  /\ pc = "off"
  /\ toHost' = <<>> /\ text' = file /\ pc' = "connect"
  /\ mode' \in {"status", "terminal"}
  /\ UNCHANGED <<panelVars, cfg, fileVars, chosen, presses, faults>>

SessionEnds ==
  /\ pc # "off" /\ Fault
  /\ pc' = "off" /\ chosen' = NoChoice
  /\ UNCHANGED <<panelVars, toHost, mode, cfg, text, fileVars, presses>>

\* maybe_reload: the mtime is another; load_status_config reads the text...
Reload ==
  /\ pc = "loop" /\ ~seen
  /\ text' = file /\ pc' = "reload"
  /\ UNCHANGED <<panelVars, toHost, mode, cfg, fileVars, chosen, presses, faults>>

\* ...and then the mtime, which may be that of a later edit.
Loaded ==
  /\ pc \in {"connect", "reload"}
  /\ cfg' = text /\ seen' = TRUE
  /\ pc' = IF pc = "connect" THEN "greet" ELSE "push"
  /\ UNCHANGED <<panelVars, toHost, mode, text, file, chosen, presses, faults>>

NoReload ==
  /\ pc = "loop" /\ seen
  /\ pc' = "events"
  /\ UNCHANGED <<panelVars, toHost, mode, cfg, text, fileVars, chosen, presses, faults>>

\* push_style: its failure is only logged.
PushStyle ==
  /\ pc \in {"greet", "push"}
  /\ pc' = IF pc = "greet" THEN "loop" ELSE "events"
  /\ \/ style' = cfg /\ UNCHANGED faults
     \/ Fault /\ UNCHANGED style
  /\ UNCHANGED <<level, hostVal, nvs, hold, toHost, mode, cfg, text, fileVars, chosen, presses>>

Capped(k, v) == IF v > Steps[k] THEN Steps[k] ELSE v

\* apply_osd_levels, and what write_osd_levels leaves in the file.
WithLevels(b, s) == [bright |-> b, auto |-> b = 0, sleep |-> s]

\* Mutant of Applied: an event for one setting resets the other.
AppliedOther(k, v) ==
  IF k = "bright" THEN WithLevels(v, Capped("sleep", cfg.sleep))
                  ELSE WithLevels(Default["bright"], v)

\* apply_device_osd's levels: the event's, and the configuration's for the other.
Applied(k, v) ==
  IF k = "bright" THEN WithLevels(v, Capped("sleep", cfg.sleep))
                  ELSE WithLevels(Capped("bright", cfg.bright), v)

\* apply_device_osd; if the file cannot be written the mtime is left alone, and
\* what the file says counts again at the next reload.
HandleLevel ==
  /\ pc = "events" /\ toHost # <<>>
  /\ toHost' = Tail(toHost)
  /\ cfg' = Applied(Head(toHost)[1], Head(toHost)[2])
  /\ \/ file' = cfg' /\ seen' = FALSE /\ pc' = "stat" /\ UNCHANGED <<chosen, faults>>
     \/ Fault /\ chosen' = NoChoice /\ UNCHANGED <<fileVars, pc>>
  /\ UNCHANGED <<panelVars, mode, text, presses>>

\* The file's mtime is recorded: that of the write, or of an edit after it.
RecordMtime ==
  /\ pc = "stat"
  /\ seen' = TRUE /\ pc' = "events"
  /\ UNCHANGED <<panelVars, toHost, mode, cfg, text, file, chosen, presses, faults>>

EventsDone ==
  /\ pc = "events"
  /\ pc' = "send"
  /\ UNCHANGED <<panelVars, toHost, mode, cfg, text, fileVars, chosen, presses, faults>>

\* A status frame carries the style, a terminal frame does not.
SendStatus ==
  /\ pc = "send" /\ mode = "status"
  /\ style' = cfg /\ pc' = "loop"
  /\ UNCHANGED <<level, hostVal, nvs, hold, toHost, mode, cfg, text, fileVars, chosen,
                 presses, faults>>

\* Terminal mode, or the status second is not over, or the send failed.
SendNoStatus ==
  /\ pc = "send"
  /\ pc' = "loop"
  /\ UNCHANGED <<panelVars, toHost, mode, cfg, text, fileVars, chosen, presses, faults>>

-----------------------------------------------------------------------------
(* The world outside                                                       *)

\* The button's mode toggle, or a key that opens the terminal.
Toggle ==
  /\ pc = "events" /\ Fault
  /\ mode' = IF mode = "status" THEN "terminal" ELSE "status"
  /\ chosen' = NoChoice
  /\ UNCHANGED <<panelVars, toHost, pc, cfg, text, fileVars, presses>>

\* An event is removed with a reply (SerialLink, EventsAccounted).
LoseEvent ==
  /\ toHost # <<>> /\ Fault
  /\ toHost' = Tail(toHost) /\ chosen' = NoChoice
  /\ UNCHANGED <<panelVars, daemonVars, fileVars, presses>>

Edit ==
  /\ Fault
  /\ file' \in Edits /\ seen' = FALSE /\ chosen' = NoChoice
  /\ UNCHANGED <<panelVars, toHost, daemonVars, presses>>

Daemon ==
  \/ Connect \/ Reload \/ Loaded \/ NoReload \/ PushStyle \/ HandleLevel \/ RecordMtime
  \/ EventsDone \/ SendStatus \/ SendNoStatus

Presses == \E k \in Knobs : Press(k)
World == HoldEndsEarly \/ Restart \/ SessionEnds \/ Toggle \/ LoseEvent \/ Edit

Next == Presses \/ HoldEnds \/ SyncFromStyle \/ Daemon \/ World

\* Both loops run, the window closes, events arrive and the status second ends.
Fairness ==
  /\ WF_vars(HoldEnds) /\ WF_vars(SyncFromStyle) /\ WF_vars(Daemon)
  /\ SF_vars(HandleLevel) /\ SF_vars(SendStatus)

Spec == Init /\ [][Next]_vars /\ Fairness

-----------------------------------------------------------------------------
\* Every variable keeps its type.
TypeOK ==
  /\ level \in [Knobs -> Nat] /\ \A k \in Knobs : level[k] \in Level(k)
  /\ hostVal \in [Knobs -> Nat \union {None}]
  /\ nvs \in [Knobs -> Nat \union {None}] /\ \A k \in Knobs : nvs[k] \in Level(k) \union {None}
  /\ style \in Display \union {NoStyle} /\ hold \in BOOLEAN
  /\ toHost \in Seq(Knobs \X Nat)
  /\ \A j \in 1 .. Len(toHost) : toHost[j][2] \in Level(toHost[j][1])
  /\ pc \in {"off", "connect", "greet", "loop", "reload", "push", "events", "stat", "send"}
  /\ mode \in {"status", "terminal"}
  /\ cfg \in Display /\ text \in Display /\ file \in Display /\ seen \in BOOLEAN
  /\ chosen \in [Knobs -> Nat \union {None}] /\ presses \in Nat /\ faults \in Nat

\* The panel shows the level of the value it takes for the host's, whoever
\* changed it last, through presses, frames and restarts: the comparison in
\* syncFromStyle, which looks at values only, never passes over a difference.
HostValueShown == \A k \in Knobs : hostVal[k] # None => level[k] = LevelOf(k, hostVal[k])

\* What NVS holds is what the panel shows: a restart at any moment, with or
\* without a daemon, brings the levels back.
NvsKept == \A k \in Knobs : nvs[k] # None => nvs[k] = level[k]

\* While the daemon answers, in status mode, a level the user chose is not undone
\* by a frame built before the daemon knew of it: the window outlasts them all.
ChoiceKept == \A k \in Knobs : chosen[k] # None => level[k] = chosen[k]

\* The forms the shipped file and writeback use (configuration.md: "Intended form").
Canonical(c) ==
  c.bright <= Steps["bright"] /\ c.sleep <= Steps["sleep"] /\ (c.auto <=> c.bright = 0)

KeepsOther ==
  HandleLevel /\ Canonical(cfg) =>
    \A k \in Knobs \ {Head(toHost)[1]} : HostValue(cfg', k) = HostValue(cfg, k)

\* A change of one setting, written back, leaves the other as the user had it.
OtherSettingKept == [][KeepsOther]_vars

\* The copies agree in the end: once the status page is up for good, the panel
\* shows the levels of the daemon's configuration, whatever presses, edits, lost
\* events, failed writes, toggles and restarts came before.
PanelFollowsConfig ==
  <>[](mode = "status") => <>[](\A k \in Knobs : level[k] = LevelOf(k, HostValue(cfg, k)))

LevelsAgree == pc # "off" /\ toHost = <<>> /\ \A k \in Knobs : level[k] = LevelOf(k, HostValue(cfg, k))

StaysApplied == LevelsAgree /\ UNCHANGED <<cfg, presses, faults>> => UNCHANGED level

\* configuration.md:381 has the daemon push no style after a change at the panel
\* because "device already applied locally": it stays applied.
AppliedLocally == [][StaysApplied]_vars
=============================================================================
