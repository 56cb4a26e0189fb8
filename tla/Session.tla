-------------------------------- MODULE Session --------------------------------
(***************************************************************************)
(* The daemon's one thread: run_forever, the session loop of               *)
(* run_session_with stage by stage, and the panel, the shell, the          *)
(* configuration file and the keyboards it acts on.  Each stage does at    *)
(* most one operation on the keyboards, those of module Keyboard.          *)
(*                                                                         *)
(* send_frame is taken as SerialLink has it: it returns, and Ok means that *)
(* the panel has applied the frame.  The timers (frame_dt, the status      *)
(* second, the 750 ms rescan) are due or not, at any time.  Brightness and *)
(* sleep events and pushed styles change nothing that is modelled here.    *)
(***************************************************************************)
EXTENDS Keyboard

CONSTANTS
  Configs,      \* buddy.config: [opens, allow, status], see Config
  MaxFaults     \* bound: link, shell and panel failures, edits, button presses

\* opens: keyboard_opens_terminal; allow: keyboard_devices; status: startup_mode
Config == [opens : BOOLEAN, allow : SUBSET Kb, status : BOOLEAN]

ASSUME SessionAssumption == Configs \subseteq Config /\ MaxFaults \in Nat

VARIABLES
  pc,       \* "offline", "start", then the loop's stages, or "stopped"
  running,  \* the flag ctrlc's handler clears
  cfg,      \* the configuration in memory
  mode,     \* status_mode, as "status" or "terminal"
  toggles,  \* button events that poll_events returned and the loop has yet to handle
  pty,      \* the session's shell: "none", "running" or "exited"
  activity, \* keys were polled in this pass: send at once
  fails,    \* consecutive_fail
  file,     \* the configuration on disk
  present,  \* the panel's device node is there, and is the one discovery picks
  link,     \* "up", or "dead": nothing is acknowledged
  pressed,  \* button events under way
  panel,    \* what the panel shows: "none", "status", "terminal" or "bye"
  faults

loopVars == <<running, cfg, mode, toggles, pty, activity, fails>>
worldVars == <<file, present, link, pressed, panel>>
sessionVars == <<pc, loopVars, worldVars, faults>>
vars == <<kbVars, sessionVars>>

Init ==
  /\ KbInit
  /\ pc = "offline" /\ running = TRUE
  /\ file \in Configs /\ cfg = file /\ mode = "status"
  /\ toggles = 0 /\ pty = "none" /\ activity = FALSE /\ fails = 0
  /\ present \in BOOLEAN /\ link = "up" /\ pressed = 0 /\ panel = "none" /\ faults = 0

Fault == faults < MaxFaults /\ faults' = faults + 1

-----------------------------------------------------------------------------
(* Beginning and ending a session                                          *)

\* The port opens, and discards what the panel sent before; the configuration
\* is read, and pushed as a style frame whose failure is only logged.
Connect ==
  /\ pc = "offline" /\ running /\ present
  /\ pc' = "start"
  /\ cfg' = file /\ mode' = IF file.status THEN "status" ELSE "terminal"
  /\ Configure(file.allow)
  /\ pressed' = 0 /\ toggles' = 0 /\ pty' = "none" /\ activity' = FALSE /\ fails' = 0
  /\ UNCHANGED <<running, file, present, link, panel, faults>>

\* The session function returns an error: its shell and keyboards are dropped,
\* no BYE is sent, and run_forever looks for the device again.
Leave ==
  /\ pc' = "offline"
  /\ Ungrab
  /\ pty' = "none" /\ activity' = FALSE /\ toggles' = 0
  /\ UNCHANGED <<running, cfg, mode, fails>>

\* Mutant of EnterStatus: without watching, the keyboards are left as they are.
EnterStatusNoUngrab == IF cfg.opens THEN Watch ELSE UNCHANGED kbVars

EnterStatus == IF cfg.opens THEN Watch ELSE Ungrab

\* ensure_pty, force_resize and grab; a shell that cannot be spawned ends the session.
EnterTerminal == pty' = (IF pty = "none" THEN "running" ELSE pty) /\ Grab
SpawnFails == pty = "none" /\ Fault /\ Leave /\ UNCHANGED worldVars

Start ==
  /\ pc = "start"
  /\ \/ /\ mode = "status" /\ EnterStatus
        /\ pc' = "loop" /\ UNCHANGED <<pty, faults>>
     \/ /\ mode = "terminal" /\ EnterTerminal
        /\ pc' = "loop" /\ UNCHANGED faults
  /\ UNCHANGED <<running, cfg, mode, toggles, activity, fails, worldVars>>

StartFails == pc = "start" /\ mode = "terminal" /\ SpawnFails

-----------------------------------------------------------------------------
(* The loop, from its top                                                  *)

\* SIGINT: BYE, if the link takes it, and the keyboards are released.
Stop ==
  /\ pc = "loop" /\ ~running
  /\ pc' = "stopped"
  /\ panel' \in IF present /\ link = "up" THEN {"bye"} ELSE {panel}
  /\ Ungrab
  /\ pty' = "none"
  /\ UNCHANGED <<running, cfg, mode, toggles, activity, fails, file, present, link,
                 pressed, faults>>

\* run_forever's own test of the flag.
StopOffline ==
  /\ pc = "offline" /\ ~running
  /\ pc' = "stopped"
  /\ UNCHANGED <<kbVars, loopVars, worldVars, faults>>

Unplugged == pc = "loop" /\ running /\ ~present /\ Leave /\ UNCHANGED <<worldVars, faults>>

NoReload ==
  /\ pc = "loop" /\ running /\ present /\ file = cfg
  /\ pc' = "events"
  /\ UNCHANGED <<kbVars, loopVars, worldVars, faults>>

\* Mutant of KbChanged: a new allowlist is not a keyboard change.
KbChangedOpensOnly(new) == new.opens # cfg.opens

KbChanged(new) == new.opens # cfg.opens \/ new.allow # cfg.allow

\* The file's mtime moved.  startup_mode is stored and changes nothing.
Reload ==
  /\ pc = "loop" /\ running /\ present /\ file # cfg
  /\ cfg' = file
  /\ IF KbChanged(file) THEN Configure(file.allow) /\ pc' = "apply"
                        ELSE UNCHANGED kbVars /\ pc' = "events"
  /\ UNCHANGED <<running, mode, toggles, pty, activity, fails, worldVars, faults>>

ApplyReload ==
  /\ pc = "apply"
  /\ \/ mode = "status" /\ EnterStatus
     \/ mode = "terminal" /\ Grab
  /\ pc' = "events"
  /\ UNCHANGED <<loopVars, worldVars, faults>>

\* poll_events: some or all of what the panel has sent.
PollEvents ==
  /\ pc = "events"
  /\ \E n \in 0 .. pressed : toggles' = n /\ pressed' = pressed - n
  /\ pc' = "handle"
  /\ UNCHANGED <<kbVars, running, cfg, mode, pty, activity, fails, file, present, link,
                 panel, faults>>

\* Mutant of Handle: terminal mode is entered without the keyboards, to be
\* grabbed by the next rescan.
HandleNoGrab ==
  /\ pc = "handle" /\ toggles > 0
  /\ toggles' = toggles - 1
  /\ \/ mode = "terminal" /\ mode' = "status" /\ UNCHANGED <<pty, kbVars>>
     \/ mode = "status" /\ mode' = "terminal" /\ EnterTerminal
  /\ UNCHANGED <<pc, running, cfg, activity, fails, worldVars, faults>>

\* ModeToggle.
Handle ==
  /\ pc = "handle" /\ toggles > 0
  /\ toggles' = toggles - 1
  /\ \/ mode = "terminal" /\ mode' = "status" /\ EnterStatus /\ UNCHANGED pty
     \/ mode = "status" /\ mode' = "terminal" /\ EnterTerminal
  /\ UNCHANGED <<pc, running, cfg, activity, fails, worldVars, faults>>

HandleFails == pc = "handle" /\ toggles > 0 /\ mode = "status" /\ SpawnFails

HandleDone ==
  /\ pc = "handle" /\ toggles = 0
  /\ pc' = "pty"
  /\ UNCHANGED <<kbVars, loopVars, worldVars, faults>>

\* The shell's output is drained in either mode; one that exited is replaced.
PumpPty ==
  /\ pc = "pty"
  /\ pc' = "scan"
  /\ pty' = IF pty = "exited" THEN "running" ELSE pty
  /\ IF pty = "exited" /\ mode = "terminal" THEN Grab ELSE UNCHANGED kbVars
  /\ UNCHANGED <<running, cfg, mode, toggles, activity, fails, worldVars, faults>>

RespawnFails == pc = "pty" /\ pty = "exited" /\ Fault /\ Leave /\ UNCHANGED worldVars

-----------------------------------------------------------------------------
(* Keyboards, then a frame                                                 *)

UsesKeyboards == mode = "terminal" \/ cfg.opens

\* In terminal mode the count is of grabbed devices, in status of open ones.
RescanNow == IF mode = "terminal" THEN grabbed = {} ELSE \A k \in Kb : fd[k] = "closed"

Rescan ==
  /\ pc = "scan" /\ UsesKeyboards
  /\ Maintain
  /\ pc' = "poll"
  /\ UNCHANGED <<loopVars, worldVars, faults>>

SkipRescan ==
  /\ pc = "scan" /\ UsesKeyboards /\ ~RescanNow
  /\ pc' = "poll"
  /\ UNCHANGED <<kbVars, loopVars, worldVars, faults>>

NoKeyboards ==
  /\ pc = "scan" /\ ~UsesKeyboards
  /\ pc' = "send"
  /\ UNCHANGED <<kbVars, loopVars, worldVars, faults>>

\* poll; in terminal mode the keys are written to the shell (lost, if it exited
\* just now); in status mode any key opens the terminal.
PollKeys ==
  /\ pc = "poll"
  /\ Poll
  /\ LET keys == \E k \in Kb : queue[k] # <<>> IN
       /\ activity' = keys
       /\ IF mode = "status" /\ keys THEN mode' = "terminal" /\ pc' = "open"
                                     ELSE UNCHANGED mode /\ pc' = "send"
  /\ UNCHANGED <<running, cfg, toggles, pty, fails, worldVars, faults>>

\* The keys polled are written to the shell after the grab.
OpenTerminal ==
  /\ pc = "open"
  /\ EnterTerminal
  /\ pc' = "send"
  /\ UNCHANGED <<running, cfg, mode, toggles, activity, fails, worldVars, faults>>

OpenFails == pc = "open" /\ SpawnFails

\* Mutant of SendOk: a terminal frame needs the timer and a key.
SendOkOnKeys ==
  /\ pc = "send" /\ present /\ link = "up"
  /\ mode = "terminal" => activity
  /\ panel' = mode
  /\ fails' = 0 /\ activity' = FALSE
  /\ pc' = "loop"
  /\ UNCHANGED <<kbVars, running, cfg, mode, toggles, pty, file, present, link, pressed, faults>>

SendOk ==
  /\ pc = "send" /\ present /\ link = "up"
  /\ panel' = mode
  /\ fails' = 0 /\ activity' = FALSE
  /\ pc' = "loop"
  /\ UNCHANGED <<kbVars, running, cfg, mode, toggles, pty, file, present, link, pressed, faults>>

\* Mutant of SendFails: the failures are counted from nought in every pass.
SendFailsForgotten ==
  /\ pc = "send"
  /\ \/ (~present \/ link = "dead") /\ UNCHANGED <<faults, panel>>
     \/ present /\ link = "up" /\ Fault /\ panel' \in {panel, mode}
  /\ fails' = 1 /\ activity' = FALSE /\ pc' = "loop"
  /\ UNCHANGED <<kbVars, running, cfg, mode, toggles, pty, file, present, link, pressed>>

\* Mutant of SendFails: the session bears one failure more.
SendFailsOneMore ==
  /\ pc = "send" /\ fails < 3
  /\ \/ (~present \/ link = "dead") /\ UNCHANGED <<faults, panel>>
     \/ present /\ link = "up" /\ Fault /\ panel' \in {panel, mode}
  /\ fails' = fails + 1 /\ activity' = FALSE /\ pc' = "loop"
  /\ UNCHANGED <<kbVars, running, cfg, mode, toggles, pty, file, present, link, pressed>>

\* Every attempt failed; the panel may still have applied one.
SendFails ==
  /\ pc = "send" /\ fails < 2
  /\ \/ (~present \/ link = "dead") /\ UNCHANGED <<faults, panel>>
     \/ present /\ link = "up" /\ Fault /\ panel' \in {panel, mode}
  /\ fails' = fails + 1 /\ activity' = FALSE /\ pc' = "loop"
  /\ UNCHANGED <<kbVars, running, cfg, mode, toggles, pty, file, present, link, pressed>>

\* The third failure in a row.
LinkLost ==
  /\ pc = "send" /\ fails >= 2
  /\ \/ (~present \/ link = "dead") /\ UNCHANGED <<faults, panel>>
     \/ present /\ link = "up" /\ Fault /\ panel' \in {panel, mode}
  /\ Leave
  /\ UNCHANGED <<file, present, link, pressed>>

\* Neither a timer nor a key asks for a frame.
NoSend ==
  /\ pc = "send" /\ ~activity
  /\ pc' = "loop"
  /\ UNCHANGED <<kbVars, loopVars, worldVars, faults>>

-----------------------------------------------------------------------------
(* The world outside                                                       *)

PanelUnplugged ==
  /\ present /\ Fault
  /\ present' = FALSE /\ panel' = "none" /\ pressed' = 0
  /\ UNCHANGED <<kbVars, pc, loopVars, file, link>>

PanelPlugged ==
  /\ ~present
  /\ present' = TRUE /\ link' = "up"
  /\ UNCHANGED <<kbVars, pc, loopVars, file, pressed, panel, faults>>

LinkDies ==
  /\ present /\ link = "up" /\ Fault
  /\ link' = "dead"
  /\ UNCHANGED <<kbVars, pc, loopVars, file, present, pressed, panel>>

LinkHeals ==
  /\ present /\ link = "dead"
  /\ link' = "up"
  /\ UNCHANGED <<kbVars, pc, loopVars, file, present, pressed, panel, faults>>

Edit ==
  /\ Fault
  /\ file' \in Configs \ {file}
  /\ UNCHANGED <<kbVars, pc, loopVars, present, link, pressed, panel>>

\* The panel sends DEV_MODE_TOGGLE.
ButtonPressed ==
  /\ present /\ panel \in {"status", "terminal"} /\ Fault
  /\ pressed' = pressed + 1
  /\ UNCHANGED <<kbVars, pc, loopVars, file, present, link, panel>>

ShellExits ==
  /\ pty = "running" /\ Fault
  /\ pty' = "exited"
  /\ UNCHANGED <<kbVars, pc, running, cfg, mode, toggles, activity, fails, worldVars>>

Interrupt ==
  /\ running /\ Fault
  /\ running' = FALSE
  /\ UNCHANGED <<kbVars, pc, cfg, mode, toggles, pty, activity, fails, worldVars>>

-----------------------------------------------------------------------------
Sends == SendOk \/ SendFails \/ LinkLost

SessionStep ==
  \/ Connect \/ Start \/ StartFails \/ Stop \/ StopOffline \/ Unplugged \/ NoReload \/ Reload
  \/ ApplyReload \/ PollEvents \/ Handle \/ HandleFails \/ HandleDone \/ PumpPty
  \/ RespawnFails \/ Rescan \/ SkipRescan \/ NoKeyboards \/ PollKeys \/ OpenTerminal
  \/ OpenFails \/ Sends \/ NoSend

WorldStep ==
  \/ PanelUnplugged \/ PanelPlugged \/ LinkDies \/ LinkHeals \/ Edit
  \/ ButtonPressed \/ ShellExits \/ Interrupt
  \/ Outside /\ UNCHANGED sessionVars

Next == SessionStep \/ WorldStep

\* The thread runs (its loop sleeps 5 ms a pass and every call returns), the
\* timers come due again and again, and what the panel sent arrives.
AllEvents == PollEvents /\ pressed' = 0
Fairness ==
  /\ WF_vars(SessionStep) /\ SF_vars(Rescan) /\ SF_vars(Sends) /\ SF_vars(AllEvents)

Spec == Init /\ [][Next]_vars /\ Fairness

-----------------------------------------------------------------------------
Stages == {"loop", "apply", "events", "handle", "pty", "scan", "poll", "open", "send"}

\* Every variable keeps its type; the session leaves before fails reaches three.
TypeOK ==
  /\ KbTypeOK
  /\ pc \in Stages \union {"offline", "start", "stopped"}
  /\ running \in BOOLEAN /\ cfg \in Configs /\ mode \in {"status", "terminal"}
  /\ toggles \in Nat /\ pty \in {"none", "running", "exited"} /\ activity \in BOOLEAN
  /\ fails \in 0 .. 2
  /\ file \in Configs /\ present \in BOOLEAN /\ link \in {"up", "dead"}
  /\ pressed \in Nat /\ panel \in {"none", "status", "terminal", "bye"}
  /\ faults \in Nat

\* The daemon holds a keyboard only while a session shows the terminal: toggling
\* back, an edited configuration, a lost link, a failed spawn and a signal each
\* give every keyboard back to the desktop.
GrabOnlyInTerminal ==
  (\E k \in Kb : holder[k] = "daemon") => pc \in Stages /\ mode = "terminal"

\* The daemon reads no keyboard but those the configuration in force names, and
\* in status mode none unless keyboard_opens_terminal: a reload that withdraws
\* either takes effect before the next key is read.
ReadsOnlyAllowed ==
  \A k \in Kb : fd[k] # "closed" /\ pc # "apply" => k \in cfg.allow /\ UsesKeyboards

\* A panel that stops answering is noticed in either mode: the session ends, so
\* that the port is opened anew, or the link recovers.
DeadLinkEnds == (link = "dead") ~> (link = "up" \/ pc \in {"offline", "stopped"})

\* Once the panel stays, and answers, it shows the session's mode for good,
\* whatever toggles, keys, reloads, lost frames and reconnects came before.
PanelFollowsMode ==
  <>[](present /\ link = "up" /\ running) => <>[](pc \in Stages /\ panel = mode)

\* In terminal mode every keyboard that is allowed, plugged in and not held by
\* another process is grabbed in the end: hotplugged, replugged between two
\* rescans, newly allowed, or freed by the other process.
HotplugGrabbed ==
  \A k \in Kb :
    <>[](pc \in Stages /\ mode = "terminal" /\ k \in cfg.allow
           /\ node[k] = "ready" /\ holder[k] # "other")
      => <>[](holder[k] = "daemon")
=============================================================================
