# tty-buddy in TLA+

tty-buddy shows a console, or a page of system metrics, on a small USB panel.
A Rust daemon on the host (`daemon/src`) owns the shell, the keyboards and the
configuration; an ESP32-C3 (`firmware/src`) owns the screen and one button.
The two talk over a USB serial line: frames down, one-byte opcodes and
two-byte replies up.  This directory holds models of that system, the runs that
check them and proofs about them.

## 1. The system

| part | state it keeps | operations | talks to |
|---|---|---|---|
| session loop, `bridge.rs` | mode, configuration, shell, `consecutive_fail`, timers | connect, reload, events, PTY, keyboards, send, leave | everything, by direct calls on one thread |
| serial link, `serial_io.rs` | `seq`, `inbox` | `send_frame`, `wait_ack`, `poll_events` | panel, bytes both ways |
| keyboards, `keyboard.rs` | `devices` with their `grabbed` flags, `listening`, `exclusive`, allowlist | `configure`, `grab`, `watch`, `ungrab`, `maintain`, `poll` | evdev: nodes, grabs, queues |
| configuration, `status_config.rs` | the file and the copy in memory with its mtime | `load`, `maybe_reload`, `write_osd_levels` | the user's editor |
| shell, `terminal.rs` | PTY, vt100 screen | `spawn_login`, `pump`, `write_input`, `try_wait` | the child process |
| frame parser and screen, `terminal.cpp` | `rx_`, `got_`, the buffers; the cell cache; `linked_`, `bye_`, `status_ui_` | `ingest`, `applyPayload`, `flush`, `showBanner` | host bytes, the display |
| main loop, `main.cpp` | `link_ui`, flush timer | one pass: `osd::tick`, ingest, link state, flush, `osd::paint` | the three other parts of the firmware |
| OSD, `osd.cpp` | menu, button, sleep, brightness and sleep levels, their copy in NVS | button presses, `syncFromStyle`, `tick`, `paint` | opcodes up, style down |
| status page, `status_ui.cpp` | what is painted, the alert and its dismissal | `paintStatusGui`, alert show, roll, dismiss | snapshots |
| discovery, `discover.rs` | none: `/dev` is listed afresh | `list_serial_devices`, `pick_device` | kernel nodes, udev's links |
| metrics, `metrics.rs` | last counters, caches of addresses and services | `sample` | `/proc`, `ip`, `systemctl` |
| settings, `settings.rs`, `main.rs` | `daemon.toml` | `setup`, `run` | the user |

What is hard: replies and button opcodes share one stream and are told apart
only by value, with retries, late replies and 8-bit sequence numbers; the
panel's parser has no timeout, so a frame cut short eats the next one; the
daemon's one thread serves a dozen sources of change, and several early returns
leave it with keyboards grabbed; evdev nodes come, go and come back under the
same path; brightness and sleep live in four copies (panel, NVS, memory, file);
the panel's clock wraps; `buddy.config` is rewritten by its user and by the daemon,
which keeps the values and the text in step by two separate pieces of code;
boards swap their names while the daemon looks for one.

What makes each part correct:

- link: an `Ok` means that the frame is on the panel; a button press is neither
  lost nor invented; a send returns;
- parser: never past its buffer, and back in step after any loss;
- keyboards: flags agree with the kernel, the desktop gets its keyboards back
  at once, keys typed at the desktop are never read later;
- session: keyboards are held only in terminal mode, a dead link is noticed,
  the panel comes to show the session's mode;
- brightness and sleep: the panel shows what it believes the host wants, NVS
  holds what the panel shows, a choice made with the button is not undone, and
  the four copies agree in the end;
- button, sleep and alerts: every press does one thing, the panel goes dark
  only when nothing asked for it and then does, an alert is on the strip unless
  its text was dismissed by a tap or had its time;
- configuration file: whatever fails or dies, it is the old text or the new one,
  and a level written back changes that level only, on disk as in memory;
- discovery: a board pinned by its serial is the one opened, and a session that
  should last does;
- metrics: what a sample says is true, at most a cache's life ago;
- screen: after a flush the glass is what was received, although caches decide
  what is painted and banners, mode switches and the OSD wipe it behind them.

## 2. The modules

| module | models | composes |
|---|---|---|
| `SerialLink` | `BuddySerial` with its retries, inbox and scans; the wire; the panel's replies and opcodes | implements `FrameDelivery` |
| `FrameDelivery` | what the link promises the session: abstract | |
| `FrameRx` | `Terminal::ingest`, byte by byte, under lost bytes and cut writes | |
| `Keyboard` | `struct Keyboard` and the kernel's nodes, grabs and queues | |
| `Session` | `run_forever` and `run_session_with`, stage by stage; panel, shell and file as seen from there | `Keyboard`, by EXTENDS |
| `OsdSync` | brightness and sleep: `cycle*`, `syncFromStyle`, NVS, `apply_device_osd`, `maybe_reload`, `push_style` | |
| `Screen` | the firmware's main loop, `applyPayload`, `flush`, `paintStatusGui`, the OSD as an overlay | |
| `Panel` | the button (`pollButton` and the two presses), the rest of `osd::tick`, the alert's latch, dismissal and hold | |
| `ConfigText` | `buddy.config` as text: `parse_ini`, `parse_status_config_from_str`, `write_osd_levels` | |
| `ConfigStore` | what the file promises its users: abstract | |
| `ConfigFile` | loading, `maybe_reload`, `apply_device_osd`, `atomic_write` call by call, crashes and an editor | `ConfigText`; implements `ConfigStore` twice |
| `Discover` | boards, nodes and udev's links; `setup`, `run`, `pick_device`, `device_still_there` | |
| `Metrics` | `MetricsCollector`: rates, addresses and services with their caches | |
| `SerialLinkProofs`, `FrameRxProofs`, `OsdSyncProofs`, `ScreenProofs`, `PanelProofs`, `ConfigFileProofs` | theorems about the module named | |
| `SessionProofs` | theorems about `Keyboard`, then about `Session` | |
| `HostProofs` | theorems about `Discover`, then about `Metrics`, then about the parts of `MCParts` side by side | |
| `MC*` | values of the constants for TLC | `MCParts` puts five parts side by side |

**SerialLink.**  `pc` is where the host's call is: `write` and `wait` are the two
halves of `send_frame`'s loop body, `scan` is `wait_ack`'s inner loop at index
`i`, `drain` is `drain_device_events`.  One action is one iteration: `ScanAck`,
`ScanNak`, `ScanDefer`, `ScanRemove`, `EndScan` are the branches in the code's
order.  Towards the host single bytes travel, and `BeginScan` and `PollEvents`
take any prefix of what has been sent, so an opcode can be split from its level
and a reply from its number.  Towards the panel a frame travels whole or cut;
`partial` is the frame `ingest` is in the middle of.

**FrameRx.**  The variables are `rx_` and `got_`, and `buf` stands for the fields
that are stored after the magic.  A step delivers one byte, loses it, or
abandons the write.  The CRC is taken to reject every string that the host did
not write: `Contents` is the set it accepts.

**Keyboard.**  `MaintainFrom` is `maintain` with the descriptors it starts from:
`grab`, `watch`, a rescan and `poll` after a read error call it.  `holder`,
`queue` and `node` are the kernel's.  A path whose device went and came back is
`stale`: `maintain` sees an entry for the path and leaves it, until a read fails.

**Session.**  Each value of `pc` is a stretch of the loop body that does at most
one operation of `Keyboard`, in the code's order: reload, its application,
events, shell, rescan, poll, opening the terminal, send.  The early returns
(`StartFails`, `HandleFails`, `RespawnFails`, `OpenFails`, `LinkLost`,
`Unplugged`) all pass through `Leave`, which is the drop of the session's locals.

**OsdSync.**  A level of 0 is automatic brightness or no sleep.  A file holds a
brightness as a level or in percent, a sleep as a level or in seconds, so
`MapBright` and `MapSleep` are the firmware's roundings and `Applied` is what
the daemon writes back.  Text and mtime are read by two steps.

**Screen.**  A pass of `loop` is five stages, `tick`, `ingest`, `link`, `flush`,
`paint`.  `glass` is what a person sees; nothing reads it.  `cell`, `prev`,
`rowDirty`, `prevCur`, `shown` and `guiPrev` are the caches that decide what is
painted.  A place stands for a console cell and for a widget of the status
page; `Hole` are the places the OSD covers.

**Panel.**  A pass is `wait` (time passes and the pin is read), `edge` and
`long` (the two halves of `pollButton`), `alert` and `idle` (the rest of
`tick`), `ingest`, `flush`.  Time is kept as the differences `now - x` that the
code computes, unsigned ones modulo `ClockSize` and the alert's as a signed one,
so both wrap.  A difference that is set before it is looked at again stays 0.
`owed`, `quiet`, `tapped`, `hidden`, `said` and `shownFor` are history: they
record what happened, and no guard reads them.  Whether a frame had
`FLAG_ACTIVITY`, and what a style frame changes on the page, is left open; the
style's flags stay as they are.

**ConfigText.**  A text is a sequence of blocks, a section's header with the keys
below it; values are numbers or words.  The tables `Behavior` to `Display` say
for each key its older spelling, its conversion and its two defaults (without
the section, and without the key); `Read` applies one.  `WriteLevels` is
`write_osd_levels` with all its cases: older names, repeated sections, legacy
keys, no section.  The order of keys and comments, which the writer keeps and
the parser ignores, are left out.

**ConfigFile.**  `step` is the next system call of a write.  `LevelEvent` is
`apply_device_osd` up to the first of them (values in memory, text read and
rewritten); then a temporary file is written and renamed, or the file emptied
and filled where the directory cannot be written; `Stat` records the mtime.
Each call may fail, the process may die before it, and the user may save or
remove the file at any time.  `seen` is the comparison of the two mtimes.  A file
or a text that may be missing is a sequence of at most one.  Texts with both a
`[display]` and an `[osd]` are assumed away (`OneName`): of these the parser
reads one section, the writer makes two `[display]`, and the other one's keys
then come into force.

**Discover.**  A path is a number, in the order of the names: `/dev/tty-buddy`,
the links of the serials, the nodes.  A board is plugged in and gone, takes any
free number, and udev handles it later (`Udev`), pointing `/dev/tty-buddy` at
any board that claims it.  `Resolve`, `Open`, `SessionEnds` are three moments of
`run_forever`, and the world may move between them.

**Metrics.**  Seconds pass; a sample reads one interface and the services.
`IfaceIpCached` and `CollectServicesCached` return the cache's entry, old or
new.  What a sample asks may fail: systemctl, each of `ip`'s two queries
(`Answers`: a family that is not told), the reading of `/proc/net/dev`
(`Counter`: zero then).  What failed is cached like any answer.  `moved`,
`restarted`, `unread`, `unitsAt` and `addrsAt` are history.

Abstractions that concern several modules: timers (`frame_dt`, the status
second, the 750 ms rescan, 16 ms of flush, the reply's deadline) come due at any
time; `Session` and `OsdSync` take `send_frame` as one step, with the outcomes
`SerialLink` allows; the text of a page and the content of a shell's screen are
members of small sets; logging, layout and glyphs are left out.

## 3. What the runs check

| run | bounds | checks |
|---|---|---|
| `link` | numbers modulo 3, 2 attempts, 1 fault; 4 sends and 1 press, or 2 sends and 2 | the link implements `FrameDelivery`: an Ok has its frame on the panel; a send returns (`SendsReturn`); every opcode is returned, queued, or went with a later reply (`EventsAccounted`), none is invented (`NoPhantomEvent`), and a press is reported (`EventsReported`) |
| `link_dropped` | 1 send, 1 press, 1 fault | **violated**: `NoEventDropped` |
| `link_phantom` | 2 sends numbered 18, 19; no press, no fault | **violated**: `NoPhantomEvent` |
| `parts`: configuration | 2 files and none, 1 edit, levels 0 and 3; directory writable or not | `ImplementsStore`: no failure or crash leaves anything but the old file or the new one, except in place, and a level written back changes no other setting; `MemoryFollowsFile`: as long as no reload is due, memory is what the file says |
| `parts`: devices | 2 panels that swap nodes, 1 other device, 3 settings, 4 moves | a pinned board is the one opened (`PinHonoured`); once nothing moves, the session lasts (`SessionSettles`) |
| `parts`: metrics | 3 units, room for 2, 3 configurations, 4 seconds, caches of 2, 2 changes or samples with a failure | what a sample says of the services (`ServicesShown`) and of the interface, address and rate (`InterfaceShown`) is true, or no older than a cache's entry, and what a failure may do to it |
| `parts`: keyboards | 2 keyboards, a key each, any calls in any order | flags agree with the kernel (`GrabAgrees`), keyboards are released (`ReleasedUnlessExclusive`), keys typed for the desktop are never read (`DeafKeysUnread`), a held keyboard is never let go by a rescan (`GrabKept`) |
| `parts`: frames | 3 payload bytes, 3 frames with parts of the magic, 2 faults | the store into `payload_` is in bounds; of two whole frames in a row one is accepted |
| `pin_setup` | the same boards, 3 moves | **violated**: `FailsClosed` |
| `session` | 1 keyboard, 1 key, 3 configurations, 2 disturbances | keyboards are held only in terminal mode, read only as configured; a dead link ends the session, the panel follows the mode, a hotplugged keyboard is grabbed |
| `osd` | 2 brightness steps, 1 sleep level, 3 files, 2 presses, 2 disturbances | `HostValueShown`, `NvsKept`, `ChoiceKept`, `OtherSettingKept`, `PanelFollowsConfig` |
| `osd_revert` | 1 press, no disturbance | **violated**: `AppliedLocally` |
| `screen` | 3 places, 3 screens, 2 texts, 2 styles, 3 frames, 2 uses of the OSD, 1 loss | after a flush the glass is the grid, or the page; the OSD stays on top; a link that lasts shows its last frame |
| `screen_white` | one screen with a white-on-white cell, no loss | **violated**: `GridShown` |
| `panel` | clock of 8, passes of 0 or 1; 3 pin changes with 3 frames, or 8 without; 2 texts, 3 settings | a press does one thing (`EachPressOnce`); no early sleep (`SleepsOnlyQuiet`), but sleep in the end; after a flush an alert is on the strip unless its text is the one last tapped away or had its time (`HiddenByTap`); it lasts and is lit (`AlertSeen`) |
| `alert_returns` | the same | **violated**: `HiddenUntilChanged` |

Why the bounds are enough.  Sequence numbers modulo 3 wrap within four sends,
so a reply to an earlier send may carry a new send's number; two attempts let a
reply to the first come during the second, or during the next send.  What makes
an acknowledgement trustworthy is that a session gives up before the numbers
wrap: `LinkAssumption` has `MaxFails < SeqSpace`, as 3 < 256 in the code.  The
opcodes' values (18 to 20) are outside the numbers used in `link`: that
they are inside in the code is `link_phantom`'s subject.  Two faults
can leave the parser in any state and disturb it once more.  The run `parts` is
five runs in one: its parts share no state, a behaviour moves one of them, and
each property is about one.  The files of `parts` use each rule of
`write_osd_levels`: no section, one under the new name in percent, two under
the old name with legacy keys; none has both names (see below).  Two panels and
one more device are the fewest for which the order of the list, a swap of nodes
and a link that changes hands matter, and four moves are two panels plugged in,
one unplugged and another in its place.  In `Metrics` caches live 2 seconds, so
that 4 seconds see an entry made, hit, expire and be made anew.  One keyboard is enough for
`Session`, which treats all alike; their interplay is in `parts`, where a key
on each can be one pressed while nobody listened on the keyboard beside one
that is held (`SessionProofs` has any number of both).  Three places
are one under the OSD, one beside it in the same row and one in another row, as
dirty marks are kept by row.  The daemon waits for each reply before it sends
again, so `screen` receives one frame a pass.  The times of `panel` keep the order
of the code's (debounce, long press, idle close, sleep: 1, 2, 3, 4); eight
changes of the pin are the four presses that open the OSD, go through its rows
and close it, or fewer with bounces; three frames bring an alert, another one
and its end.

Bounds are constants named in the guards (`MaxSends`, `MaxEvents`, `MaxKeys`,
`MaxPresses`, `MaxWork`, `MaxMoves`, `MaxTime`, `MaxChanges`, `MaxFrames`, `MaxTaps`, `Burst`, `MaxPass`, `MaxFaults`; in `Panel`
the fields `flips` and `frames` of `conf`); `MaxFaults` counts
disturbances of any kind together.  Deadlock is not checked where a system ends:
`SerialLink` when its sends are used up or the port is closed, `Session` when
stopped, and in `parts` a part that has used up its bounds.

### What was found

- `link_dropped`.  A comment at `serial_io.rs:104` has `wait_ack` leave opcodes
  to `poll_events`; `inbox.drain(..=i + 1)` removes those in front of the reply.
  A press during a send is lost.
- `link_phantom`.  The comment at `serial_io.rs:179` has non-opcode bytes
  dropped; the number of a reply that came after its deadline is taken for an
  opcode when it is 18, 19 or 20, and toggles the mode or sets a level.
- `osd_revert`.  `configuration.md:381` relies on the panel having applied a
  level set with the button; in terminal mode the panel's own snapshot, which
  is older, undoes it after 2.5 s.
- `pin_setup`.  `daemon.md:191` has discovery fail closed when the serial saved by
  `setup` matches no board; `setup` also saves the path the board is listed
  under, which is `/dev/tty-buddy` for the board behind that link, and a path
  that exists goes before the serial.
- `alert_returns`.  `status_ui.h:14` and the comment at `status_ui.cpp:848` hide a
  dismissed alert until its text changes; the code forgets the dismissal only when
  there is no alert (or no status page, or no link).  One that is dismissed, gives
  way to another and comes back stays hidden.
- `screen_white`.  0xFF marks a cell as not painted and is also white on white:
  such a cell stays black where the OSD was.

Seen while modelling, without a run: a file with both `[display]` and `[osd]`
comes out of `write_osd_levels` with two `[display]` sections, the second of
which wins, although the parser had ignored it (`status_config.rs:566`), and a
header spelled `[ display ]` is one to the parser and none to the writer;
`wait_ack` takes the number 19 of a second reply for a level's opcode and skips
the byte after it, so that of <6, 19, 19, 6, 20, 1>, where <19, 6> and <20, 1>
are presses, it may read <6, 20> as the ACK of send 20, whose frame was not
applied (`serial_io.rs:103`; `protocol.md:45` has ACK mean "Frame accepted");
`configuration.md:266` says of a filtered list "same sort/truncate", while the
code cuts the filter and does not sort; an interface listed twice shows no rate
in its second row; a colour of six bytes with a multi-byte character in it makes
`parse_hex_color` panic; two Shift keys share one flag in `poll`; the ignore window of `osd.cpp:255` does not
survive the wrap of `millis()`; a level event rewrites the other setting in its
canonical form (`bridge.rs:138`), and an edit made around a reload or a
write-back is missed until the next one (`bridge.rs:144`,
`status_config.rs:132`; both are in `OsdSync`); the Lost banner wipes an open OSD
in terminal mode (`wiped` in `Screen`); if a status frame and a terminal frame
came in one pass, the screen would be cleared and the mode be what it was, so
that `paintDirty` would leave an open OSD's place black (the daemon waits for
each reply, so they do not); keys typed just before a toggle to
status open the terminal again; leaving the status page forgets that an alert
was dismissed, while a text that changes and changes back before the next flush
stays dismissed, as in `alert_returns`; after a sample that could not read
`/proc/net/dev` the next rate is the whole counter (`metrics.rs:149`, `346`); an
`ip` that cannot be run is an empty address for 3 seconds, or in auto mode the
v6 one of an interface that has a v4 one (`metrics.rs:124`, `375`, `389`); an alert whose
hold has ended comes back after 24.8 days (`status_ui.cpp:856`); percentages of 7 and 8 round to level 0, which becomes the
default 4; a style that changes and changes back between two flushes, with the
OSD closed in between, would leave the OSD's place in the other style (`MayStyle`
in `Screen` excludes it: the file does not change twice in 16 ms).

### Fairness

- `SerialLink`: the host's thread runs; a deadline that comes again and again
  passes; polling that is possible again and again takes all that has arrived
  (`SF` because a new send may come first each time).  Nothing is assumed of the
  panel.
- `Session`: the thread runs (5 ms a pass, every call returns: a
  send does by `SendsReturn`); the rescan and the frame timers come due infinitely often, and
  a poll sees everything the panel has written.  Nothing is assumed of the
  world: what must stay for a property to hold is its premise (`<>[](...)`).
- `OsdSync`: both loops run, the window closes, an event that is there again and
  again is handled, and the status second ends.
- `Screen`: `loop` is called again and again, and 16 ms pass.
- `Panel`: the same, and time passes.
- `Discover`: the daemon's loop goes round, and udev handles what happened to a
  board in the end.

## 4. What is proved

For every value of the constants, checked by TLAPS to the last leaf:

- `SerialLinkProofs`: `TypeOK`, `ImplementsDelivery`, `EventsAccounted`,
  `NoPhantomEvent`, the last three for sessions of any length under three
  assumptions.  `pump_inbox` trims nothing (`Roomy`).  The header byte that stands
  in for a lost `seq` is none of the five codes.  And of the sends whose number is
  one of these codes, five in 256, each succeeds at its first attempt and no ACK is
  read apart from its number (`Prompt`); `link_phantom` is about what happens else.
  `EventsAccounted` counts bytes, so while such a send is out (`Coded`) the number
  of its ACK may be counted for an opcode, and nothing is claimed.
  The invariant (`LinkInv`) reads the bytes the host has not looked at as one
  stream, whether it has taken them or not: in it every level opcode has its level
  and every ACK its number, although the host may so far have taken one byte of
  the two.  Every ACK in it stands for a frame the panel has applied; ACKs come in
  the order of their frames, from the newest confirmed one on; and since a session
  ends after `MaxFails < SeqSpace` failures, the frames a reply may still be about
  have distinct numbers.  So an ACK with the number of the send that waits is its
  own.  A number that is a code cannot be told from the code by its value, so the
  stream is a `Reading` of the bytes: such a number, behind an ACK, is marked.  It
  is in one place at a time, in a frame under way, in what a cut frame left or in
  one reply (`Once`), so the mark goes when the reply is taken, and whatever else
  is removed or written moves it without making or losing another.
  `Counted` is `EventsAccounted` of the stream.  For `NoPhantomEvent`, `Trace` adds
  that what `poll_events` returned, and the events in the stream, is a subsequence
  of what the button raised.
- `FrameRxProofs`: `TypeOK`, `PayloadInBounds`, `MissedAtMostOne`.  The last is
  not inductive.  The strengthening says where the parser is while the current
  frame is whole: *in step* with it; or *behind*, still taking the frame before
  and due to finish it inside this one, or hunting in the rest of this one with
  the magic bytes just seen; and behind only if the frame before was not missed.
  That a frame's content does not hold the magic (`RxAssumption`) is what keeps
  the hunt from starting a frame inside another.
- `SessionProofs`, keyboards: `GrabAgrees`, `ReleasedUnlessExclusive`,
  `DeafKeysUnread`, `GrabKept`, for any callers.  `GrabInv` adds that nothing is
  open unless the daemon listens; `KeyInv` that keys are numbered by their count
  and that what is queued was pressed while it listened.
- `SessionProofs`, session: every step is a step of `KbSpec` or leaves the
  keyboards alone (`SessionUsesKeyboard`), so all of the above holds of the
  daemon (`PrivacyTheorem`); and `GrabOnlyInTerminal`, `ReadsOnlyAllowed` by an
  invariant that ties mode, stage and shell to the `Keyboard` flags.
- `OsdSyncProofs`: `TypeOK`, `HostValueShown`, `NvsKept`, `OtherSettingKept`,
  `ChoiceKept`, for any number of levels, any sleep table and any files.
  `TypeOK`, `HostValueShown` and `NvsKept` together are inductive: a restart
  needs the second to follow from the third.  `MapSleep`'s CHOOSE is shown to be
  a level by the well-foundedness of the naturals.  For `ChoiceKept` a choice is
  followed on its way (`ChoiceInv`): it is the last event of its setting still
  under way, or else the configuration says it, and so do the file while a
  reload is due and the text while one is going on; and unless the window is
  open nothing is under way and the panel's style says it too.
- `ScreenProofs`: `TypeOK`, `OsdOnTop`, `GridShown`, `PageShown`, for any places,
  screens, texts and styles.  The invariants say what each cache may be trusted
  for: where `prev_*` is valid and no OSD is, the glass shows it, under the cursor
  where that was lit (`CellsPainted`); a row without its mark holds what was
  painted (`CleanRows`); likewise for the texts in the last style, and for a page
  without its mark (`WidgetsPainted`, `CleanPage`); the holes are there only while
  the OSD is open, and an open OSD is on the glass unless the mode has changed
  and `Repaint` is still to notice (`Overlay`, `OnGlass`).  `OsdOnTop` assumes one frame a pass (`OneFrame`),
  `GridShown` that no cell is white on white (`NoSolid`; see `screen_white`).
- `PanelProofs`: `TypeOK`, `EachPressOnce`, `SleepsOnlyQuiet`, `HiddenByTap`, for
  any times, any size of the clock and any settings.  `EachPressOnce`
  follows from what the two flags say while the button is down: the press is
  owed an effect exactly when neither is set.  `SleepsOnlyQuiet` rests on the idle
  timer never running ahead of the quiet time but under an alert that `tick` has
  seen, although the timer wraps.  The last needs that an alert's time on the
  strip is no less than what ran of its hold, across the wrap of the clock
  (`Held`), that the text remembered as dismissed is the one a tap took away last
  (`Remembered`), and that a page without its mark was resolved (`Resolved`).
- `ConfigFileProofs`: `CfgTypeOK`, `MemoryFollowsFile` and `ImplementsStore`, for
  any files, edits and levels.  They rest on `RoundTrip`: `Load(WriteLevels(t, b, s))`
  is `ApplyLevels(Load(t), b, s)` for every text with one name for its display
  section.  That is proved section by section: the other sections keep their
  blocks, and so their values (`SameRead`); the display section has the levels
  in its first block, in no other, and the last value of every other key is the
  one it had (`DisplayKeys`).  The invariant `CfgInv` says of a write in progress
  that its new text is the old one with levels and means what memory holds, and
  of memory that it is what some text means: so the levels in it are numbers.
- `HostProofs`, devices: `DevTypeOK` and `PinHonoured`, for any boards, serials
  and number of moves.  A serial's link leads to its board unless udev has yet to
  handle that board (`LinksTrue`); two boards never share a node; so with
  nothing left to udev `pick_device` names a path with the pinned board behind
  it (`PickLeadsToBoard`), and the path still does when it is opened, if nothing
  moved since or it is the link itself.
- `HostProofs`, metrics: `MetTypeOK`, `InterfaceShown`, `ServicesShown`, for any
  units, configurations, changes, failures and life of a cache.  An entry is the
  address to give now unless an address changed, or a query told another, when it
  was made or since; the counter is the last sample's and what came since, or began
  anew and counts no more than that, or the last sample could not read it.  A cached list says of the units what is to be said for the filter it was
  made for, unless one changed or a query failed when it was made or since
  (`ServicesInv`).  That rests on what listing does: `Keep` gives the elements at
  some positions and no others (`KeepProperties`, by the ranks of these positions:
  `Ranks`), and the list sorted by status begins with every failed unit
  (`FailedFirst`), so that cutting it leaves one out only for others.
- `HostProofs`, the parts: the composition `MCParts` makes of five components is
  a behaviour of each (`PartsTheorem`), so what is proved of them holds in the
  run, and `PartsTypeOK` (of four; the keyboards' types are part of
  `Session`'s) for any values of the constants.

The types of `OsdSync` and `Screen` are proved and no run repeats them.
The proofs assume the named ASSUMEs of the modules, which TLC evaluates in a
passing run, and where it is said `Roomy`, `Prompt`, `OneFrame` or `NoSolid`,
which the theorems state and the runs `link` and `screen` satisfy (`link` has no
number that is a code and so is prompt; so is a session of 256 numbers whose sends
6, 18, 19, 20 and 21 are acknowledged at once).

Model-checked only: liveness (`EventsReported`, `SendsReturn`, `DeadLinkEnds`,
`PanelFollowsMode`, `HotplugGrabbed`, `PanelFollowsConfig`, `LastFrameShown`,
`AlertSeen`, `SleepsInTheEnd`, `SessionSettles`), which with `ENABLED` is beyond
the prover.

## 5. Not modelled, and the plan

Left out for good: processor, memory, disk, load and temperature, which each
sample reads afresh; the search for `daemon.toml` and `buddy.config` along their
lists of places; glyphs, layout and drawing; the VT100 emulator; the packing of
the snapshot; key tables; scripts and hardware.  `Session` covers `discover.rs`
by whether the panel is there and is the one picked; which one is picked is
`Discover`'s.

Next: the modifier state `poll` keeps per descriptor, over reopening and overflow;
what still holds of sends whose numbers are codes when they are tried again.

`Panel` and `OsdSync` meet in the long press, `Panel` and `Screen` in the menu and
in `statusGuiReset`; those interfaces are kept as operators of the modules so
that a composition can follow.
