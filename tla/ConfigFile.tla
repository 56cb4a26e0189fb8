------------------------------ MODULE ConfigFile ------------------------------
(***************************************************************************)
(* buddy.config on disk, shared by the user's editor and the daemon.  The  *)
(* daemon loads it when a session starts and when its mtime moves, and     *)
(* writes a level set on the panel back to it: apply_device_osd,           *)
(* write_osd_levels and atomic_write, a system call at a time, with the    *)
(* failure of each and with the process killed in between.                 *)
(*                                                                         *)
(* An editor saves by renaming, so that it never leaves half a file.  The  *)
(* race between the text and the mtime of one load is OsdSync's.           *)
(***************************************************************************)
EXTENDS ConfigText

CONSTANTS
  Files,    \* texts the file may have at first
  Edits,    \* texts the user may save later
  Levels,   \* levels the panel sends
  Host,     \* daemon.toml's legacy behaviour keys
  InPlace   \* whether the daemon may be unable to write the directory: a set

\* A file that is there is <<text>>.
NoFile == <<>>
File(text) == <<text>>

\* [display] goes by one name in a text: write_osd_levels makes two [display] of a
\* [display] and an [osd], and the one that was not read may then win.
OneName(text) == ~(HasSection(text, "display") /\ HasSection(text, "osd"))

ASSUME ConfigFileAssumption ==
  /\ \A f \in Files \union Edits : IsText(f) /\ OneName(f)
  /\ Levels \subseteq 0 .. 6
  /\ InPlace \subseteq BOOLEAN

VARIABLES
  file,     \* the file
  temp,     \* the temporary file beside it
  inPlace,  \* the directory is not writable: atomic_write overwrites the file
  step,     \* "down", "idle", or the next call of the write: see below
  orig,     \* <<the text write_osd_levels read>>, or <<>> when no write is going on
  new,      \* <<the text it made of it>>, or <<>>
  cfg,      \* the configuration in memory
  seen,     \* the mtime in memory is the file's
  behind    \* history: since the last load a write failed, or an edit slipped
            \* in between two calls of one

cfgVars == <<file, temp, inPlace, step, orig, new, cfg, seen, behind>>

TextOf(f) == IF f = NoFile THEN <<>> ELSE f[1]
Defaults == Load(<<>>, Host)
LoadFile(f) == IF f = NoFile THEN Defaults ELSE Load(f[1], Host)
EditedSettings == {Load(t, Host) : t \in Edits \union {<<>>}}

CfgInit ==
  /\ file \in {File(t) : t \in Files} \union {NoFile} /\ temp = NoFile /\ inPlace \in InPlace
  /\ step = "down" /\ orig = <<>> /\ new = <<>>
  /\ cfg = Defaults /\ seen = FALSE /\ behind = FALSE

-----------------------------------------------------------------------------
(* Loading                                                                 *)

TakeFile ==
  /\ cfg' = LoadFile(file) /\ seen' = (file # NoFile) /\ behind' = FALSE
  /\ UNCHANGED <<file, temp, inPlace, orig, new>>

Start == step = "down" /\ step' = "idle" /\ TakeFile

\* maybe_reload: without a file there is no mtime, and what is loaded stays.
MaybeReload ==
  /\ step = "idle" /\ file # NoFile /\ ~seen
  /\ TakeFile
  /\ UNCHANGED step

-----------------------------------------------------------------------------
(* A level set on the panel                                                *)

AtMost6(n) == IF n > 6 THEN 6 ELSE n

\* Mutant of LevelEvent: only the writer caps the levels.
LevelEventUncapped(b, s) ==
  /\ step = "idle"
  /\ cfg' = ApplyLevels(cfg, b, s)
  /\ orig' = <<TextOf(file)>> /\ new' = <<WriteLevels(TextOf(file), AtMost6(b), AtMost6(s))>>
  /\ behind' = (behind \/ ~seen)
  /\ step' = (IF inPlace THEN "truncate" ELSE "temp")
  /\ UNCHANGED <<file, temp, inPlace, seen>>

\* The levels in memory change, and the file is read and rewritten in memory.
LevelEvent(b, s) ==
  /\ step = "idle"
  /\ cfg' = ApplyLevels(cfg, AtMost6(b), AtMost6(s))
  /\ orig' = <<TextOf(file)>> /\ new' = <<WriteLevels(TextOf(file), AtMost6(b), AtMost6(s))>>
  /\ behind' = (behind \/ ~seen)
  /\ step' = IF inPlace THEN "truncate" ELSE "temp"
  /\ UNCHANGED <<file, temp, inPlace, seen>>

\* An event brings one level; the other is the one in memory.
BrightEvent == \E v \in Levels : LevelEvent(v, cfg.display.sleep)
SleepEvent == \E v \in Levels : LevelEvent(cfg.display.bright, v)

\* atomic_write, where the directory is writable.
WriteTemp ==
  /\ step = "temp"
  /\ temp' = new /\ step' = "rename"
  /\ UNCHANGED <<file, inPlace, orig, new, cfg, seen, behind>>

Rename ==
  /\ step = "rename"
  /\ file' = temp /\ temp' = NoFile /\ seen' = FALSE /\ step' = "stat"
  /\ orig' = <<>> /\ new' = <<>>
  /\ UNCHANGED <<inPlace, cfg, behind>>

\* Where it is not, a file that is there is overwritten: emptied, then written.
Truncate ==
  /\ step = "truncate" /\ file # NoFile
  /\ file' = File(<<>>) /\ seen' = FALSE /\ step' = "fill"
  /\ UNCHANGED <<temp, inPlace, orig, new, cfg, behind>>

Fill ==
  /\ step = "fill"
  /\ file' = new /\ seen' = FALSE /\ step' = "stat"
  /\ orig' = <<>> /\ new' = <<>>
  /\ UNCHANGED <<temp, inPlace, cfg, behind>>

\* apply_device_osd records the mtime of what it wrote.
Stat ==
  /\ step = "stat"
  /\ seen' = (file # NoFile) /\ step' = "idle"
  /\ UNCHANGED <<file, temp, inPlace, orig, new, cfg, behind>>

\* Mutant of WriteFails: the text it was about is still held.
WriteFailsHeld ==
  /\ step \in {"temp", "rename", "truncate", "fill"}
  /\ step' = "idle" /\ behind' = TRUE
  /\ temp' = NoFile
  /\ UNCHANGED <<file, inPlace, orig, new, cfg, seen>>

\* A call fails: the event is over, the level is in memory only.  (A temporary
\* file that could not be written stays behind, but the next write, the only one
\* to look at it, starts by emptying it; one that was not renamed is removed.)
WriteFails ==
  /\ step \in {"temp", "rename", "truncate", "fill"}
  /\ step' = "idle" /\ behind' = TRUE
  /\ temp' = NoFile /\ orig' = <<>> /\ new' = <<>>
  /\ UNCHANGED <<file, inPlace, cfg, seen>>

-----------------------------------------------------------------------------
(* The world                                                               *)

\* The temporary file is left behind, but its name has the process id in it.
Crash ==
  /\ step # "down"
  /\ step' = "down" /\ cfg' = Defaults /\ seen' = FALSE /\ behind' = FALSE
  /\ temp' = NoFile /\ orig' = <<>> /\ new' = <<>>
  /\ UNCHANGED <<file, inPlace>>

Edit ==
  /\ file' \in ({File(t) : t \in Edits} \union {NoFile}) \ {file}
  /\ seen' = FALSE /\ behind' = (behind \/ step = "stat")
  /\ UNCHANGED <<temp, inPlace, step, orig, new, cfg>>

CfgNext ==
  \/ Start \/ MaybeReload \/ BrightEvent \/ SleepEvent
  \/ WriteTemp \/ Rename \/ Truncate \/ Fill \/ Stat \/ WriteFails \/ Crash \/ Edit

CfgSpec == CfgInit /\ [][CfgNext]_cfgVars

-----------------------------------------------------------------------------
\* Texts and flags keep their types, and texts are held while a write is going on.
CfgTypeOK ==
  /\ IsText(TextOf(file)) /\ IsText(TextOf(temp)) /\ IsText(TextOf(orig)) /\ IsText(TextOf(new))
  /\ inPlace \in InPlace /\ seen \in BOOLEAN /\ behind \in BOOLEAN
  /\ step \in {"down", "idle", "temp", "rename", "truncate", "fill", "stat"}
  /\ \A held \in {orig, new} : held # <<>> <=> step \in {"temp", "rename", "truncate", "fill"}

\* maybe_reload compares mtimes only: as long as the file's is the recorded one,
\* what is in memory is what the file says, section by section, although memory
\* and file were changed by two different pieces of code (ApplyLevels on the
\* loaded values, WriteLevels on the text) any number of times; unless a write
\* failed or an edit slipped in.
MemoryFollowsFile == step = "idle" /\ seen /\ ~behind => cfg = LoadFile(file)

\* The text on disk, and the settings it stands for.
TextStore == INSTANCE ConfigStore WITH
  stored <- TextOf(file), base <- orig, inPlace <- inPlace,
  Values <- Edits \union {<<>>}, Levels <- 0 .. 6, Rewrite <- WriteLevels, Empty <- <<>>

SettingsStore == INSTANCE ConfigStore WITH
  stored <- LoadFile(file), inPlace <- inPlace,
  base <- IF orig = <<>> THEN <<>> ELSE <<Load(orig[1], Host)>>,
  Values <- EditedSettings, Levels <- 0 .. 6,
  Rewrite <- ApplyLevels, Empty <- Defaults

\* A crash or a failed call at any point of a write leaves the file as it was or
\* as it should be, and a level written back changes the levels and no other
\* setting; only a file overwritten in place can be lost.
ImplementsStore == TextStore!Spec /\ SettingsStore!Spec
=============================================================================
