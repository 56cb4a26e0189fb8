------------------------------- MODULE MCOsdSync -------------------------------
EXTENDS OsdSync

\* Two brightness steps and automatic, one sleep level and never.
MCSteps == [k \in Knobs |-> IF k = "bright" THEN 2 ELSE 1]
MCDefault == [k \in Knobs |-> 1]
MCSecs == [l \in 0 .. 1 |-> 30 * l]

\* A canonical file, one in percent and seconds, one with auto_brightness.
MCEdits ==
  { [bright |-> 1, auto |-> FALSE, sleep |-> 1],
    [bright |-> 100, auto |-> FALSE, sleep |-> 0],
    [bright |-> 2, auto |-> TRUE, sleep |-> 60] }
=============================================================================
