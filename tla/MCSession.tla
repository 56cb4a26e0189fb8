------------------------------ MODULE MCSession ------------------------------
EXTENDS Session

\* A kiosk, the same without keyboards, and a start in the terminal with the
\* keyboards left to the desktop in status mode.
MCConfigs ==
  { [opens |-> TRUE, allow |-> Kb, status |-> TRUE],
    [opens |-> TRUE, allow |-> {}, status |-> TRUE],
    [opens |-> FALSE, allow |-> Kb, status |-> FALSE] }
=============================================================================
