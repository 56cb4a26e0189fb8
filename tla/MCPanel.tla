-------------------------------- MODULE MCPanel --------------------------------
EXTENDS Panel

\* The shipped flags with an alert held for a while and held for ever; the other
\* flags; and the button alone, for as many presses as close the OSD.
MCConfs ==
  { [tap |-> TRUE, wake |-> TRUE, hold |-> 2, flips |-> 3, frames |-> 2],
    [tap |-> TRUE, wake |-> TRUE, hold |-> 0, flips |-> 3, frames |-> 3],
    [tap |-> FALSE, wake |-> FALSE, hold |-> 0, flips |-> 2, frames |-> 2],
    [tap |-> TRUE, wake |-> TRUE, hold |-> 0, flips |-> 8, frames |-> 0] }
=============================================================================
