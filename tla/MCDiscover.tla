------------------------------ MODULE MCDiscover ------------------------------
(***************************************************************************)
(* Values for Discover's constants: two panels that can swap their nodes,  *)
(* and another serial device.                                              *)
(***************************************************************************)
EXTENDS Discover

MCSerial == [b1 |-> 1, b2 |-> 2, ftdi |-> 0]
MCIds == [b1 |-> "esp", b2 |-> "esp", ftdi |-> "other"]
MCPorts == [b1 |-> {10, 11}, b2 |-> {10, 11}, ftdi |-> {20}]
\* No pin, the pin of configure-instance.sh, a serial alone.
Saving(p, i, s) == [path |-> p, ids |-> i, serial |-> s, user |-> "u"]
MCSaved == { Saving(Gone, "esp", 0), Saving(1, "esp", 1), Saving(Gone, "any", 1) }
=============================================================================
