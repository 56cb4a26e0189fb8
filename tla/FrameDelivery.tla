---------------------------- MODULE FrameDelivery ----------------------------
(***************************************************************************)
(* What the frame link promises the session loop, whatever happens on the  *)
(* wire.  Frames are numbered in the order send_frame is called.           *)
(*                                                                         *)
(*  - the panel shows frames in the order they were submitted: it may skip *)
(*    one, and may show one whose send failed, but it never goes back to   *)
(*    an older frame;                                                      *)
(*  - a send that returns Ok has its own frame on the panel;               *)
(*  - every send returns.                                                  *)
(***************************************************************************)
EXTENDS Naturals

VARIABLES
  sent,     \* number of the newest frame handed to send_frame, 0 before any
  shown,    \* number of the frame the panel applied last, 0 before any
  outcome   \* of the newest send: "none", "pending", "ok" or "err"

vars == <<sent, shown, outcome>>

Init == sent = 0 /\ shown = 0 /\ outcome = "none"

Submit == /\ outcome # "pending"
          /\ sent' = sent + 1
          /\ outcome' = "pending"
          /\ UNCHANGED shown

Show == /\ shown' \in (shown + 1) .. sent
        /\ UNCHANGED <<sent, outcome>>

Confirm == /\ outcome = "pending"
           /\ shown = sent
           /\ outcome' = "ok"
           /\ UNCHANGED <<sent, shown>>

GiveUp == /\ outcome = "pending"
          /\ outcome' = "err"
          /\ UNCHANGED <<sent, shown>>

Next == Submit \/ Show \/ Confirm \/ GiveUp

Spec == Init /\ [][Next]_vars

Returns == WF_vars(Confirm \/ GiveUp)
=============================================================================
