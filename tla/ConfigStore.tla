------------------------------ MODULE ConfigStore ------------------------------
(***************************************************************************)
(* What the configuration file promises its users: it holds whole values.  *)
(* The user replaces the value; the daemon, with a pair of levels from the *)
(* panel, puts there what Rewrite makes of the value it found when it      *)
(* began, or leaves the value alone: an edit made meanwhile may be lost,   *)
(* and nothing else is.  Where the value can only be overwritten in place, *)
(* it may also be lost.                                                    *)
(***************************************************************************)
CONSTANTS
  Values,           \* the values the user may put there
  Levels,           \* the levels the panel may send
  Rewrite(_, _, _), \* the value with other levels
  Empty             \* what is left of a lost value

VARIABLES
  stored,   \* the value
  base,     \* <<the value the write in progress found>>, or Idle
  inPlace   \* the value is overwritten in place

vars == <<stored, base, inPlace>>

Idle == <<>>  \* no write is in progress

Init == base = Idle

Edit == UNCHANGED <<base, inPlace>> /\ stored' \in Values
Begin == base = Idle /\ base' = <<stored>> /\ UNCHANGED <<stored, inPlace>>
Lose == inPlace /\ base # Idle /\ stored' = Empty /\ UNCHANGED <<base, inPlace>>
Abandon == base' = Idle /\ UNCHANGED <<stored, inPlace>>

Commit ==
  /\ base # Idle /\ base' = Idle
  /\ LET old == base[1] IN stored' \in {Rewrite(old, b, s) : b, s \in Levels}
  /\ UNCHANGED inPlace

Next == Abandon \/ Begin \/ Lose \/ Commit \/ Edit

Spec == Init /\ [][Next]_vars
=============================================================================
