--------------------------- MODULE MCAlertService ---------------------------
(***************************************************************************)
(* Instances of AlertService for TLC.                                      *)
(***************************************************************************)
EXTENDS AlertInvariant

OneShot == [type |-> "oneShot", seconds |-> 0]
Cooldown == [type |-> "cooldown", seconds |-> 2]
OnCrossing == [type |-> "onCrossing", seconds |-> 0]
\* A span that wraps round with DurationLimit = 8.
LongCooldown == [type |-> "cooldown", seconds |-> 14]

AllRecurrences == {OneShot, Cooldown, OnCrossing, LongCooldown}

Fresh(r) == [recurrence |-> r, isActive |-> TRUE, firedAt |-> None, last |-> "nil"]
FreshBodies == {Fresh(OneShot), Fresh(Cooldown), Fresh(OnCrossing)}
TwoBodies == {Fresh(OneShot), Fresh(OnCrossing)}
=============================================================================
