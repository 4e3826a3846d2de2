---------------------------- MODULE AlertContract ----------------------------
(***************************************************************************)
(* What the alert pipeline promises the owner of an alert, without tables, *)
(* ticks, processes or faults: a firing is decided at most as often as its *)
(* recurrence allows, a decided firing is sent at most once, and nothing   *)
(* is sent that was not decided.  A decided firing may be lost: the code   *)
(* persists the decision first and delivers it later, without a retry.     *)
(***************************************************************************)
EXTENDS Integers

CONSTANT DurationLimit   \* cooldowns from this many seconds on promise nothing

VARIABLES now,       \* the time decisions are taken at
          pending,   \* firings decided and not sent yet
          sent,      \* notifications accepted
          lows       \* <<definition, time>>: a condition was seen false

contract == <<now, pending, sent, lows>>

Decided == pending \cup {n.firing : n \in sent}

Rearmed(f, g) ==
  \E low \in lows : low[1] = f.def /\ g.firedAt < low[2] /\ low[2] < f.firedAt

\* The recurrence they share lets f follow g.
MayFollow(f, g) ==
  CASE f.recurrence.type = "oneShot" -> FALSE
    [] f.recurrence.type = "cooldown" ->
         f.recurrence.seconds < DurationLimit
         => f.firedAt - g.firedAt >= f.recurrence.seconds
    [] f.recurrence.type = "onCrossing" -> Rearmed(f, g)

Start == pending = {} /\ sent = {} /\ lows = {}

Advance ==
  /\ now' > now
  /\ UNCHANGED <<pending, sent, lows>>

Decide(f) ==
  /\ f.firedAt = now
  /\ \A g \in Decided : g.def = f.def => MayFollow(f, g)
  /\ pending' = pending \cup {f}
  /\ UNCHANGED <<now, sent, lows>>

\* A notification leaves: its firing is no longer pending.
Send(n) ==
  /\ n.firing \in pending
  /\ pending' = pending \ {n.firing}
  /\ sent' = sent \cup {n}
  /\ UNCHANGED <<now, lows>>

\* A condition is seen false, pending firings are given up, or both.
SeeOrLose ==
  /\ pending' \subseteq pending
  /\ lows \subseteq lows'
  /\ \A low \in lows' \ lows : low[2] = now
  /\ UNCHANGED <<now, sent>>

Step ==
  \/ Advance
  \/ \E f \in pending' : Decide(f)
  \/ \E n \in sent' : Send(n)
  \/ SeeOrLose

Spec == Start /\ [][Step]_contract
==============================================================================
