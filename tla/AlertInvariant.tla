--------------------------- MODULE AlertInvariant ---------------------------
(***************************************************************************)
(* The inductive invariant behind the notification guarantees of           *)
(* AlertService.  What APNs accepted says nothing about the next tick; the *)
(* rows and the snapshot must be known to remember it.                     *)
(***************************************************************************)
EXTENDS AlertService

\* The alert rows in the table.
Live == {alerts[a] : a \in {b \in Alerts : AlertExists(b)}}

\* Firings that may still reach APNs, and those that did.
Unsent == out \cup (IF pc \in {"lookup", "push"} THEN {job.firing} ELSE {})
Sent == {n.firing : n \in apns}
Committed == Unsent \cup Sent

Evaluating == pc \in {"fetch", "evaluate"}

\* What the worker's position says about its locals.
Phases ==
  /\ todo # {} => Evaluating
  /\ out # {} => pc \in {"evaluate", "deliver"} \cup Delivering
  /\ Evaluating => \A n \in apns : n.firing.firedAt < clock

\* A row is stored under its id, and a snapshot holds each alert once: what it
\* holds is the row's definition unless the alert was rewritten after it.
Snapshot ==
  /\ \A a \in Alerts : AlertExists(a) => alerts[a].id = a
  /\ snapshotDef <= lastDef
  /\ \A d, e \in todo : d.id = e.id => d = e
  /\ \A e \in todo : e.def <= snapshotDef
  /\ \A e \in todo : AlertExists(e.id) =>
       alerts[e.id].def = e.def \/ alerts[e.id].def > snapshotDef

\* A tick fires an alert once, and not while the alert is still to evaluate.
OnePerAlert ==
  /\ \A f, g \in out : f.id = g.id => f = g
  /\ \A f \in out, e \in todo : f.id # e.id
  /\ pc \in {"lookup", "push"} => \A f \in out : f.id # job.firing.id

\* A definition number stands for one alert and one recurrence, wherever a
\* copy of the alert is.
SameDefinition(x, y) ==
  x.def = y.def => x.id = y.id /\ x.recurrence = y.recurrence

Definitions ==
  /\ \A x \in Live : x.def <= lastDef
  /\ \A x, y \in Live \cup todo \cup Committed : SameDefinition(x, y)

\* Firings are of definitions some snapshot has held.
Fired ==
  \A c \in Committed :
    c.def <= snapshotDef /\ c.firedAt \in Nat /\ c.firedAt <= clock

\* A low after a firing re-arms an onCrossing definition.
LowSince(c) == \E low \in lows : low[1] = c.def /\ c.firedAt < low[2]

\* h, a row or a snapshot entry, remembers the firing c of its definition.
Remembers(h, c) ==
  h.def = c.def =>
    /\ h.firedAt # None /\ c.firedAt <= h.firedAt
    /\ h.recurrence.type = "onCrossing" => h.last = "true" \/ LowSince(c)

Memory ==
  /\ \A h \in Live \cup todo, c \in Committed : Remembers(h, c)
  /\ \A low \in lows : low[2] <= clock
  /\ \A e \in todo, low \in lows : low[1] = e.def => low[2] < clock

\* Two firings of one definition are as far apart as its recurrence asks.
LowBetween(c, d) ==
  \E low \in lows :
    /\ low[1] = c.def
    /\ \/ c.firedAt < low[2] /\ low[2] < d.firedAt
       \/ d.firedAt < low[2] /\ low[2] < c.firedAt

Apart(c, d) ==
  c.def = d.def =>
    /\ c.recurrence.type # "oneShot"
    /\ c.recurrence.type = "cooldown" /\ c.recurrence.seconds < DurationLimit =>
         \/ c.firedAt - d.firedAt >= c.recurrence.seconds
         \/ d.firedAt - c.firedAt >= c.recurrence.seconds
    /\ c.recurrence.type = "onCrossing" => LowBetween(c, d)

Spacing ==
  /\ \A f \in Unsent, n \in apns : Apart(f, n.firing)
  /\ \A m, n \in apns : m # n => Apart(m.firing, n.firing)

\* The inductive invariant: the store and the worker's locals remember every
\* firing that was or may be sent, and those firings are apart.
IInv ==
  /\ TypeOK
  /\ Phases
  /\ Snapshot
  /\ OnePerAlert
  /\ Definitions
  /\ Fired
  /\ Memory
  /\ Spacing

-----------------------------------------------------------------------------
(* Refinement *)

Contract == INSTANCE AlertContract
              WITH now <- clock, pending <- Unsent, sent <- apns, lows <- lows

\* The worker, its tables and the API implement AlertContract: every step of
\* the pipeline, failed calls, lost replies, expired deadlines and crashes
\* included, decides a firing its recurrence allows, sends one that was decided
\* and not sent before, loses some, or changes nothing the owner can notice.
ContractHonoured == Contract!Spec
=============================================================================
