---------------------------- MODULE AlertService ----------------------------
(***************************************************************************)
(* The alert side of the whole system: the worker of AlertWorker, the      *)
(* HTTP handlers that change the same tables (internal/api), and the       *)
(* devices whose push tokens come and go.  The API server and the worker   *)
(* are two processes that share nothing but Postgres and take no locks.    *)
(***************************************************************************)
EXTENDS AlertWorker

CONSTANTS Bodies,     \* the PUT /v1/alerts bodies clients send
          MaxDefs,    \* bound: alert PUTs
          MaxTokens   \* bound: push tokens a device is given after its first

BodyType == [recurrence : Recurrences, isActive : BOOLEAN,
             firedAt : Nat \cup {None}, last : {"nil", "true", "false"}]

ASSUME ServiceAssumption ==
  Bodies \subseteq BodyType /\ MaxDefs \in Nat /\ MaxTokens \in Nat

vars == <<devices, alerts, firings, lastFiringId, lastDef,
          pc, clock, todo, out, job, expired, faults,
          valid, apns, lows, snapshotDef>>

-----------------------------------------------------------------------------
(* API handlers.  Each changes the store by a single statement; all but    *)
(* the registration need a device row (requireDeviceID).                   *)

\* POST /v1/devices with the token the app holds.
RegisterDevice(d) ==
  /\ UpsertDevice(d, valid[d])
  /\ UNCHANGED <<alerts, firings, lastFiringId, lastDef, worker, world>>

\* PUT /v1/alerts/{id}: the body's runtime state is stored as it comes.
PutAlert(d, a, body) ==
  /\ DeviceExists(d) /\ lastDef < MaxDefs
  /\ UpsertAlert(d, a, body)
  /\ UNCHANGED <<devices, firings, lastFiringId, worker, world>>

\* DELETE /v1/alerts/{id}
RemoveAlert(d, a) ==
  /\ DeviceExists(d) /\ AlertExists(a)
  /\ DeleteAlert(a)
  /\ UNCHANGED <<devices, lastFiringId, lastDef, worker, world>>

\* The app is installed anew: APNs honours its new token only.
RotateToken(d) ==
  /\ valid[d] < MaxTokens
  /\ valid' = [valid EXCEPT ![d] = @ + 1]
  /\ UNCHANGED <<tables, worker, apns, lows, snapshotDef>>

ClientStep ==
  \E d \in Devices :
    \/ RegisterDevice(d) \/ RotateToken(d)
    \/ \E a \in Alerts : RemoveAlert(d, a) \/ \E b \in Bodies : PutAlert(d, a, b)

Init == StoreInit /\ WorkerInit
Next == WorkerNext \/ ClientStep
Spec == Init /\ [][Next]_vars

\* The worker is one goroutine whose calls return, at the latest with the
\* tick's deadline, and the platform restarts the process when it dies.
FairSpec == Spec /\ WF_vars(WorkerStep)

-----------------------------------------------------------------------------
(* Safety *)

\* Every variable has its type: the tables hold rows of their columns' types
\* and the worker's locals are what its position in the tick says.
TypeOK == StoreTypeOK /\ WorkerTypeOK

\* "OneShot fires once": of one definition of a one-shot alert APNs accepts at
\* most one notification, whatever fails or restarts between the evaluation,
\* UpdateState and the delivery, and whatever clients rewrite meanwhile.
OneShotAtMostOnce ==
  \A m, n \in apns :
    m.firing.def = n.firing.def /\ m.firing.recurrence.type = "oneShot" => m = n

Distance(m, n) ==
  IF m.firing.firedAt >= n.firing.firedAt THEN m.firing.firedAt - n.firing.firedAt
                                          ELSE n.firing.firedAt - m.firing.firedAt

SameCooldown(m, n) ==
  m # n /\ m.firing.def = n.firing.def /\ m.firing.recurrence.type = "cooldown"

\* Two notifications of one cooldown definition are at least its Seconds
\* apart, also across crashes and failed writes, for every span that a
\* time.Duration can hold.
CooldownSpacing ==
  \A m, n \in apns :
    SameCooldown(m, n) /\ m.firing.recurrence.seconds < DurationLimit
    => Distance(m, n) >= m.firing.recurrence.seconds

\* "OnCrossing fires on each false-to-true transition": between two
\* notifications of one definition the worker saw the condition false.
CrossingRearmed ==
  \A m, n \in apns :
    m.firing.def = n.firing.def /\ m # n /\ m.firing.recurrence.type = "onCrossing"
    => \E low \in lows :
         /\ low[1] = m.firing.def
         /\ \/ m.firing.firedAt < low[2] /\ low[2] < n.firing.firedAt
            \/ n.firing.firedAt < low[2] /\ low[2] < m.firing.firedAt

\* The audit table does not overstate: a firing marked delivered was accepted
\* by APNs for that device, and one marked dropped was not accepted.
AuditIsTruthful ==
  \A f \in firings :
    /\ f.status = "delivered" =>
         \E n \in apns : n.row = f.id /\ n.firing.device = f.device
    /\ f.status = "dropped" => \A n \in apns : n.row # f.id

\* A firing leaves pending once and for all: no step changes the status of a
\* row that was already settled.
StatusSettlesOnce ==
  [][\A f \in firings, g \in firings' :
       f.id = g.id /\ f # g => f.status = "pending"]_vars

\* A firing is on its way or on record: it waits to be delivered or it has a
\* row in firings.
Accounted(a, t) ==
  \/ \E f \in out : f.id = a /\ f.firedAt = t
  \/ \E f \in firings : f.alert = a /\ f.firedAt = t

\* Without faults a tick that evaluates to the end loses no firing: while it
\* runs, an alert not rewritten since its snapshot that the tick marked fired
\* waits for its delivery or has its row.
NoFiringForgotten ==
  pc \in Busy => \A a \in Alerts :
    AlertExists(a) /\ alerts[a].def <= snapshotDef /\ alerts[a].firedAt = clock
    => Accounted(a, clock)

\* Without faults no firing stays pending behind the worker's back: the only
\* pending row is the one being delivered, so a tick settles every row it
\* inserts before it takes up the next.
PendingIsInHand ==
  \A f \in firings : f.status = "pending" => pc \in Delivering /\ job.row = f.id

\* The state the store holds about an alert that fires repeatedly keeps it
\* alive: "deactivates itself" is said of OneShot only, so no step of the
\* worker clears is_active of another recurrence.
OnlyOneShotsRetire ==
  [][\A a \in Alerts :
       /\ AlertExists(a) /\ alerts[a].isActive
       /\ alerts[a].recurrence.type # "oneShot"
       /\ alerts'[a] # None /\ alerts'[a].def = alerts[a].def
       => alerts'[a].isActive]_vars

\* "OneShot fires once, then deactivates itself": with no fault at all, a
\* one-shot alert the worker deactivated has its firing on record.
RetiredMeansFired ==
  \A a \in Alerts :
    /\ AlertExists(a) /\ alerts[a].recurrence.type = "oneShot"
    /\ ~alerts[a].isActive /\ alerts[a].firedAt \in 1 .. clock
    => Accounted(a, alerts[a].firedAt)

\* A 410 revokes the token APNs refused, and POST /v1/devices refreshes it:
\* a device row that holds the token APNs honours is never deleted.
HonouredTokenStays ==
  [][\A d \in Devices : devices[d] = valid[d] => devices'[d] # None]_vars

-----------------------------------------------------------------------------
(* Liveness *)

\* A firing the evaluation has handed over and that is not taken up yet.
HandedOver(d, a) ==
  pc \in {"deliver"} \cup Delivering /\ \E f \in out : f.device = d /\ f.id = a

\* It has the row of its tick, and that row is not pending.
Tried(d, a) ==
  \E f \in firings :
    f.device = d /\ f.alert = a /\ f.firedAt = clock /\ f.status # "pending"

\* "errors from individual deliveries are logged and don't abort the pass": a
\* firing handed over for delivery gets a settled row, whichever inserts and
\* lookups fail before its turn, unless its own alert or device is deleted.
FiringsSettle ==
  \A d \in Devices, a \in Alerts :
    HandedOver(d, a) ~> Tried(d, a) \/ ~AlertExists(a) \/ ~DeviceExists(d)
=============================================================================
