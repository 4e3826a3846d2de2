------------------------- MODULE AlertService_proofs ------------------------
(***************************************************************************)
(* Proofs about AlertService for every value of its constants: its types,  *)
(* what it does with firings and alerts, and that it implements            *)
(* AlertContract.                                                          *)
(***************************************************************************)
EXTENDS AlertInvariant, TLAPS

USE DEF Busy, Delivering

-----------------------------------------------------------------------------
(* Type correctness *)

LEMMA RowFields ==
  ASSUME NEW r \in AlertRow
  PROVE  /\ r.id \in Alerts /\ r.device \in Devices /\ r.def \in Nat
         /\ r.recurrence \in Recurrences /\ r.isActive \in BOOLEAN
         /\ r.firedAt \in Nat \cup {None} /\ r.last \in {"nil", "true", "false"}
         /\ r # None
  BY StoreAssumption DEF AlertRow

LEMMA UpdatedType ==
  ASSUME NEW e \in AlertRow, NEW v \in Verdicts, clock \in Nat
  PROVE  /\ Updated(e, v, clock) \in AlertRow
         /\ Updated(e, v, clock).id = e.id
         /\ Updated(e, v, clock).device = e.device
         /\ Updated(e, v, clock).def = e.def
         /\ Updated(e, v, clock).recurrence = e.recurrence
  BY DEF Updated, AlertRow, Verdicts

LEMMA UpsertAlertType ==
  ASSUME StoreTypeOK, NEW d \in Devices, NEW a \in Alerts, NEW b \in Bodies,
         UpsertAlert(d, a, b)
  PROVE  alerts' \in [Alerts -> AlertRow \cup {None}] /\ lastDef' \in Nat
  BY ServiceAssumption, StoreAssumption
     DEF StoreTypeOK, UpsertAlert, AlertExists, AlertRow, BodyType

LEMMA UpdateStateType ==
  ASSUME StoreTypeOK, NEW u \in AlertRow, UpdateState(u)
  PROVE  alerts' \in [Alerts -> AlertRow \cup {None}]
<1>1. u.id \in Alerts /\ u.isActive \in BOOLEAN /\ u.firedAt \in Nat \cup {None}
      /\ u.last \in {"nil", "true", "false"}
  BY RowFields
<1>2. CASE AlertExists(u.id)
  <2>1. alerts[u.id] \in AlertRow
    BY <1>1, <1>2 DEF StoreTypeOK, AlertExists
  <2>2. [alerts[u.id] EXCEPT !.isActive = u.isActive, !.firedAt = u.firedAt,
                             !.last = u.last] \in AlertRow
    BY <1>1, <2>1 DEF AlertRow
  <2> QED BY <1>1, <1>2, <2>2 DEF StoreTypeOK, UpdateState
<1>3. CASE ~AlertExists(u.id)
  BY <1>3 DEF StoreTypeOK, UpdateState
<1> QED BY <1>2, <1>3

LEMMA InsertFiringType ==
  ASSUME StoreTypeOK, NEW f \in FiredAlert, InsertFiring(f)
  PROVE  firings' \subseteq FiringRow /\ lastFiringId' \in Nat
<1>1. f.id \in Alerts /\ f.device \in Devices /\ f.firedAt \in Nat
  BY RowFields DEF FiredAlert
<1> QED BY <1>1 DEF StoreTypeOK, InsertFiring, FiringRow, Status

LEMMA UpdateStatusType ==
  ASSUME StoreTypeOK, NEW id, NEW s \in Status, UpdateStatus(id, s)
  PROVE  firings' \subseteq FiringRow
  BY DEF StoreTypeOK, UpdateStatus, FiringRow

LEMMA DeleteTypes ==
  ASSUME StoreTypeOK, NEW d \in Devices
  PROVE  /\ DeleteDevice(d) => /\ devices' \in [Devices -> Nat \cup {None}]
                               /\ alerts' \in [Alerts -> AlertRow \cup {None}]
                               /\ firings' \subseteq FiringRow
         /\ \A a \in Alerts : DeleteAlert(a) =>
              alerts' \in [Alerts -> AlertRow \cup {None}] /\ firings' \subseteq FiringRow
  BY DEF StoreTypeOK, DeleteDevice, DeleteAlert, FiringRow

LEMMA TypeInit == Init => TypeOK
<1> SUFFICES ASSUME Init PROVE TypeOK
  OBVIOUS
<1>1. StoreTypeOK
  BY DEF Init, StoreInit, StoreTypeOK
<1>2. WorkerTypeOK
  BY DEF Init, WorkerInit, WorkerTypeOK
<1> QED BY <1>1, <1>2 DEF TypeOK

LEMMA TypeNext == TypeOK /\ [Next]_vars => TypeOK'
<1> SUFFICES ASSUME TypeOK, [Next]_vars PROVE TypeOK'
  OBVIOUS
<1> USE DEF tables, worker, world
<1>0. StoreTypeOK /\ WorkerTypeOK
  BY DEF TypeOK
<1>a. clock \in Nat /\ faults \in Nat /\ lastFiringId \in Nat /\ lastDef \in Nat
  BY <1>0 DEF StoreTypeOK, WorkerTypeOK
<1>f. ASSUME Succeeds \/ Fails \/ ReplyLost \/ Fault PROVE faults' \in Nat
  BY <1>f, <1>a DEF Succeeds, Fails, ReplyLost, Fault
<1>e. ASSUME NEW e \in todo, NEW v \in Verdicts, Observe(e, v)
      PROVE  lows' \subseteq Nat \X Nat
  <2>1. e.def \in Nat /\ lows \subseteq Nat \X Nat
    BY <1>0, RowFields DEF WorkerTypeOK
  <2> QED BY <1>a, <1>e, <2>1 DEF Observe
<1>1. CASE Boot
  BY <1>0, <1>1 DEF Boot, TypeOK, StoreTypeOK, WorkerTypeOK
<1>2. ASSUME NEW t \in 1 .. MaxTime, StartTick(t) PROVE TypeOK'
  <2>1. ListActive \subseteq AlertRow
    BY <1>0 DEF ListActive, StoreTypeOK, AlertExists
  <2>2. t \in Nat
    BY WorkerAssumption
  <2> QED BY <1>0, <1>2, <1>f, <2>1, <2>2 DEF StartTick, TypeOK, StoreTypeOK, WorkerTypeOK
<1>3. ASSUME NEW t \in 1 .. MaxTime, StartTickFails(t) PROVE TypeOK'
  <2>2. t \in Nat
    BY WorkerAssumption
  <2> QED BY <1>0, <1>3, <1>f, <2>2 DEF StartTickFails, TypeOK, StoreTypeOK, WorkerTypeOK
<1>4. CASE FetchMarkets
  BY <1>0, <1>4, <1>f DEF FetchMarkets, TypeOK, StoreTypeOK, WorkerTypeOK
<1>5. CASE FetchMarketsFails
  BY <1>0, <1>5, <1>f DEF FetchMarketsFails, EndTick, TypeOK, StoreTypeOK, WorkerTypeOK
<1>6. ASSUME NEW e \in todo, NEW v \in Verdicts, PassOver(e, v) PROVE TypeOK'
  BY <1>0, <1>6, <1>e DEF PassOver, TypeOK, StoreTypeOK, WorkerTypeOK
<1>7. ASSUME NEW e \in todo, NEW v \in Verdicts, Persist(e, v) PROVE TypeOK'
  <2>1. e \in AlertRow
    BY <1>0 DEF WorkerTypeOK
  <2>2. Updated(e, v, clock) \in AlertRow
    BY <1>a, <2>1, UpdatedType
  <2>3. alerts' \in [Alerts -> AlertRow \cup {None}]
    BY <1>0, <1>7, <2>2, UpdateStateType DEF Persist
  <2>4. ShouldFire(e, v, clock) => Updated(e, v, clock) \in FiredAlert
    <3>1. ShouldFire(e, v, clock) => Updated(e, v, clock).firedAt = clock
      BY <2>1 DEF Updated, AlertRow
    <3> QED BY <1>a, <2>2, <3>1, StoreAssumption DEF FiredAlert
  <2>5. out' \subseteq FiredAlert
    BY <1>0, <1>7, <2>4 DEF Persist, AddFiring, WorkerTypeOK
  <2> QED BY <1>0, <1>7, <1>e, <1>f, <2>3, <2>5
          DEF Persist, TypeOK, StoreTypeOK, WorkerTypeOK
<1>8. ASSUME NEW e \in todo, NEW v \in Verdicts, PersistFails(e, v) PROVE TypeOK'
  <2>1. e \in AlertRow
    BY <1>0 DEF WorkerTypeOK
  <2>2. Updated(e, v, clock) \in AlertRow
    BY <1>a, <2>1, UpdatedType
  <2>3. alerts' \in [Alerts -> AlertRow \cup {None}]
    BY <1>0, <1>8, <2>2, UpdateStateType DEF PersistFails, StoreTypeOK
  <2>4. faults' \in Nat
    BY <1>8, <1>f DEF PersistFails
  <2> QED BY <1>0, <1>8, <1>e, <2>3, <2>4
          DEF PersistFails, EndTick, TypeOK, StoreTypeOK, WorkerTypeOK
<1>9. CASE EvaluationDone
  BY <1>0, <1>9 DEF EvaluationDone, TypeOK, StoreTypeOK, WorkerTypeOK
<1>10. ASSUME NEW f \in out, RecordFiring(f) PROVE TypeOK'
  <2>1. f \in FiredAlert
    BY <1>0 DEF WorkerTypeOK
  <2>2. firings' \subseteq FiringRow /\ lastFiringId' \in Nat
    BY <1>0, <1>10, <2>1, InsertFiringType DEF RecordFiring
  <2>3. job' \in Job
    BY <1>a, <1>10, <2>1 DEF RecordFiring, Job, Status
  <2> QED BY <1>0, <1>10, <1>f, <2>2, <2>3
          DEF RecordFiring, TypeOK, StoreTypeOK, WorkerTypeOK
<1>11. ASSUME NEW f \in out, RecordFiringFails(f) PROVE TypeOK'
  <2>1. f \in FiredAlert
    BY <1>0 DEF WorkerTypeOK
  <2>2. firings' \subseteq FiringRow /\ lastFiringId' \in Nat
    BY <1>0, <1>11, <2>1, InsertFiringType DEF RecordFiringFails, StoreTypeOK
  <2>3. faults' \in Nat
    BY <1>11, <1>f DEF RecordFiringFails
  <2> QED BY <1>0, <1>11, <2>2, <2>3
          DEF RecordFiringFails, TypeOK, StoreTypeOK, WorkerTypeOK
<1>12. CASE LookupDevice
  <2>1. job \in Job /\ job.firing \in AlertRow
    BY <1>0, <1>12 DEF LookupDevice, WorkerTypeOK, Job, FiredAlert
  <2>2. devices[job.firing.device] \in Nat \cup {None}
    BY <1>0, <2>1, RowFields DEF StoreTypeOK
  <2>3. job' \in Job
    BY <1>12, <2>1, <2>2 DEF LookupDevice, Job
  <2> QED BY <1>0, <1>12, <1>f, <2>3 DEF LookupDevice, TypeOK, StoreTypeOK, WorkerTypeOK
<1>13. CASE LookupDeviceFails
  <2>1. job' \in Job
    BY <1>0, <1>13 DEF LookupDeviceFails, WorkerTypeOK, Job, Status
  <2>2. faults' \in Nat
    BY <1>13, <1>f DEF LookupDeviceFails
  <2> QED BY <1>0, <1>13, <2>1, <2>2
          DEF LookupDeviceFails, TypeOK, StoreTypeOK, WorkerTypeOK
<1>14. ASSUME NEW r \in {"delivered", "dropped", "failed"}, Push(r) PROVE TypeOK'
  <2>1. job \in Job /\ job.row \in Nat /\ job.firing \in FiredAlert
    BY <1>0, <1>14 DEF Push, WorkerTypeOK, Job
  <2>2. job' \in Job
    BY <1>14, <2>1 DEF Push, Job, Status
  <2>3. faults' \in Nat /\ (UNCHANGED apns \/ (Accept /\ job.token = valid[job.firing.device]))
    BY <1>14, <1>f DEF Push
  <2>4. job.firing.device \in Devices
    BY <2>1, RowFields DEF FiredAlert
  <2>5. apns' \subseteq Notification
    BY <1>0, <2>1, <2>3, <2>4 DEF Accept, Notification, WorkerTypeOK
  <2> QED BY <1>0, <1>14, <2>2, <2>3, <2>5 DEF Push, TypeOK, StoreTypeOK, WorkerTypeOK
<1>15. CASE RecordStatus
  <2>1. job \in Job
    BY <1>0, <1>15 DEF RecordStatus, WorkerTypeOK
  <2>2. pc' \in {"revoke", "deliver"} /\ (pc' = "revoke" => job' = job)
        /\ job' \in Job \cup {None}
    BY <1>15, <2>1 DEF RecordStatus
  <2>3. faults' \in Nat
    BY <1>15, <1>f DEF RecordStatus
  <2>4. firings' \subseteq FiringRow
    <3>1. MapStatus(job.result) \in Status
      BY DEF MapStatus, Status
    <3> QED BY <1>0, <1>15, <3>1, UpdateStatusType DEF RecordStatus, StoreTypeOK
  <2> QED BY <1>0, <1>15, <2>1, <2>2, <2>3, <2>4
          DEF RecordStatus, TypeOK, StoreTypeOK, WorkerTypeOK
<1>16. CASE RevokeDevice
  <2>1. job.firing.device \in Devices
    BY <1>0, <1>16, RowFields DEF RevokeDevice, WorkerTypeOK, Job, FiredAlert
  <2>2. /\ devices' \in [Devices -> Nat \cup {None}]
        /\ alerts' \in [Alerts -> AlertRow \cup {None}]
        /\ firings' \subseteq FiringRow
    BY <1>0, <1>16, <2>1, DeleteTypes DEF RevokeDevice, StoreTypeOK
  <2>3. faults' \in Nat
    BY <1>16, <1>f DEF RevokeDevice
  <2> QED BY <1>0, <1>16, <2>2, <2>3 DEF RevokeDevice, TypeOK, StoreTypeOK, WorkerTypeOK
<1>17. CASE TickDone
  BY <1>0, <1>17 DEF TickDone, EndTick, TypeOK, StoreTypeOK, WorkerTypeOK
<1>18. CASE DeadlineExpires
  BY <1>0, <1>18, <1>f DEF DeadlineExpires, TypeOK, StoreTypeOK, WorkerTypeOK
<1>19. CASE Crash
  BY <1>0, <1>19, <1>f DEF Crash, TypeOK, StoreTypeOK, WorkerTypeOK
<1>20. ASSUME NEW d \in Devices, RegisterDevice(d) PROVE TypeOK'
  <2>1. devices' \in [Devices -> Nat \cup {None}]
    BY <1>0, <1>20 DEF RegisterDevice, UpsertDevice, StoreTypeOK, WorkerTypeOK
  <2> QED BY <1>0, <1>20, <2>1 DEF RegisterDevice, TypeOK, StoreTypeOK, WorkerTypeOK
<1>21. ASSUME NEW d \in Devices, RotateToken(d) PROVE TypeOK'
  <2>1. valid' \in [Devices -> Nat]
    BY <1>0, <1>21 DEF RotateToken, WorkerTypeOK
  <2> QED BY <1>0, <1>21, <2>1 DEF RotateToken, TypeOK, StoreTypeOK, WorkerTypeOK
<1>22. ASSUME NEW d \in Devices, NEW a \in Alerts, RemoveAlert(d, a) PROVE TypeOK'
  <2>1. alerts' \in [Alerts -> AlertRow \cup {None}] /\ firings' \subseteq FiringRow
    BY <1>0, <1>22, DeleteTypes DEF RemoveAlert
  <2> QED BY <1>0, <1>22, <2>1 DEF RemoveAlert, TypeOK, StoreTypeOK, WorkerTypeOK
<1>23. ASSUME NEW d \in Devices, NEW a \in Alerts, NEW b \in Bodies, PutAlert(d, a, b)
       PROVE  TypeOK'
  <2>1. alerts' \in [Alerts -> AlertRow \cup {None}] /\ lastDef' \in Nat
    BY <1>0, <1>23, UpsertAlertType DEF PutAlert
  <2> QED BY <1>0, <1>23, <2>1 DEF PutAlert, TypeOK, StoreTypeOK, WorkerTypeOK
<1>24. CASE UNCHANGED vars
  BY <1>0, <1>24 DEF vars, TypeOK, StoreTypeOK, WorkerTypeOK
<1> QED
  BY <1>1, <1>2, <1>3, <1>4, <1>5, <1>6, <1>7, <1>8, <1>9, <1>10, <1>11, <1>12, <1>13,
     <1>14, <1>15, <1>16, <1>17, <1>18, <1>19, <1>20, <1>21, <1>22, <1>23, <1>24
     DEF Next, WorkerNext, WorkerStep, EvaluateStep, DeliverStep, ClientStep

\* Every reachable state is well typed, for every set of devices, alerts and
\* recurrences and every number of faults.
THEOREM TypeCorrect == Spec => []TypeOK
  BY TypeInit, TypeNext, PTL DEF Spec

-----------------------------------------------------------------------------
(* The notification guarantees *)

\* More lows only help: what was remembered or apart stays so.
LEMMA LowsGrow ==
  ASSUME lows \subseteq lows'
  PROVE  /\ \A c : LowSince(c) => LowSince(c)'
         /\ \A c, d : LowBetween(c, d) => LowBetween(c, d)'
         /\ \A h, c : Remembers(h, c) => Remembers(h, c)'
         /\ \A c, d : Apart(c, d) => Apart(c, d)'
<1>1. \A c : LowSince(c) => LowSince(c)'
  BY DEF LowSince
<1>2. \A c, d : LowBetween(c, d) => LowBetween(c, d)'
  BY DEF LowBetween
<1>3. \A h, c : Remembers(h, c) => Remembers(h, c)'
  BY <1>1 DEF Remembers
<1>4. \A c, d : Apart(c, d) => Apart(c, d)'
  BY <1>2 DEF Apart
<1> QED BY <1>1, <1>2, <1>3, <1>4

LEMMA ApartSymmetric ==
  ASSUME NEW c, NEW d, SameDefinition(c, d), Apart(c, d)
  PROVE  Apart(d, c)
  BY DEF Apart, SameDefinition, LowBetween

LEMMA OtherAlertApart ==
  ASSUME NEW c, NEW d, SameDefinition(c, d), c.id # d.id
  PROVE  Apart(c, d)
  BY DEF Apart, SameDefinition

\* A step that only forgets rows, snapshot entries and firings preserves what
\* is known about the rest.
LEMMA ForgettingIsSafe ==
  ASSUME Snapshot, Definitions, Fired, Memory,
         clock \in Nat, clock' \in Nat, clock <= clock',
         \A a \in Alerts : alerts'[a] = None \/ alerts'[a] = alerts[a],
         todo' \subseteq todo, Committed' \subseteq Committed,
         lows \subseteq lows',
         \A low \in lows' : low[2] <= clock',
         \A e \in todo', low \in lows' : low[1] = e.def => low[2] < clock',
         lastDef' = lastDef, snapshotDef' = snapshotDef,
         todo \subseteq AlertRow
  PROVE  Snapshot' /\ Definitions' /\ Fired' /\ Memory'
<1>1. Live' \subseteq Live
  BY DEF Live, AlertExists
<1>2. Snapshot'
  <2>1. \A e \in todo : e.id \in Alerts
    BY RowFields
  <2> QED BY <2>1 DEF Snapshot, AlertExists
<1>3. Definitions'
  BY <1>1 DEF Definitions, SameDefinition
<1>4. Fired'
  BY DEF Fired
<1>5. \A h \in (Live \cup todo)', c \in Committed' : Remembers(h, c)'
  BY <1>1, LowsGrow DEF Memory
<1>6. Memory'
  BY <1>5 DEF Memory
<1> QED BY <1>2, <1>3, <1>4, <1>6

LEMMA SpacingKept ==
  ASSUME Spacing, Unsent' \subseteq Unsent, apns' = apns, lows \subseteq lows'
  PROVE  Spacing'
  BY LowsGrow DEF Spacing

LEMMA InvInit == Init => IInv
<1> SUFFICES ASSUME Init PROVE IInv
  OBVIOUS
<1>1. /\ Live = {} /\ todo = {} /\ out = {} /\ apns = {} /\ lows = {} /\ pc = "down"
      /\ snapshotDef = 0 /\ lastDef = 0 /\ alerts = [a \in Alerts |-> None]
  BY DEF Init, StoreInit, WorkerInit, Live, AlertExists
<1>2. Committed = {} /\ Unsent = {}
  BY <1>1 DEF Committed, Unsent, Sent
<1>3. TypeOK
  BY TypeInit
<1> QED
  BY <1>1, <1>2, <1>3
     DEF IInv, Phases, Evaluating, Snapshot, AlertExists, OnePerAlert, Definitions,
         Fired, Memory, Spacing

\* Entries of one snapshot have different definitions.
LEMMA SnapshotDefs ==
  ASSUME Snapshot, Definitions, NEW d \in todo, NEW e \in todo, d.def = e.def
  PROVE  d = e
  BY DEF Snapshot, Definitions, SameDefinition

LEMMA LowsStayBelow ==
  ASSUME Snapshot, Definitions, Memory, clock \in Nat, clock' = clock,
         \/ lows' = lows /\ todo' \subseteq todo
         \/ \E e \in todo : lows' = lows \cup {<<e.def, clock>>} /\ todo' \subseteq todo \ {e}
  PROVE  /\ lows \subseteq lows' /\ todo' \subseteq todo
         /\ \A low \in lows' : low[2] <= clock'
         /\ \A e \in todo', low \in lows' : low[1] = e.def => low[2] < clock'
<1>1. CASE lows' = lows /\ todo' \subseteq todo
  BY <1>1 DEF Memory
<1>2. ASSUME NEW e \in todo, lows' = lows \cup {<<e.def, clock>>}, todo' \subseteq todo \ {e}
      PROVE  /\ lows \subseteq lows' /\ todo' \subseteq todo
             /\ \A low \in lows' : low[2] <= clock'
             /\ \A d \in todo', low \in lows' : low[1] = d.def => low[2] < clock'
  <2>1. \A d \in todo' : d.def # e.def
    BY <1>2, SnapshotDefs
  <2> QED BY <1>2, <2>1 DEF Memory
<1> QED BY <1>1, <1>2

\* Steps that write no alert state and send nothing.
LEMMA QuietStep ==
  ASSUME IInv, TypeOK', Phases',
         clock' = clock, lastDef' = lastDef, snapshotDef' = snapshotDef, apns' = apns,
         \A a \in Alerts : alerts'[a] = None \/ alerts'[a] = alerts[a],
         out' \subseteq out,
         \/ lows' = lows /\ todo' \subseteq todo
         \/ \E e \in todo : lows' = lows \cup {<<e.def, clock>>} /\ todo' \subseteq todo \ {e},
         pc' \in {"lookup", "push"} =>
           \/ pc \in {"lookup", "push"} /\ job'.firing = job.firing
           \/ job'.firing \in out \ out'
  PROVE  IInv'
<1>1. clock \in Nat /\ todo \subseteq AlertRow
  BY DEF IInv, TypeOK, WorkerTypeOK
<1>2. /\ lows \subseteq lows' /\ todo' \subseteq todo
      /\ \A low \in lows' : low[2] <= clock'
      /\ \A e \in todo', low \in lows' : low[1] = e.def => low[2] < clock'
  BY <1>1, LowsStayBelow DEF IInv
<1>3. Unsent' \subseteq Unsent
  BY DEF Unsent
<1>4. Committed' \subseteq Committed
  BY <1>3 DEF Committed, Sent
<1>5. Snapshot' /\ Definitions' /\ Fired' /\ Memory'
  BY <1>1, <1>2, <1>4, ForgettingIsSafe DEF IInv
<1>6. OnePerAlert'
  BY <1>2 DEF IInv, OnePerAlert
<1>7. Spacing'
  BY <1>2, <1>3, SpacingKept DEF IInv
<1> QED BY <1>5, <1>6, <1>7 DEF IInv

\* A tick begins: the snapshot copies live rows, and every firing and every
\* low is older than the new "now".
LEMMA StartTickKeepsInv ==
  ASSUME IInv, TypeOK', NEW t \in 1 .. MaxTime, StartTick(t)
  PROVE  IInv'
<1> USE DEF tables, world
<1>1. clock \in Nat /\ clock' \in Nat /\ clock < clock' /\ pc = "idle" /\ out = {}
  BY DEF IInv, TypeOK, WorkerTypeOK, StartTick, Phases
<1>2. todo' \subseteq Live /\ Live' = Live
  BY DEF StartTick, ListActive, Live, AlertExists
<1>3. /\ UNCHANGED <<alerts, lastDef, out, apns, lows>> /\ snapshotDef' = lastDef
      /\ pc' \in {"idle", "fetch"} /\ (pc' = "idle" => todo' = {})
  BY DEF StartTick
<1>4. Unsent' = {} /\ Unsent = {} /\ Committed' = Committed
  BY <1>1, <1>3 DEF Unsent, Committed, Sent
<1>5. Phases'
  <2>1. \A n \in apns : n.firing \in Committed
    BY DEF Committed, Sent
  <2>2. \A n \in apns' : n.firing.firedAt < clock'
    BY <1>1, <1>3, <2>1 DEF IInv, Fired
  <2> QED BY <1>1, <1>3, <2>2 DEF Phases, Evaluating
<1>6. Snapshot'
  <2>1. lastDef \in Nat
    BY DEF IInv, TypeOK, StoreTypeOK
  <2>2. \A e \in Live : \E a \in Alerts : AlertExists(a) /\ e = alerts[a] /\ e.id = a
    BY DEF Live, IInv, Snapshot
  <2> QED BY <1>2, <1>3, <2>1, <2>2 DEF IInv, Snapshot, Definitions, AlertExists
<1>7. OnePerAlert'
  BY <1>1, <1>3 DEF OnePerAlert
<1>8. Definitions'
  BY <1>2, <1>3, <1>4 DEF IInv, Definitions
<1>9. Fired'
  <2>1. snapshotDef \in Nat /\ lastDef \in Nat /\ snapshotDef <= lastDef
    BY DEF IInv, TypeOK, StoreTypeOK, WorkerTypeOK, Snapshot
  <2>2. \A c \in Committed : c \in AlertRow
    BY <1>4 DEF IInv, TypeOK, WorkerTypeOK, Committed, Sent, Notification, FiredAlert
  <2> QED BY <1>1, <1>3, <1>4, <2>1, <2>2, RowFields DEF IInv, Fired
<1>10. Memory'
  <2>1. \A h \in Live \cup todo', c \in Committed : Remembers(h, c)'
    BY <1>2, <1>3, LowsGrow DEF IInv, Memory
  <2>2. \A low \in lows : low[2] \in Nat
    BY DEF IInv, TypeOK, WorkerTypeOK
  <2> QED BY <1>1, <1>2, <1>3, <1>4, <2>1, <2>2 DEF IInv, Memory
<1>11. Spacing'
  BY <1>3, <1>4, SpacingKept DEF IInv
<1> QED BY <1>5, <1>6, <1>7, <1>8, <1>9, <1>10, <1>11 DEF IInv

\* The firings of a definition that is still to evaluate are of earlier ticks.
LEMMA FiringsAreOlder ==
  ASSUME IInv, pc = "evaluate", NEW e \in todo, NEW c \in Committed, c.def = e.def
  PROVE  /\ \E n \in apns : c = n.firing
         /\ c.firedAt \in Nat /\ c.firedAt < clock
         /\ c.recurrence = e.recurrence /\ Remembers(e, c)
<1>1. c.id = e.id /\ c.recurrence = e.recurrence
  BY DEF IInv, Definitions, SameDefinition
<1>2. c \notin out
  BY <1>1 DEF IInv, OnePerAlert
<1>3. \E n \in apns : c = n.firing
  BY <1>2 DEF Committed, Unsent, Sent
<1>4. c.firedAt < clock
  BY <1>3 DEF IInv, Phases, Evaluating
<1> QED BY <1>1, <1>3, <1>4 DEF IInv, Fired, Memory

\* What Updated writes back remembers what the snapshot entry remembered.
LEMMA UpdatedRemembers ==
  ASSUME IInv, pc = "evaluate", NEW e \in todo, NEW v \in Verdicts, Observe(e, v),
         NEW c \in Committed, NEW u, u = Updated(e, v, clock)
  PROVE  Remembers(u, c)'
<1>1. e \in AlertRow /\ clock \in Nat
  BY DEF IInv, TypeOK, WorkerTypeOK
<1>2. u.def = e.def /\ u.recurrence = e.recurrence
  BY <1>1, UpdatedType
<1>3. /\ u.firedAt = IF ShouldFire(e, v, clock) THEN clock ELSE e.firedAt
      /\ u.last = IF e.recurrence.type = "onCrossing" /\ v # "missing" THEN v ELSE e.last
  BY <1>1 DEF Updated, AlertRow
<1>4. SUFFICES ASSUME u.def = c.def
               PROVE  /\ u.firedAt # None /\ c.firedAt <= u.firedAt
                      /\ u.recurrence.type = "onCrossing" =>
                           u.last = "true" \/ LowSince(c)'
  BY DEF Remembers
<1>5. c.firedAt \in Nat /\ c.firedAt < clock /\ Remembers(e, c)
  BY <1>2, <1>4, FiringsAreOlder
<1>6. u.firedAt # None /\ c.firedAt <= u.firedAt
  BY <1>1, <1>2, <1>3, <1>4, <1>5, StoreAssumption DEF Remembers
<1>7. ASSUME u.recurrence.type = "onCrossing" PROVE u.last = "true" \/ LowSince(c)'
  <2>1. CASE v = "true"
    BY <1>2, <1>3, <1>7, <2>1
  <2>2. CASE v = "false"
    <3>1. <<e.def, clock>> \in lows'
      BY <1>2, <1>7, <2>2 DEF Observe
    <3> QED BY <1>2, <1>4, <1>5, <3>1 DEF LowSince
  <2>3. CASE v = "missing"
    <3>1. e.last = "true" \/ LowSince(c)
      BY <1>2, <1>4, <1>5, <1>7 DEF Remembers
    <3>2. lows \subseteq lows'
      BY DEF Observe
    <3> QED BY <1>3, <2>3, <3>1, <3>2, LowsGrow
  <2> QED BY <2>1, <2>2, <2>3 DEF Verdicts
<1> QED BY <1>6, <1>7

\* A span that does not wrap down is no shorter than the seconds asked for.
LEMMA DurationIsAtLeast ==
  ASSUME NEW seconds \in Int, seconds < DurationLimit
  PROVE  Duration(seconds) \in Int /\ Duration(seconds) >= seconds
<1>1. DurationLimit \in Nat \ {0}
  BY WorkerAssumption
<1>2. CASE seconds \in -DurationLimit .. DurationLimit - 1
  BY <1>2 DEF Duration
<1>3. CASE seconds < -DurationLimit
  <2>1. /\ (seconds + DurationLimit) % (2 * DurationLimit) \in Int
        /\ (seconds + DurationLimit) % (2 * DurationLimit) >= 0
    BY <1>1
  <2> QED
    BY <1>1, <1>3, <2>1 DEF Duration
<1> QED
  BY <1>1, <1>2, <1>3

\* A new firing is apart from those of its definition that were sent.
LEMMA NewFiringApart ==
  ASSUME IInv, pc = "evaluate", NEW e \in todo, NEW v \in Verdicts,
         ShouldFire(e, v, clock), NEW c \in Committed
  PROVE  Apart(Updated(e, v, clock), c)
<1> DEFINE u == Updated(e, v, clock)
<1>1. e \in AlertRow /\ clock \in Nat
  BY DEF IInv, TypeOK, WorkerTypeOK
<1>2. u.def = e.def /\ u.recurrence = e.recurrence
  BY <1>1, UpdatedType
<1>3. u.firedAt = clock
  BY <1>1 DEF Updated, AlertRow
<1> HIDE DEF u
<1>4. SUFFICES ASSUME u.def = c.def
               PROVE  /\ u.recurrence.type # "oneShot"
                      /\ u.recurrence.type = "cooldown" /\ u.recurrence.seconds < DurationLimit =>
                           u.firedAt - c.firedAt >= u.recurrence.seconds
                      /\ u.recurrence.type = "onCrossing" => LowBetween(u, c)
  BY DEF Apart, u
<1>5. c.firedAt \in Nat /\ c.firedAt < clock /\ Remembers(e, c)
  BY <1>2, <1>4, FiringsAreOlder
<1>6. e.firedAt \in Nat /\ c.firedAt <= e.firedAt
  BY <1>1, <1>2, <1>4, <1>5, RowFields DEF Remembers
<1>7. u.recurrence.type # "oneShot"
  BY <1>2, <1>6, StoreAssumption DEF ShouldFire
<1>8. ASSUME u.recurrence.type = "cooldown", u.recurrence.seconds < DurationLimit
      PROVE  u.firedAt - c.firedAt >= u.recurrence.seconds
  <2>1. e.recurrence \in Recurrences
    BY <1>1, RowFields
  <2>2. e.recurrence.seconds \in Int
    BY <2>1, StoreAssumption DEF RecurrenceType
  <2>3. clock - e.firedAt >= Duration(e.recurrence.seconds)
    BY <1>2, <1>6, <1>8, StoreAssumption DEF ShouldFire
  <2>4. clock - e.firedAt >= e.recurrence.seconds
    BY <1>1, <1>2, <1>6, <1>8, <2>2, <2>3, DurationIsAtLeast
  <2> QED BY <1>1, <1>2, <1>3, <1>5, <1>6, <2>2, <2>4
<1>9. ASSUME u.recurrence.type = "onCrossing" PROVE LowBetween(u, c)
  <2>1. LowSince(c)
    BY <1>2, <1>4, <1>5, <1>9 DEF ShouldFire, Remembers
  <2>2. \A low \in lows : low[1] = e.def => low[2] < clock
    BY DEF IInv, Memory
  <2> QED BY <1>2, <1>3, <1>4, <2>1, <2>2 DEF LowSince, LowBetween
<1> QED BY <1>7, <1>8, <1>9

\* UpdateState with what Updated computed, and possibly a firing kept for the
\* delivery: the row written may be of a later definition than the snapshot's,
\* of which nothing was fired yet.
LEMMA WriteStep ==
  ASSUME IInv, TypeOK', Phases', pc = "evaluate",
         NEW e \in todo, NEW v \in Verdicts, Observe(e, v),
         NEW u, u = Updated(e, v, clock), UpdateState(u),
         todo' \subseteq todo \ {e}, pc' \notin {"lookup", "push"},
         \/ out' \subseteq out
         \/ ShouldFire(e, v, clock) /\ out' = out \cup {u},
         clock' = clock, lastDef' = lastDef, snapshotDef' = snapshotDef, apns' = apns
  PROVE  IInv'
<1>1. e \in AlertRow /\ clock \in Nat /\ lastDef \in Nat /\ snapshotDef \in Nat
      /\ alerts \in [Alerts -> AlertRow \cup {None}]
  BY DEF IInv, TypeOK, StoreTypeOK, WorkerTypeOK
<1>2. u.id = e.id /\ u.def = e.def /\ u.recurrence = e.recurrence /\ e.id \in Alerts
  BY <1>1, UpdatedType, RowFields
<1>3. ShouldFire(e, v, clock) => u.firedAt = clock
  BY <1>1 DEF Updated, AlertRow
<1>4. ShouldFire(e, v, clock) /\ e.recurrence.type = "onCrossing" => u.last = "true"
  BY <1>1 DEF Updated, AlertRow, ShouldFire
<1>5. /\ lows \subseteq lows' /\ todo' \subseteq todo
      /\ \A low \in lows' : low[2] <= clock'
      /\ \A d \in todo', low \in lows' : low[1] = d.def => low[2] < clock'
  BY <1>1, LowsStayBelow DEF IInv, Observe
<1>6. \A a \in Alerts : a # e.id => alerts'[a] = alerts[a]
  BY <1>1, <1>2 DEF UpdateState
<1>7. AlertExists(e.id)' <=> AlertExists(e.id)
  <2>1. CASE AlertExists(e.id)
    <3>1. alerts'[e.id] = [alerts[e.id] EXCEPT !.isActive = u.isActive,
                                               !.firedAt = u.firedAt, !.last = u.last]
      BY <1>1, <1>2, <2>1 DEF UpdateState
    <3>2. alerts[e.id] \in AlertRow
      BY <1>1, <1>2, <2>1 DEF AlertExists
    <3>3. u.isActive \in BOOLEAN /\ u.firedAt \in Nat \cup {None}
          /\ u.last \in {"nil", "true", "false"}
      BY <1>1, UpdatedType, RowFields
    <3>4. alerts'[e.id] \in AlertRow
      BY <3>1, <3>2, <3>3 DEF AlertRow
    <3> QED BY <2>1, <3>4, StoreAssumption DEF AlertExists
  <2>2. CASE ~AlertExists(e.id)
    BY <1>2, <2>2 DEF UpdateState, AlertExists
  <2> QED BY <2>1, <2>2
<1>8. AlertExists(e.id) =>
        /\ alerts'[e.id].id = alerts[e.id].id /\ alerts'[e.id].def = alerts[e.id].def
        /\ alerts'[e.id].recurrence = alerts[e.id].recurrence
        /\ alerts'[e.id].firedAt = u.firedAt /\ alerts'[e.id].last = u.last
  BY <1>1, <1>2 DEF UpdateState, AlertRow, AlertExists
<1>9. \A h \in Live' :
        \/ h \in Live /\ h.id # e.id
        \/ AlertExists(e.id) /\ h = alerts'[e.id]
  BY <1>6, <1>7 DEF Live, AlertExists, IInv, Snapshot
<1>10. AlertExists(e.id) => alerts[e.id] \in Live /\ alerts[e.id].id = e.id
  BY <1>2 DEF Live, IInv, Snapshot
<1>11. Committed' \subseteq Committed \/ (ShouldFire(e, v, clock) /\ Committed' \subseteq Committed \cup {u})
  BY DEF Committed, Unsent, Sent
<1>12. Snapshot'
  <2>1. \A a \in Alerts : AlertExists(a)' => alerts'[a].id = a
    BY <1>2, <1>6, <1>7, <1>8 DEF IInv, Snapshot, AlertExists
  <2>2. \A d \in todo' : d \in todo /\ d.id \in Alerts /\ d.id # e.id
    BY <1>5, RowFields DEF IInv, Snapshot, TypeOK, WorkerTypeOK
  <2>3. \A d \in todo' : AlertExists(d.id)' =>
          alerts'[d.id].def = d.def \/ alerts'[d.id].def > snapshotDef
    BY <1>6, <2>2 DEF IInv, Snapshot, AlertExists
  <2> QED BY <1>5, <2>1, <2>3 DEF IInv, Snapshot
<1>13. OnePerAlert'
  <2>1. \A d \in todo' : d.id # e.id
    BY DEF IInv, Snapshot
  <2> QED BY <1>2, <1>5, <2>1 DEF IInv, OnePerAlert
<1>14. Definitions'
  <2>1. \A x \in (Live \cup todo \cup Committed)' :
          \E y \in Live \cup todo \cup Committed :
            x.id = y.id /\ x.def = y.def /\ x.recurrence = y.recurrence
    BY <1>2, <1>5, <1>8, <1>9, <1>10, <1>11
  <2>2. \A x \in Live' : \E y \in Live : x.def = y.def
    BY <1>8, <1>9, <1>10
  <2> QED BY <2>1, <2>2 DEF IInv, Definitions, SameDefinition
<1>15. Fired'
  <2>1. e.def <= snapshotDef
    BY DEF IInv, Snapshot
  <2> QED BY <1>1, <1>2, <1>3, <1>11, <2>1 DEF IInv, Fired
<1>16. \A c \in Committed' : Remembers(u, c)'
  <2>1. \A c \in Committed : Remembers(u, c)'
    BY UpdatedRemembers
  <2>2. ShouldFire(e, v, clock) => Remembers(u, u)'
    BY <1>1, <1>2, <1>3, <1>4, StoreAssumption DEF Remembers
  <2> QED BY <1>11, <2>1, <2>2
<1>17. \A h \in Live' \cup todo', c \in Committed' : Remembers(h, c)'
  <2> SUFFICES ASSUME NEW h \in Live' \cup todo', NEW c \in Committed' PROVE Remembers(h, c)'
    OBVIOUS
  <2>1. CASE h \in Live \cup todo /\ h.id # e.id
    <3>1. CASE c \in Committed
      BY <1>5, <2>1, <3>1, LowsGrow DEF IInv, Memory
    <3>2. CASE c = u
      <4>1. h.def # e.def
        BY <2>1 DEF IInv, Definitions, SameDefinition
      <4> QED BY <1>2, <3>2, <4>1 DEF Remembers
    <3> QED BY <1>11, <3>1, <3>2
  <2>2. CASE AlertExists(e.id) /\ h = alerts'[e.id]
    <3>1. h.def = e.def \/ h.def > snapshotDef
      BY <1>8, <2>2 DEF IInv, Snapshot
    <3>2. c.def <= snapshotDef /\ c.def \in Nat
      <4>1. c \in Committed \/ c = u
        BY <1>11
      <4>2. Committed \subseteq AlertRow
        <5>1. pc \notin {"lookup", "push"}
          OBVIOUS
        <5>2. Committed = out \cup Sent
          BY <5>1 DEF Committed, Unsent
        <5>3. out \subseteq FiredAlert /\ apns \subseteq Notification
          BY DEF IInv, TypeOK, WorkerTypeOK
        <5> QED BY <5>2, <5>3 DEF Sent, Notification, FiredAlert
      <4>3. u \in AlertRow
        BY <1>1, UpdatedType
      <4> QED BY <1>15, <4>1, <4>2, <4>3, RowFields DEF Fired
    <3>3. CASE h.def = e.def
      <4>1. h.recurrence = e.recurrence
        BY <1>8, <1>10, <2>2, <3>3 DEF IInv, Definitions, SameDefinition
      <4> QED BY <1>2, <1>8, <1>16, <2>2, <3>3, <4>1 DEF Remembers
    <3>4. CASE h.def > snapshotDef
      BY <1>1, <3>2, <3>4 DEF Remembers
    <3> QED BY <3>1, <3>3, <3>4
  <2>3. CASE h \in todo'
    <3>1. h \in todo /\ h.id # e.id
      BY <1>5, <2>3 DEF IInv, Snapshot
    <3> QED BY <2>1, <3>1
  <2> QED BY <1>9, <2>1, <2>2, <2>3
<1>18. Memory'
  BY <1>5, <1>17 DEF Memory
<1>19. Spacing'
  <2>1. Unsent' \subseteq Unsent \/ (ShouldFire(e, v, clock) /\ Unsent' \subseteq Unsent \cup {u})
    BY DEF Unsent
  <2>2. ShouldFire(e, v, clock) => \A n \in apns : Apart(u, n.firing)
    BY NewFiringApart DEF Committed, Sent
  <2> QED BY <1>5, <2>1, <2>2, LowsGrow DEF IInv, Spacing
<1> QED BY <1>12, <1>13, <1>14, <1>15, <1>18, <1>19 DEF IInv

\* A PUT starts a definition no firing, row or snapshot entry has.
LEMMA PutAlertKeepsInv ==
  ASSUME IInv, TypeOK', NEW d \in Devices, NEW a \in Alerts, NEW b \in Bodies,
         PutAlert(d, a, b)
  PROVE  IInv'
<1> USE DEF worker, world
<1>1. /\ alerts \in [Alerts -> AlertRow \cup {None}] /\ lastDef \in Nat /\ snapshotDef \in Nat
      /\ todo \subseteq AlertRow /\ snapshotDef <= lastDef
  BY DEF IInv, TypeOK, StoreTypeOK, WorkerTypeOK, Snapshot
<1>2. /\ lastDef' = lastDef + 1 /\ alerts'[a].id = a /\ alerts'[a].def = lastDef + 1
      /\ \A x \in Alerts : x # a => alerts'[x] = alerts[x]
  BY <1>1 DEF PutAlert, UpsertAlert
<1>3. UNCHANGED <<pc, clock, todo, out, job, apns, lows, snapshotDef>>
  BY DEF PutAlert
<1>4. Live' \subseteq Live \cup {alerts'[a]}
  BY <1>2 DEF Live, AlertExists
<1>5. Committed' = Committed /\ Unsent' = Unsent
  BY <1>3 DEF Committed, Unsent, Sent
<1>6. Committed \subseteq AlertRow
  BY DEF IInv, TypeOK, WorkerTypeOK, Committed, Unsent, Sent, Notification, FiredAlert, Job
<1>7. \A x \in Live \cup todo \cup Committed : x.def \in Nat /\ x.def <= lastDef
  <2>1. \A x \in Live \cup todo \cup Committed : x.def \in Nat
    BY <1>1, <1>6, RowFields DEF Live, AlertExists
  <2> QED BY <1>1, <2>1 DEF IInv, Definitions, Snapshot, Fired
<1>8. \A x \in Live \cup todo \cup Committed : x.def # alerts'[a].def
  BY <1>1, <1>2, <1>7
<1>9. Phases' /\ OnePerAlert' /\ Fired'
  BY <1>3, <1>5 DEF IInv, Phases, Evaluating, OnePerAlert, Fired
<1>10. Snapshot'
  <2>1. \A e \in todo : e.id \in Alerts
    BY <1>1, RowFields
  <2> QED BY <1>1, <1>2, <1>3, <2>1 DEF IInv, Snapshot, AlertExists
<1>11. Definitions'
  BY <1>1, <1>2, <1>3, <1>4, <1>5, <1>7, <1>8 DEF IInv, Definitions, SameDefinition
<1>12. Memory'
  <2>1. \A h \in Live' \cup todo', c \in Committed' : Remembers(h, c)'
    <3>1. \A h \in Live \cup todo, c \in Committed : Remembers(h, c)'
      BY <1>3, LowsGrow DEF IInv, Memory
    <3>2. \A c \in Committed : \A h : h = alerts'[a] => Remembers(h, c)'
      BY <1>8 DEF Remembers
    <3> QED BY <1>3, <1>4, <1>5, <3>1, <3>2
  <2> QED BY <1>3, <2>1 DEF IInv, Memory
<1>13. Spacing'
  BY <1>3, <1>5, SpacingKept DEF IInv
<1> QED BY <1>9, <1>10, <1>11, <1>12, <1>13 DEF IInv

\* APNs takes the notification in hand: it is apart from those taken before,
\* and of another alert than the firings that still wait.
LEMMA AcceptKeepsInv ==
  ASSUME IInv, TypeOK', NEW r \in {"delivered", "dropped", "failed"}, Push(r), Accept
  PROVE  IInv'
<1> USE DEF tables
<1>1. /\ UNCHANGED <<alerts, clock, todo, out, lows, lastDef, snapshotDef>>
      /\ pc = "push" /\ pc' = "record"
  BY DEF Push
<1>2. Unsent = out \cup {job.firing} /\ Unsent' = out
  BY <1>1 DEF Unsent
<1>3. Sent' \subseteq Sent \cup {job.firing}
  <2>1. \A n \in apns' : n \in apns \/ n.firing = job.firing
    BY DEF Accept
  <2> QED BY <2>1 DEF Sent
<1>4. Committed' \subseteq Committed
  BY <1>2, <1>3 DEF Committed
<1>5. clock \in Nat /\ todo \subseteq AlertRow
  BY DEF IInv, TypeOK, WorkerTypeOK
<1>6. Phases' /\ OnePerAlert'
  BY <1>1 DEF IInv, Phases, Evaluating, OnePerAlert
<1>7. Snapshot' /\ Definitions' /\ Fired' /\ Memory'
  BY <1>1, <1>4, <1>5, ForgettingIsSafe DEF IInv, Memory
<1>8. \A f \in out : Apart(f, job.firing)
  <2>1. \A f \in out : SameDefinition(f, job.firing) /\ f.id # job.firing.id
    BY <1>1, <1>2 DEF IInv, Definitions, Committed, OnePerAlert
  <2> QED BY <2>1, OtherAlertApart
<1>9. \A n \in apns : Apart(job.firing, n.firing) /\ Apart(n.firing, job.firing)
  <2>1. \A n \in apns : Apart(job.firing, n.firing)
    BY <1>2 DEF IInv, Spacing
  <2>2. \A n \in apns : SameDefinition(job.firing, n.firing)
    BY <1>2 DEF IInv, Definitions, Committed, Sent
  <2> QED BY <2>1, <2>2, ApartSymmetric
<1>10. \A n \in apns' : n \in apns \/ n.firing = job.firing
  BY DEF Accept
<1>11. \A m, n \in apns' : m # n /\ m \notin apns => n \in apns
  BY DEF Accept
<1>12. \A f \in Unsent', n \in apns' : Apart(f, n.firing)
  BY <1>2, <1>8, <1>10 DEF IInv, Spacing
<1>13. \A m, n \in apns' : m # n => Apart(m.firing, n.firing)
  BY <1>9, <1>10, <1>11 DEF IInv, Spacing
<1>14. Spacing'
  BY <1>1, <1>12, <1>13, LowsGrow DEF Spacing
<1> QED BY <1>6, <1>7, <1>14 DEF IInv

LEMMA InvNext == IInv /\ [Next]_vars => IInv'
<1> SUFFICES ASSUME IInv, [Next]_vars PROVE IInv'
  OBVIOUS
<1> USE DEF tables, worker, world
<1>0. TypeOK'
  BY TypeNext DEF IInv
<1>p. Phases
  BY DEF IInv
<1>1. CASE Boot
  <2>1. Phases'
    BY <1>p, <1>1 DEF Boot, Phases, Evaluating
  <2> QED BY <1>0, <1>1, <2>1, QuietStep DEF Boot
<1>2. ASSUME NEW t \in 1 .. MaxTime, StartTick(t) PROVE IInv'
  BY <1>0, <1>2, StartTickKeepsInv
<1>3. ASSUME NEW t \in 1 .. MaxTime, StartTickFails(t) PROVE IInv'
  <2>1. /\ UNCHANGED <<alerts, lastDef, pc, todo, out, job, apns, lows, snapshotDef>>
        /\ pc = "idle" /\ todo = {} /\ out = {}
        /\ clock \in Nat /\ clock' \in Nat /\ clock <= clock'
    BY <1>0, <1>3, <1>p DEF StartTickFails, Phases, Evaluating, IInv, TypeOK, WorkerTypeOK
  <2>2. Unsent' = Unsent /\ Committed' = Committed
    BY <2>1 DEF Unsent, Committed, Sent
  <2>3. \A low \in lows' : low[2] <= clock'
    BY <2>1 DEF IInv, Memory, TypeOK, WorkerTypeOK
  <2>4. Snapshot' /\ Definitions' /\ Fired' /\ Memory'
    BY <2>1, <2>2, <2>3, ForgettingIsSafe DEF IInv
  <2>5. Phases' /\ OnePerAlert'
    BY <2>1 DEF Phases, Evaluating, OnePerAlert
  <2>6. Spacing'
    BY <2>1, <2>2, SpacingKept DEF IInv
  <2> QED BY <1>0, <2>4, <2>5, <2>6 DEF IInv
<1>4. CASE FetchMarkets
  <2>1. Phases'
    BY <1>p, <1>4 DEF FetchMarkets, Phases, Evaluating
  <2> QED BY <1>0, <1>4, <2>1, QuietStep DEF FetchMarkets
<1>5. CASE FetchMarketsFails
  <2>1. Phases'
    BY <1>5 DEF FetchMarketsFails, EndTick, Phases, Evaluating
  <2> QED BY <1>0, <1>5, <2>1, QuietStep DEF FetchMarketsFails, EndTick
<1>6. ASSUME NEW e \in todo, NEW v \in Verdicts, PassOver(e, v) PROVE IInv'
  <2>1. Phases'
    BY <1>p, <1>6 DEF PassOver, Phases, Evaluating
  <2> QED BY <1>0, <1>6, <2>1, QuietStep DEF PassOver, Observe
<1>7. ASSUME NEW e \in todo, NEW v \in Verdicts, Persist(e, v) PROVE IInv'
  <2>1. Phases'
    BY <1>p, <1>7 DEF Persist, Phases, Evaluating
  <2> QED BY <1>0, <1>7, <2>1, WriteStep DEF Persist, AddFiring
<1>8. ASSUME NEW e \in todo, NEW v \in Verdicts, PersistFails(e, v) PROVE IInv'
  <2>1. Phases'
    BY <1>8 DEF PersistFails, EndTick, Phases, Evaluating
  <2>2. CASE UNCHANGED alerts
    BY <1>0, <1>8, <2>1, <2>2, QuietStep DEF PersistFails, EndTick, Observe
  <2>3. CASE UpdateState(Updated(e, v, clock))
    BY <1>0, <1>8, <2>1, <2>3, WriteStep DEF PersistFails, EndTick
  <2> QED BY <1>8, <2>2, <2>3 DEF PersistFails
<1>9. CASE EvaluationDone
  <2>1. Phases'
    BY <1>p, <1>9 DEF EvaluationDone, Phases, Evaluating
  <2> QED BY <1>0, <1>9, <2>1, QuietStep DEF EvaluationDone
<1>10. ASSUME NEW f \in out, RecordFiring(f) PROVE IInv'
  <2>1. Phases'
    BY <1>p, <1>10 DEF RecordFiring, Phases, Evaluating
  <2> QED BY <1>0, <1>10, <2>1, QuietStep DEF RecordFiring, InsertFiring
<1>11. ASSUME NEW f \in out, RecordFiringFails(f) PROVE IInv'
  <2>1. Phases'
    BY <1>p, <1>11 DEF RecordFiringFails, Phases, Evaluating
  <2> QED BY <1>0, <1>11, <2>1, QuietStep DEF RecordFiringFails
<1>12. CASE LookupDevice
  <2>1. Phases' /\ job'.firing = job.firing
    BY <1>p, <1>12 DEF LookupDevice, Phases, Evaluating, IInv, TypeOK, WorkerTypeOK, Job
  <2> QED BY <1>0, <1>12, <2>1, QuietStep DEF LookupDevice
<1>13. CASE LookupDeviceFails
  <2>1. Phases'
    BY <1>p, <1>13 DEF LookupDeviceFails, Phases, Evaluating
  <2> QED BY <1>0, <1>13, <2>1, QuietStep DEF LookupDeviceFails
<1>14. ASSUME NEW r \in {"delivered", "dropped", "failed"}, Push(r) PROVE IInv'
  <2>1. CASE Accept
    BY <1>0, <1>14, <2>1, AcceptKeepsInv
  <2>2. CASE UNCHANGED apns
    <3>1. Phases'
      BY <1>p, <1>14, <2>2 DEF Push, Phases, Evaluating
    <3> QED BY <1>0, <1>14, <2>2, <3>1, QuietStep DEF Push
  <2> QED BY <1>14, <2>1, <2>2 DEF Push
<1>15. CASE RecordStatus
  <2>1. pc' \in {"revoke", "deliver"}
    BY <1>15 DEF RecordStatus
  <2>2. Phases'
    BY <1>p, <1>15, <2>1 DEF RecordStatus, Phases, Evaluating
  <2> QED BY <1>0, <1>15, <2>1, <2>2, QuietStep DEF RecordStatus
<1>16. CASE RevokeDevice
  <2>1. Phases'
    BY <1>p, <1>16 DEF RevokeDevice, Phases, Evaluating
  <2>2. \A a \in Alerts : alerts'[a] = None \/ alerts'[a] = alerts[a]
    BY <1>16 DEF RevokeDevice, DeleteDevice
  <2> QED BY <1>0, <1>16, <2>1, <2>2, QuietStep DEF RevokeDevice
<1>17. CASE TickDone
  <2>1. Phases'
    BY <1>17 DEF TickDone, EndTick, Phases, Evaluating
  <2> QED BY <1>0, <1>17, <2>1, QuietStep DEF TickDone, EndTick
<1>18. CASE DeadlineExpires
  <2>1. Phases'
    BY <1>p, <1>18 DEF DeadlineExpires, Phases, Evaluating
  <2> QED BY <1>0, <1>18, <2>1, QuietStep DEF DeadlineExpires
<1>19. CASE Crash
  <2>1. Phases'
    BY <1>19 DEF Crash, Phases, Evaluating
  <2> QED BY <1>0, <1>19, <2>1, QuietStep DEF Crash
<1>20. ASSUME NEW d \in Devices, RegisterDevice(d) PROVE IInv'
  <2>1. Phases'
    BY <1>p, <1>20 DEF RegisterDevice, Phases, Evaluating
  <2> QED BY <1>0, <1>20, <2>1, QuietStep DEF RegisterDevice
<1>21. ASSUME NEW d \in Devices, RotateToken(d) PROVE IInv'
  <2>1. Phases'
    BY <1>p, <1>21 DEF RotateToken, Phases, Evaluating
  <2> QED BY <1>0, <1>21, <2>1, QuietStep DEF RotateToken
<1>22. ASSUME NEW d \in Devices, NEW a \in Alerts, RemoveAlert(d, a) PROVE IInv'
  <2>1. Phases'
    BY <1>p, <1>22 DEF RemoveAlert, Phases, Evaluating
  <2>2. \A x \in Alerts : alerts'[x] = None \/ alerts'[x] = alerts[x]
    BY <1>22 DEF RemoveAlert, DeleteAlert, IInv, TypeOK, StoreTypeOK
  <2> QED BY <1>0, <1>22, <2>1, <2>2, QuietStep DEF RemoveAlert
<1>23. ASSUME NEW d \in Devices, NEW a \in Alerts, NEW b \in Bodies, PutAlert(d, a, b)
       PROVE  IInv'
  BY <1>0, <1>23, PutAlertKeepsInv
<1>24. CASE UNCHANGED vars
  <2>1. Phases'
    BY <1>p, <1>24 DEF vars, Phases, Evaluating
  <2> QED BY <1>0, <1>24, <2>1, QuietStep DEF vars
<1> QED
  BY <1>1, <1>2, <1>3, <1>4, <1>5, <1>6, <1>7, <1>8, <1>9, <1>10, <1>11, <1>12, <1>13,
     <1>14, <1>15, <1>16, <1>17, <1>18, <1>19, <1>20, <1>21, <1>22, <1>23, <1>24
     DEF Next, WorkerNext, WorkerStep, EvaluateStep, DeliverStep, ClientStep

\* The store and the worker always remember what was or may be sent.
THEOREM Invariance == Spec => []IInv
  BY InvInit, InvNext, PTL DEF Spec

\* A definition of a one-shot alert is notified at most once, for any number
\* of devices, alerts, clients' writes, faults and crashes.
THEOREM OneShotTheorem == Spec => []OneShotAtMostOnce
<1>1. IInv => OneShotAtMostOnce
  BY DEF IInv, Spacing, Apart, OneShotAtMostOnce
<1> QED BY <1>1, Invariance, PTL

\* Notifications of a cooldown definition keep its distance.
THEOREM CooldownTheorem == Spec => []CooldownSpacing
<1>1. IInv => CooldownSpacing
  <2> SUFFICES ASSUME IInv, NEW m \in apns, NEW n \in apns, SameCooldown(m, n),
                      m.firing.recurrence.seconds < DurationLimit
               PROVE  Distance(m, n) >= m.firing.recurrence.seconds
    BY DEF CooldownSpacing
  <2>1. Apart(m.firing, n.firing)
    BY DEF IInv, Spacing, SameCooldown
  <2>2. m.firing.firedAt \in Nat /\ n.firing.firedAt \in Nat
    BY DEF IInv, Fired, Committed, Sent
  <2>3. m.firing.recurrence.seconds \in Int
    <3>1. m.firing.recurrence \in Recurrences
      BY RowFields DEF IInv, TypeOK, WorkerTypeOK, Notification, FiredAlert
    <3> QED BY <3>1, StoreAssumption DEF RecurrenceType
  <2> QED BY <2>1, <2>2, <2>3 DEF Apart, SameCooldown, Distance
<1> QED BY <1>1, Invariance, PTL

\* Between two notifications of an onCrossing definition its condition was
\* seen false.
THEOREM CrossingTheorem == Spec => []CrossingRearmed
<1>1. IInv => CrossingRearmed
  BY DEF IInv, Spacing, Apart, LowBetween, CrossingRearmed
<1> QED BY <1>1, Invariance, PTL

-----------------------------------------------------------------------------
(* AlertService implements AlertContract: every step is a step of the       *)
(* contract or leaves it unchanged.                                         *)

LEMMA ContractInit == Init => Contract!Start
  BY DEF Init, WorkerInit, Contract!Start, Unsent

\* A step in which nothing new is decided, and at most one low is seen now.
LEMMA SeeOrLoseStep ==
  ASSUME clock' = clock, apns' = apns, Unsent' \subseteq Unsent,
         lows' = lows \/ \E d : lows' = lows \cup {<<d, clock>>}
  PROVE  Contract!Step
  BY DEF Contract!Step, Contract!SeeOrLose

\* Observe sees a low now or leaves the lows alone.
LEMMA ObserveSees ==
  ASSUME NEW e, NEW v, Observe(e, v)
  PROVE  lows' = lows \/ \E d : lows' = lows \cup {<<d, clock>>}
  BY DEF Observe

\* What IInv knows of the firings already committed lets the new one follow.
LEMMA NewFiringMayFollow ==
  ASSUME IInv, pc = "evaluate", NEW e \in todo, NEW v \in Verdicts,
         ShouldFire(e, v, clock), NEW c \in Committed, c.def = e.def
  PROVE  Contract!MayFollow(Updated(e, v, clock), c)
<1> DEFINE u == Updated(e, v, clock)
<1>1. /\ e \in AlertRow /\ clock \in Nat
      /\ e.recurrence.type \in {"oneShot", "cooldown", "onCrossing"}
      /\ e.recurrence.seconds \in Int
  <2>1. e \in AlertRow /\ clock \in Nat
    BY DEF IInv, TypeOK, WorkerTypeOK
  <2>2. e.recurrence \in RecurrenceType
    BY <2>1, RowFields, StoreAssumption
  <2> QED BY <2>1, <2>2 DEF RecurrenceType
<1>2. u.def = e.def /\ u.recurrence = e.recurrence
  BY <1>1, UpdatedType
<1>3. u.firedAt = clock
  BY <1>1 DEF Updated, AlertRow
<1>4. Apart(u, c)
  BY NewFiringApart
<1>5. c.firedAt \in Nat /\ c.firedAt < clock
  BY FiringsAreOlder
<1>6. u.recurrence.type # "oneShot"
  BY <1>2, <1>4 DEF Apart
<1>7. ASSUME u.recurrence.type = "cooldown", u.recurrence.seconds < DurationLimit
      PROVE  u.firedAt - c.firedAt >= u.recurrence.seconds
  BY <1>1, <1>2, <1>3, <1>4, <1>5, <1>7 DEF Apart
<1>8. ASSUME u.recurrence.type = "onCrossing" PROVE Contract!Rearmed(u, c)
  <2>1. PICK low \in lows :
          /\ low[1] = u.def
          /\ \/ u.firedAt < low[2] /\ low[2] < c.firedAt
             \/ c.firedAt < low[2] /\ low[2] < u.firedAt
    BY <1>2, <1>4, <1>8 DEF Apart, LowBetween
  <2>2. low[2] \in Nat
    BY DEF IInv, TypeOK, WorkerTypeOK
  <2> QED BY <1>1, <1>3, <1>5, <2>1, <2>2 DEF Contract!Rearmed
<1> HIDE DEF u
<1>9. Contract!MayFollow(u, c)
  BY <1>1, <1>2, <1>6, <1>7, <1>8 DEF Contract!MayFollow
<1> QED BY <1>9 DEF u

\* Persisting the evaluation of an alert that fires decides its firing.
LEMMA PersistDecides ==
  ASSUME IInv, NEW e \in todo, NEW v \in Verdicts, Persist(e, v)
  PROVE  Contract!Step
<1> DEFINE u == Updated(e, v, clock)
<1>1. /\ pc = "evaluate" /\ pc' = pc /\ clock' = clock /\ apns' = apns
      /\ out' = AddFiring(e, v)
  BY DEF Persist
<1>2. Unsent = out /\ Unsent' = out'
  BY <1>1 DEF Unsent
<1>3. CASE ~ShouldFire(e, v, clock)
  <2>1. out' = out
    BY <1>1, <1>3 DEF AddFiring
  <2>2. Observe(e, v)
    BY DEF Persist
  <2> QED BY <1>1, <1>2, <2>1, <2>2, ObserveSees, SeeOrLoseStep
<1>4. CASE ShouldFire(e, v, clock)
  <2>1. out' = out \cup {u}
    BY <1>1, <1>4 DEF AddFiring
  <2>2. e \in AlertRow /\ clock \in Nat
    BY DEF IInv, TypeOK, WorkerTypeOK
  <2>3. u.firedAt = clock /\ u.def = e.def
    BY <1>4, <2>2 DEF Updated, AlertRow
  <2>4. lows' = lows
    BY <1>4 DEF Persist, Observe, ShouldFire
  <2>5. \A c \in Committed : c.def = e.def => Contract!MayFollow(u, c)
    BY <1>1, <1>4, NewFiringMayFollow
  <2>6. Contract!Decided = Committed
    BY DEF Contract!Decided, Committed, Sent
  <2> HIDE DEF u
  <2>7. Contract!Decide(u)
    BY <1>1, <1>2, <2>1, <2>3, <2>4, <2>5, <2>6 DEF Contract!Decide
  <2> QED BY <1>2, <2>1, <2>7 DEF Contract!Step
<1> QED BY <1>3, <1>4

\* A notification APNs takes is of the firing in hand, which leaves Unsent
\* with it: no other firing of the tick is of the same alert.
LEMMA AcceptSends ==
  ASSUME IInv, NEW r \in {"delivered", "dropped", "failed"}, Push(r), Accept
  PROVE  Contract!Step
<1> DEFINE n == [row |-> job.row, token |-> job.token, firing |-> job.firing]
<1>1. /\ pc = "push" /\ pc' = "record" /\ out' = out
      /\ clock' = clock /\ lows' = lows
  BY DEF Push
<1>2. apns' = apns \cup {n} /\ n.firing = job.firing
  BY DEF Accept
<1>3. job.firing \notin out
  BY <1>1 DEF IInv, OnePerAlert
<1>4. Unsent = out \cup {job.firing} /\ Unsent' = out
  BY <1>1 DEF Unsent
<1> HIDE DEF n
<1>5. Contract!Send(n)
  BY <1>1, <1>2, <1>3, <1>4 DEF Contract!Send
<1> QED BY <1>2, <1>5 DEF Contract!Step

LEMMA ContractStep ==
  ASSUME IInv, IInv', [Next]_vars
  PROVE  Contract!Step \/ UNCHANGED Contract!contract
<1> USE DEF tables, worker, world
\* Nothing the contract speaks of changes, or firings are given up.
<1>a. ASSUME UNCHANGED <<clock, apns, lows>>, Unsent' \subseteq Unsent
      PROVE  Contract!Step
  BY <1>a, SeeOrLoseStep
<1>b. ASSUME NEW t \in 1 .. MaxTime, StartTick(t) \/ StartTickFails(t)
      PROVE  Contract!Step
  <2>1. /\ clock' > clock /\ apns' = apns /\ lows' = lows /\ out' = out
        /\ pc = "idle" /\ pc' \in {"idle", "fetch"}
    BY <1>b DEF StartTick, StartTickFails, IInv, TypeOK, WorkerTypeOK
  <2>2. Unsent' = Unsent
    BY <2>1 DEF Unsent
  <2> QED BY <2>1, <2>2 DEF Contract!Step, Contract!Advance
<1>c. ASSUME NEW e \in todo, NEW v \in Verdicts, PassOver(e, v) \/ PersistFails(e, v)
      PROVE  Contract!Step
  <2>1. /\ Observe(e, v) /\ clock' = clock /\ apns' = apns /\ pc = "evaluate"
        /\ \/ out' = out /\ pc' = pc
           \/ out' = {} /\ pc' = "idle"
    BY <1>c DEF PassOver, PersistFails, EndTick
  <2>2. Unsent' \subseteq Unsent
    BY <2>1 DEF Unsent
  <2> QED BY <2>1, <2>2, ObserveSees, SeeOrLoseStep
<1>d. ASSUME NEW e \in todo, NEW v \in Verdicts, Persist(e, v) PROVE Contract!Step
  BY <1>d, PersistDecides
<1>e. ASSUME NEW f \in out, RecordFiring(f) PROVE Contract!Step
  <2>1. out' = out \ {f} /\ pc' = "lookup" /\ job'.firing = f
    BY <1>e DEF RecordFiring
  <2>2. Unsent' \subseteq Unsent
    BY <2>1 DEF Unsent
  <2> QED BY <1>a, <1>e, <2>2 DEF RecordFiring
<1>f. ASSUME NEW f \in out, RecordFiringFails(f) PROVE Contract!Step
  <2>1. Unsent' \subseteq Unsent
    BY <1>f DEF RecordFiringFails, Unsent
  <2> QED BY <1>a, <1>f, <2>1 DEF RecordFiringFails
<1>g. CASE LookupDevice
  <2>1. pc = "lookup" /\ job \in Job
    BY <1>g DEF LookupDevice, IInv, TypeOK, WorkerTypeOK, Delivering
  <2>2. job'.firing = job.firing
    BY <1>g, <2>1 DEF LookupDevice, Job
  <2>3. Unsent' \subseteq Unsent
    BY <1>g, <2>2 DEF LookupDevice, Unsent
  <2> QED BY <1>a, <1>g, <2>3 DEF LookupDevice
<1>h. CASE LookupDeviceFails
  <2>1. Unsent' \subseteq Unsent
    BY <1>h DEF LookupDeviceFails, Unsent
  <2> QED BY <1>a, <1>h, <2>1 DEF LookupDeviceFails
<1>i. ASSUME NEW r \in {"delivered", "dropped", "failed"}, Push(r) PROVE Contract!Step
  <2>1. CASE Accept
    BY <1>i, <2>1, AcceptSends
  <2>2. CASE UNCHANGED apns
    <3>1. Unsent' \subseteq Unsent
      BY <1>i DEF Push, Unsent
    <3> QED BY <1>a, <1>i, <2>2, <3>1 DEF Push
  <2> QED BY <1>i, <2>1, <2>2 DEF Push
<1>j. CASE RecordStatus \/ RevokeDevice
  <2>1. out' = out /\ pc' \in {"revoke", "deliver"} /\ UNCHANGED <<clock, apns, lows>>
    BY <1>j DEF RecordStatus, RevokeDevice
  <2>2. Unsent' \subseteq Unsent
    BY <2>1 DEF Unsent
  <2> QED BY <1>a, <2>1, <2>2
<1>k. CASE TickDone \/ FetchMarketsFails \/ Crash
  <2>1. out' = {} /\ pc' \in {"idle", "down"} /\ UNCHANGED <<clock, apns, lows>>
    BY <1>k DEF TickDone, FetchMarketsFails, Crash, EndTick
  <2>2. Unsent' \subseteq Unsent
    BY <2>1 DEF Unsent
  <2> QED BY <1>a, <2>1, <2>2
<1>l. CASE Boot \/ FetchMarkets \/ EvaluationDone
  <2>1. out' = out /\ pc' \notin {"lookup", "push"} /\ UNCHANGED <<clock, apns, lows>>
    BY <1>l DEF Boot, FetchMarkets, EvaluationDone
  <2>2. Unsent' \subseteq Unsent
    BY <2>1 DEF Unsent
  <2> QED BY <1>a, <2>1, <2>2
<1>m. CASE DeadlineExpires \/ ClientStep \/ UNCHANGED vars
  <2>1. UNCHANGED <<clock, apns, lows, out, pc, job>>
    BY <1>m DEF DeadlineExpires, ClientStep, RegisterDevice, RotateToken, RemoveAlert,
                PutAlert, vars
  <2>2. Unsent' \subseteq Unsent
    BY <2>1 DEF Unsent
  <2> QED BY <1>a, <2>1, <2>2
<1> QED
  BY <1>b, <1>c, <1>d, <1>e, <1>f, <1>g, <1>h, <1>i, <1>j, <1>k, <1>l, <1>m
     DEF Next, WorkerNext, WorkerStep, EvaluateStep, DeliverStep

\* For any number of devices, alerts, clients' writes, faults and crashes the
\* pipeline implements its contract: it decides only what a recurrence allows,
\* sends only what it decided, and sends that at most once.
THEOREM Refinement == Spec => ContractHonoured
<1>1. Init => Contract!Start
  BY ContractInit
<1>2. IInv /\ IInv' /\ [Next]_vars => [Contract!Step]_Contract!contract
  BY ContractStep
<1> QED BY <1>1, <1>2, Invariance, PTL DEF Spec, ContractHonoured, Contract!Spec
=============================================================================
