------------------------- MODULE AlertAudit_proofs -------------------------
(***************************************************************************)
(* What the audit table says of deliveries is true, it settles a row once, *)
(* and without faults nothing is missing from it, for any number of        *)
(* devices, alerts and ticks.  Ids of firings are fresh, so what is known  *)
(* of the row in hand stays known until its status is written; and a row's *)
(* definition is traced from the snapshot to the firing that bears it.     *)
(***************************************************************************)
EXTENDS AlertService_proofs

\* Ids name rows, and none is above the sequence's last.
Serial ==
  /\ \A f, g \in firings : f.id = g.id => f = g
  /\ \A f \in firings : f.id <= lastFiringId
  /\ \A n \in apns : n.row <= lastFiringId

NotSent(row) == \A n \in apns : n.row # row
SentFor(row, d) == \E n \in apns : n.row = row /\ n.firing.device = d

\* Until its status is written the row in hand is pending; nothing was sent for
\* it before the push, and what the push brought is known after it.
InHand ==
  pc \in {"lookup", "push", "record"} =>
    /\ job.row <= lastFiringId
    /\ \A f \in firings :
         f.id = job.row => f.status = "pending" /\ f.device = job.firing.device
    /\ pc \in {"lookup", "push"} => NotSent(job.row)
    /\ pc = "record" /\ job.result = "delivered" => SentFor(job.row, job.firing.device)
    /\ pc = "record" /\ job.result = "dropped" => NotSent(job.row)

AuditInv == TypeOK /\ Serial /\ InHand /\ AuditIsTruthful

-----------------------------------------------------------------------------

LEMMA AuditInit == Init => AuditInv
<1> SUFFICES ASSUME Init PROVE AuditInv
  OBVIOUS
<1>1. TypeOK
  BY TypeInit
<1>2. firings = {} /\ apns = {} /\ pc = "down"
  BY DEF Init, StoreInit, WorkerInit
<1> QED
  BY <1>1, <1>2 DEF AuditInv, Serial, InHand, AuditIsTruthful

\* Rows may go; as long as nothing is sent or inserted the audit stays true.
LEMMA RowsGo ==
  ASSUME AuditInv, TypeOK', firings' \subseteq firings, lastFiringId' = lastFiringId,
         apns' = apns, InHand'
  PROVE  AuditInv'
<1>1. Serial'
  BY DEF AuditInv, Serial
<1>2. AuditIsTruthful'
  BY DEF AuditInv, AuditIsTruthful
<1> QED
  BY <1>1, <1>2 DEF AuditInv

\* Steps that leave the delivery in hand alone.
LEMMA ElsewhereKeeps ==
  ASSUME AuditInv, TypeOK', firings' \subseteq firings, lastFiringId' = lastFiringId,
         apns' = apns, pc' = pc, job' = job
  PROVE  AuditInv'
<1>1. InHand'
  BY DEF AuditInv, InHand, NotSent, SentFor
<1> QED
  BY <1>1, RowsGo

\* Steps after which no delivery is in hand.
LEMMA NothingInHand ==
  ASSUME AuditInv, TypeOK', firings' \subseteq firings, lastFiringId' = lastFiringId,
         apns' = apns, pc' \notin {"lookup", "push", "record"}
  PROVE  AuditInv'
<1>1. InHand'
  BY DEF InHand
<1> QED
  BY <1>1, RowsGo

LEMMA Typed ==
  ASSUME AuditInv
  PROVE  /\ lastFiringId \in Nat
         /\ \A f \in firings : f.id \in Nat
         /\ \A n \in apns : n.row \in Nat
         /\ pc \in Delivering => job \in Job /\ job.row \in Nat
  BY DEF AuditInv, TypeOK, StoreTypeOK, WorkerTypeOK, FiringRow, Notification, Job

-----------------------------------------------------------------------------
(* The steps that insert, send and settle *)

\* A row is inserted pending, under an id nothing was sent for.
LEMMA InsertKeeps ==
  ASSUME AuditInv, TypeOK', NEW f, InsertFiring(f), apns' = apns,
         \/ pc' \notin {"lookup", "push", "record"}
         \/ /\ pc' = "lookup" /\ job'.row = lastFiringId + 1 /\ job'.firing = f
  PROVE  AuditInv'
<1> DEFINE new == [id |-> lastFiringId + 1, alert |-> f.id, device |-> f.device,
                   firedAt |-> f.firedAt, status |-> "pending"]
<1>1. firings' = firings \cup {new} /\ lastFiringId' = lastFiringId + 1
  BY DEF InsertFiring
<1>2. new.id = lastFiringId + 1 /\ new.device = f.device /\ new.status = "pending"
  OBVIOUS
<1> HIDE DEF new
<1>3. Serial'
  BY <1>1, <1>2, Typed DEF AuditInv, Serial
<1>4. AuditIsTruthful'
  BY <1>1, <1>2 DEF AuditInv, AuditIsTruthful
<1>5. InHand'
  <2>1. \A g \in firings' : g.id = lastFiringId + 1 => g = new
    BY <1>1, Typed DEF AuditInv, Serial
  <2>2. \A n \in apns : n.row # lastFiringId + 1
    BY Typed DEF AuditInv, Serial
  <2> QED
    BY <1>1, <1>2, <2>1, <2>2, Typed DEF InHand, NotSent
<1> QED
  BY <1>3, <1>4, <1>5 DEF AuditInv

LEMMA PushKeeps ==
  ASSUME AuditInv, TypeOK', NEW r \in {"delivered", "dropped", "failed"}, Push(r)
  PROVE  AuditInv'
<1> DEFINE new == [row |-> job.row, token |-> job.token, firing |-> job.firing]
<1>1. /\ pc = "push" /\ pc' = "record" /\ job \in Job
      /\ job' = [job EXCEPT !.result = r]
      /\ UNCHANGED <<firings, lastFiringId>>
  BY DEF Push, tables, AuditInv, TypeOK, WorkerTypeOK, Delivering
<1>2. /\ apns' = apns \/ apns' = apns \cup {new}
      /\ r = "delivered" => apns' = apns \cup {new}
      /\ r = "dropped" => apns' = apns
  BY DEF Push, Accept
<1>3. /\ job.row <= lastFiringId /\ NotSent(job.row)
      /\ \A f \in firings :
           f.id = job.row => f.status = "pending" /\ f.device = job.firing.device
  BY <1>1 DEF AuditInv, InHand
<1>4. job'.row = job.row /\ job'.firing = job.firing /\ job'.result = r
  BY <1>1 DEF Job
<1>5. new.row = job.row /\ new.firing = job.firing
  OBVIOUS
<1> HIDE DEF new
<1>6. Serial'
  BY <1>1, <1>2, <1>3, <1>5 DEF AuditInv, Serial
<1>7. InHand'
  BY <1>1, <1>2, <1>3, <1>4, <1>5 DEF InHand, NotSent, SentFor
<1>8. AuditIsTruthful'
  <2>1. \A f \in firings : f.status = "dropped" => f.id # job.row
    BY <1>3
  <2> QED
    BY <1>1, <1>2, <1>5, <2>1 DEF AuditInv, AuditIsTruthful
<1> QED
  BY <1>6, <1>7, <1>8 DEF AuditInv

\* Settling touches the row in hand only.
LEMMA Settled ==
  ASSUME AuditInv, pc = "record", UpdateStatus(job.row, MapStatus(job.result))
  PROVE  \A g \in firings' : \E f \in firings :
           /\ g.id = f.id /\ g.device = f.device
           /\ \/ g = f /\ f.id # job.row
              \/ f.id = job.row /\ g.status = MapStatus(job.result)
<1> SUFFICES ASSUME NEW g \in firings'
             PROVE  \E f \in firings :
                      /\ g.id = f.id /\ g.device = f.device
                      /\ \/ g = f /\ f.id # job.row
                         \/ f.id = job.row /\ g.status = MapStatus(job.result)
  OBVIOUS
<1>1. PICK f \in firings :
        g = IF f.id = job.row THEN [f EXCEPT !.status = MapStatus(job.result)] ELSE f
  BY DEF UpdateStatus
<1>2. f \in FiringRow
  BY DEF AuditInv, TypeOK, StoreTypeOK
<1> QED
  BY <1>1, <1>2 DEF FiringRow

LEMMA RecordStatusKeeps ==
  ASSUME AuditInv, TypeOK', RecordStatus
  PROVE  AuditInv'
<1>1. pc = "record" /\ pc' \in {"revoke", "deliver"} /\ UNCHANGED <<lastFiringId, apns>>
  BY DEF RecordStatus, world
<1>2. CASE firings' = firings
  BY <1>1, <1>2, NothingInHand
<1>3. CASE UpdateStatus(job.row, MapStatus(job.result))
  <2>1. \A g \in firings' : \E f \in firings :
           /\ g.id = f.id /\ g.device = f.device
           /\ \/ g = f /\ f.id # job.row
              \/ f.id = job.row /\ g.status = MapStatus(job.result)
    BY <1>1, <1>3, Settled
  <2>2. firings' = {IF f.id = job.row THEN [f EXCEPT !.status = MapStatus(job.result)]
                                      ELSE f : f \in firings}
    BY <1>3 DEF UpdateStatus
  <2>3. Serial'
    <3>1. ASSUME NEW g \in firings', NEW h \in firings', g.id = h.id PROVE g = h
      <4>1. PICK f \in firings :
              g = IF f.id = job.row THEN [f EXCEPT !.status = MapStatus(job.result)] ELSE f
        BY <2>2
      <4>2. PICK e \in firings :
              h = IF e.id = job.row THEN [e EXCEPT !.status = MapStatus(job.result)] ELSE e
        BY <2>2
      <4>3. f \in FiringRow /\ e \in FiringRow
        BY DEF AuditInv, TypeOK, StoreTypeOK
      <4>4. g.id = f.id /\ h.id = e.id
        BY <4>1, <4>2, <4>3 DEF FiringRow
      <4>5. f = e
        BY <3>1, <4>4 DEF AuditInv, Serial
      <4> QED
        BY <4>1, <4>2, <4>5
    <3>2. \A g \in firings' : g.id <= lastFiringId
      BY <2>1 DEF AuditInv, Serial
    <3> QED
      BY <1>1, <3>1, <3>2 DEF AuditInv, Serial
  <2>4. AuditIsTruthful'
    <3> SUFFICES ASSUME NEW g \in firings'
                 PROVE  /\ g.status = "delivered" => SentFor(g.id, g.device)
                        /\ g.status = "dropped" => NotSent(g.id)
      BY <1>1 DEF AuditIsTruthful, SentFor, NotSent
    <3>1. PICK f \in firings :
            /\ g.id = f.id /\ g.device = f.device
            /\ \/ g = f /\ f.id # job.row
               \/ f.id = job.row /\ g.status = MapStatus(job.result)
      BY <2>1
    <3>2. CASE g = f
      BY <3>2 DEF AuditInv, AuditIsTruthful, SentFor, NotSent
    <3>3. CASE f.id = job.row /\ g.status = MapStatus(job.result)
      <4>1. /\ g.status = "delivered" => job.result = "delivered"
            /\ g.status = "dropped" => job.result = "dropped"
        BY <3>3 DEF MapStatus
      <4>2. f.device = job.firing.device
        BY <1>1, <3>3 DEF AuditInv, InHand
      <4> QED
        BY <1>1, <3>1, <3>3, <4>1, <4>2 DEF AuditInv, InHand
    <3> QED
      BY <3>1, <3>2, <3>3
  <2>5. InHand'
    BY <1>1 DEF InHand
  <2> QED
    BY <2>3, <2>4, <2>5 DEF AuditInv
<1> QED
  BY <1>2, <1>3 DEF RecordStatus

-----------------------------------------------------------------------------

LEMMA DeletesOnly ==
  /\ \A d : DeleteDevice(d) => firings' \subseteq firings
  /\ \A a : DeleteAlert(a) => firings' \subseteq firings
  BY DEF DeleteDevice, DeleteAlert

LEMMA DeliverKeeps == AuditInv /\ TypeOK' /\ DeliverStep => AuditInv'
<1> SUFFICES ASSUME AuditInv, TypeOK', DeliverStep PROVE AuditInv'
  OBVIOUS
<1>1. ASSUME NEW f \in out, RecordFiring(f) PROVE AuditInv'
  <2>1. /\ InsertFiring(f) /\ apns' = apns /\ pc' = "lookup"
        /\ job' = [firing |-> f, row |-> lastFiringId + 1, token |-> None, result |-> "pending"]
    BY <1>1 DEF RecordFiring, world
  <2>2. job'.row = lastFiringId + 1 /\ job'.firing = f
    BY <2>1
  <2> QED
    BY <2>1, <2>2, InsertKeeps
<1>2. ASSUME NEW f \in out, RecordFiringFails(f) PROVE AuditInv'
  <2>1. pc' = "deliver" /\ apns' = apns /\ job' = job /\ pc' = pc
    BY <1>2 DEF RecordFiringFails, world
  <2>2. CASE InsertFiring(f)
    BY <2>1, <2>2, InsertKeeps
  <2>3. CASE UNCHANGED <<firings, lastFiringId>>
    BY <2>1, <2>3, ElsewhereKeeps
  <2> QED
    BY <1>2, <2>2, <2>3 DEF RecordFiringFails
<1>3. CASE LookupDevice \/ LookupDeviceFails
  <2>1. /\ pc = "lookup" /\ pc' \in {"push", "record"} /\ job \in Job
        /\ UNCHANGED <<firings, lastFiringId, apns>>
    BY <1>3 DEF LookupDevice, LookupDeviceFails, tables, world, AuditInv, TypeOK,
                WorkerTypeOK, Delivering
  <2>2. /\ job'.row = job.row /\ job'.firing = job.firing
        /\ pc' = "record" => job'.result = "failed"
    BY <1>3, <2>1 DEF LookupDevice, LookupDeviceFails, Job
  <2>3. InHand'
    BY <2>1, <2>2 DEF AuditInv, InHand, NotSent
  <2> QED
    BY <2>1, <2>3, RowsGo
<1>4. ASSUME NEW r \in {"delivered", "dropped", "failed"}, Push(r) PROVE AuditInv'
  BY <1>4, PushKeeps
<1>5. CASE RecordStatus
  BY <1>5, RecordStatusKeeps
<1>6. CASE RevokeDevice
  BY <1>6, DeletesOnly, NothingInHand DEF RevokeDevice, world
<1>7. CASE TickDone
  BY <1>7, NothingInHand DEF TickDone, EndTick, tables, world
<1> QED
  BY <1>1, <1>2, <1>3, <1>4, <1>5, <1>6, <1>7 DEF DeliverStep

LEMMA AuditNext == AuditInv /\ [Next]_vars => AuditInv'
<1> SUFFICES ASSUME AuditInv, [Next]_vars PROVE AuditInv'
  OBVIOUS
<1>1. TypeOK'
  BY TypeNext DEF AuditInv
<1>2. CASE DeliverStep
  BY <1>1, <1>2, DeliverKeeps
<1>3. CASE EvaluateStep
  BY <1>1, <1>3, ElsewhereKeeps, NothingInHand
     DEF EvaluateStep, PassOver, Persist, PersistFails, EvaluationDone, EndTick, tables, world
<1>4. CASE \/ Boot \/ FetchMarkets \/ FetchMarketsFails \/ Crash
           \/ \E t \in 1 .. MaxTime : StartTick(t) \/ StartTickFails(t)
  BY <1>1, <1>4, ElsewhereKeeps, NothingInHand
     DEF Boot, FetchMarkets, FetchMarketsFails, Crash, StartTick, StartTickFails, EndTick,
         tables, world
<1>5. CASE DeadlineExpires
  BY <1>1, <1>5, ElsewhereKeeps DEF DeadlineExpires, tables, world
<1>6. CASE ClientStep
  BY <1>1, <1>6, ElsewhereKeeps, DeletesOnly
     DEF ClientStep, RegisterDevice, PutAlert, RemoveAlert, RotateToken, UpsertAlert,
         worker, world, tables
<1>7. CASE UNCHANGED vars
  BY <1>1, <1>7, ElsewhereKeeps DEF vars, tables, worker, world
<1> QED
  BY <1>2, <1>3, <1>4, <1>5, <1>6, <1>7 DEF Next, WorkerNext, WorkerStep

LEMMA AuditSpec == Spec => []AuditInv
  BY AuditInit, AuditNext, PTL DEF Spec

\* A row marked delivered was accepted by APNs for its device, and one marked
\* dropped was not, with faults and deletions anywhere.
THEOREM AuditTheorem == Spec => []AuditIsTruthful
<1>1. AuditInv => AuditIsTruthful
  BY DEF AuditInv
<1> QED
  BY <1>1, AuditSpec, PTL

\* Only the row in hand changes its status, while it is pending.
LEMMA OnlyPendingChanges ==
  ASSUME AuditInv, [Next]_vars, NEW f \in firings, NEW g \in firings', f.id = g.id, f # g
  PROVE  f.status = "pending"
<1>1. f.id <= lastFiringId /\ f.id \in Nat /\ lastFiringId \in Nat
  BY Typed DEF AuditInv, Serial
<1>2. g \notin firings
  BY DEF AuditInv, Serial
<1>3. CASE firings' \subseteq firings
  BY <1>2, <1>3
<1>4. ASSUME NEW fired, InsertFiring(fired) PROVE FALSE
  <2>1. g.id = lastFiringId + 1
    BY <1>2, <1>4 DEF InsertFiring
  <2> QED
    BY <1>1, <2>1
<1>5. CASE RecordStatus
  <2>1. pc = "record" /\ UpdateStatus(job.row, MapStatus(job.result))
    BY <1>2, <1>5 DEF RecordStatus
  <2>2. f.id = job.row
    BY <1>2, <2>1, Settled
  <2> QED
    BY <2>1, <2>2 DEF AuditInv, InHand
<1>6. CASE DeliverStep
  BY <1>3, <1>4, <1>5, <1>6, DeletesOnly
     DEF DeliverStep, RecordFiring, RecordFiringFails, LookupDevice, LookupDeviceFails, Push,
         RevokeDevice, TickDone, tables
<1>7. CASE EvaluateStep
  BY <1>3, <1>7 DEF EvaluateStep, PassOver, Persist, PersistFails, EvaluationDone, tables
<1>8. CASE ClientStep
  BY <1>3, <1>8, DeletesOnly
     DEF ClientStep, RegisterDevice, PutAlert, RemoveAlert, RotateToken, tables
<1> QED
  BY <1>3, <1>6, <1>7, <1>8
     DEF Next, WorkerNext, WorkerStep, Boot, FetchMarkets, FetchMarketsFails, Crash, StartTick,
         StartTickFails, DeadlineExpires, tables, vars

\* A row leaves pending once and for all, in every step of worker and API.
THEOREM SettledTheorem == Spec => StatusSettlesOnce
<1>1. AuditInv /\ [Next]_vars =>
        [\A f \in firings, g \in firings' :
           f.id = g.id /\ f # g => f.status = "pending"]_vars
  BY OnlyPendingChanges
<1> QED
  BY <1>1, AuditSpec, PTL DEF Spec, StatusSettlesOnce

-----------------------------------------------------------------------------
(* Ticks without faults *)

\* With no fault to come every call goes through, and no deadline expires.
Smooth == faults = 0 /\ ~expired

LEMMA SmoothStep ==
  ASSUME MaxFaults = 0, Smooth, [Next]_vars
  PROVE  Smooth' /\ ~Fault /\ ~Fails /\ ~ReplyLost /\ ~Crash /\ ~DeadlineExpires
<1>1. ~Fault /\ ~Fails /\ ~ReplyLost /\ ~Crash /\ ~DeadlineExpires
  BY DEF Smooth, Fault, Fails, ReplyLost, Crash, DeadlineExpires
<1>2. CASE WorkerNext
  BY <1>1, <1>2
     DEF Smooth, Succeeds, WorkerNext, WorkerStep, EvaluateStep, DeliverStep, Boot, StartTick,
         StartTickFails, FetchMarkets, FetchMarketsFails, PassOver, Persist, PersistFails,
         EvaluationDone, RecordFiring, RecordFiringFails, LookupDevice, LookupDeviceFails, Push,
         RecordStatus, RevokeDevice, TickDone, EndTick
<1>3. CASE ClientStep \/ UNCHANGED vars
  BY <1>1, <1>3
     DEF Smooth, ClientStep, RegisterDevice, PutAlert, RemoveAlert, RotateToken, worker, vars
<1> QED
  BY <1>1, <1>2, <1>3 DEF Next

\* PendingIsInHand, and until when.
PendingInv ==
  \A f \in firings :
    f.status = "pending" => pc \in {"lookup", "push", "record"} /\ job.row = f.id

LEMMA PendingKept ==
  ASSUME MaxFaults = 0, AuditInv, Smooth, PendingInv, [Next]_vars
  PROVE  PendingInv'
<1>1. ~Fault /\ ~Fails /\ ~ReplyLost /\ ~Crash /\ ~DeadlineExpires
  BY SmoothStep
<1>2. ASSUME firings' \subseteq firings, pc \notin {"lookup", "push", "record"} PROVE PendingInv'
  BY <1>2 DEF PendingInv
<1>3. ASSUME firings' \subseteq firings, pc' = pc, job' = job PROVE PendingInv'
  BY <1>3 DEF PendingInv
<1>4. ASSUME NEW f \in out, RecordFiring(f) PROVE PendingInv'
  <2>1. /\ pc = "deliver" /\ pc' = "lookup" /\ InsertFiring(f)
        /\ job' = [firing |-> f, row |-> lastFiringId + 1, token |-> None, result |-> "pending"]
    BY <1>4 DEF RecordFiring
  <2> QED
    BY <2>1 DEF InsertFiring, PendingInv
<1>5. ASSUME NEW f \in out, RecordFiringFails(f) PROVE PendingInv'
  BY <1>1, <1>3, <1>5 DEF RecordFiringFails
<1>6. CASE LookupDevice \/ LookupDeviceFails \/ \E r \in {"delivered", "dropped", "failed"} : Push(r)
  <2>1. /\ pc \in {"lookup", "push"} /\ pc' \in {"push", "record"} /\ job \in Job
        /\ firings' = firings
    BY <1>6 DEF LookupDevice, LookupDeviceFails, Push, tables, AuditInv, TypeOK, WorkerTypeOK,
                Delivering
  <2>2. job'.row = job.row
    BY <1>6, <2>1 DEF LookupDevice, LookupDeviceFails, Push, Job
  <2> QED
    BY <2>1, <2>2 DEF PendingInv
<1>7. CASE RecordStatus
  <2>1. pc = "record" /\ UpdateStatus(job.row, MapStatus(job.result))
    BY <1>1, <1>7 DEF RecordStatus
  <2>2. MapStatus(job.result) # "pending"
    BY DEF MapStatus
  <2>3. \A g \in firings' : \E f \in firings :
          \/ g = f /\ f.id # job.row
          \/ g.status = MapStatus(job.result)
    BY <2>1, Settled
  <2>4. \A f \in firings : f.status = "pending" => f.id = job.row
    BY DEF PendingInv
  <2>5. \A g \in firings' : g.status # "pending"
    BY <2>2, <2>3, <2>4
  <2> QED
    BY <2>5 DEF PendingInv
<1>8. CASE RevokeDevice \/ TickDone
  BY <1>2, <1>8, DeletesOnly DEF RevokeDevice, TickDone, tables
<1>9. CASE EvaluateStep
  BY <1>2, <1>9 DEF EvaluateStep, PassOver, Persist, PersistFails, EvaluationDone, tables
<1>10. CASE \/ Boot \/ FetchMarkets \/ FetchMarketsFails
            \/ \E t \in 1 .. MaxTime : StartTick(t) \/ StartTickFails(t)
  BY <1>2, <1>10 DEF Boot, FetchMarkets, FetchMarketsFails, StartTick, StartTickFails, tables
<1>11. CASE ClientStep \/ UNCHANGED vars
  BY <1>3, <1>11, DeletesOnly
     DEF ClientStep, RegisterDevice, PutAlert, RemoveAlert, RotateToken, worker, tables, vars
<1> QED
  BY <1>1, <1>4, <1>5, <1>6, <1>7, <1>8, <1>9, <1>10, <1>11
     DEF Next, WorkerNext, WorkerStep, DeliverStep

\* Without faults the worker settles every row it inserts before it takes up
\* the next firing.
THEOREM PendingTheorem ==
  ASSUME MaxFaults = 0
  PROVE  Spec => []PendingIsInHand
<1>1. Init => Smooth /\ PendingInv
  BY DEF Init, StoreInit, WorkerInit, Smooth, PendingInv
<1>2. AuditInv /\ Smooth /\ PendingInv /\ [Next]_vars => (Smooth /\ PendingInv)'
  BY SmoothStep, PendingKept
<1>3. PendingInv => PendingIsInHand
  BY DEF PendingInv, PendingIsInHand, Delivering
<1> QED
  BY <1>1, <1>2, <1>3, AuditSpec, PTL DEF Spec

-----------------------------------------------------------------------------
(* No firing is forgotten *)

\* The row of the definition the snapshot was taken of.
Current(a) == AlertExists(a) /\ alerts[a].def <= snapshotDef

\* Copies of a definition are of the device its row is of, rows have their
\* devices, and only what the tick has marked bears its time.
Traced ==
  /\ \A a \in Alerts :
       AlertExists(a) =>
         /\ DeviceExists(alerts[a].device)
         /\ alerts[a].firedAt = None \/ alerts[a].firedAt <= clock
  /\ \A e \in todo \cup out : Current(e.id) => e.device = alerts[e.id].device
  /\ \A e \in todo : e.firedAt = None \/ e.firedAt < clock
  /\ \A f \in firings :
       /\ f.firedAt <= clock
       /\ f.firedAt = clock /\ Current(f.alert) => f.device = alerts[f.alert].device

FiringInv == Traced /\ NoFiringForgotten

\* What the types say of rows.
LEMMA RowTypes ==
  ASSUME IInv
  PROVE  /\ clock \in Nat /\ snapshotDef \in Nat /\ lastDef \in Nat
         /\ \A a \in Alerts : AlertExists(a) =>
              /\ alerts[a] \in AlertRow /\ alerts[a].id = a
              /\ alerts[a].def \in Nat /\ alerts[a].def <= lastDef
         /\ \A e \in todo \cup out : e \in AlertRow /\ e.id \in Alerts
         /\ out \subseteq FiredAlert
         /\ \A f \in firings : f.firedAt \in Nat /\ f.alert \in Alerts
         /\ snapshotDef <= lastDef
  BY DEF IInv, TypeOK, StoreTypeOK, WorkerTypeOK, Snapshot, Definitions, Live, AlertExists,
         AlertRow, FiringRow, FiredAlert

\* Steps that write no row and leave the tick's lists alone.
LEMMA ListsKept ==
  ASSUME FiringInv,
         UNCHANGED <<alerts, firings, clock, snapshotDef, todo, out>>,
         \A d : DeviceExists(d) => devices'[d] # None,
         pc' \in Busy => pc \in Busy
  PROVE  FiringInv'
  BY DEF FiringInv, Traced, NoFiringForgotten, Accounted, Current, AlertExists, DeviceExists

\* A tick that ends leaves nothing to account for.
LEMMA EndKeeps ==
  ASSUME FiringInv, UNCHANGED <<devices, alerts, firings, clock, snapshotDef>>,
         todo' = {}, out' = {}, pc' \notin Busy
  PROVE  FiringInv'
  BY DEF FiringInv, Traced, NoFiringForgotten, Current, AlertExists, DeviceExists

\* A tick begins later than all that is stamped.
LEMMA StartKeeps ==
  ASSUME IInv, FiringInv, NEW t \in 1 .. MaxTime, StartTick(t)
  PROVE  FiringInv'
<1>a. /\ clock < t /\ clock' = t /\ todo' = ListActive /\ out' = out /\ pc = "idle"
      /\ UNCHANGED <<devices, alerts, firings>>
  BY DEF StartTick, tables
<1>b. out = {}
  BY <1>a DEF IInv, Phases, Delivering
<1>c. t \in Nat /\ clock \in Nat /\ None \notin Nat
  BY WorkerAssumption, StoreAssumption, RowTypes
<1>1. /\ clock < t /\ clock' = t /\ t \in Nat /\ clock \in Nat /\ None \notin Nat
      /\ todo' = ListActive /\ out' = {} /\ UNCHANGED <<devices, alerts, firings>>
  BY <1>a, <1>b, <1>c
<1>2. \A a \in Alerts : AlertExists(a) =>
        alerts[a].firedAt = None \/ (alerts[a].firedAt \in Nat /\ alerts[a].firedAt < t)
  BY <1>1, RowTypes, RowFields DEF FiringInv, Traced
<1>3. \A e \in todo' : e.id \in Alerts /\ AlertExists(e.id) /\ e = alerts[e.id]
  BY <1>1, RowTypes DEF ListActive
<1>4. Traced'
  BY <1>1, <1>2, <1>3, RowTypes DEF FiringInv, Traced, AlertExists, DeviceExists, Current
<1>5. NoFiringForgotten'
  BY <1>1, <1>2 DEF NoFiringForgotten, AlertExists
<1> QED
  BY <1>4, <1>5 DEF FiringInv

\* An alert leaves the snapshot: without a write it was not marked.
LEMMA PassOverKeeps ==
  ASSUME FiringInv, NEW e, NEW v, PassOver(e, v)
  PROVE  FiringInv'
<1>1. /\ UNCHANGED <<devices, alerts, firings, clock, snapshotDef, out, pc>>
      /\ todo' \subseteq todo
  BY DEF PassOver, tables
<1> QED
  BY <1>1 DEF FiringInv, Traced, NoFiringForgotten, Accounted, Current, AlertExists, DeviceExists

\* A marked alert is put on the list.
LEMMA PersistKeeps ==
  ASSUME IInv, FiringInv, NEW e, NEW v \in Verdicts, Persist(e, v)
  PROVE  FiringInv'
<1> DEFINE u == Updated(e, v, clock)
<1>1. /\ e \in todo /\ AlertExists(e.id) /\ UpdateState(u) /\ pc = "evaluate"
      /\ todo' = todo \ {e} /\ out' = AddFiring(e, v)
      /\ UNCHANGED <<devices, firings, clock, snapshotDef, pc>>
  BY DEF Persist, IsFirst
<1>2. e \in AlertRow /\ e.id \in Alerts /\ clock \in Nat
  BY <1>1, RowTypes
<1>3. u.id = e.id /\ u.device = e.device /\ u \in AlertRow
  BY <1>2, UpdatedType
<1>4. u.firedAt = IF ShouldFire(e, v, clock) THEN clock ELSE e.firedAt
  BY <1>2 DEF Updated, AlertRow
<1>5. out' = IF ShouldFire(e, v, clock) THEN out \cup {u} ELSE out
  BY <1>1 DEF AddFiring
<1> HIDE DEF u
<1>6. alerts' = [alerts EXCEPT ![e.id] =
                   [alerts[e.id] EXCEPT !.isActive = u.isActive,
                                        !.firedAt = u.firedAt, !.last = u.last]]
  BY <1>1, <1>3 DEF UpdateState
<1>7. /\ alerts \in [Alerts -> AlertRow \cup {None}] /\ alerts[e.id] \in AlertRow
  BY <1>1, <1>2 DEF IInv, TypeOK, StoreTypeOK, AlertExists
<1>8. /\ alerts'[e.id].def = alerts[e.id].def /\ alerts'[e.id].device = alerts[e.id].device
      /\ alerts'[e.id].firedAt = u.firedAt
  BY <1>2, <1>6, <1>7 DEF AlertRow
<1>9. \A a \in Alerts : a # e.id => alerts'[a] = alerts[a]
  BY <1>6, <1>7
<1>10. \A a \in Alerts : AlertExists(a)' => AlertExists(a)
  BY <1>1, <1>9 DEF AlertExists
<1>11. \A a \in Alerts : Current(a)' => Current(a) /\ alerts'[a].device = alerts[a].device
  BY <1>1, <1>8, <1>9, <1>10 DEF Current, AlertExists
<1>12. /\ u.firedAt = None \/ u.firedAt <= clock
       /\ u.firedAt = clock => u \in out'
  <2>1. e.firedAt \in Nat \cup {None} /\ (e.firedAt = None \/ e.firedAt < clock)
    BY <1>1, <1>2, RowFields DEF FiringInv, Traced
  <2>2. e.firedAt # clock /\ (e.firedAt = None \/ e.firedAt <= clock)
    BY <1>2, <2>1, StoreAssumption
  <2> QED
    BY <1>2, <1>4, <1>5, <2>2
<1>13. Traced'
  <2>1. ASSUME NEW a \in Alerts, AlertExists(a)'
        PROVE  /\ DeviceExists(alerts[a].device)'
               /\ alerts'[a].firedAt = None \/ alerts'[a].firedAt <= clock
    <3>1. AlertExists(a) /\ alerts'[a].device = alerts[a].device
      BY <1>8, <1>9, <1>10, <2>1
    <3>2. DeviceExists(alerts[a].device)
      BY <3>1 DEF FiringInv, Traced
    <3>3. alerts'[a].firedAt = alerts[a].firedAt \/ alerts'[a].firedAt = u.firedAt
      BY <1>8, <1>9
    <3> QED
      BY <1>1, <1>12, <3>1, <3>2, <3>3 DEF FiringInv, Traced, DeviceExists
  <2>2. ASSUME NEW x \in todo' \cup out', Current(x.id)'
        PROVE  x.device = alerts'[x.id].device
    <3>1. x \in todo \cup out \/ x = u
      BY <1>1, <1>5, <2>2
    <3>2. x.id \in Alerts
      BY <1>2, <1>3, <3>1, RowTypes
    <3>3. Current(x.id) /\ alerts'[x.id].device = alerts[x.id].device
      BY <1>11, <2>2, <3>2
    <3> QED
      BY <1>1, <1>3, <3>1, <3>3 DEF FiringInv, Traced
  <2>3. \A f \in firings : f.firedAt = clock /\ Current(f.alert)'
                           => f.device = alerts'[f.alert].device
    BY <1>11, RowTypes DEF FiringInv, Traced
  <2> QED
    BY <1>1, <2>1, <2>2, <2>3 DEF FiringInv, Traced
<1>14. NoFiringForgotten'
  <2> SUFFICES ASSUME NEW a \in Alerts, Current(a)', alerts'[a].firedAt = clock
               PROVE  Accounted(a, clock)'
    BY <1>1 DEF NoFiringForgotten, Current
  <2>1. CASE a = e.id
    BY <1>1, <1>3, <1>8, <1>12, <2>1 DEF Accounted
  <2>2. CASE a # e.id
    <3>1. Current(a) /\ alerts[a].firedAt = clock
      BY <1>9, <1>11, <2>2
    <3>2. Accounted(a, clock)
      BY <1>1, <3>1 DEF FiringInv, NoFiringForgotten, Current, Busy
    <3>3. CASE \E f \in out : f.id = a /\ f.firedAt = clock
      BY <1>1, <1>5, <3>3 DEF Accounted
    <3>4. CASE \E f \in firings : f.alert = a /\ f.firedAt = clock
      BY <1>1, <3>4 DEF Accounted
    <3> QED
      BY <3>2, <3>3, <3>4 DEF Accounted
  <2> QED
    BY <2>1, <2>2
<1> QED
  BY <1>13, <1>14 DEF FiringInv

\* Without faults an evaluation is cut short only by an alert that is gone.
LEMMA PersistFailsKeeps ==
  ASSUME FiringInv, ~Fails, ~ReplyLost, NEW e, NEW v, PersistFails(e, v)
  PROVE  FiringInv'
<1>1. /\ UNCHANGED <<devices, alerts, firings, clock, snapshotDef>>
      /\ todo' = {} /\ out' = {} /\ pc' \notin Busy
  BY DEF PersistFails, EndTick, Busy, Delivering
<1> QED
  BY <1>1, EndKeeps

\* A firing moves from the list to the table.
LEMMA RecordKeeps ==
  ASSUME IInv, FiringInv, NEW f \in out, RecordFiring(f)
  PROVE  FiringInv'
<1> DEFINE new == [id |-> lastFiringId + 1, alert |-> f.id, device |-> f.device,
                   firedAt |-> f.firedAt, status |-> "pending"]
<1>1. /\ firings' = firings \cup {new} /\ out' = out \ {f} /\ pc = "deliver"
      /\ UNCHANGED <<devices, alerts, clock, todo, snapshotDef>>
  BY DEF RecordFiring, InsertFiring, world
<1>2. new.alert = f.id /\ new.device = f.device /\ new.firedAt = f.firedAt
  OBVIOUS
<1> HIDE DEF new
<1>3. f.firedAt <= clock
  BY DEF IInv, Fired, Committed, Unsent
<1>4. Traced'
  BY <1>1, <1>2, <1>3 DEF FiringInv, Traced, Current, AlertExists, DeviceExists
<1>5. NoFiringForgotten'
  <2> SUFFICES ASSUME NEW a \in Alerts, Current(a), alerts[a].firedAt = clock
               PROVE  Accounted(a, clock)'
    BY <1>1 DEF NoFiringForgotten, Current, AlertExists
  <2>1. Accounted(a, clock)
    BY <1>1 DEF FiringInv, NoFiringForgotten, Current, Busy
  <2>2. CASE \E g \in out : g.id = a /\ g.firedAt = clock
    BY <1>1, <1>2, <2>2 DEF Accounted
  <2>3. CASE \E g \in firings : g.alert = a /\ g.firedAt = clock
    BY <1>1, <2>3 DEF Accounted
  <2> QED
    BY <2>1, <2>2, <2>3 DEF Accounted
<1> QED
  BY <1>4, <1>5 DEF FiringInv

\* Without faults the insert errs only when the alert was rewritten or is gone:
\* a row has its device, and a copy of its definition is of that device.
LEMMA RecordFailsKeeps ==
  ASSUME IInv, FiringInv, ~Fails, ~ReplyLost, NEW f \in out, RecordFiringFails(f)
  PROVE  FiringInv'
<1>1. /\ ~CanInsertFiring(f) /\ out' = out \ {f} /\ pc = "deliver" /\ pc' = pc
      /\ UNCHANGED <<devices, alerts, firings, clock, todo, snapshotDef>>
  BY DEF RecordFiringFails, world
<1>2. ~Current(f.id)
  <2> SUFFICES ASSUME Current(f.id) PROVE FALSE
    OBVIOUS
  <2>1. f.id \in Alerts /\ AlertExists(f.id) /\ f.device = alerts[f.id].device
    BY RowTypes DEF FiringInv, Traced, Current
  <2>2. DeviceExists(alerts[f.id].device)
    BY <2>1 DEF FiringInv, Traced
  <2> QED
    BY <1>1, <2>1, <2>2 DEF CanInsertFiring
<1>3. Traced'
  BY <1>1 DEF FiringInv, Traced, Current, AlertExists, DeviceExists
<1>4. NoFiringForgotten'
  <2> SUFFICES ASSUME NEW a \in Alerts, Current(a), alerts[a].firedAt = clock
               PROVE  Accounted(a, clock)'
    BY <1>1 DEF NoFiringForgotten, Current, AlertExists
  <2>1. Accounted(a, clock)
    BY <1>1 DEF FiringInv, NoFiringForgotten, Current, Busy
  <2>2. CASE \E g \in out : g.id = a /\ g.firedAt = clock
    BY <1>1, <1>2, <2>2 DEF Accounted
  <2>3. CASE \E g \in firings : g.alert = a /\ g.firedAt = clock
    BY <1>1, <2>3 DEF Accounted
  <2> QED
    BY <2>1, <2>2, <2>3 DEF Accounted
<1> QED
  BY <1>3, <1>4 DEF FiringInv

\* A status written to a row leaves what it accounts for.
LEMMA StatusKeeps ==
  ASSUME IInv, FiringInv, RecordStatus
  PROVE  FiringInv'
<1>1. /\ UNCHANGED <<devices, alerts, clock, todo, out, snapshotDef>>
      /\ pc = "record"
  BY DEF RecordStatus, world
<1>2. \/ firings' = firings
      \/ UpdateStatus(job.row, MapStatus(job.result))
  BY DEF RecordStatus
<1>3. /\ \A g \in firings' : \E f \in firings :
           g.alert = f.alert /\ g.device = f.device /\ g.firedAt = f.firedAt
      /\ \A f \in firings : \E g \in firings' :
           g.alert = f.alert /\ g.device = f.device /\ g.firedAt = f.firedAt
  <2>1. CASE firings' = firings
    BY <2>1
  <2>2. CASE UpdateStatus(job.row, MapStatus(job.result))
    <3>1. firings \subseteq FiringRow
      BY DEF IInv, TypeOK, StoreTypeOK
    <3> DEFINE g(f) == IF f.id = job.row THEN [f EXCEPT !.status = MapStatus(job.result)] ELSE f
    <3>2. \A f \in firings :
            g(f).alert = f.alert /\ g(f).device = f.device /\ g(f).firedAt = f.firedAt
      BY <3>1 DEF FiringRow
    <3>3. firings' = {g(f) : f \in firings}
      BY <2>2 DEF UpdateStatus
    <3> HIDE DEF g
    <3> QED
      BY <3>2, <3>3
  <2> QED
    BY <1>2, <2>1, <2>2
<1>4. Traced'
  <2>1. \A h \in firings' :
          /\ h.firedAt <= clock
          /\ h.firedAt = clock /\ Current(h.alert) => h.device = alerts[h.alert].device
    BY <1>3 DEF FiringInv, Traced
  <2> QED
    BY <1>1, <2>1 DEF FiringInv, Traced, Current, AlertExists, DeviceExists
<1>5. NoFiringForgotten'
  <2> SUFFICES ASSUME NEW a \in Alerts, Current(a), alerts[a].firedAt = clock
               PROVE  Accounted(a, clock)'
    BY <1>1 DEF NoFiringForgotten, Current, AlertExists
  <2>1. Accounted(a, clock)
    BY <1>1 DEF FiringInv, NoFiringForgotten, Current, Busy, Delivering
  <2>2. CASE \E x \in out : x.id = a /\ x.firedAt = clock
    BY <1>1, <2>2 DEF Accounted
  <2>3. CASE \E f \in firings : f.alert = a /\ f.firedAt = clock
    BY <1>1, <1>3, <2>3 DEF Accounted
  <2> QED
    BY <2>1, <2>2, <2>3 DEF Accounted
<1> QED
  BY <1>4, <1>5 DEF FiringInv

\* Rows go together with what refers to them, or stay as they are: each alert
\* that is left has its device and keeps the firings of that device.
LEMMA RowsGoTogether ==
  ASSUME FiringInv,
         UNCHANGED <<clock, todo, out, snapshotDef>>,
         firings' \subseteq firings,
         pc' \in Busy => pc \in Busy,
         \A a \in Alerts : alerts'[a] # None =>
           /\ alerts'[a] = alerts[a]
           /\ DeviceExists(alerts[a].device) => devices'[alerts[a].device] # None
           /\ \A f \in firings :
                f.alert = a /\ f.device = alerts[a].device => f \in firings',
         \A f \in firings : f.alert \in Alerts,
         \A x \in todo \cup out : x.id \in Alerts
  PROVE  FiringInv'
<1>1. \A a \in Alerts : Current(a)' => Current(a) /\ alerts'[a] = alerts[a]
  BY DEF Current, AlertExists
<1>2. \A a \in Alerts : AlertExists(a)' =>
        /\ DeviceExists(alerts[a].device)'
        /\ alerts'[a].firedAt = None \/ alerts'[a].firedAt <= clock
  BY DEF FiringInv, Traced, AlertExists, DeviceExists
<1>3. Traced'
  <2>1. \A x \in todo \cup out : Current(x.id)' => x.device = alerts'[x.id].device
    BY <1>1 DEF FiringInv, Traced
  <2>2. \A f \in firings' :
          /\ f.firedAt <= clock
          /\ f.firedAt = clock /\ Current(f.alert)' => f.device = alerts'[f.alert].device
    BY <1>1 DEF FiringInv, Traced
  <2>3. \A a \in Alerts : AlertExists(a)' => alerts'[a] = alerts[a]
    BY DEF AlertExists
  <2> QED
    BY <1>2, <2>1, <2>2, <2>3 DEF FiringInv, Traced, DeviceExists
<1>4. NoFiringForgotten'
  <2> SUFFICES ASSUME pc' \in Busy, NEW a \in Alerts, Current(a)', alerts'[a].firedAt = clock
               PROVE  Accounted(a, clock)'
    BY DEF NoFiringForgotten, Current
  <2>1. Current(a) /\ alerts'[a] = alerts[a] /\ alerts[a].firedAt = clock /\ alerts'[a] # None
    BY <1>1 DEF Current, AlertExists
  <2>2. Accounted(a, clock)
    BY <2>1 DEF FiringInv, NoFiringForgotten, Current
  <2>3. CASE \E g \in out : g.id = a /\ g.firedAt = clock
    BY <2>3 DEF Accounted
  <2>4. ASSUME NEW f \in firings, f.alert = a, f.firedAt = clock PROVE Accounted(a, clock)'
    <3>1. f.device = alerts[a].device
      BY <2>1, <2>4 DEF FiringInv, Traced
    <3>2. f \in firings'
      BY <2>1, <2>4, <3>1
    <3> QED
      BY <2>4, <3>2 DEF Accounted
  <2> QED
    BY <2>2, <2>3, <2>4 DEF Accounted
<1> QED
  BY <1>3, <1>4 DEF FiringInv

LEMMA RevokeKeeps ==
  ASSUME IInv, FiringInv, RevokeDevice
  PROVE  FiringInv'
<1>1. /\ UNCHANGED <<clock, todo, out, snapshotDef>> /\ pc \in Busy
  BY DEF RevokeDevice, world, Busy, Delivering
<1>2. CASE UNCHANGED <<devices, alerts, firings>>
  BY <1>1, <1>2, ListsKept DEF DeviceExists
<1>3. CASE DeleteDevice(job.firing.device)
  <2> DEFINE d == job.firing.device
             gone == {a \in Alerts : AlertExists(a) /\ alerts[a].device = d}
  <2>1. /\ devices' = [devices EXCEPT ![d] = None]
        /\ alerts' = [a \in Alerts |-> IF a \in gone THEN None ELSE alerts[a]]
        /\ firings' = {f \in firings : f.device # d /\ f.alert \notin gone}
    BY <1>3 DEF DeleteDevice
  <2>2. devices \in [Devices -> Nat \cup {None}]
    BY DEF IInv, TypeOK, StoreTypeOK
  <2>3. ASSUME NEW a \in Alerts, alerts'[a] # None
        PROVE  alerts'[a] = alerts[a] /\ alerts[a].device # d /\ a \notin gone
    BY <2>1, <2>3 DEF AlertExists
  <2>4. \A c : c # d => devices'[c] = devices[c]
    BY <2>1, <2>2
  <2> HIDE DEF d, gone
  <2>5. \A a \in Alerts : alerts'[a] # None =>
           /\ alerts'[a] = alerts[a]
           /\ DeviceExists(alerts[a].device) => devices'[alerts[a].device] # None
           /\ \A f \in firings :
                f.alert = a /\ f.device = alerts[a].device => f \in firings'
    BY <2>1, <2>3, <2>4 DEF DeviceExists
  <2> QED
    BY <1>1, <2>1, <2>5, RowsGoTogether, RowTypes
<1> QED
  BY <1>2, <1>3 DEF RevokeDevice

-----------------------------------------------------------------------------

LEMMA RemoveKeeps ==
  ASSUME IInv, FiringInv, NEW d \in Devices, NEW a \in Alerts, RemoveAlert(d, a)
  PROVE  FiringInv'
<1>1. /\ UNCHANGED <<devices, clock, todo, out, snapshotDef, pc>>
      /\ alerts' = [alerts EXCEPT ![a] = None]
      /\ firings' = {f \in firings : f.alert # a}
  BY DEF RemoveAlert, DeleteAlert, worker, world
<1>2. alerts \in [Alerts -> AlertRow \cup {None}]
  BY DEF IInv, TypeOK, StoreTypeOK
<1>3. \A b \in Alerts : alerts'[b] # None => b # a /\ alerts'[b] = alerts[b]
  BY <1>1, <1>2
<1>4. \A b \in Alerts : alerts'[b] # None =>
         /\ alerts'[b] = alerts[b]
         /\ DeviceExists(alerts[b].device) => devices'[alerts[b].device] # None
         /\ \A f \in firings :
              f.alert = b /\ f.device = alerts[b].device => f \in firings'
  BY <1>1, <1>3 DEF DeviceExists
<1> QED
  BY <1>1, <1>4, RowsGoTogether, RowTypes

\* A PUT writes a definition no snapshot holds, of a device that exists.
LEMMA PutKeeps ==
  ASSUME IInv, FiringInv, \A b \in Bodies : b.firedAt = None,
         NEW d \in Devices, NEW a \in Alerts, NEW b \in Bodies, PutAlert(d, a, b)
  PROVE  FiringInv'
<1>1. UNCHANGED <<devices, firings, clock, todo, out, snapshotDef, pc>> /\ DeviceExists(d)
  BY DEF PutAlert, worker, world
<1>2. alerts \in [Alerts -> AlertRow \cup {None}]
  BY DEF IInv, TypeOK, StoreTypeOK
<1>3. /\ alerts'[a].device = IF AlertExists(a) THEN alerts[a].device ELSE d
      /\ alerts'[a].def = lastDef + 1 /\ alerts'[a].firedAt = None
      /\ \A c \in Alerts : c # a => alerts'[c] = alerts[c]
  BY <1>2 DEF PutAlert, UpsertAlert
<1>4. ~(alerts'[a].def <= snapshotDef)
  BY <1>3, RowTypes
<1>5. \A c \in Alerts : Current(c)' => c # a /\ Current(c) /\ alerts'[c] = alerts[c]
  BY <1>1, <1>3, <1>4 DEF Current, AlertExists
<1>6. \A c \in Alerts : AlertExists(c)' =>
        /\ DeviceExists(alerts'[c].device)
        /\ alerts'[c].firedAt = None \/ alerts'[c].firedAt <= clock
  BY <1>1, <1>3 DEF FiringInv, Traced, AlertExists
<1>7. Traced'
  <2>1. \A x \in todo \cup out : Current(x.id)' => x.device = alerts'[x.id].device
    BY <1>5, RowTypes DEF FiringInv, Traced
  <2>2. \A f \in firings :
          f.firedAt = clock /\ Current(f.alert)' => f.device = alerts'[f.alert].device
    BY <1>5, RowTypes DEF FiringInv, Traced
  <2> QED
    BY <1>1, <1>6, <2>1, <2>2 DEF FiringInv, Traced, DeviceExists
<1>8. NoFiringForgotten'
  <2> SUFFICES ASSUME pc \in Busy, NEW c \in Alerts, Current(c)', alerts'[c].firedAt = clock
               PROVE  Accounted(c, clock)
    BY <1>1 DEF NoFiringForgotten, Current, Accounted
  <2> QED
    BY <1>5 DEF FiringInv, NoFiringForgotten, Current
<1> QED
  BY <1>7, <1>8 DEF FiringInv

LEMMA RegisterKeeps ==
  ASSUME IInv, FiringInv, NEW d \in Devices, RegisterDevice(d)
  PROVE  FiringInv'
<1>1. /\ UNCHANGED <<alerts, firings, clock, todo, out, snapshotDef, pc>>
      /\ devices' = [devices EXCEPT ![d] = valid[d]]
  BY DEF RegisterDevice, UpsertDevice, worker, world
<1>2. valid[d] # None /\ devices \in [Devices -> Nat \cup {None}]
  BY StoreAssumption DEF IInv, TypeOK, StoreTypeOK, WorkerTypeOK
<1>3. \A c : DeviceExists(c) => devices'[c] # None
  BY <1>1, <1>2 DEF DeviceExists
<1> QED
  BY <1>1, <1>3, ListsKept

LEMMA FiringKept ==
  ASSUME MaxFaults = 0, \A b \in Bodies : b.firedAt = None,
         IInv, Smooth, FiringInv, [Next]_vars
  PROVE  FiringInv'
<1>1. ~Fault /\ ~Fails /\ ~ReplyLost /\ ~Crash /\ ~DeadlineExpires
  BY SmoothStep
<1>2. ASSUME NEW t \in 1 .. MaxTime, StartTick(t) PROVE FiringInv'
  BY <1>2, StartKeeps
<1>3. CASE EvaluateStep
  <2>1. ASSUME NEW e \in todo, NEW v \in Verdicts, PassOver(e, v) PROVE FiringInv'
    BY <2>1, PassOverKeeps
  <2>2. ASSUME NEW e \in todo, NEW v \in Verdicts, Persist(e, v) PROVE FiringInv'
    BY <2>2, PersistKeeps
  <2>3. ASSUME NEW e \in todo, NEW v \in Verdicts, PersistFails(e, v) PROVE FiringInv'
    BY <1>1, <2>3, PersistFailsKeeps
  <2>4. CASE EvaluationDone
    BY <2>4, ListsKept DEF EvaluationDone, tables, world, DeviceExists, Busy
  <2> QED
    BY <1>3, <2>1, <2>2, <2>3, <2>4 DEF EvaluateStep
<1>4. CASE DeliverStep
  <2>1. ASSUME NEW f \in out, RecordFiring(f) PROVE FiringInv'
    BY <2>1, RecordKeeps
  <2>2. ASSUME NEW f \in out, RecordFiringFails(f) PROVE FiringInv'
    BY <1>1, <2>2, RecordFailsKeeps
  <2>3. CASE LookupDevice \/ LookupDeviceFails
    BY <2>3, ListsKept DEF LookupDevice, LookupDeviceFails, tables, world, DeviceExists, Busy,
                           Delivering
  <2>4. ASSUME NEW r \in {"delivered", "dropped", "failed"}, Push(r) PROVE FiringInv'
    BY <2>4, ListsKept DEF Push, tables, DeviceExists, Busy, Delivering
  <2>5. CASE RecordStatus
    BY <2>5, StatusKeeps
  <2>6. CASE RevokeDevice
    BY <2>6, RevokeKeeps
  <2>7. CASE TickDone
    BY <2>7, EndKeeps DEF TickDone, EndTick, tables, world, Busy, Delivering
  <2> QED
    BY <1>4, <2>1, <2>2, <2>3, <2>4, <2>5, <2>6, <2>7 DEF DeliverStep
<1>5. CASE Boot
  BY <1>5, ListsKept DEF Boot, tables, world, DeviceExists, Busy, Delivering
<1>6. CASE FetchMarkets
  BY <1>6, ListsKept DEF FetchMarkets, tables, world, DeviceExists, Busy
<1>7. CASE FetchMarketsFails \/ \E t \in 1 .. MaxTime : StartTickFails(t)
  BY <1>1, <1>7 DEF FetchMarketsFails, StartTickFails
<1>8. CASE ClientStep
  <2>1. CASE \E d \in Devices : RegisterDevice(d)
    BY <2>1, RegisterKeeps
  <2>2. CASE \E d \in Devices : RotateToken(d)
    BY <2>2, ListsKept DEF RotateToken, tables, worker, DeviceExists
  <2>3. CASE \E d \in Devices, a \in Alerts : RemoveAlert(d, a)
    BY <2>3, RemoveKeeps
  <2>4. CASE \E d \in Devices, a \in Alerts, b \in Bodies : PutAlert(d, a, b)
    BY <2>4, PutKeeps
  <2> QED
    BY <1>8, <2>1, <2>2, <2>3, <2>4 DEF ClientStep
<1>9. CASE UNCHANGED vars
  BY <1>9, ListsKept DEF vars, DeviceExists
<1> QED
  BY <1>1, <1>2, <1>3, <1>4, <1>5, <1>6, <1>7, <1>8, <1>9 DEF Next, WorkerNext, WorkerStep

\* Without faults, and when clients do not write firing times themselves, no
\* tick loses a firing it has marked on its alert.
THEOREM FiringTheorem ==
  ASSUME MaxFaults = 0, \A b \in Bodies : b.firedAt = None
  PROVE  Spec => []NoFiringForgotten
<1>1. Init => Smooth /\ FiringInv
  BY DEF Init, StoreInit, WorkerInit, Smooth, FiringInv, Traced, NoFiringForgotten,
         AlertExists, Busy, Delivering
<1>2. IInv /\ Smooth /\ FiringInv /\ [Next]_vars => (Smooth /\ FiringInv)'
  BY SmoothStep, FiringKept
<1>3. FiringInv => NoFiringForgotten
  BY DEF FiringInv
<1> QED
  BY <1>1, <1>2, <1>3, Invariance, PTL DEF Spec
=============================================================================
