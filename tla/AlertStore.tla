----------------------------- MODULE AlertStore -----------------------------
(***************************************************************************)
(* The three Postgres tables the alert pipeline lives on (migration 0001)  *)
(* and one operator for each repository statement that reads or changes    *)
(* them (internal/storage).  A statement is atomic: it is one SQL command  *)
(* with no transaction around it.  Conditions, measured values and locales *)
(* are left out; what a row keeps is what the worker decides on.           *)
(***************************************************************************)
EXTENDS Integers, FiniteSets

CONSTANTS Devices,      \* device ids: UUIDs, compared by ORDER BY
          Alerts,       \* alert ids: UUIDs, compared by ORDER BY
          Recurrences,  \* the recurrences clients use
          None          \* NULL, a nil pointer, an absent row

\* "seconds" is the int64 a client sends, which nothing holds above zero.
RecurrenceType == [type : {"oneShot", "cooldown", "onCrossing"}, seconds : Int]

\* A row of alerts.  "def" is not a column: it numbers the PUT that wrote the
\* row's condition and recurrence, so that properties can speak of one
\* definition of an alert although its id is reused.
AlertRow == [id : Alerts, device : Devices, def : Nat, recurrence : Recurrences,
             isActive : BOOLEAN, firedAt : Nat \cup {None},
             last : {"nil", "true", "false"}]

Status == {"pending", "delivered", "failed", "dropped"}

FiringRow == [id : Nat, alert : Alerts, device : Devices, firedAt : Nat,
              status : Status]

ASSUME StoreAssumption ==
  /\ Devices \subseteq Nat
  /\ Alerts \subseteq Nat
  /\ Recurrences \subseteq RecurrenceType
  /\ None \notin Nat
  /\ None \notin AlertRow

VARIABLES devices,       \* apns_token of each device row, None without a row
          alerts,        \* the alert row of each id, None without a row
          firings,       \* the rows of firings
          lastFiringId,  \* the BIGSERIAL behind firings.id
          lastDef        \* the number of alert definitions written so far

tables == <<devices, alerts, firings, lastFiringId, lastDef>>

StoreTypeOK ==
  /\ devices \in [Devices -> Nat \cup {None}]
  /\ alerts \in [Alerts -> AlertRow \cup {None}]
  /\ firings \subseteq FiringRow
  /\ lastFiringId \in Nat
  /\ lastDef \in Nat

StoreInit ==
  /\ devices = [d \in Devices |-> None]
  /\ alerts = [a \in Alerts |-> None]
  /\ firings = {}
  /\ lastFiringId = 0
  /\ lastDef = 0

DeviceExists(d) == devices[d] # None
AlertExists(a) == alerts[a] # None

-----------------------------------------------------------------------------
(* DeviceRepo *)

UpsertDevice(d, token) == devices' = [devices EXCEPT ![d] = token]

\* ON DELETE CASCADE takes the device's alerts with it, and the firings of
\* the device and of those alerts.
DeleteDevice(d) ==
  LET gone == {a \in Alerts : AlertExists(a) /\ alerts[a].device = d}
  IN  /\ devices' = [devices EXCEPT ![d] = None]
      /\ alerts' = [a \in Alerts |-> IF a \in gone THEN None ELSE alerts[a]]
      /\ firings' = {f \in firings : f.device # d /\ f.alert \notin gone}

-----------------------------------------------------------------------------
(* AlertRepo *)

\* INSERT ... ON CONFLICT (id) DO UPDATE: every column of the row is replaced
\* by the client's body except device_id, which stays with the first writer.
UpsertAlert(d, a, body) ==
  /\ lastDef' = lastDef + 1
  /\ alerts' = [alerts EXCEPT ![a] =
       [id |-> a, device |-> IF AlertExists(a) THEN alerts[a].device ELSE d,
        def |-> lastDef + 1, recurrence |-> body.recurrence,
        isActive |-> body.isActive, firedAt |-> body.firedAt, last |-> body.last]]

ListActive == {alerts[a] : a \in {b \in Alerts : AlertExists(b) /\ alerts[b].isActive}}

\* A faulty UPDATE, with is_active in its WHERE clause.
UpdateStateWhereActive(u) ==
  alerts' = IF AlertExists(u.id) /\ alerts[u.id].isActive = u.isActive
              THEN [alerts EXCEPT ![u.id] =
                     [alerts[u.id] EXCEPT !.firedAt = u.firedAt, !.last = u.last]]
              ELSE alerts

\* UPDATE alerts SET is_active, fired_at, last_condition_result WHERE id: it
\* matches on the id alone, whatever was written since the row was read.
UpdateState(u) ==
  alerts' = IF AlertExists(u.id)
              THEN [alerts EXCEPT ![u.id] =
                     [alerts[u.id] EXCEPT !.isActive = u.isActive,
                                          !.firedAt = u.firedAt, !.last = u.last]]
              ELSE alerts

DeleteAlert(a) ==
  /\ alerts' = [alerts EXCEPT ![a] = None]
  /\ firings' = {f \in firings : f.alert # a}

-----------------------------------------------------------------------------
(* FiringRepo *)

\* The foreign keys an INSERT INTO firings is held to.
CanInsertFiring(f) == AlertExists(f.id) /\ DeviceExists(f.device)

\* A faulty INSERT, whose caller is told another id than the row's.
InsertFiringOtherId(f) ==
  /\ lastFiringId' = lastFiringId + 1
  /\ firings' = firings \cup
       {[id |-> lastFiringId, alert |-> f.id, device |-> f.device,
         firedAt |-> f.firedAt, status |-> "pending"]}

\* f is the fired alert: the row keeps its id, its device and the tick's time.
InsertFiring(f) ==
  /\ lastFiringId' = lastFiringId + 1
  /\ firings' = firings \cup
       {[id |-> lastFiringId + 1, alert |-> f.id, device |-> f.device,
         firedAt |-> f.firedAt, status |-> "pending"]}

\* A faulty UPDATE, of every firing of the row's alert.
UpdateStatusOfAlert(id, status) ==
  firings' = {IF \E g \in firings : g.id = id /\ g.alert = f.alert
                THEN [f EXCEPT !.status = status] ELSE f : f \in firings}

UpdateStatus(id, status) ==
  firings' = {IF f.id = id THEN [f EXCEPT !.status = status] ELSE f : f \in firings}
=============================================================================
