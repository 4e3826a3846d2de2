----------------------------- MODULE AlertWorker ----------------------------
(***************************************************************************)
(* The worker process: cmd/worker's loop, eval.Evaluator.Tick and          *)
(* worker.Runner.Tick.  One tick reads the active alerts, evaluates each   *)
(* against market data, persists the runtime state of those that change,   *)
(* and then delivers the firings one after the other.  Each step here is   *)
(* one call to Postgres, CoinGecko or APNs, so API requests interleave     *)
(* between any two of them.                                                *)
(***************************************************************************)
EXTENDS AlertStore

CONSTANTS MaxTime,        \* bound: the last time a tick may start at
          MaxFaults,      \* bound: failed calls, expired deadlines and crashes
          DurationLimit   \* the least number of seconds a time.Duration wraps at

ASSUME WorkerAssumption ==
  MaxTime \in Nat /\ MaxFaults \in Nat /\ DurationLimit \in Nat \ {0}

VARIABLES pc,          \* where the worker stands between two calls
          clock,       \* "now" of the latest tick
          todo,        \* alerts of ListActive's snapshot not evaluated yet
          out,         \* fired alerts not delivered yet
          job,         \* the delivery under way
          expired,     \* the tick's 30 s context is done
          faults       \* faults so far

\* What happened outside the process and its database.
VARIABLES valid,       \* the token APNs currently honours for each device
          apns,        \* the notifications APNs accepted
          lows,        \* <<def, tick>>: an onCrossing condition was seen false
          snapshotDef  \* the newest definition the tick's snapshot can hold

worker == <<pc, clock, todo, out, job, expired, faults>>
world == <<valid, apns, lows, snapshotDef>>

Delivering == {"lookup", "push", "record", "revoke"}
Busy == {"fetch", "evaluate", "deliver"} \cup Delivering

FiredAlert == {r \in AlertRow : r.firedAt # None}
Job == [firing : FiredAlert, row : Nat, token : Nat \cup {None},
        result : Status]
Notification == [row : Nat, token : Nat, firing : FiredAlert]

WorkerTypeOK ==
  /\ pc \in {"down", "idle"} \cup Busy
  /\ clock \in Nat
  /\ todo \subseteq AlertRow
  /\ out \subseteq FiredAlert
  /\ job \in Job \cup {None}
  /\ pc \in Delivering => job \in Job
  /\ expired \in BOOLEAN
  /\ faults \in Nat
  /\ valid \in [Devices -> Nat]
  /\ apns \subseteq Notification
  /\ lows \subseteq Nat \X Nat
  /\ snapshotDef \in Nat

WorkerInit ==
  /\ pc = "down" /\ clock = 0 /\ todo = {} /\ out = {} /\ job = None
  /\ expired = FALSE /\ faults = 0
  /\ valid = [d \in Devices |-> 0] /\ apns = {} /\ lows = {} /\ snapshotDef = 0

-----------------------------------------------------------------------------
(* Calls.  A call succeeds, fails without an effect, or takes effect while *)
(* its caller sees an error (a lost reply).  After the tick's deadline     *)
(* every call fails before anything is sent.                               *)

Fault == faults < MaxFaults /\ faults' = faults + 1

Succeeds == ~expired /\ faults' = faults
Fails == IF expired THEN faults' = faults ELSE Fault
ReplyLost == ~expired /\ Fault

-----------------------------------------------------------------------------
(* The evaluation of one alert (internal/eval/decide.go).                  *)

DurationShort(seconds) == seconds - 1   \* faulty: one second short

\* time.Duration(seconds) * time.Second in 64 bits: from DurationLimit on the
\* product wraps round to a negative span, below -DurationLimit to a positive one.
Duration(seconds) ==
  IF seconds \in -DurationLimit .. DurationLimit - 1 THEN seconds
  ELSE ((seconds + DurationLimit) % (2 * DurationLimit)) - DurationLimit

ShouldFire(e, verdict, now) ==
  /\ verdict = "true"
  /\ CASE e.recurrence.type = "oneShot" -> e.firedAt = None
       [] e.recurrence.type = "cooldown" ->
            e.firedAt # None => now - e.firedAt >= Duration(e.recurrence.seconds)
       [] e.recurrence.type = "onCrossing" -> e.last # "true"

\* Faulty: the truth of an onCrossing condition is kept only when it is lost.
UpdatedOnlyLow(e, verdict, now) ==
  LET fires == ShouldFire(e, verdict, now)
  IN  [e EXCEPT !.isActive = @ /\ ~(fires /\ e.recurrence.type = "oneShot"),
                !.firedAt = IF fires THEN now ELSE @,
                !.last = IF e.recurrence.type = "onCrossing" /\ verdict = "false"
                           THEN verdict ELSE @]

\* Faulty: the firing's time is not stamped on the alert.
UpdatedUnstamped(e, verdict, now) ==
  LET fires == ShouldFire(e, verdict, now)
  IN  [e EXCEPT !.isActive = @ /\ ~(fires /\ e.recurrence.type = "oneShot"),
                !.last = IF e.recurrence.type = "onCrossing" /\ verdict # "missing"
                           THEN verdict ELSE @]

\* The alert as Evaluator.Tick leaves it; verdict "missing" is evaluate's
\* ok = false, which leaves the alert alone.
Updated(e, verdict, now) ==
  LET fires == ShouldFire(e, verdict, now)
  IN  [e EXCEPT !.isActive = @ /\ ~(fires /\ e.recurrence.type = "oneShot"),
                !.firedAt = IF fires THEN now ELSE @,
                !.last = IF e.recurrence.type = "onCrossing" /\ verdict # "missing"
                           THEN verdict ELSE @]

StateChanged(e, verdict, now) ==
  \/ ShouldFire(e, verdict, now)
  \/ e.recurrence.type = "onCrossing" /\ verdict # "missing" /\ e.last # verdict

\* ORDER BY device_id, id: the order alerts are evaluated and delivered in.
Precedes(e, f) == e.device < f.device \/ (e.device = f.device /\ e.id < f.id)
IsFirst(e, S) == e \in S /\ \A f \in S \ {e} : Precedes(e, f)

-----------------------------------------------------------------------------
(* The loop *)

EndTick ==
  /\ pc' = "idle" /\ todo' = {} /\ out' = {} /\ job' = None /\ expired' = FALSE

\* ListActive: without an active alert the tick is over.
StartTick(t) ==
  /\ pc = "idle" /\ clock < t /\ clock' = t
  /\ Succeeds
  /\ todo' = ListActive /\ snapshotDef' = lastDef
  /\ pc' = IF ListActive = {} THEN "idle" ELSE "fetch"
  /\ UNCHANGED <<tables, out, job, expired, valid, apns, lows>>

StartTickFails(t) ==
  /\ pc = "idle" /\ clock < t /\ clock' = t
  /\ Fails
  /\ UNCHANGED <<tables, pc, todo, out, job, expired, world>>

\* Holdings.ListByDevice and Markets.FetchMarkets: data only, nothing stored.
FetchMarkets ==
  /\ pc = "fetch" /\ Succeeds
  /\ pc' = "evaluate"
  /\ UNCHANGED <<tables, clock, todo, out, job, expired, world>>

\* An error of Evaluator.Tick ends the tick: nothing is delivered.
FetchMarketsFails ==
  /\ pc = "fetch" /\ Fails
  /\ EndTick
  /\ UNCHANGED <<tables, clock, world>>

-----------------------------------------------------------------------------
(* One alert of the snapshot *)

Observe(e, verdict) ==
  lows' = IF e.recurrence.type = "onCrossing" /\ verdict = "false"
            THEN lows \cup {<<e.def, clock>>} ELSE lows

\* Nothing to persist: no call is made.
PassOver(e, verdict) ==
  /\ pc = "evaluate" /\ IsFirst(e, todo)
  /\ ~StateChanged(e, verdict, clock)
  /\ todo' = todo \ {e}
  /\ Observe(e, verdict)
  /\ UNCHANGED <<tables, pc, clock, out, job, expired, faults, valid, apns, snapshotDef>>

\* Faulty: the list is assigned, not appended to.
AddFiringAssigned(e, verdict) ==
  IF ShouldFire(e, verdict, clock) THEN {Updated(e, verdict, clock)} ELSE out

\* firings = append(firings, ...)
AddFiring(e, verdict) ==
  IF ShouldFire(e, verdict, clock) THEN out \cup {Updated(e, verdict, clock)} ELSE out

\* UpdateState succeeds, and a firing is kept for after the evaluation.
Persist(e, verdict) ==
  /\ pc = "evaluate" /\ IsFirst(e, todo)
  /\ StateChanged(e, verdict, clock)
  /\ Succeeds /\ AlertExists(e.id)
  /\ UpdateState(Updated(e, verdict, clock))
  /\ todo' = todo \ {e}
  /\ out' = AddFiring(e, verdict)
  /\ Observe(e, verdict)
  /\ UNCHANGED <<devices, firings, lastFiringId, lastDef, pc, clock, job, expired,
                 valid, apns, snapshotDef>>

\* UpdateState errs, for ErrAlertNotFound too: the tick returns no firings,
\* not even those of alerts it has already persisted.
PersistFails(e, verdict) ==
  /\ pc = "evaluate" /\ IsFirst(e, todo)
  /\ StateChanged(e, verdict, clock)
  /\ \/ Succeeds /\ ~AlertExists(e.id) /\ UNCHANGED alerts
     \/ Fails /\ UNCHANGED alerts
     \/ ReplyLost /\ UpdateState(Updated(e, verdict, clock))
  /\ Observe(e, verdict)
  /\ EndTick
  /\ UNCHANGED <<devices, firings, lastFiringId, lastDef, clock, valid, apns, snapshotDef>>

EvaluationDone ==
  /\ pc = "evaluate" /\ todo = {}
  /\ pc' = "deliver"
  /\ UNCHANGED <<tables, clock, todo, out, job, expired, faults, world>>

-----------------------------------------------------------------------------
(* Runner.deliverOne *)

\* Faulty: the firing in hand stays in the list.
RecordFiringKept(f) ==
  /\ pc = "deliver" /\ IsFirst(f, out)
  /\ Succeeds /\ CanInsertFiring(f) /\ InsertFiring(f)
  /\ job' = [firing |-> f, row |-> lastFiringId + 1, token |-> None, result |-> "pending"]
  /\ pc' = "lookup"
  /\ UNCHANGED <<devices, alerts, lastDef, clock, todo, out, expired, world>>

RecordFiring(f) ==
  /\ pc = "deliver" /\ IsFirst(f, out)
  /\ Succeeds /\ CanInsertFiring(f)
  /\ InsertFiring(f)
  /\ out' = out \ {f}
  /\ job' = [firing |-> f, row |-> lastFiringId + 1, token |-> None, result |-> "pending"]
  /\ pc' = "lookup"
  /\ UNCHANGED <<devices, alerts, lastDef, clock, todo, expired, world>>

\* Faulty: the pass is given up with the firing.
RecordFiringAborts(f) ==
  /\ pc = "deliver" /\ IsFirst(f, out)
  /\ \/ /\ Succeeds /\ ~CanInsertFiring(f)
        /\ UNCHANGED <<firings, lastFiringId>>
     \/ Fails /\ UNCHANGED <<firings, lastFiringId>>
     \/ ReplyLost /\ CanInsertFiring(f) /\ InsertFiring(f)
  /\ out' = {}
  /\ UNCHANGED <<devices, alerts, lastDef, pc, clock, todo, job, expired, world>>

\* The insert errs: the firing is logged and given up.
RecordFiringFails(f) ==
  /\ pc = "deliver" /\ IsFirst(f, out)
  /\ \/ /\ Succeeds /\ ~CanInsertFiring(f)
        /\ UNCHANGED <<firings, lastFiringId>>
     \/ Fails /\ UNCHANGED <<firings, lastFiringId>>
     \/ ReplyLost /\ CanInsertFiring(f) /\ InsertFiring(f)
  /\ out' = out \ {f}
  /\ UNCHANGED <<devices, alerts, lastDef, pc, clock, todo, job, expired, world>>

LookupDevice ==
  /\ pc = "lookup"
  /\ Succeeds /\ DeviceExists(job.firing.device)
  /\ job' = [job EXCEPT !.token = devices[job.firing.device]]
  /\ pc' = "push"
  /\ UNCHANGED <<tables, clock, todo, out, expired, world>>

\* No device row, or an error: the firing is marked failed, nothing is pushed.
LookupDeviceFails ==
  /\ pc = "lookup"
  /\ (Succeeds /\ ~DeviceExists(job.firing.device)) \/ Fails
  /\ job' = [job EXCEPT !.result = "failed"]
  /\ pc' = "record"
  /\ UNCHANGED <<tables, clock, todo, out, expired, world>>

Accept ==
  apns' = apns \cup {[row |-> job.row, token |-> job.token, firing |-> job.firing]}

\* APNs takes a notification for the token it honours (200) and answers 410
\* for a token it has replaced; anything else is a failure, after which the
\* notification may have been taken all the same.
Push(result) ==
  /\ pc = "push"
  /\ LET honoured == job.token = valid[job.firing.device]
     IN  CASE result = "delivered" -> Succeeds /\ honoured /\ Accept
           [] result = "dropped" -> Succeeds /\ ~honoured /\ UNCHANGED apns
           [] result = "failed" -> \/ Fails /\ UNCHANGED apns
                                   \/ ReplyLost /\ honoured /\ Accept
  /\ job' = [job EXCEPT !.result = result]
  /\ pc' = "record"
  /\ UNCHANGED <<tables, clock, todo, out, expired, valid, lows, snapshotDef>>

\* Faulty: everything but a 410 counts as delivered.
MapStatusOptimistic(result) == IF result = "dropped" THEN "dropped" ELSE "delivered"

\* mapStatus: what a push result is called in the firings table.
MapStatus(result) ==
  CASE result = "delivered" -> "delivered"
    [] result = "dropped" -> "dropped"
    [] OTHER -> "failed"

\* An error of UpdateStatus is only logged; a device whose token APNs gave up
\* is deleted next.
RecordStatus ==
  /\ pc = "record"
  /\ \/ (Succeeds \/ ReplyLost) /\ UpdateStatus(job.row, MapStatus(job.result))
     \/ Fails /\ UNCHANGED firings
  /\ IF job.result = "dropped" THEN pc' = "revoke" /\ job' = job
                               ELSE pc' = "deliver" /\ job' = None
  /\ UNCHANGED <<devices, alerts, lastFiringId, lastDef, clock, todo, out, expired, world>>

RevokeDevice ==
  /\ pc = "revoke"
  /\ \/ (Succeeds \/ ReplyLost) /\ DeleteDevice(job.firing.device)
     \/ Fails /\ UNCHANGED <<devices, alerts, firings>>
  /\ pc' = "deliver" /\ job' = None
  /\ UNCHANGED <<lastFiringId, lastDef, clock, todo, out, expired, world>>

TickDone ==
  /\ pc = "deliver" /\ out = {}
  /\ EndTick
  /\ UNCHANGED <<tables, clock, faults, world>>

-----------------------------------------------------------------------------
(* Faults of the process *)

\* context.WithTimeout(ctx, 30 s), or SIGTERM cancelling its parent.
DeadlineExpires ==
  /\ pc \in Busy /\ ~expired
  /\ Fault /\ expired' = TRUE
  /\ UNCHANGED <<tables, pc, clock, todo, out, job, world>>

Crash ==
  /\ pc # "down" /\ Fault
  /\ pc' = "down" /\ todo' = {} /\ out' = {} /\ job' = None /\ expired' = FALSE
  /\ UNCHANGED <<tables, clock, world>>

\* main: the first tick follows at once, so booting only makes it possible.
Boot ==
  /\ pc = "down" /\ pc' = "idle"
  /\ UNCHANGED <<tables, clock, todo, out, job, expired, faults, world>>

-----------------------------------------------------------------------------

Verdicts == {"true", "false", "missing"}

EvaluateStep ==
  \/ \E e \in todo, v \in Verdicts : PassOver(e, v) \/ Persist(e, v) \/ PersistFails(e, v)
  \/ EvaluationDone

DeliverStep ==
  \/ \E f \in out : RecordFiring(f) \/ RecordFiringFails(f)
  \/ LookupDevice \/ LookupDeviceFails
  \/ \E r \in {"delivered", "dropped", "failed"} : Push(r)
  \/ RecordStatus \/ RevokeDevice \/ TickDone

\* What the worker does by itself, calls that fail included.
WorkerStep ==
  \/ Boot
  \/ \E t \in 1 .. MaxTime : StartTick(t) \/ StartTickFails(t)
  \/ FetchMarkets \/ FetchMarketsFails
  \/ EvaluateStep
  \/ DeliverStep

WorkerNext == WorkerStep \/ DeadlineExpires \/ Crash
=============================================================================
