--------------------------- MODULE BillingLifecycle ---------------------------
(***************************************************************************)
(* The subscription of one organization (registry/app/billing): webhooks   *)
(* of the payment provider, manual transitions, plan changes, and the      *)
(* reconcile jobs that end a trial, a grace period or a past-due period.   *)
(*                                                                         *)
(* Every request is a database session: it loads the row, computes, and    *)
(* at commit the ORM writes the columns whose value differs from the one   *)
(* it loaded.  Nothing locks the row or checks its version in between.     *)
(*                                                                         *)
(* Abstractions.  A timestamp is a day and an instant of the day.  A       *)
(* commit takes two instants (it computes at `now` and flushes at the next *)
(* one) and instants only grow, so that no two timestamps coincide, as in  *)
(* the code, which has microseconds; a period is a number of days, and a   *)
(* deadline keeps the instant it is counted from.  A request is short: no  *)
(* day passes while one runs.  A job is its run_at, which is also its      *)
(* dedupe key; that a due job is run by one worker at a time, and finished *)
(* in the handler's transaction, is what OutboxQueue shows.  A failed job  *)
(* is postponed by a minute at most, which is not a day: it stays due.     *)
(***************************************************************************)
EXTENDS Integers

CONSTANTS
  Sessions,      \* requests and workers that may run at the same time
  Events,        \* event ids of the payment provider
  Plans,         \* launchable plans
  Free,          \* FREE_HANDLE
  TrialDays, GraceDays, PastDueDays,
  MaxAttempts,   \* max_attempts of the queue
  MaxDays,       \* days that may pass (a bound of the model)
  MaxInstants    \* instants for commits (a bound of the model)

ASSUME ConstantsAssumption ==
  /\ Free \in Plans
  /\ TrialDays \in Nat \ {0}
  /\ GraceDays \in Nat \ {0}
  /\ PastDueDays \in Nat \ {0}
  /\ MaxAttempts \in Nat \ {0}
  /\ MaxDays \in Nat
  /\ MaxInstants \in Nat

VARIABLES
  sub,       \* the organization_subscriptions row
  now,       \* the clock
  queued,    \* run_at of the queued billing.reconcile jobs
  done,      \* run_at of the succeeded ones: enqueue still counts them as active
  attempts,  \* how often a queued job has failed, for those that have
  lost,      \* whether a job was dead-lettered since the status last moved (history)
  tx,        \* the sessions
  recorded,  \* ids in billing_webhook_events
  applied    \* how often a committed transaction applied an event (history)

vars == <<sub, now, queued, done, attempts, lost, tx, recorded, applied>>

Statuses == {"trial", "active", "grace_period", "past_due", "suspended", "canceled"}
TIMED_STATUSES == {"trial", "grace_period", "past_due"}

ALLOWED_TRANSITIONS == [s \in Statuses |->
  CASE s = "trial" -> {"active", "grace_period", "past_due", "canceled"}
    [] s = "active" -> {"grace_period", "canceled"}
    [] s = "grace_period" -> {"active", "past_due", "canceled"}
    [] s = "past_due" -> {"active", "suspended", "canceled"}
    [] s = "suspended" -> {"active", "canceled"}
    [] s = "canceled" -> {"active"}]

SnapshotFor(plan, status) == [plan |-> plan, status |-> status]

At(day, instant) == [day |-> day, at |-> instant]
Null == At(0, 0)
After(t, days) == At(t.day + days, t.at)
Before(a, b) == a.day < b.day \/ (a.day = b.day /\ a.at < b.at)

\* The instant of the flush.
Flushed == At(now.day, now.at + 1)

Idle == [op |-> "idle"]
NoJob == At(-1, 0)

\* ensure_subscription: a trial of the free plan with its job.
Init ==
  /\ sub = [status |-> "trial", plan |-> Free, snapshot |-> SnapshotFor(Free, "trial"),
            trialEnds |-> At(TrialDays, 0), graceEnds |-> Null, updated |-> At(0, 1)]
  /\ now = At(0, 2)
  /\ queued = {At(TrialDays, 0)}
  /\ done = {}
  /\ attempts = [j \in {} |-> 0]
  /\ lost = "no"
  /\ tx = [s \in Sessions |-> Idle]
  /\ recorded = {}
  /\ applied = [e \in Events |-> 0]

-----------------------------------------------------------------------------
(* The functions of application.py on a loaded row.                        *)

\* transition_status on an allowed transition.
Transition(r, to) ==
  IF to = r.status THEN r
  ELSE [r EXCEPT !.status = to,
                 !.graceEnds = CASE to = "grace_period" -> After(now, GraceDays)
                                 [] to = "active" -> Null
                                 [] OTHER -> @,
                 !.snapshot = SnapshotFor(r.plan, to)]

Allowed(r, to) == to = r.status \/ to \in ALLOWED_TRANSITIONS[r.status]

Later(a, b) == IF Before(b, a) THEN a ELSE b

\* _schedule_next_pending: the deadline to enqueue, if there is one.
NextPending(r) ==
  CASE r.status = "trial" /\ Before(now, r.trialEnds) -> {r.trialEnds}
    [] r.status = "grace_period" /\ Before(now, r.graceEnds) -> {r.graceEnds}
    [] r.status = "past_due" -> {Later(After(r.updated, PastDueDays), now)}
    [] OTHER -> {}

\* A transition into a timed status enqueues with the updated_at that was
\* loaded: the ORM renews it only when it flushes.
TransitionJobs(r, to) == IF to = r.status THEN {} ELSE NextPending(Transition(r, to))

\* The status reconcile_subscription moves a row to.
ReconciledStatus(r) ==
  CASE r.status = "trial" /\ ~Before(now, r.trialEnds) -> "past_due"
    [] r.status = "grace_period" /\ ~Before(now, r.graceEnds) -> "past_due"
    [] r.status = "past_due" /\ ~Before(now, After(r.updated, PastDueDays)) -> "suspended"
    [] OTHER -> r.status

Reconciled(r) == Transition(r, ReconciledStatus(r))

\* Its second schedule sees the updated_at of the flush.
ReconcileJobs(r) ==
  TransitionJobs(r, ReconciledStatus(r))
    \cup NextPending(IF ReconciledStatus(r) = r.status THEN r
                     ELSE [Reconciled(r) EXCEPT !.updated = Flushed])

-----------------------------------------------------------------------------
(* Sessions.                                                               *)

Begin(s, operation) ==
  /\ tx[s] = Idle
  /\ now.at < MaxInstants
  /\ tx' = [tx EXCEPT ![s] = operation]
  /\ UNCHANGED <<sub, now, queued, done, attempts, lost, recorded, applied>>

\* process_webhook: a recorded event is a duplicate and changes nothing.
WebhookLoad(s, e, to) ==
  /\ e \notin recorded
  /\ Begin(s, [op |-> "webhook", row |-> sub, event |-> e, to |-> to])

ManualLoad(s, to) == Begin(s, [op |-> "manual", row |-> sub, to |-> to])

PlanLoad(s, plan) == Begin(s, [op |-> "plan", row |-> sub, to |-> plan])

Claimed(j) == \E o \in Sessions : tx[o].op = "reconcile" /\ tx[o].job = j

\* The worker runs a due job; a GET of the billing page reconciles without one.
ReconcileLoad(s, j) ==
  /\ j = NoJob \/ (j \in queued /\ ~Before(now, j) /\ ~Claimed(j))
  /\ Begin(s, [op |-> "reconcile", row |-> sub, job |-> j])

\* The flush: only the columns the session changed are written.
Written(old, new, stored) == IF new # old THEN new ELSE stored
Flush(old, new) ==
  IF new = old THEN UNCHANGED sub
  ELSE sub' = [status |-> Written(old.status, new.status, sub.status),
               plan |-> Written(old.plan, new.plan, sub.plan),
               snapshot |-> Written(old.snapshot, new.snapshot, sub.snapshot),
               trialEnds |-> Written(old.trialEnds, new.trialEnds, sub.trialEnds),
               graceEnds |-> Written(old.graceEnds, new.graceEnds, sub.graceEnds),
               updated |-> Flushed]

\* A commit that moves the status schedules its end anew.
Moved(old, new) == lost' = IF new.status # old.status THEN "no" ELSE lost

\* Mutant: the dedupe key is the organization alone.
EnqueuedOnce(deadlines) == IF queued \cup done = {} THEN deadlines ELSE {}

\* enqueue skips a key that a queued or succeeded job has.
Enqueued(deadlines) == deadlines \ (queued \cup done)

Failures(j) == IF j \in DOMAIN attempts THEN attempts[j] ELSE 0
Without(f, j) == [i \in DOMAIN f \ {j} |-> f[i]]

End(s) == tx' = [tx EXCEPT ![s] = Idle] /\ now' = At(now.day, now.at + 2)

\* Mutant: billing_webhook_events has no unique constraint.
WebhookCommitTwice(s) ==
  /\ tx[s].op = "webhook"
  /\ Allowed(tx[s].row, tx[s].to)
  /\ recorded' = recorded \cup {tx[s].event}
  /\ applied' = [applied EXCEPT ![tx[s].event] = @ + 1]
  /\ Flush(tx[s].row, Transition(tx[s].row, tx[s].to))
  /\ Moved(tx[s].row, Transition(tx[s].row, tx[s].to))
  /\ queued' = queued \cup Enqueued(TransitionJobs(tx[s].row, tx[s].to))
  /\ End(s)
  /\ UNCHANGED <<done, attempts>>

\* The insert of the event fails on the unique (provider, event_id) when
\* another session recorded it meanwhile.
WebhookCommit(s) ==
  /\ tx[s].op = "webhook"
  /\ Allowed(tx[s].row, tx[s].to)
  /\ tx[s].event \notin recorded
  /\ recorded' = recorded \cup {tx[s].event}
  /\ applied' = [applied EXCEPT ![tx[s].event] = @ + 1]
  /\ Flush(tx[s].row, Transition(tx[s].row, tx[s].to))
  /\ Moved(tx[s].row, Transition(tx[s].row, tx[s].to))
  /\ queued' = queued \cup Enqueued(TransitionJobs(tx[s].row, tx[s].to))
  /\ End(s)
  /\ UNCHANGED <<done, attempts>>

ManualCommit(s) ==
  /\ tx[s].op = "manual"
  /\ Allowed(tx[s].row, tx[s].to)
  /\ Flush(tx[s].row, Transition(tx[s].row, tx[s].to))
  /\ Moved(tx[s].row, Transition(tx[s].row, tx[s].to))
  /\ queued' = queued \cup Enqueued(TransitionJobs(tx[s].row, tx[s].to))
  /\ End(s)
  /\ UNCHANGED <<done, attempts, recorded, applied>>

PlanCommit(s) ==
  /\ tx[s].op = "plan"
  /\ Flush(tx[s].row, [tx[s].row EXCEPT !.plan = tx[s].to,
                                        !.snapshot = SnapshotFor(tx[s].to, tx[s].row.status)])
  /\ End(s)
  /\ UNCHANGED <<queued, done, attempts, lost, recorded, applied>>

ReconcileCommit(s) ==
  /\ tx[s].op = "reconcile"
  /\ Flush(tx[s].row, Reconciled(tx[s].row))
  /\ Moved(tx[s].row, Reconciled(tx[s].row))
  /\ queued' = (queued \cup Enqueued(ReconcileJobs(tx[s].row))) \ {tx[s].job}
  /\ done' = done \cup ({tx[s].job} \ {NoJob})
  /\ attempts' = Without(attempts, tx[s].job)
  /\ End(s)
  /\ UNCHANGED <<recorded, applied>>

\* Where the handler may raise: what it changed of the row, and the jobs it made.
Prefixes(r) ==
  {<<r, {}>>, <<[r EXCEPT !.status = ReconciledStatus(r)], {}>>}
    \cup ({Reconciled(r)} \X {{}, TransitionJobs(r, ReconciledStatus(r)), ReconcileJobs(r)})

\* The handler raises: queue.fail counts the attempt and postpones the job or, on
\* the last attempt, dead-letters it, and the worker commits that together with
\* whatever the handler wrote before.
ReconcileFails(s) ==
  /\ tx[s].op = "reconcile" /\ tx[s].job # NoJob
  /\ \E p \in Prefixes(tx[s].row) :
       /\ Flush(tx[s].row, p[1])
       /\ IF Failures(tx[s].job) + 1 >= MaxAttempts
          THEN /\ queued' = (queued \cup Enqueued(p[2])) \ {tx[s].job}
               /\ attempts' = Without(attempts, tx[s].job)
               /\ lost' = "yes"
          ELSE /\ queued' = queued \cup Enqueued(p[2])
               /\ attempts' = [j \in DOMAIN attempts \cup {tx[s].job} |->
                                 Failures(j) + (IF j = tx[s].job THEN 1 ELSE 0)]
               /\ UNCHANGED lost
  /\ End(s)
  /\ UNCHANGED <<done, recorded, applied>>

\* An invalid transition, a duplicate event, a crash, a database error, on which
\* the worker's session can do no more either: everything rolls back, and the job
\* of a reconcile stays queued.
Abort(s) ==
  /\ tx[s] # Idle
  /\ tx' = [tx EXCEPT ![s] = Idle]
  /\ UNCHANGED <<sub, now, queued, done, attempts, lost, recorded, applied>>

\* A day passes.
Tick ==
  /\ \A s \in Sessions : tx[s] = Idle
  /\ now.day < MaxDays
  /\ now' = At(now.day + 1, now.at + 2)
  /\ UNCHANGED <<sub, queued, done, attempts, lost, tx, recorded, applied>>

Next ==
  \/ \E s \in Sessions :
       \/ \E e \in Events, to \in Statuses : WebhookLoad(s, e, to)
       \/ \E to \in Statuses : ManualLoad(s, to)
       \/ \E plan \in Plans : PlanLoad(s, plan)
       \/ \E j \in queued \cup {NoJob} : ReconcileLoad(s, j)
       \/ WebhookCommit(s) \/ ManualCommit(s) \/ PlanCommit(s) \/ ReconcileCommit(s)
       \/ ReconcileFails(s) \/ Abort(s)
  \/ Tick

Spec == Init /\ [][Next]_vars

-----------------------------------------------------------------------------
(* Properties.                                                             *)

Deadline == CASE sub.status = "trial" -> sub.trialEnds
              [] sub.status = "grace_period" -> sub.graceEnds
              [] sub.status = "past_due" -> After(sub.updated, PastDueDays)
              [] OTHER -> now

\* A subscription in a timed status never slips through: a reconcile job is
\* queued whose first attempt is due no later than the status ends, although
\* jobs are deduplicated, scheduled from a stale updated_at, raced by webhooks,
\* and may raise halfway.  The exception: since the status last moved, a job
\* raised max_attempts times and was dead-lettered.
DeadlineCovered ==
  sub.status \in TIMED_STATUSES /\ lost = "no" => \E j \in queued : ~Before(Deadline, j)

\* A provider event moves the subscription at most once, however often and
\* however concurrently it is delivered.
EventAppliedOnce == \A e \in Events : applied[e] <= 1

=============================================================================
