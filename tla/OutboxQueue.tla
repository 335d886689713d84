----------------------------- MODULE OutboxQueue -----------------------------
(***************************************************************************)
(* The transactional outbox and the durable job queue of the registry      *)
(* (registry/app/outbox, registry/app/workers).                            *)
(*                                                                         *)
(* A publish commits an outbox event with its domain rows.  Every API      *)
(* process runs one OutboxDispatcher that copies unpublished events into   *)
(* the queue_jobs table.  Worker processes claim a job, run its handler    *)
(* and acknowledge it, all in ONE database transaction; the maintenance    *)
(* worker sweeps the table.  The database runs at READ COMMITTED: a SELECT *)
(* sees committed rows and the rows of its own transaction; an UPDATE of a *)
(* row waits for the transaction that already updated it and then tests    *)
(* its WHERE clause again on the committed row.                            *)
(*                                                                         *)
(* Abstractions.  The dedupe key of a job is its event ("scan:<version>"   *)
(* and a version has one event).  Timestamps become what is asked of them: *)
(* next_attempt_at has passed ("due") or not, leased_until is NULL, in the *)
(* future or past.                                                         *)
(***************************************************************************)
EXTENDS Integers, FiniteSets

CONSTANTS
  Events,       \* outbox event ids
  Mapped,       \* the events whose type has an entry in EVENT_TO_JOB
  Dispatchers,  \* one per API process
  Workers,      \* worker processes of the mapped job type
  JobIds,       \* ids queue_jobs may hand out (a bound of the model)
  MaxAttempts,  \* DurableQueue.max_attempts
  BatchSize,    \* limit of OutboxRepository.unpublished
  MaxFaults     \* crashes and database errors (a bound of the model)

ASSUME ConstantsAssumption ==
  /\ Events \subseteq Nat \ {0}
  /\ Mapped \subseteq Events
  /\ JobIds \subseteq Nat \ {0}
  /\ MaxAttempts \in Nat \ {0}
  /\ BatchSize \in Nat \ {0}
  /\ MaxFaults \in Nat

None == "none"
ASSUME NoneAssumption == None \notin Dispatchers
ASSUME WorkersAssumption == IsFiniteSet(Workers)

VARIABLES
  outbox,   \* outbox[e]: "none", "pending" (published_at NULL) or "published"
  jobs,     \* the queue_jobs table
  nextId,   \* next id of the table
  disp,     \* the dispatchers' transactions
  wk,       \* the workers' transactions
  applied,  \* events whose handler wrote its result durably
  gaveUp,   \* events a job of which was dead-lettered (history)
  faults    \* faults so far

vars == <<outbox, jobs, nextId, disp, wk, applied, gaveUp, faults>>

Statuses == {"queued", "running", "succeeded", "dead"}
ACTIVE_STATUSES == {"queued", "running", "succeeded"}

(***************************************************************************)
(* A row is visible to every transaction when tx is None and only to the   *)
(* dispatcher tx that inserted it before that.                             *)
(***************************************************************************)
Row == [key : Events \cup {0}, status : Statuses \cup {"absent"}, attempts : Nat,
        next : {"due", "later"}, lease : {"none", "held", "expired"}, tx : Dispatchers \cup {None}]

NoRow == [key |-> 0, status |-> "absent", attempts |-> 0, next |-> "later",
          lease |-> "none", tx |-> None]

\* Mutant: enqueue commits its insert at once, before the dispatcher's commit.
NewRowAutocommit(e, d) == [key |-> e, status |-> "queued", attempts |-> 0, next |-> "due",
                           lease |-> "none", tx |-> None]

NewRow(e, d) == [key |-> e, status |-> "queued", attempts |-> 0, next |-> "due",
                 lease |-> "none", tx |-> d]

Committed(j) == jobs[j].status # "absent" /\ jobs[j].tx = None

DispatcherIdle == [todo |-> {}, marked |-> {}, locked |-> {}]
WorkerIdle == [pc |-> "idle", job |-> 0, seen |-> 0]

TypeOK ==
  /\ outbox \in [Events -> {"none", "pending", "published"}]
  /\ jobs \in [JobIds -> Row]
  /\ nextId \in Nat \ {0}
  /\ disp \in [Dispatchers -> [todo : SUBSET Events, marked : SUBSET Events,
                               locked : SUBSET Events]]
  /\ wk \in [Workers -> [pc : {"idle", "selected", "running"},
                         job : JobIds \cup {0}, seen : Nat]]
  /\ \A w \in Workers : wk[w].pc # "idle" => wk[w].job \in JobIds
  /\ applied \subseteq Events
  /\ gaveUp \subseteq Events
  /\ faults \in 0 .. MaxFaults

Init ==
  /\ outbox = [e \in Events |-> "none"]
  /\ jobs = [j \in JobIds |-> NoRow]
  /\ nextId = 1
  /\ disp = [d \in Dispatchers |-> DispatcherIdle]
  /\ wk = [w \in Workers |-> WorkerIdle]
  /\ applied = {}
  /\ gaveUp = {}
  /\ faults = 0

-----------------------------------------------------------------------------
(* The producer: publish_version adds the event in its own transaction.    *)

AddEvent(e) ==
  /\ outbox[e] = "none"
  /\ outbox' = [outbox EXCEPT ![e] = "pending"]
  /\ UNCHANGED <<jobs, nextId, disp, wk, applied, gaveUp, faults>>

-----------------------------------------------------------------------------
(* The dispatcher.  A dispatch_once is one transaction: Read, one Enqueue   *)
(* per event of the batch in id order, Commit.                             *)

Unpublished == {e \in Events : outbox[e] = "pending"}

\* The BatchSize unpublished events with the smallest ids.
Batch == {e \in Unpublished : Cardinality({f \in Unpublished : f <= e}) <= BatchSize}

DispatchRead(d) ==
  /\ disp[d] = DispatcherIdle
  /\ Batch # {}
  /\ disp' = [disp EXCEPT ![d].todo = Batch]
  /\ UNCHANGED <<outbox, jobs, nextId, wk, applied, gaveUp, faults>>

\* published_at of an event is written when the session flushes: before its
\* next query and at commit.  The write waits for another transaction's write.
CanFlush(d) == \A o \in Dispatchers \ {d} : disp[d].marked \cap disp[o].locked = {}

\* The SELECT of DurableQueue.enqueue, run by the transaction of d.
Exists(e, d) == \E j \in JobIds : /\ jobs[j].key = e
                                  /\ jobs[j].status \in ACTIVE_STATUSES
                                  /\ jobs[j].tx \in {None, d}

\* The effect of enqueue on the table: a new row unless an active one exists.
Enqueue(e, d) ==
  \/ /\ Exists(e, d)
     /\ UNCHANGED <<jobs, nextId>>
  \/ /\ ~Exists(e, d)
     /\ nextId \in JobIds
     /\ jobs' = [jobs EXCEPT ![nextId] = NewRow(e, d)]
     /\ nextId' = nextId + 1

\* mark_published sets the attribute; the rows marked before it were flushed
\* when enqueue ran its query.
MarkPublished(e, d, flushed) ==
  disp' = [disp EXCEPT ![d] = [todo |-> @.todo \ {e}, marked |-> @.marked \cup {e},
                               locked |-> flushed]]

DispatchEvent(d) ==
  /\ \E e \in disp[d].todo :
       /\ \A f \in disp[d].todo : e <= f
       /\ \/ /\ e \in Mapped
             /\ CanFlush(d)
             /\ Enqueue(e, d)
             /\ MarkPublished(e, d, disp[d].marked)
          \/ /\ e \notin Mapped
             /\ MarkPublished(e, d, disp[d].locked)
             /\ UNCHANGED <<jobs, nextId>>
  /\ UNCHANGED <<outbox, wk, applied, gaveUp, faults>>

DispatchCommit(d) ==
  /\ disp[d].todo = {}
  /\ disp[d].marked # {}
  /\ CanFlush(d)
  /\ outbox' = [e \in Events |-> IF e \in disp[d].marked THEN "published" ELSE outbox[e]]
  /\ jobs' = [j \in JobIds |-> IF jobs[j].tx = d THEN [jobs[j] EXCEPT !.tx = None] ELSE jobs[j]]
  /\ disp' = [disp EXCEPT ![d] = DispatcherIdle]
  /\ UNCHANGED <<nextId, wk, applied, gaveUp, faults>>

\* Mutant: the marks were committed by a transaction of their own.
DispatchAbortKeepsMarks(d) ==
  /\ disp[d] # DispatcherIdle
  /\ faults < MaxFaults
  /\ outbox' = [e \in Events |-> IF e \in disp[d].marked THEN "published" ELSE outbox[e]]
  /\ jobs' = [j \in JobIds |-> IF jobs[j].tx = d THEN NoRow ELSE jobs[j]]
  /\ disp' = [disp EXCEPT ![d] = DispatcherIdle]
  /\ faults' = faults + 1
  /\ UNCHANGED <<nextId, wk, applied, gaveUp>>

\* A crash, a cancellation or a database error rolls the transaction back.
DispatchAbort(d) ==
  /\ disp[d] # DispatcherIdle
  /\ faults < MaxFaults
  /\ jobs' = [j \in JobIds |-> IF jobs[j].tx = d THEN NoRow ELSE jobs[j]]
  /\ disp' = [disp EXCEPT ![d] = DispatcherIdle]
  /\ faults' = faults + 1
  /\ UNCHANGED <<outbox, nextId, wk, applied, gaveUp>>

-----------------------------------------------------------------------------
(* A worker.  JobWorker.run_once is one transaction: the two statements of *)
(* claim, the handler, and complete or fail, committed together.           *)

\* Mutant: the SELECT forgets the rows whose leased_until is NULL.
ClaimableIfLeaseExpired(j) == /\ Committed(j)
                              /\ jobs[j].status = "queued"
                              /\ jobs[j].next = "due"
                              /\ jobs[j].lease = "expired"

Claimable(j) == /\ Committed(j)
                /\ jobs[j].status = "queued"
                /\ jobs[j].next = "due"
                /\ jobs[j].lease \in {"none", "expired"}

\* claim, first statement: the claimable row with the smallest id.  The
\* session keeps the row object, with the attempts it has now.
ClaimSelect(w) ==
  /\ wk[w].pc = "idle"
  /\ \E j \in JobIds :
       /\ Claimable(j)
       /\ \A i \in JobIds : Claimable(i) => j <= i
       /\ wk' = [wk EXCEPT ![w] = [pc |-> "selected", job |-> j, seen |-> jobs[j].attempts]]
  /\ UNCHANGED <<outbox, jobs, nextId, disp, applied, gaveUp, faults>>

Locked(j) == \E w \in Workers : wk[w].pc = "running" /\ wk[w].job = j

\* Mutant: claim trusts its SELECT and takes no row lock.
ClaimWithoutUpdate(w) ==
  /\ wk[w].pc = "selected"
  /\ wk' = [wk EXCEPT ![w].pc = "running", ![w].seen = @ + 1]
  /\ UNCHANGED <<outbox, jobs, nextId, disp, applied, gaveUp, faults>>

\* claim, second statement: UPDATE ... WHERE id AND status = queued.  The new
\* values (running, attempts + 1, a lease) stay inside the transaction; the
\* session's row object counts from the attempts it was loaded with.
ClaimUpdate(w) ==
  /\ wk[w].pc = "selected"
  /\ ~Locked(wk[w].job)
  /\ \/ /\ Committed(wk[w].job) /\ jobs[wk[w].job].status = "queued"
        /\ wk' = [wk EXCEPT ![w].pc = "running", ![w].seen = @ + 1]
     \/ /\ ~(Committed(wk[w].job) /\ jobs[wk[w].job].status = "queued")
        /\ wk' = [wk EXCEPT ![w] = WorkerIdle]
  /\ UNCHANGED <<outbox, jobs, nextId, disp, applied, gaveUp, faults>>

\* What a worker's commit leaves in the row of its job.
Acked(row) == [row EXCEPT !.status = "succeeded", !.attempts = @ + 1, !.lease = "none"]
Dead(row) == [row EXCEPT !.status = "dead", !.attempts = @ + 1, !.lease = "none"]
\* Mutant: a retry hands the attempt back.
RequeuedRefund(row) == [row EXCEPT !.status = "queued", !.attempts = @ - 1, !.lease = "none",
                                   !.next = "later"]
Requeued(row) == [row EXCEPT !.status = "queued", !.attempts = @ + 1, !.lease = "none",
                             !.next = "later"]

\* handle returned: complete, then commit.
Complete(w) ==
  /\ wk[w].pc = "running"
  /\ jobs' = [jobs EXCEPT ![wk[w].job] = Acked(@)]
  /\ applied' = applied \cup {jobs[wk[w].job].key}
  /\ wk' = [wk EXCEPT ![w] = WorkerIdle]
  /\ UNCHANGED <<outbox, nextId, disp, gaveUp, faults>>

\* Mutants: off by one either way.
ExhaustedEarly(w) == wk[w].seen + 1 >= MaxAttempts
ExhaustedLate(w) == wk[w].seen > MaxAttempts

\* DurableQueue.fail: the row as the session's row object has it decides
\* between the dead letter and a retry.
Exhausted(w) == wk[w].seen >= MaxAttempts

\* handle raised: fail, then commit, without a rollback first: what handle had
\* already written is committed too.
Fail(w) ==
  /\ wk[w].pc = "running"
  /\ LET j == wk[w].job IN
       /\ \/ /\ Exhausted(w)
             /\ jobs' = [jobs EXCEPT ![j] = Dead(@)]
             /\ gaveUp' = gaveUp \cup {jobs[j].key}
          \/ /\ ~Exhausted(w)
             /\ jobs' = [jobs EXCEPT ![j] = Requeued(@)]
             /\ UNCHANGED gaveUp
       /\ \/ applied' = applied \cup {jobs[j].key}
          \/ UNCHANGED applied
  /\ wk' = [wk EXCEPT ![w] = WorkerIdle]
  /\ UNCHANGED <<outbox, nextId, disp, faults>>

\* A crash, a cancellation, or an error that poisons the session so that
\* fail raises as well: the transaction is rolled back, the claim with it.
WorkerAbort(w) ==
  /\ wk[w].pc # "idle"
  /\ faults < MaxFaults
  /\ wk' = [wk EXCEPT ![w] = WorkerIdle]
  /\ faults' = faults + 1
  /\ UNCHANGED <<outbox, jobs, nextId, disp, applied, gaveUp>>

-----------------------------------------------------------------------------
(* Time and the maintenance worker.                                        *)

\* next_attempt_at and leased_until of a committed row pass.
Elapse(j) ==
  /\ Committed(j)
  /\ jobs[j].next = "later" \/ jobs[j].lease = "held"
  /\ jobs' = [jobs EXCEPT ![j].next = "due",
                          ![j].lease = IF @ = "held" THEN "expired" ELSE @]
  /\ UNCHANGED <<outbox, nextId, disp, wk, applied, gaveUp, faults>>

Stale(j) == Committed(j) /\ jobs[j].status = "running" /\ jobs[j].lease = "expired"
Finished(j) == Committed(j) /\ jobs[j].status \in {"succeeded", "dead"}

\* reap_stale_leases, then reap_old_jobs of the finished rows past retention.
MaintenanceSweep ==
  \E old \in SUBSET {j \in JobIds : Finished(j)} :
    /\ jobs' = [j \in JobIds |->
                  CASE j \in old -> NoRow
                    [] Stale(j) -> [jobs[j] EXCEPT !.status = "queued", !.lease = "none"]
                    [] OTHER -> jobs[j]]
    /\ UNCHANGED <<outbox, nextId, disp, wk, applied, gaveUp, faults>>

-----------------------------------------------------------------------------
DispatcherStep(d) == DispatchRead(d) \/ DispatchEvent(d) \/ DispatchCommit(d)
WorkerStep(w) == ClaimSelect(w) \/ ClaimUpdate(w) \/ Complete(w) \/ Fail(w)

Next ==
  \/ \E e \in Events : AddEvent(e)
  \/ \E d \in Dispatchers : DispatcherStep(d) \/ DispatchAbort(d)
  \/ \E w \in Workers : WorkerStep(w) \/ WorkerAbort(w)
  \/ \E j \in JobIds : Elapse(j)
  \/ MaintenanceSweep

Spec == Init /\ [][Next]_vars

(***************************************************************************)
(* Both loops are `while True` with a sleep, they swallow every exception  *)
(* and the process manager restarts a crashed process: each keeps taking   *)
(* steps while it has something to do.  Time passes.                       *)
(***************************************************************************)
Fairness ==
  /\ \A d \in Dispatchers : WF_vars(DispatcherStep(d))
  /\ \A w \in Workers : WF_vars(WorkerStep(w))
  /\ \A j \in JobIds : WF_vars(Elapse(j))

FairSpec == Spec /\ Fairness

-----------------------------------------------------------------------------
(* Properties.                                                             *)

\* The event has been handled, was dead-lettered, or waits in the queue.
Covered(e) == \/ e \in applied \cup gaveUp
              \/ \E j \in JobIds : /\ Committed(j)
                                   /\ jobs[j].key = e
                                   /\ jobs[j].status = "queued"

\* No event is lost between the outbox and the queue: once published_at of a
\* mapped event is set, its job is queued, done or dead-lettered, whatever
\* dispatcher or worker crashed and whatever the sweep pruned.
NoLostEvent == \A e \in Mapped : outbox[e] = "published" => Covered(e)

\* Two workers that selected the same row never both run its handler.
ExclusiveClaim == \A v, w \in Workers :
  wk[v].pc = "running" /\ wk[w].pc = "running" /\ wk[v].job = wk[w].job => v = w

\* A job is acknowledged only after the handler's result is durable, and it
\* is dead-lettered only after max_attempts tries that were committed.
AckedOrExhausted == \A j \in JobIds : Committed(j) =>
  /\ jobs[j].status = "succeeded" => jobs[j].key \in applied
  /\ jobs[j].status = "dead" => jobs[j].attempts >= MaxAttempts

\* What bounds the retries when workers race for a job: a worker that loaded
\* the row early may requeue it once more than max_attempts allows.
RetriesBounded == \A j \in JobIds :
  jobs[j].attempts <= MaxAttempts + Cardinality(Workers) - 1

\* Every committed event of a mapped type is eventually handled or
\* dead-lettered, with finitely many crashes at any point of the way.
EventuallySettled == \A e \in Mapped :
  outbox[e] = "pending" ~> e \in applied \cup gaveUp

(***************************************************************************)
(* The queue implements at-least-once delivery.                            *)
(***************************************************************************)
Delivery == INSTANCE EventDelivery WITH
  requested <- {e \in Events : outbox[e] # "none"},
  accepted <- {e \in Events : outbox[e] = "published"},
  delivered <- applied,
  abandoned <- gaveUp

\* A handler's effect and a dead letter only ever follow the committed
\* publication of the event, and neither is ever undone.
ImplementsDelivery == Delivery!Spec
=============================================================================
