-------------------------- MODULE OutboxQueueProofs --------------------------
(***************************************************************************)
(* Proofs that no event is lost on its way through the outbox and the      *)
(* queue, for any number of events, dispatchers, workers, jobs and faults. *)
(***************************************************************************)
EXTENDS OutboxQueue, FiniteSetTheorems, TLAPS

\* What a row of queue_jobs satisfies, whichever transaction sees it.
RowOK(j) ==
  /\ jobs[j].status # "absent" => j < nextId /\ jobs[j].key \in Mapped
  /\ jobs[j].status # "running" /\ jobs[j].lease = "none"
  /\ jobs[j].status = "absent" => jobs[j].tx = None
  /\ jobs[j].tx # None => /\ jobs[j].status = "queued"
                          /\ jobs[j].key \in disp[jobs[j].tx].marked
  /\ jobs[j].status = "succeeded" => jobs[j].key \in applied
  /\ jobs[j].status = "dead" => /\ jobs[j].key \in gaveUp
                                /\ jobs[j].attempts >= MaxAttempts
  /\ Committed(j) => outbox[jobs[j].key] = "published"

\* The job of a running worker is queued in the committed table, and the
\* worker never counts more attempts than the table will.
ClaimOK(w) ==
  /\ wk[w].pc # "idle" => wk[w].job < nextId
  /\ wk[w].pc = "selected" => \/ jobs[wk[w].job].status = "absent"
                              \/ wk[w].seen <= jobs[wk[w].job].attempts
  /\ wk[w].pc = "running" => /\ Committed(wk[w].job)
                             /\ jobs[wk[w].job].status = "queued"
                             /\ wk[w].seen <= jobs[wk[w].job].attempts + 1

\* The event is covered, or dispatcher d will commit its job with the mark.
Pledged(e, d) == Covered(e) \/ \E j \in JobIds : jobs[j].tx = d /\ jobs[j].key = e

RowInv == \A j \in JobIds : RowOK(j)
ClaimInv == \A w \in Workers : ClaimOK(w)
TakenInv == \A d \in Dispatchers, e \in Events :
              e \in disp[d].todo \cup disp[d].marked => outbox[e] # "none"
PledgeInv == \A d \in Dispatchers, e \in Mapped : e \in disp[d].marked => Pledged(e, d)

Rest == RowInv /\ ClaimInv /\ ExclusiveClaim /\ TakenInv /\ PledgeInv /\ NoLostEvent

IInv == TypeOK /\ Rest

\* An empty slot of queue_jobs and a freshly enqueued job are rows.
LEMMA IdleTypes ==
  /\ NoRow \in Row
  /\ \A e \in Events, d \in Dispatchers : NewRow(e, d) \in Row
  BY DEF NoRow, NewRow, Row, Statuses

\* Each of the three rows a worker may commit is a row again.
LEMMA WorkerRowTypes ==
  ASSUME NEW row \in Row
  PROVE  Acked(row) \in Row /\ Dead(row) \in Row /\ Requeued(row) \in Row
<1>1. row.attempts + 1 \in Nat
  BY DEF Row
<1> QED BY <1>1 DEF Row, Acked, Dead, Requeued, Statuses

DispatcherTx == [todo : SUBSET Events, marked : SUBSET Events, locked : SUBSET Events]

\* The registry starts with well-typed tables and idle processes.
LEMMA TypeInit == Init => TypeOK
<1>1. DispatcherIdle \in DispatcherTx
  BY DEF DispatcherIdle, DispatcherTx
<1> QED
  BY <1>1, IdleTypes, ConstantsAssumption DEF Init, TypeOK, WorkerIdle, DispatcherTx

\* What complete and fail have in common: the row of the job gets its verdict,
\* and with it the event its mark.
WorkerCommit(w) ==
  LET j == wk[w].job
      k == jobs[j].key
  IN /\ wk[w].pc = "running"
     /\ wk' = [wk EXCEPT ![w] = WorkerIdle]
     /\ \/ /\ jobs' = [jobs EXCEPT ![j] = Acked(jobs[j])]
           /\ applied' = applied \cup {k}
           /\ gaveUp' = gaveUp
        \/ /\ Exhausted(w)
           /\ jobs' = [jobs EXCEPT ![j] = Dead(jobs[j])]
           /\ applied' \in {applied, applied \cup {k}}
           /\ gaveUp' = gaveUp \cup {k}
        \/ /\ jobs' = [jobs EXCEPT ![j] = Requeued(jobs[j])]
           /\ applied' \in {applied, applied \cup {k}}
           /\ gaveUp' = gaveUp
     /\ UNCHANGED <<outbox, nextId, disp, faults>>

\* complete and fail change the table only in the row of the worker's job, to
\* one of three rows.
LEMMA WorkerCommits ==
  ASSUME NEW w \in Workers, Complete(w) \/ Fail(w)
  PROVE  WorkerCommit(w)
<1>1. CASE Complete(w)
  BY <1>1 DEF Complete, WorkerCommit
<1>2. CASE Fail(w)
  BY <1>2 DEF Fail, WorkerCommit
<1> QED BY <1>1, <1>2

\* Every statement, commit, rollback, timer and sweep keeps the types.
LEMMA TypeStep == IInv /\ [Next]_vars => TypeOK'
<1> SUFFICES ASSUME IInv, [Next]_vars PROVE TypeOK'
  OBVIOUS
<1> USE ConstantsAssumption
<1>0. TypeOK /\ disp \in [Dispatchers -> DispatcherTx]
  BY DEF IInv, TypeOK, DispatcherTx
<1>1. ASSUME NEW e \in Events, AddEvent(e) PROVE TypeOK'
  BY <1>0, <1>1 DEF AddEvent, TypeOK
<1>2. ASSUME NEW d \in Dispatchers, DispatchRead(d) PROVE TypeOK'
  <2>1. Batch \subseteq Events
    BY DEF Batch, Unpublished
  <2>2. [disp[d] EXCEPT !.todo = Batch] \in DispatcherTx
    BY <1>0, <2>1 DEF DispatcherTx
  <2>3. disp' \in [Dispatchers -> DispatcherTx]
    BY <1>0, <1>2, <2>2 DEF DispatchRead
  <2> QED BY <1>0, <1>2, <2>3 DEF DispatchRead, TypeOK, DispatcherTx
<1>3. ASSUME NEW d \in Dispatchers, DispatchEvent(d) PROVE TypeOK'
  <2>1. PICK e \in disp[d].todo :
          /\ \/ e \in Mapped /\ Enqueue(e, d) /\ MarkPublished(e, d, disp[d].marked)
             \/ MarkPublished(e, d, disp[d].locked) /\ UNCHANGED <<jobs, nextId>>
    BY <1>3 DEF DispatchEvent
  <2>2. e \in Events
    BY <1>0 DEF DispatcherTx
  <2>3. jobs' \in [JobIds -> Row] /\ nextId' \in Nat \ {0}
    BY <1>0, <2>1, <2>2, IdleTypes DEF Enqueue, TypeOK
  <2>4. disp' \in [Dispatchers -> DispatcherTx]
    <3>1. \A f \in SUBSET Events :
            [todo |-> disp[d].todo \ {e}, marked |-> disp[d].marked \cup {e}, locked |-> f]
              \in DispatcherTx
      BY <1>0, <2>2 DEF DispatcherTx
    <3>2. disp[d].marked \in SUBSET Events /\ disp[d].locked \in SUBSET Events
      BY <1>0 DEF DispatcherTx
    <3> QED BY <1>0, <2>1, <3>1, <3>2 DEF MarkPublished
  <2> QED BY <1>0, <1>3, <2>3, <2>4 DEF DispatchEvent, TypeOK, DispatcherTx
<1>4. ASSUME NEW d \in Dispatchers, DispatchCommit(d) \/ DispatchAbort(d) PROVE TypeOK'
  <2>1. jobs' \in [JobIds -> Row]
    <3>1. \A j \in JobIds : [jobs[j] EXCEPT !.tx = None] \in Row
      BY <1>0 DEF TypeOK, Row
    <3> QED BY <1>0, <1>4, <3>1, IdleTypes DEF DispatchCommit, DispatchAbort, TypeOK
  <2>2. disp' \in [Dispatchers -> DispatcherTx]
    <3>1. DispatcherIdle \in DispatcherTx
      BY DEF DispatcherIdle, DispatcherTx
    <3> QED BY <1>0, <1>4, <3>1 DEF DispatchCommit, DispatchAbort
  <2>3. /\ outbox' \in [Events -> {"none", "pending", "published"}]
        /\ faults' \in 0 .. MaxFaults
    BY <1>0, <1>4 DEF DispatchCommit, DispatchAbort, TypeOK
  <2> QED
    BY <1>0, <1>4, <2>1, <2>2, <2>3 DEF DispatchCommit, DispatchAbort, TypeOK, DispatcherTx
<1>5. ASSUME NEW w \in Workers, ClaimSelect(w) PROVE TypeOK'
  BY <1>0, <1>5 DEF ClaimSelect, TypeOK, Row
<1>6. ASSUME NEW w \in Workers, ClaimUpdate(w) \/ WorkerAbort(w) PROVE TypeOK'
  BY <1>0, <1>6 DEF ClaimUpdate, WorkerAbort, TypeOK, WorkerIdle
<1>7. ASSUME NEW w \in Workers, Complete(w) \/ Fail(w) PROVE TypeOK'
  <2>1. WorkerCommit(w) /\ wk[w].pc = "running"
    BY <1>7, WorkerCommits DEF WorkerCommit
  <2>2. wk[w].job \in JobIds
    BY <1>0, <2>1 DEF TypeOK
  <2>3. jobs[wk[w].job] \in Row
    BY <1>0, <2>2 DEF TypeOK
  <2>4. Committed(wk[w].job)
    BY <2>1 DEF IInv, Rest, ClaimInv, ClaimOK
  <2>5. jobs[wk[w].job].key \in Events
    BY <2>2, <2>4 DEF Committed, IInv, Rest, RowInv, RowOK
  <2>6. jobs' \in [JobIds -> Row]
    BY <1>0, <2>1, <2>2, <2>3, WorkerRowTypes DEF WorkerCommit, TypeOK
  <2>7. applied' \subseteq Events /\ gaveUp' \subseteq Events
    BY <1>0, <2>1, <2>5 DEF WorkerCommit, TypeOK
  <2> QED BY <1>0, <2>1, <2>6, <2>7 DEF WorkerCommit, TypeOK, WorkerIdle
<1>8. ASSUME NEW j \in JobIds, Elapse(j) PROVE TypeOK'
  <2> DEFINE l == IF jobs[j].lease = "held" THEN "expired" ELSE jobs[j].lease
  <2>1. jobs[j] \in Row
    BY <1>0 DEF TypeOK
  <2>2. [jobs[j] EXCEPT !.next = "due", !.lease = l] \in Row
    BY <2>1 DEF Row
  <2>3. jobs' = [jobs EXCEPT ![j] = [jobs[j] EXCEPT !.next = "due", !.lease = l]]
    BY <1>0, <1>8 DEF Elapse, TypeOK
  <2>4. jobs' \in [JobIds -> Row]
    BY <1>0, <2>2, <2>3 DEF TypeOK
  <2> QED BY <1>0, <1>8, <2>4 DEF Elapse, TypeOK
<1>9. ASSUME MaintenanceSweep PROVE TypeOK'
  <2>1. \A j \in JobIds : jobs[j] \in Row
    BY <1>0 DEF TypeOK
  <2>2. \A j \in JobIds : [jobs[j] EXCEPT !.status = "queued", !.lease = "none"] \in Row
    BY <2>1 DEF Row, Statuses
  <2>3. PICK old \in SUBSET {j \in JobIds : Finished(j)} :
          jobs' = [j \in JobIds |->
                    CASE j \in old -> NoRow
                      [] Stale(j) -> [jobs[j] EXCEPT !.status = "queued", !.lease = "none"]
                      [] OTHER -> jobs[j]]
    BY <1>9 DEF MaintenanceSweep
  <2>4. \A j \in JobIds : j \in old => ~Stale(j)
    BY <2>3 DEF Finished, Stale
  <2>5. jobs' \in [JobIds -> Row]
    BY <2>1, <2>2, <2>3, <2>4, IdleTypes
  <2> QED BY <1>0, <1>9, <2>5 DEF MaintenanceSweep, TypeOK
<1>10. ASSUME UNCHANGED vars PROVE TypeOK'
  BY <1>0, <1>10 DEF vars, TypeOK
<1> QED
  BY <1>1, <1>2, <1>3, <1>4, <1>5, <1>6, <1>7, <1>8, <1>9, <1>10
  DEF Next, DispatcherStep, WorkerStep

-----------------------------------------------------------------------------
(* The rest of the invariant, one lemma per kind of step.                  *)

\* With empty tables and idle processes there is nothing to lose.
LEMMA RestInit == Init => Rest
  BY ConstantsAssumption
  DEF Init, Rest, RowInv, RowOK, ClaimInv, ClaimOK, ExclusiveClaim, TakenInv, PledgeInv,
      NoLostEvent, NoRow, Committed, DispatcherIdle, WorkerIdle

\* Facts of the types that every step below uses.
LEMMA Shape ==
  ASSUME TypeOK
  PROVE  /\ \A j \in JobIds : jobs[j] \in Row /\ jobs[j].attempts \in Nat
         /\ \A j \in JobIds : jobs[j].tx # None => jobs[j].tx \in Dispatchers
         /\ \A d \in Dispatchers : disp[d].todo \subseteq Events /\ disp[d].marked \subseteq Events
         /\ \A w \in Workers : wk[w].pc # "idle" => wk[w].job \in JobIds
         /\ \A w \in Workers : wk[w].seen \in Nat
         /\ nextId \in Nat
  BY DEF TypeOK, Row

\* A new outbox event is pending: nothing is promised about it yet.
LEMMA RestAddEvent ==
  ASSUME IInv, NEW e \in Events, AddEvent(e)
  PROVE  Rest'
<1> USE DEF AddEvent, IInv, Rest
<1>1. /\ \A f \in Events : f # e => outbox'[f] = outbox[f]
      /\ outbox[e] = "none" /\ outbox'[e] = "pending"
  BY DEF TypeOK
<1>2. RowInv'
  BY <1>1, ConstantsAssumption DEF RowInv, RowOK, Committed
<1>3. ClaimInv' /\ ExclusiveClaim'
  BY DEF ClaimInv, ClaimOK, ExclusiveClaim, Committed
<1>4. TakenInv'
  BY <1>1 DEF TakenInv
<1>5. \A f \in Mapped : Covered(f) <=> Covered(f)'
  BY DEF Covered, Committed
<1>6. PledgeInv'
  BY <1>5 DEF PledgeInv, Pledged
<1>7. NoLostEvent'
  BY <1>1, <1>5, ConstantsAssumption DEF NoLostEvent
<1> QED BY <1>2, <1>3, <1>4, <1>6, <1>7

\* Reading a batch takes only events that were committed to the outbox.
LEMMA RestDispatchRead ==
  ASSUME IInv, NEW d \in Dispatchers, DispatchRead(d)
  PROVE  Rest'
<1> USE DEF DispatchRead, IInv, Rest
<1>1. /\ \A o \in Dispatchers : disp'[o].marked = disp[o].marked
      /\ \A o \in Dispatchers : o # d => disp'[o].todo = disp[o].todo
      /\ disp'[d].todo = Batch
  BY DEF TypeOK
<1>2. RowInv'
  BY <1>1, Shape DEF RowInv, RowOK, Committed
<1>3. ClaimInv' /\ ExclusiveClaim'
  BY DEF ClaimInv, ClaimOK, ExclusiveClaim, Committed
<1>4. TakenInv'
  <2>1. \A f \in Batch : outbox[f] # "none"
    BY DEF Batch, Unpublished
  <2> QED BY <1>1, <2>1 DEF TakenInv
<1>5. \A f \in Mapped : Covered(f) <=> Covered(f)'
  BY DEF Covered, Committed
<1>6. PledgeInv'
  BY <1>1, <1>5 DEF PledgeInv, Pledged
<1>7. NoLostEvent'
  BY <1>5 DEF NoLostEvent
<1> QED BY <1>2, <1>3, <1>4, <1>6, <1>7

\* One event of the batch: its row, if it needs one, takes a fresh id.
LEMMA RestDispatchEvent ==
  ASSUME IInv, NEW d \in Dispatchers, DispatchEvent(d)
  PROVE  Rest'
<1> USE ConstantsAssumption, NoneAssumption
<1> USE DEF IInv, Rest
<1>1. PICK e \in disp[d].todo :
        \/ /\ e \in Mapped
           /\ Enqueue(e, d)
           /\ MarkPublished(e, d, disp[d].marked)
        \/ /\ e \notin Mapped
           /\ MarkPublished(e, d, disp[d].locked)
           /\ UNCHANGED <<jobs, nextId>>
  BY DEF DispatchEvent
<1>2. UNCHANGED <<outbox, wk, applied, gaveUp, faults>>
  BY DEF DispatchEvent
<1>3. /\ \A o \in Dispatchers : o # d => disp'[o] = disp[o]
      /\ disp'[d].marked = disp[d].marked \cup {e}
      /\ disp'[d].todo = disp[d].todo \ {e}
  BY <1>1 DEF MarkPublished, TypeOK
<1>4. TakenInv'
  BY <1>2, <1>3 DEF TakenInv
<1>5. CASE UNCHANGED <<jobs, nextId>>
  <2>1. \A f \in Mapped : Covered(f) <=> Covered(f)'
    BY <1>2, <1>5 DEF Covered, Committed
  <2>2. RowInv'
    BY <1>2, <1>3, <1>5, Shape DEF RowInv, RowOK, Committed
  <2>3. ClaimInv' /\ ExclusiveClaim'
    BY <1>2, <1>5 DEF ClaimInv, ClaimOK, ExclusiveClaim, Committed
  <2>4. e \in Mapped => Pledged(e, d)
    <3>1. SUFFICES ASSUME e \in Mapped, Exists(e, d)
                   PROVE Pledged(e, d)
      BY <1>1, <1>5 DEF Enqueue, TypeOK
    <3> QED BY <3>1 DEF Pledged, Exists, Covered, Committed, RowInv, RowOK, ACTIVE_STATUSES
  <2>5. \A o \in Dispatchers, f \in Mapped : Pledged(f, o) => Pledged(f, o)'
    BY <1>5, <2>1 DEF Pledged
  <2>6. PledgeInv'
    BY <1>3, <2>4, <2>5 DEF PledgeInv
  <2>7. NoLostEvent'
    BY <1>2, <2>1 DEF NoLostEvent
  <2> QED BY <1>4, <2>2, <2>3, <2>6, <2>7
<1>6. CASE /\ e \in Mapped /\ nextId \in JobIds
           /\ jobs' = [jobs EXCEPT ![nextId] = NewRow(e, d)]
           /\ nextId' = nextId + 1
  <2>1. jobs[nextId].status = "absent" /\ jobs[nextId].tx = None
    BY <1>6, Shape DEF RowInv, RowOK
  <2>2. /\ \A j \in JobIds : j # nextId => jobs'[j] = jobs[j]
        /\ jobs'[nextId] = NewRow(e, d)
        /\ nextId \in Nat
    BY <1>6 DEF TypeOK
  <2>3. \A f \in Mapped : Covered(f) => Covered(f)'
    BY <1>2, <2>1, <2>2 DEF Covered, Committed
  <2>4. RowInv'
    <3>1. SUFFICES ASSUME NEW j \in JobIds PROVE RowOK(j)'
      BY DEF RowInv
    <3>2. RowOK(j)
      BY DEF RowInv
    <3>3. CASE j = nextId
      BY <1>3, <1>6, <2>2, <3>3 DEF RowOK, Committed, NewRow
    <3>4. CASE j # nextId
      BY <1>2, <1>3, <1>6, <2>2, <3>2, <3>4, Shape DEF RowOK, Committed
    <3> QED BY <3>3, <3>4
  <2>5. ClaimInv'
    <3>1. SUFFICES ASSUME NEW w \in Workers, wk[w].pc # "idle" PROVE ClaimOK(w)'
      BY <1>2, <1>6 DEF ClaimInv, ClaimOK
    <3>2. ClaimOK(w) /\ wk[w].job \in JobIds
      BY <3>1, Shape DEF ClaimInv
    <3>3. wk[w].job < nextId /\ wk[w].job \in Nat
      BY <3>1, <3>2 DEF ClaimOK
    <3>4. jobs'[wk[w].job] = jobs[wk[w].job]
      BY <2>2, <3>2, <3>3
    <3>5. wk[w].job < nextId'
      BY <1>6, <2>2, <3>3
    <3> QED BY <1>2, <3>2, <3>4, <3>5 DEF ClaimOK, Committed
  <2>6. ExclusiveClaim'
    BY <1>2 DEF ExclusiveClaim
  <2>7. \A o \in Dispatchers, f \in Mapped : Pledged(f, o) => Pledged(f, o)'
    BY <2>1, <2>2, <2>3 DEF Pledged
  <2>8. Pledged(e, d)'
    BY <1>6, <2>2 DEF Pledged, NewRow
  <2>9. PledgeInv'
    BY <1>3, <2>7, <2>8 DEF PledgeInv
  <2>10. NoLostEvent'
    BY <1>2, <2>3 DEF NoLostEvent
  <2> QED BY <1>4, <2>4, <2>5, <2>6, <2>9, <2>10
<1> QED BY <1>1, <1>5, <1>6 DEF Enqueue

\* The dispatcher's commit publishes its events and reveals their rows at
\* once; a rollback takes both back.
LEMMA RestDispatchCommit ==
  ASSUME IInv, NEW d \in Dispatchers, DispatchCommit(d)
  PROVE  Rest'
<1> USE ConstantsAssumption, NoneAssumption
<1> USE DEF IInv, Rest
<1>1. UNCHANGED <<nextId, wk, applied, gaveUp, faults>>
  BY DEF DispatchCommit
<1>2. /\ \A o \in Dispatchers : o # d => disp'[o] = disp[o]
      /\ disp'[d] = DispatcherIdle
  BY DEF DispatchCommit, TypeOK
<1>3. /\ \A j \in JobIds : jobs[j].tx # d => jobs'[j] = jobs[j]
      /\ \A j \in JobIds : jobs[j].tx = d => /\ jobs'[j].tx = None
                                            /\ jobs'[j].key = jobs[j].key
                                            /\ jobs'[j].status = jobs[j].status
                                            /\ jobs'[j].lease = jobs[j].lease
                                            /\ jobs'[j].attempts = jobs[j].attempts
  BY Shape DEF DispatchCommit, Row
<1>4. /\ \A f \in Events : f \in disp[d].marked => outbox'[f] = "published"
      /\ \A f \in Events : f \notin disp[d].marked => outbox'[f] = outbox[f]
  BY DEF DispatchCommit
<1>5. RowInv'
  <2>1. SUFFICES ASSUME NEW j \in JobIds PROVE RowOK(j)'
    BY DEF RowInv
  <2>2. RowOK(j)
    BY DEF RowInv
  <2>3. CASE jobs[j].tx = d
    BY <1>1, <1>3, <1>4, <2>2, <2>3 DEF RowOK, Committed
  <2>4. CASE jobs[j].tx # d
    BY <1>1, <1>2, <1>3, <1>4, <2>2, <2>4, Shape DEF RowOK, Committed
  <2> QED BY <2>3, <2>4
<1>6. ClaimInv'
  <2>1. SUFFICES ASSUME NEW w \in Workers, wk[w].pc # "idle" PROVE ClaimOK(w)'
    BY <1>1 DEF ClaimInv, ClaimOK
  <2>2. ClaimOK(w) /\ wk[w].job \in JobIds
    BY <2>1, Shape DEF ClaimInv
  <2>3. /\ jobs'[wk[w].job].attempts = jobs[wk[w].job].attempts
        /\ jobs'[wk[w].job].status = jobs[wk[w].job].status
        /\ jobs[wk[w].job].tx = None => jobs'[wk[w].job].tx = None
    BY <1>3, <2>2
  <2> QED BY <1>1, <2>2, <2>3 DEF ClaimOK, Committed
<1>7. ExclusiveClaim'
  BY <1>1 DEF ExclusiveClaim
<1>8. TakenInv'
  BY <1>2, <1>4 DEF TakenInv, DispatcherIdle
<1>9. \A f \in Mapped : Covered(f) => Covered(f)'
  BY <1>1, <1>3 DEF Covered, Committed
<1>10. \A f \in Mapped : Pledged(f, d) => Covered(f)'
  BY <1>3, <1>9 DEF Pledged, Covered, Committed, RowInv, RowOK
<1>11. \A o \in Dispatchers, f \in Mapped : o # d /\ Pledged(f, o) => Pledged(f, o)'
  BY <1>3, <1>9 DEF Pledged
<1>12. PledgeInv'
  BY <1>2, <1>11 DEF PledgeInv, DispatcherIdle
<1>13. NoLostEvent'
  BY <1>4, <1>9, <1>10 DEF NoLostEvent, PledgeInv
<1> QED BY <1>5, <1>6, <1>7, <1>8, <1>12, <1>13

\* A rollback removes the dispatcher's own rows; no published event relied on
\* them, since its mark is rolled back too.
LEMMA RestDispatchAbort ==
  ASSUME IInv, NEW d \in Dispatchers, DispatchAbort(d)
  PROVE  Rest'
<1> USE ConstantsAssumption, NoneAssumption
<1> USE DEF IInv, Rest
<1>1. UNCHANGED <<outbox, nextId, wk, applied, gaveUp>>
  BY DEF DispatchAbort
<1>2. /\ \A o \in Dispatchers : o # d => disp'[o] = disp[o]
      /\ disp'[d] = DispatcherIdle
  BY DEF DispatchAbort, TypeOK
<1>3. /\ \A j \in JobIds : jobs[j].tx # d => jobs'[j] = jobs[j]
      /\ \A j \in JobIds : jobs[j].tx = d => jobs'[j] = NoRow
  BY DEF DispatchAbort
<1>4. RowInv'
  <2>1. SUFFICES ASSUME NEW j \in JobIds PROVE RowOK(j)'
    BY DEF RowInv
  <2>2. RowOK(j)
    BY DEF RowInv
  <2>3. CASE jobs[j].tx = d
    <3>1. /\ jobs'[j].status = "absent"
          /\ jobs'[j].lease = "none"
          /\ jobs'[j].tx = None
      BY <1>3, <2>3 DEF NoRow
    <3> QED BY <3>1 DEF RowOK, Committed
  <2>4. CASE jobs[j].tx # d
    BY <1>1, <1>2, <1>3, <2>2, <2>4, Shape DEF RowOK, Committed
  <2> QED BY <2>3, <2>4
<1>5. ClaimInv'
  <2>1. SUFFICES ASSUME NEW w \in Workers, wk[w].pc # "idle" PROVE ClaimOK(w)'
    BY <1>1 DEF ClaimInv, ClaimOK
  <2>2. ClaimOK(w) /\ wk[w].job \in JobIds
    BY <2>1, Shape DEF ClaimInv
  <2>3. jobs'[wk[w].job] \in {jobs[wk[w].job], NoRow}
    BY <1>3, <2>2
  <2>4. jobs[wk[w].job].tx = None => jobs'[wk[w].job] = jobs[wk[w].job]
    BY <1>3, <2>2
  <2> QED BY <1>1, <2>2, <2>3, <2>4 DEF ClaimOK, Committed, NoRow
<1>6. ExclusiveClaim'
  BY <1>1 DEF ExclusiveClaim
<1>7. TakenInv'
  BY <1>1, <1>2 DEF TakenInv, DispatcherIdle
<1>8. \A f \in Mapped : Covered(f) => Covered(f)'
  BY <1>1, <1>3 DEF Covered, Committed
<1>9. \A o \in Dispatchers, f \in Mapped : o # d /\ Pledged(f, o) => Pledged(f, o)'
  BY <1>3, <1>8 DEF Pledged
<1>10. PledgeInv'
  BY <1>2, <1>9 DEF PledgeInv, DispatcherIdle
<1>11. NoLostEvent'
  BY <1>1, <1>8 DEF NoLostEvent
<1> QED BY <1>4, <1>5, <1>6, <1>7, <1>10, <1>11

\* Selecting, claiming and aborting leave the table alone.
LEMMA RestClaim ==
  ASSUME IInv, NEW w \in Workers, ClaimSelect(w) \/ ClaimUpdate(w) \/ WorkerAbort(w)
  PROVE  Rest'
<1> USE ConstantsAssumption
<1> USE DEF IInv, Rest
<1>1. UNCHANGED <<outbox, jobs, nextId, disp, applied, gaveUp>>
  BY DEF ClaimSelect, ClaimUpdate, WorkerAbort
<1>2. \A v \in Workers : v # w => wk'[v] = wk[v]
  BY DEF ClaimSelect, ClaimUpdate, WorkerAbort, TypeOK
<1>3. \/ wk'[w] = WorkerIdle
      \/ /\ wk'[w].pc = "selected" /\ wk'[w].job \in JobIds
         /\ Committed(wk'[w].job) /\ wk'[w].seen = jobs[wk'[w].job].attempts
      \/ /\ wk[w].pc = "selected" /\ wk'[w].pc = "running" /\ wk'[w].job = wk[w].job
         /\ wk'[w].seen = wk[w].seen + 1 /\ ~Locked(wk[w].job)
         /\ Committed(wk[w].job) /\ jobs[wk[w].job].status = "queued"
  BY DEF ClaimSelect, ClaimUpdate, WorkerAbort, Claimable, TypeOK
<1>4. RowInv' /\ TakenInv' /\ PledgeInv' /\ NoLostEvent'
  BY <1>1 DEF RowInv, RowOK, TakenInv, PledgeInv, Pledged, NoLostEvent, Covered, Committed
<1>5. ClaimInv'
  <2>1. SUFFICES ASSUME NEW v \in Workers PROVE ClaimOK(v)'
    BY DEF ClaimInv
  <2>2. ClaimOK(v) /\ ClaimOK(w)
    BY DEF ClaimInv
  <2>3. CASE v # w
    BY <1>1, <1>2, <2>2, <2>3 DEF ClaimOK, Committed
  <2>4. CASE v = w
    <3>1. CASE wk'[w] = WorkerIdle
      BY <2>4, <3>1 DEF ClaimOK, WorkerIdle
    <3>2. CASE wk'[w].pc = "selected" /\ wk'[w].job \in JobIds
               /\ Committed(wk'[w].job) /\ wk'[w].seen = jobs[wk'[w].job].attempts
      <4>1. wk'[w].job < nextId /\ jobs[wk'[w].job].attempts \in Nat
        BY <3>2, Shape DEF RowInv, RowOK, Committed
      <4> QED BY <1>1, <2>4, <3>2, <4>1 DEF ClaimOK, Committed
    <3>3. CASE wk[w].pc = "selected" /\ wk'[w].pc = "running" /\ wk'[w].job = wk[w].job
               /\ wk'[w].seen = wk[w].seen + 1
               /\ Committed(wk[w].job) /\ jobs[wk[w].job].status = "queued"
      <4>1. jobs[wk[w].job].attempts \in Nat /\ wk[w].seen \in Nat
        BY <3>3, Shape
      <4> QED BY <1>1, <2>2, <2>4, <3>3, <4>1 DEF ClaimOK, Committed
    <3> QED BY <1>3, <3>1, <3>2, <3>3
  <2> QED BY <2>3, <2>4
<1>6. ExclusiveClaim'
  BY <1>2, <1>3 DEF ExclusiveClaim, Locked, WorkerIdle
<1> QED BY <1>4, <1>5, <1>6

\* A worker's commit settles its job or puts it back.
LEMMA RestWorkerCommit ==
  ASSUME IInv, NEW w \in Workers, WorkerCommit(w)
  PROVE  Rest'
<1> USE ConstantsAssumption
<1> USE DEF IInv, Rest
<1> DEFINE k == wk[w].job
<1>1. UNCHANGED <<outbox, nextId, disp>> /\ wk[w].pc = "running"
  BY DEF WorkerCommit
<1>2. /\ \A v \in Workers : v # w => wk'[v] = wk[v]
      /\ wk'[w] = WorkerIdle
  BY DEF WorkerCommit, TypeOK
<1>3. /\ k \in JobIds /\ Committed(k) /\ jobs[k].status = "queued"
      /\ wk[w].seen <= jobs[k].attempts + 1 /\ wk[w].seen \in Nat
      /\ jobs[k] \in Row /\ jobs[k].attempts \in Nat /\ RowOK(k)
  BY <1>1, Shape DEF ClaimInv, ClaimOK, RowInv
<1>4. /\ \A j \in JobIds : j # k => jobs'[j] = jobs[j]
      /\ jobs'[k].key = jobs[k].key /\ jobs'[k].tx = None /\ jobs'[k].lease = "none"
      /\ jobs'[k].attempts = jobs[k].attempts + 1
      /\ \/ jobs'[k].status = "succeeded" /\ jobs[k].key \in applied'
         \/ jobs'[k].status = "dead" /\ jobs[k].key \in gaveUp' /\ Exhausted(w)
         \/ jobs'[k].status = "queued"
  <2>1. PICK r \in {Acked(jobs[k]), Dead(jobs[k]), Requeued(jobs[k])} :
          /\ jobs' = [jobs EXCEPT ![k] = r]
          /\ r = Acked(jobs[k]) => jobs[k].key \in applied'
          /\ r = Dead(jobs[k]) => jobs[k].key \in gaveUp' /\ Exhausted(w)
    <3>1. /\ Acked(jobs[k]).status = "succeeded" /\ Dead(jobs[k]).status = "dead"
          /\ Requeued(jobs[k]).status = "queued"
      BY <1>3 DEF Acked, Dead, Requeued, Row
    <3> QED BY <3>1 DEF WorkerCommit
  <2>2. jobs'[k] = r /\ \A j \in JobIds : j # k => jobs'[j] = jobs[j]
    BY <1>3, <2>1 DEF TypeOK
  <2>3. r.key = jobs[k].key /\ r.tx = None /\ r.lease = "none" /\ r.attempts = jobs[k].attempts + 1
    BY <1>3, <2>1 DEF Acked, Dead, Requeued, Row, Committed
  <2>4. \/ r = Acked(jobs[k]) /\ r.status = "succeeded"
        \/ r = Dead(jobs[k]) /\ r.status = "dead"
        \/ r.status = "queued"
    BY <1>3, <2>1 DEF Acked, Dead, Requeued, Row
  <2> QED BY <2>1, <2>2, <2>3, <2>4
<1>5. applied \subseteq applied' /\ gaveUp \subseteq gaveUp'
  BY DEF WorkerCommit
<1>6. RowInv'
  <2>1. SUFFICES ASSUME NEW j \in JobIds PROVE RowOK(j)'
    BY DEF RowInv
  <2>2. RowOK(j)
    BY DEF RowInv
  <2>3. CASE j # k
    BY <1>1, <1>4, <1>5, <2>2, <2>3 DEF RowOK, Committed
  <2>4. CASE j = k
    BY <1>1, <1>3, <1>4, <2>4 DEF RowOK, Committed, Exhausted
  <2> QED BY <2>3, <2>4
<1>7. ClaimInv'
  <2>1. SUFFICES ASSUME NEW v \in Workers, v # w, wk[v].pc # "idle" PROVE ClaimOK(v)'
    BY <1>2 DEF ClaimInv, ClaimOK, WorkerIdle
  <2>2. ClaimOK(v) /\ wk[v].job \in JobIds /\ wk'[v] = wk[v] /\ wk[v].seen \in Nat
    BY <1>2, <2>1, Shape DEF ClaimInv
  <2>3. CASE wk[v].job # k
    BY <1>1, <1>4, <2>2, <2>3 DEF ClaimOK, Committed
  <2>4. CASE wk[v].job = k
    <3>1. wk[v].pc = "selected"
      BY <1>1, <2>1, <2>4 DEF ExclusiveClaim, TypeOK
    <3> QED BY <1>1, <1>3, <1>4, <2>2, <2>4, <3>1 DEF ClaimOK, Committed
  <2> QED BY <2>3, <2>4
<1>8. ExclusiveClaim'
  BY <1>2 DEF ExclusiveClaim, WorkerIdle
<1>9. TakenInv'
  BY <1>1 DEF TakenInv
<1>10. \A f \in Mapped : Covered(f) => Covered(f)'
  BY <1>3, <1>4, <1>5 DEF Covered, Committed
<1>11. \A o \in Dispatchers, f \in Mapped : Pledged(f, o) => Pledged(f, o)'
  BY <1>3, <1>4, <1>10, NoneAssumption DEF Pledged, Committed
<1>12. PledgeInv'
  BY <1>1, <1>11 DEF PledgeInv
<1>13. NoLostEvent'
  BY <1>1, <1>10 DEF NoLostEvent
<1> QED BY <1>6, <1>7, <1>8, <1>9, <1>12, <1>13

\* Timers never touch what the invariant says.
LEMMA RestElapse ==
  ASSUME IInv, NEW k \in JobIds, Elapse(k)
  PROVE  Rest'
<1> USE DEF IInv, Rest
<1>1. UNCHANGED <<outbox, nextId, disp, wk, applied, gaveUp>>
  BY DEF Elapse
<1>2. \A j \in JobIds : /\ jobs'[j].key = jobs[j].key
                        /\ jobs'[j].status = jobs[j].status
                        /\ jobs'[j].attempts = jobs[j].attempts
                        /\ jobs'[j].tx = jobs[j].tx
                        /\ jobs[j].lease = "none" => jobs'[j].lease = "none"
  BY DEF Elapse, TypeOK, Row
<1>3. \A j \in JobIds : Committed(j) <=> Committed(j)'
  BY <1>2 DEF Committed
<1>4. RowInv'
  BY <1>1, <1>2, <1>3 DEF RowInv, RowOK
<1>5. ClaimInv'
  <2>1. SUFFICES ASSUME NEW w \in Workers, wk[w].pc # "idle" PROVE ClaimOK(w)'
    BY <1>1 DEF ClaimInv, ClaimOK
  <2>2. ClaimOK(w) /\ wk[w].job \in JobIds
    BY <2>1, Shape DEF ClaimInv
  <2> QED BY <1>1, <1>2, <2>2 DEF ClaimOK, Committed
<1>6. ExclusiveClaim' /\ TakenInv'
  BY <1>1 DEF ExclusiveClaim, TakenInv
<1>7. \A f \in Mapped : Covered(f) => Covered(f)'
  BY <1>1, <1>2, <1>3 DEF Covered
<1>8. \A o \in Dispatchers, f \in Mapped : Pledged(f, o) => Pledged(f, o)'
  BY <1>2, <1>7 DEF Pledged
<1>9. PledgeInv' /\ NoLostEvent'
  BY <1>1, <1>7, <1>8 DEF PledgeInv, NoLostEvent
<1> QED BY <1>4, <1>5, <1>6, <1>9

\* The sweep finds no stale lease and prunes only events already settled.
LEMMA RestSweep ==
  ASSUME IInv, MaintenanceSweep
  PROVE  Rest'
<1> USE ConstantsAssumption
<1> USE DEF IInv, Rest
<1>1. UNCHANGED <<outbox, nextId, disp, wk, applied, gaveUp>>
  BY DEF MaintenanceSweep
<1>2. PICK old \in SUBSET {j \in JobIds : Finished(j)} :
        jobs' = [j \in JobIds |->
                  CASE j \in old -> NoRow
                    [] Stale(j) -> [jobs[j] EXCEPT !.status = "queued", !.lease = "none"]
                    [] OTHER -> jobs[j]]
  BY DEF MaintenanceSweep
<1>3. \A j \in JobIds : ~Stale(j)
  BY DEF Stale, RowInv, RowOK
<1>4. \A j \in JobIds : j \notin old => jobs'[j] = jobs[j]
  BY <1>2, <1>3
<1>5. \A j \in JobIds : j \in old => /\ jobs'[j] = NoRow
                                    /\ Committed(j)
                                    /\ jobs[j].status \in {"succeeded", "dead"}
  BY <1>2, <1>3 DEF Finished
<1>6. NoRow.status = "absent" /\ NoRow.lease = "none" /\ NoRow.tx = None
  BY DEF NoRow
<1>7. RowInv'
  <2>1. SUFFICES ASSUME NEW j \in JobIds PROVE RowOK(j)'
    BY DEF RowInv
  <2>2. RowOK(j)
    BY DEF RowInv
  <2>3. CASE j \in old
    BY <1>5, <1>6, <2>3 DEF RowOK, Committed
  <2>4. CASE j \notin old
    BY <1>1, <1>4, <2>2, <2>4 DEF RowOK, Committed
  <2> QED BY <2>3, <2>4
<1>8. ClaimInv'
  <2>1. SUFFICES ASSUME NEW w \in Workers, wk[w].pc # "idle" PROVE ClaimOK(w)'
    BY <1>1 DEF ClaimInv, ClaimOK
  <2>2. ClaimOK(w) /\ wk[w].job \in JobIds
    BY <2>1, Shape DEF ClaimInv
  <2>3. CASE wk[w].job \in old
    BY <1>1, <1>5, <1>6, <2>2, <2>3 DEF ClaimOK, Committed
  <2>4. CASE wk[w].job \notin old
    BY <1>1, <1>4, <2>2, <2>4 DEF ClaimOK, Committed
  <2> QED BY <2>3, <2>4
<1>9. ExclusiveClaim' /\ TakenInv'
  BY <1>1 DEF ExclusiveClaim, TakenInv
<1>10. \A f \in Mapped : Covered(f) => Covered(f)'
  BY <1>1, <1>4, <1>5 DEF Covered, Committed
<1>11. \A o \in Dispatchers, f \in Mapped : Pledged(f, o) => Pledged(f, o)'
  BY <1>4, <1>5, <1>10, NoneAssumption DEF Pledged, Committed
<1>12. PledgeInv' /\ NoLostEvent'
  BY <1>1, <1>10, <1>11 DEF PledgeInv, NoLostEvent
<1> QED BY <1>7, <1>8, <1>9, <1>12

\* The invariant is inductive: one lemma above for each kind of step.
LEMMA InvStep == IInv /\ [Next]_vars => IInv'
<1> SUFFICES ASSUME IInv, [Next]_vars PROVE Rest'
  BY TypeStep DEF IInv
<1>1. ASSUME UNCHANGED vars PROVE Rest'
  BY <1>1 DEF vars, IInv, Rest, RowInv, RowOK, ClaimInv, ClaimOK, ExclusiveClaim, TakenInv,
              PledgeInv, Pledged, NoLostEvent, Covered, Committed
<1>2. ASSUME NEW w \in Workers, Complete(w) \/ Fail(w) PROVE Rest'
  BY <1>2, WorkerCommits, RestWorkerCommit
<1> QED
  BY <1>1, <1>2, RestAddEvent, RestDispatchRead, RestDispatchEvent, RestDispatchCommit,
     RestDispatchAbort, RestClaim, RestElapse, RestSweep
  DEF Next, DispatcherStep, WorkerStep

\* The inductive invariant holds in every reachable state.
THEOREM Invariance == Spec => []IInv
<1>1. Init => IInv
  BY TypeInit, RestInit DEF IInv
<1> QED BY <1>1, InvStep, PTL DEF Spec

\* The registry's queue tables stay well-typed.
THEOREM TypeCorrect == Spec => []TypeOK
<1>1. IInv => TypeOK
  BY DEF IInv
<1> QED BY <1>1, Invariance, PTL

\* No committed outbox event is lost between dispatcher, queue and worker.
THEOREM EventsSurvive == Spec => []NoLostEvent
<1>1. IInv => NoLostEvent
  BY DEF IInv, Rest
<1> QED BY <1>1, Invariance, PTL

\* No two workers run the handler of one job at the same time.
THEOREM ClaimsExclude == Spec => []ExclusiveClaim
<1>1. IInv => ExclusiveClaim
  BY DEF IInv, Rest
<1> QED BY <1>1, Invariance, PTL

\* A job is settled only with its result durable or after max_attempts tries.
THEOREM SettledHonestly == Spec => []AckedOrExhausted
<1>1. IInv => AckedOrExhausted
  BY DEF IInv, Rest, RowInv, RowOK, AckedOrExhausted
<1> QED BY <1>1, Invariance, PTL

-----------------------------------------------------------------------------
(* Retries.  A worker that loaded the row before it was tried max_attempts *)
(* times requeues it once more; there are at most as many of those as there *)
(* are workers, and each of them gives up its claim when it requeues.       *)

\* The workers that hold job j and will requeue it if its handler raises.
Retrying(j) == {w \in Workers :
  /\ wk[w].job = j
  /\ \/ wk[w].pc = "selected" /\ wk[w].seen + 1 < MaxAttempts
     \/ wk[w].pc = "running" /\ wk[w].seen < MaxAttempts}

\* The tries of a job and those its holders may still add stay within the bound.
RetryBound(j) ==
  \/ jobs[j].attempts = 0
  \/ jobs[j].attempts + Cardinality(Retrying(j)) <= MaxAttempts - 2 + Cardinality(Workers)
  \/ /\ jobs[j].status # "queued"
     /\ jobs[j].attempts <= MaxAttempts - 1 + Cardinality(Workers)

RetryInv ==
  /\ \A w \in Workers : wk[w].pc = "running" => wk[w].seen >= 1
  /\ \A j \in JobIds : RetryBound(j)

\* The holders of a job are finitely many, at most all workers.
LEMMA RetryingCount ==
  ASSUME NEW j
  PROVE  /\ IsFiniteSet(Retrying(j))
         /\ Cardinality(Retrying(j)) \in Nat
         /\ Cardinality(Workers) \in Nat
         /\ Cardinality(Retrying(j)) <= Cardinality(Workers)
<1>1. Retrying(j) \in SUBSET Workers
  BY DEF Retrying
<1>2. IsFiniteSet(Retrying(j)) /\ Cardinality(Retrying(j)) <= Cardinality(Workers)
  BY <1>1, WorkersAssumption, FS_Subset
<1> QED BY <1>2, WorkersAssumption, FS_CardinalityType

\* A step that counts no attempt and adds no holder keeps the bound of a job.
LEMMA RetryKept ==
  ASSUME TypeOK, TypeOK', NEW j \in JobIds, RetryBound(j),
         \/ jobs'[j].attempts = 0
         \/ /\ jobs'[j].attempts = jobs[j].attempts
            /\ jobs'[j].status = jobs[j].status
            /\ Retrying(j)' \subseteq Retrying(j)
  PROVE  RetryBound(j)'
<1>1. CASE jobs'[j].attempts = 0
  BY <1>1 DEF RetryBound
<1>2. CASE /\ jobs'[j].attempts = jobs[j].attempts
           /\ jobs'[j].status = jobs[j].status
           /\ Retrying(j)' \subseteq Retrying(j)
  <2>1. jobs[j].attempts \in Nat
    BY DEF TypeOK, Row
  <2>2. /\ Cardinality(Retrying(j)') \in Nat /\ Cardinality(Retrying(j)) \in Nat
        /\ Cardinality(Retrying(j)') <= Cardinality(Retrying(j))
        /\ Cardinality(Workers) \in Nat
    <3>1. Retrying(j)' \in SUBSET Retrying(j)
      BY <1>2
    <3>2. IsFiniteSet(Retrying(j)) /\ Cardinality(Retrying(j)) \in Nat /\ Cardinality(Workers) \in Nat
      BY RetryingCount
    <3>3. IsFiniteSet(Retrying(j)') /\ Cardinality(Retrying(j)') <= Cardinality(Retrying(j))
      BY <3>1, <3>2, FS_Subset
    <3> QED BY <3>2, <3>3, FS_CardinalityType
  <2>3. MaxAttempts \in Nat
    BY ConstantsAssumption
  <2> QED BY <1>2, <2>1, <2>2, <2>3 DEF RetryBound
<1> QED BY <1>1, <1>2

\* Idle workers hold nothing.
LEMMA RetryInit == Init => RetryInv
  BY DEF Init, RetryInv, RetryBound, NoRow, WorkerIdle

\* Steps of the producer, the dispatchers, time and the sweep leave the workers
\* alone; they write rows with no attempts or with the attempts they had.
LEMMA RetryOthers ==
  ASSUME IInv, TypeOK', RetryInv, wk' = wk,
         \A j \in JobIds : \/ jobs'[j].attempts = 0
                           \/ /\ jobs'[j].attempts = jobs[j].attempts
                              /\ jobs'[j].status = jobs[j].status
  PROVE  RetryInv'
<1>1. \A j \in JobIds : Retrying(j)' = Retrying(j)
  BY DEF Retrying
<1>2. \A j \in JobIds : RetryBound(j)'
  BY <1>1, RetryKept DEF IInv, RetryInv
<1> QED BY <1>2 DEF RetryInv

\* claim's SELECT makes a holder only of a job with tries left.
LEMMA RetrySelect ==
  ASSUME IInv, TypeOK', RetryInv, NEW w \in Workers, ClaimSelect(w)
  PROVE  RetryInv'
<1>1. PICK i \in JobIds :
        wk' = [wk EXCEPT ![w] = [pc |-> "selected", job |-> i, seen |-> jobs[i].attempts]]
  BY DEF ClaimSelect
<1>2. jobs' = jobs /\ TypeOK
  BY DEF ClaimSelect, IInv
<1>3. /\ wk'[w] = [pc |-> "selected", job |-> i, seen |-> jobs[i].attempts]
      /\ \A x \in Workers : x # w => wk'[x] = wk[x]
  BY <1>1, <1>2 DEF TypeOK
<1>4. ASSUME NEW j \in JobIds PROVE RetryBound(j)'
  <2>1. jobs[j].attempts \in Nat /\ MaxAttempts \in Nat
    BY <1>2, ConstantsAssumption DEF TypeOK, Row
  <2>2. CASE j = i /\ jobs[j].attempts + 1 < MaxAttempts
    <3>1. /\ Cardinality(Retrying(j)') \in Nat /\ Cardinality(Workers) \in Nat
          /\ Cardinality(Retrying(j)') <= Cardinality(Workers)
      <4>1. Retrying(j)' \in SUBSET Workers
        BY DEF Retrying
      <4>2. IsFiniteSet(Retrying(j)') /\ Cardinality(Retrying(j)') <= Cardinality(Workers)
        BY <4>1, WorkersAssumption, FS_Subset
      <4> QED BY <4>2, WorkersAssumption, FS_CardinalityType
    <3> QED BY <1>2, <2>1, <2>2, <3>1 DEF RetryBound
  <2>3. CASE ~(j = i /\ jobs[j].attempts + 1 < MaxAttempts)
    <3>1. Retrying(j)' \subseteq Retrying(j)
      <4>1. ASSUME NEW x \in Retrying(j)' PROVE x \in Retrying(j)
        <5>1. CASE x = w
          BY <1>3, <2>3, <4>1, <5>1 DEF Retrying
        <5>2. CASE x # w
          BY <1>3, <4>1, <5>2 DEF Retrying
        <5> QED BY <5>1, <5>2
      <4> QED BY <4>1
    <3> QED BY <1>2, <3>1, RetryKept DEF RetryInv
  <2> QED BY <2>2, <2>3
<1>5. \A x \in Workers : wk'[x].pc = "running" => wk'[x].seen >= 1
  BY <1>3 DEF RetryInv
<1> QED BY <1>4, <1>5 DEF RetryInv

\* A worker whose UPDATE takes the row counts its try as it was going to; one
\* that lost the row, or whose transaction is rolled back, holds nothing.
LEMMA RetryHold ==
  ASSUME IInv, TypeOK', RetryInv, NEW w \in Workers, ClaimUpdate(w) \/ WorkerAbort(w)
  PROVE  RetryInv'
<1>1. TypeOK /\ jobs' = jobs
  BY DEF IInv, ClaimUpdate, WorkerAbort
<1>2. wk[w].seen \in Nat
  BY <1>1 DEF TypeOK
<1>3. /\ \A x \in Workers : x # w => wk'[x] = wk[x]
      /\ \/ wk'[w] = WorkerIdle
         \/ /\ wk[w].pc = "selected" /\ wk'[w].pc = "running"
            /\ wk'[w].job = wk[w].job /\ wk'[w].seen = wk[w].seen + 1
  BY <1>1 DEF TypeOK, ClaimUpdate, WorkerAbort
<1>4. ASSUME NEW j \in JobIds PROVE Retrying(j)' \subseteq Retrying(j)
  <2>1. ASSUME NEW x \in Retrying(j)' PROVE x \in Retrying(j)
    <3>1. CASE x = w
      BY <1>2, <1>3, <2>1, <3>1 DEF Retrying, WorkerIdle
    <3>2. CASE x # w
      BY <1>3, <2>1, <3>2 DEF Retrying
    <3> QED BY <3>1, <3>2
  <2> QED BY <2>1
<1>5. \A j \in JobIds : RetryBound(j)'
  BY <1>1, <1>4, RetryKept DEF RetryInv
<1>6. \A x \in Workers : wk'[x].pc = "running" => wk'[x].seen >= 1
  BY <1>2, <1>3 DEF RetryInv, WorkerIdle
<1> QED BY <1>5, <1>6 DEF RetryInv

\* complete and fail count one try; a requeue spends the claim of its worker.
LEMMA RetryCommit ==
  ASSUME IInv, TypeOK', RetryInv, NEW w \in Workers, Complete(w) \/ Fail(w)
  PROVE  RetryInv'
<1>1. TypeOK /\ wk[w].pc = "running" /\ wk' = [wk EXCEPT ![w] = WorkerIdle]
  BY DEF IInv, Complete, Fail
<1>2. PICK i \in JobIds : i = wk[w].job
  BY <1>1 DEF TypeOK
<1>3. /\ \A x \in Workers : x # w => wk'[x] = wk[x]
      /\ wk'[w] = WorkerIdle
  BY <1>1 DEF TypeOK
<1>4. \A j \in JobIds : j # i => jobs'[j] = jobs[j]
  BY <1>1, <1>2 DEF TypeOK, Complete, Fail
<1>5. ASSUME NEW j \in JobIds PROVE Retrying(j)' \subseteq Retrying(j) \ {w}
  <2>1. ASSUME NEW x \in Retrying(j)' PROVE x \in Retrying(j) \ {w}
    <3>1. x # w
      BY <1>3, <2>1 DEF Retrying, WorkerIdle
    <3> QED BY <1>3, <2>1, <3>1 DEF Retrying
  <2> QED BY <2>1
<1>6. ASSUME NEW j \in JobIds, j # i PROVE RetryBound(j)'
  BY <1>1, <1>4, <1>5, <1>6, RetryKept DEF RetryInv
<1>7. /\ jobs[i].attempts \in Nat /\ wk[w].seen \in Nat /\ wk[w].seen >= 1
      /\ MaxAttempts \in Nat /\ jobs[i].status = "queued"
  BY <1>1, <1>2, ConstantsAssumption DEF TypeOK, Row, RetryInv, IInv, Rest, ClaimInv, ClaimOK
<1>8. /\ Cardinality(Retrying(i)) \in Nat /\ Cardinality(Workers) \in Nat
      /\ Cardinality(Retrying(i)) <= Cardinality(Workers)
      /\ IsFiniteSet(Retrying(i))
  BY RetryingCount
<1>9. Cardinality(Workers) >= 1
  <2>1. Cardinality(Workers) # 0
    BY WorkersAssumption, FS_EmptySet
  <2> QED BY <1>8, <2>1
<1>10. \/ jobs'[i] = Acked(jobs[i]) \/ jobs'[i] = Dead(jobs[i])
       \/ ~Exhausted(w) /\ jobs'[i] = Requeued(jobs[i])
  BY <1>1, <1>2 DEF Complete, Fail, TypeOK
<1>11. jobs[i] \in Row
  BY <1>1 DEF TypeOK
<1>12. jobs'[i].attempts = jobs[i].attempts + 1
  BY <1>10, <1>11 DEF Acked, Dead, Requeued, Row
<1>13. RetryBound(i)
  BY DEF RetryInv
<1>14. RetryBound(i)'
  <2>1. CASE jobs'[i].status # "queued"
    <3>1. jobs[i].attempts + 1 <= MaxAttempts - 1 + Cardinality(Workers)
      <4>1. CASE jobs[i].attempts = 0
        BY <1>8, <1>9, <4>1, ConstantsAssumption
      <4>2. CASE jobs[i].attempts # 0
        BY <1>7, <1>8, <1>13, <4>2 DEF RetryBound
      <4> QED BY <4>1, <4>2
    <3> QED BY <1>12, <2>1, <3>1 DEF RetryBound
  <2>2. CASE jobs'[i].status = "queued"
    <3>1. wk[w].seen < MaxAttempts
      <4>1. Acked(jobs[i]).status # "queued" /\ Dead(jobs[i]).status # "queued"
        BY <1>11 DEF Acked, Dead, Row
      <4> QED BY <1>7, <1>10, <2>2, <4>1, ConstantsAssumption DEF Exhausted
    <3>2. w \in Retrying(i)
      BY <1>1, <1>2, <3>1 DEF Retrying
    <3>3. /\ IsFiniteSet(Retrying(i) \ {w})
          /\ Cardinality(Retrying(i) \ {w}) = Cardinality(Retrying(i)) - 1
      BY <1>8, <3>2, FS_RemoveElement
    <3>4. Retrying(i)' \in SUBSET (Retrying(i) \ {w})
      BY <1>5
    <3>5. /\ IsFiniteSet(Retrying(i)')
          /\ Cardinality(Retrying(i)') <= Cardinality(Retrying(i)) - 1
      BY <3>3, <3>4, FS_Subset
    <3>6. Cardinality(Retrying(i)') \in Nat
      BY <3>5, FS_CardinalityType
    <3> QED BY <1>7, <1>8, <1>12, <1>13, <3>1, <3>5, <3>6 DEF RetryBound
  <2> QED BY <2>1, <2>2
<1>15. \A x \in Workers : wk'[x].pc = "running" => wk'[x].seen >= 1
  BY <1>3 DEF RetryInv, WorkerIdle
<1> QED BY <1>6, <1>14, <1>15 DEF RetryInv

\* Every step keeps the bound.
LEMMA RetryStep == IInv /\ RetryInv /\ [Next]_vars => RetryInv'
<1> SUFFICES ASSUME IInv, RetryInv, [Next]_vars PROVE RetryInv'
  OBVIOUS
<1>1. TypeOK /\ TypeOK'
  BY TypeStep DEF IInv
<1>2. CASE UNCHANGED vars
  BY <1>1, <1>2, RetryOthers DEF vars
<1>3. ASSUME NEW e \in Events, AddEvent(e) PROVE RetryInv'
  BY <1>1, <1>3, RetryOthers DEF AddEvent
<1>4. ASSUME NEW d \in Dispatchers, DispatcherStep(d) \/ DispatchAbort(d) PROVE RetryInv'
  <2>1. wk' = wk
    BY <1>4 DEF DispatcherStep, DispatchRead, DispatchEvent, DispatchCommit, DispatchAbort
  <2>2. ASSUME NEW j \in JobIds
        PROVE  \/ jobs'[j].attempts = 0
               \/ jobs'[j].attempts = jobs[j].attempts /\ jobs'[j].status = jobs[j].status
    <3>1. CASE DispatchRead(d)
      BY <3>1 DEF DispatchRead
    <3>2. CASE DispatchEvent(d)
      <4>1. PICK e \in disp[d].todo : Enqueue(e, d) \/ UNCHANGED <<jobs, nextId>>
        BY <3>2 DEF DispatchEvent
      <4> QED BY <1>1, <4>1 DEF Enqueue, NewRow, TypeOK
    <3>3. CASE DispatchCommit(d)
      BY <1>1, <3>3 DEF DispatchCommit, TypeOK, Row
    <3>4. CASE DispatchAbort(d)
      BY <1>1, <3>4 DEF DispatchAbort, TypeOK, Row, NoRow
    <3> QED BY <1>4, <3>1, <3>2, <3>3, <3>4 DEF DispatcherStep
  <2> QED BY <1>1, <2>1, <2>2, RetryOthers
<1>5. ASSUME NEW w \in Workers, WorkerStep(w) \/ WorkerAbort(w) PROVE RetryInv'
  BY <1>1, <1>5, RetrySelect, RetryHold, RetryCommit DEF WorkerStep
<1>6. ASSUME NEW i \in JobIds, Elapse(i) PROVE RetryInv'
  <2>1. \A j \in JobIds : /\ jobs'[j].attempts = jobs[j].attempts
                          /\ jobs'[j].status = jobs[j].status
    BY <1>1, <1>6 DEF Elapse, TypeOK, Row
  <2>2. wk' = wk
    BY <1>6 DEF Elapse
  <2> QED BY <1>1, <2>1, <2>2, RetryOthers
<1>7. CASE MaintenanceSweep
  <2>1. PICK old \in SUBSET {j \in JobIds : Finished(j)} :
          jobs' = [j \in JobIds |->
                    CASE j \in old -> NoRow
                      [] Stale(j) -> [jobs[j] EXCEPT !.status = "queued", !.lease = "none"]
                      [] OTHER -> jobs[j]]
    BY <1>7 DEF MaintenanceSweep
  <2>2. \A j \in JobIds : ~Stale(j)
    BY DEF Stale, IInv, Rest, RowInv, RowOK
  <2>3. \A j \in JobIds : jobs'[j] = NoRow \/ jobs'[j] = jobs[j]
    BY <2>1, <2>2
  <2>4. wk' = wk
    BY <1>7 DEF MaintenanceSweep
  <2> QED BY <1>1, <2>3, <2>4, RetryOthers DEF NoRow
<1> QED BY <1>2, <1>3, <1>4, <1>5, <1>6, <1>7 DEF Next

\* However workers race for a job, it is tried at most max_attempts times, and
\* once more for each further worker.
THEOREM RetriesStayBounded == Spec => []RetriesBounded
<1>1. IInv /\ RetryInv => RetriesBounded
  <2> SUFFICES ASSUME IInv, RetryInv, NEW j \in JobIds
               PROVE  jobs[j].attempts <= MaxAttempts + Cardinality(Workers) - 1
    BY DEF RetriesBounded
  <2>1. jobs[j].attempts \in Nat /\ MaxAttempts \in Nat \ {0}
    BY ConstantsAssumption DEF IInv, TypeOK, Row
  <2>2. Cardinality(Workers) \in Nat /\ Cardinality(Retrying(j)) \in Nat
    BY RetryingCount
  <2>3. RetryBound(j)
    BY DEF RetryInv
  <2> QED BY <2>1, <2>2, <2>3 DEF RetryBound
<1> QED BY <1>1, RetryInit, RetryStep, Invariance, PTL DEF Spec

-----------------------------------------------------------------------------
(* Refinement: the outbox and the queue implement EventDelivery.           *)

\* Empty tables are the initial state of at-least-once delivery.
LEMMA DeliveryInit == Init => Delivery!Init
  BY DEF Init, Delivery!Init

\* Each step is a Request, Accept, Deliver or Abandon of EventDelivery, or
\* changes nothing it speaks of: a handler only runs for a published event.
LEMMA DeliveryStep == IInv /\ [Next]_vars => [Delivery!Next]_Delivery!vars
<1> SUFFICES ASSUME IInv, [Next]_vars PROVE [Delivery!Next]_Delivery!vars
  OBVIOUS
<1> USE ConstantsAssumption
<1> USE DEF IInv, Rest
<1>1. ASSUME NEW e \in Events, AddEvent(e) PROVE Delivery!Request(e)
  BY <1>1 DEF AddEvent, Delivery!Request, TypeOK
<1>2. ASSUME NEW d \in Dispatchers, DispatchCommit(d)
      PROVE \E batch \in SUBSET Events : Delivery!Accept(batch)
  <2>1. PICK batch \in SUBSET Events : batch = disp[d].marked
    BY Shape
  <2>2. /\ \A f \in batch : outbox[f] # "none"
        /\ outbox' = [f \in Events |-> IF f \in batch THEN "published" ELSE outbox[f]]
        /\ UNCHANGED <<applied, gaveUp>>
    BY <1>2, <2>1 DEF DispatchCommit, TakenInv
  <2>3. Delivery!Accept(batch)
    BY <2>2 DEF Delivery!Accept
  <2> QED BY <2>3
<1>3. ASSUME NEW w \in Workers, WorkerCommit(w)
      PROVE \/ UNCHANGED Delivery!vars
            \/ \E e \in Events : Delivery!Deliver(e) \/ Delivery!Abandon(e)
  <2>1. PICK e \in Events : e = jobs[wk[w].job].key /\ outbox[e] = "published"
    <3>1. wk[w].job \in JobIds /\ Committed(wk[w].job)
      BY <1>3, Shape DEF WorkerCommit, ClaimInv, ClaimOK
    <3> QED BY <3>1 DEF RowInv, RowOK, Committed
  <2>2. UNCHANGED outbox
    BY <1>3 DEF WorkerCommit
  <2>3. \/ applied' = applied /\ gaveUp' = gaveUp
        \/ applied' = applied \cup {e} /\ gaveUp' = gaveUp
        \/ applied' \in {applied, applied \cup {e}} /\ gaveUp' = gaveUp \cup {e}
    BY <1>3, <2>1 DEF WorkerCommit
  <2> QED BY <2>1, <2>2, <2>3 DEF Delivery!vars, Delivery!Deliver, Delivery!Abandon
<1>4. ASSUME UNCHANGED <<outbox, applied, gaveUp>> PROVE UNCHANGED Delivery!vars
  BY <1>4 DEF Delivery!vars
<1>5. ASSUME NEW d \in Dispatchers, DispatchRead(d) \/ DispatchEvent(d) \/ DispatchAbort(d)
      PROVE UNCHANGED Delivery!vars
  BY <1>4, <1>5 DEF DispatchRead, DispatchEvent, DispatchAbort
<1>6. ASSUME NEW w \in Workers, ClaimSelect(w) \/ ClaimUpdate(w) \/ WorkerAbort(w)
      PROVE UNCHANGED Delivery!vars
  BY <1>4, <1>6 DEF ClaimSelect, ClaimUpdate, WorkerAbort
<1>7. ASSUME MaintenanceSweep \/ (\E j \in JobIds : Elapse(j)) \/ UNCHANGED vars
      PROVE UNCHANGED Delivery!vars
  BY <1>4, <1>7 DEF MaintenanceSweep, Elapse, vars
<1>8. ASSUME NEW w \in Workers, Complete(w) \/ Fail(w)
      PROVE \/ UNCHANGED Delivery!vars
            \/ \E e \in Events : Delivery!Deliver(e) \/ Delivery!Abandon(e)
  BY <1>3, <1>8, WorkerCommits
<1>9. ASSUME NEW e \in Events, Delivery!Request(e) \/ Delivery!Deliver(e) \/ Delivery!Abandon(e)
      PROVE Delivery!Next
  BY <1>9 DEF Delivery!Next
<1>10. ASSUME NEW d \in Dispatchers, DispatchCommit(d) PROVE Delivery!Next
  BY <1>2, <1>10 DEF Delivery!Next
<1>11. ASSUME NEW w \in Workers, WorkerStep(w) \/ WorkerAbort(w)
       PROVE Delivery!Next \/ UNCHANGED Delivery!vars
  BY <1>6, <1>8, <1>9, <1>11 DEF WorkerStep
<1>12. ASSUME NEW d \in Dispatchers, DispatcherStep(d) \/ DispatchAbort(d)
       PROVE Delivery!Next \/ UNCHANGED Delivery!vars
  BY <1>5, <1>10, <1>12 DEF DispatcherStep
<1>13. ASSUME NEW e \in Events, AddEvent(e) PROVE Delivery!Next
  BY <1>1, <1>9, <1>13
<1> QED BY <1>7, <1>11, <1>12, <1>13 DEF Next

\* Every behaviour of the dispatchers, workers and sweeps is one of
\* at-least-once delivery.
THEOREM Refinement == Spec => ImplementsDelivery
<1> QED
  BY DeliveryInit, DeliveryStep, Invariance, PTL DEF Spec, ImplementsDelivery, Delivery!Spec
=============================================================================
