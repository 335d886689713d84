------------------------- MODULE BillingLifecycleProofs -------------------------
(***************************************************************************)
(* Proofs about BillingLifecycle: a provider event applies at most once,   *)
(* and a timed status has a job that ends it in time, unless its job was   *)
(* dead-lettered since the status moved.                                   *)
(*                                                                         *)
(* The second is not inductive as it stands: the job that covers the       *)
(* status may be claimed by a session that loaded the row before it got    *)
(* that status, and whose commit would remove the job and do nothing else. *)
(* So the invariant asks for a covering job that nobody claims, or only    *)
(* sessions whose row is current: those replace the job by a later one or  *)
(* move the row on.  A job enqueued by a commit is claimed by nobody: it   *)
(* is due later than now, or carries an instant never used before; for the *)
(* same reason it is not a duplicate of one that succeeded.  The job of a  *)
(* reconcile that raised is claimed by no one else, is still queued, and   *)
(* is due before anything that its partial writes can have scheduled.      *)
(***************************************************************************)
EXTENDS BillingLifecycle, TLAPS

Time == [day: Int, at: Int]

Row == [status: Statuses, plan: Plans, snapshot: [plan: Plans, status: Statuses],
        trialEnds: {At(TrialDays, 0)}, graceEnds: Time, updated: Time]

\* No later than.
Upto(a, b) == ~Before(b, a)

\* A row that was stored: its timestamps are of the past.
RowOK(r) ==
  /\ r \in Row
  /\ r.graceEnds.at < now.at
  /\ r.updated.at < now.at /\ r.updated.day <= now.day

\* A session and the row it loaded; a job it claimed is due.
SessionOK(t) ==
  \/ t = Idle
  \/ /\ t.op \in {"webhook", "manual", "plan", "reconcile"}
     /\ RowOK(t.row) /\ Upto(t.row.updated, sub.updated)
     /\ t.op = "webhook" => t.event \in Events /\ t.to \in Statuses
     /\ t.op = "manual" => t.to \in Statuses
     /\ t.op = "plan" => t.to \in Plans
     /\ t.op = "reconcile" => t.job \in Time /\ t.job.day <= now.day /\ t.job.at < now.at

\* Jobs were made at instants of the past; those that succeeded are over.
JobsOK ==
  /\ \A j \in queued : j \in Time /\ j.day >= 0 /\ j.at < now.at
  /\ \A j \in done : j \in Time /\ j.day <= now.day /\ j.at < now.at

Types ==
  /\ now \in Time /\ now.day >= 0 /\ now.at > 0
  /\ RowOK(sub)
  /\ tx = [s \in Sessions |-> tx[s]] /\ \A s \in Sessions : SessionOK(tx[s])
  /\ JobsOK

\* The session still sees the status that the row has, and its deadline.
Current(t) ==
  /\ t.row.status = sub.status
  /\ sub.status = "grace_period" => t.row.graceEnds = sub.graceEnds

\* A job that covers the deadline and will not be removed by a session with an old row.
Covers(j) ==
  /\ j \in queued /\ Upto(j, Deadline)
  /\ \A s \in Sessions : tx[s].op = "reconcile" /\ tx[s].job = j => Current(tx[s])

Covered == sub.status \in TIMED_STATUSES => \E j \in queued : Covers(j)

\* An event counts as often as it is recorded.
AppliedOK == applied = [e \in Events |-> IF e \in recorded THEN 1 ELSE 0]

Kept == lost = "no" => Covered

\* A claimed job is queued, and claimed once.
ClaimsOK ==
  \A s \in Sessions : tx[s].op = "reconcile" /\ tx[s].job # NoJob =>
    /\ tx[s].job \in queued
    /\ \A o \in Sessions : tx[o].op = "reconcile" /\ tx[o].job = tx[s].job => o = s

IInv == Types /\ ClaimsOK /\ Kept /\ AppliedOK

-----------------------------------------------------------------------------
(* The order of timestamps, and what a new job is.                         *)

\* Later than now, or made at an instant that nothing stored carries yet.
Unseen(j) ==
  /\ j \in Time /\ j.day >= 0
  /\ j.day > now.day \/ j.at >= now.at

\* Upto is transitive on timestamps.
LEMMA UptoTransitive ==
  ASSUME NEW a \in Time, NEW b \in Time, NEW c \in Time, Upto(a, b), Upto(b, c)
  PROVE  Upto(a, c)
BY DEF Time, Upto, Before

\* An unseen job has not succeeded, and no session has claimed it.
LEMMA UnseenIsFree ==
  ASSUME Types, NEW j, Unseen(j)
  PROVE  /\ j \notin done
         /\ \A s \in Sessions : tx[s].op = "reconcile" => tx[s].job # j
BY DEF Types, JobsOK, SessionOK, Unseen, Time, Idle

\* The initial state satisfies the invariant: the trial has its job.
LEMMA InitInv == Init => IInv
<1> SUFFICES ASSUME Init PROVE IInv
  OBVIOUS
<1> USE ConstantsAssumption
<1>1. now \in Time /\ now.day = 0 /\ now.at = 2
  BY DEF Init, Time, At
<1>2. At(TrialDays, 0) \in Time /\ At(TrialDays, 0).day = TrialDays /\ At(TrialDays, 0).at = 0
  BY DEF Time, At
<1>3. RowOK(sub)
  <2>1. sub \in Row
    BY DEF Init, Row, Time, At, Null, SnapshotFor, Statuses
  <2>2. sub.graceEnds.at = 0 /\ sub.updated.at = 1 /\ sub.updated.day = 0
    BY DEF Init, At, Null
  <2> QED BY <1>1, <2>1, <2>2 DEF RowOK
<1>4. Types
  <2>1. tx = [s \in Sessions |-> tx[s]] /\ \A s \in Sessions : SessionOK(tx[s])
    BY DEF Init, SessionOK
  <2>2. JobsOK
    BY <1>1, <1>2 DEF Init, JobsOK
  <2> QED BY <1>1, <1>3, <2>1, <2>2 DEF Types
<1>5. Covered
  <2>1. Deadline = At(TrialDays, 0)
    BY DEF Init, Deadline
  <2>2. Covers(At(TrialDays, 0))
    BY <1>2, <2>1 DEF Covers, Init, Idle, Upto, Before
  <2> QED BY <2>2 DEF Covered, Init
<1>6. AppliedOK
  BY DEF Init, AppliedOK
<1>7. ClaimsOK
  BY DEF Init, ClaimsOK, Idle
<1> QED BY <1>4, <1>5, <1>6, <1>7 DEF IInv, Kept

-----------------------------------------------------------------------------
(* Loads, aborts and the clock.                                            *)

\* A session begins with the row that is stored, and with a job that is due.
LEMMA BeginStep ==
  ASSUME IInv, NEW s \in Sessions, NEW t, Begin(s, t),
         t.op \in {"webhook", "manual", "plan", "reconcile"},
         t.row = sub,
         t.op = "webhook" => t.event \in Events /\ t.to \in Statuses,
         t.op = "manual" => t.to \in Statuses,
         t.op = "plan" => t.to \in Plans,
         t.op = "reconcile" => t.job \in Time /\ t.job.day <= now.day /\ t.job.at < now.at,
         t.op = "reconcile" => t.job = NoJob \/ (t.job \in queued /\ ~Claimed(t.job))
  PROVE  IInv'
<1>1. /\ tx' = [tx EXCEPT ![s] = t] /\ sub' = sub /\ now' = now /\ queued' = queued
      /\ done' = done /\ lost' = lost /\ recorded' = recorded /\ applied' = applied
  BY DEF Begin
<1>2. Deadline' = Deadline
  BY <1>1 DEF Deadline
<1>3. Upto(sub.updated, sub.updated)
  BY DEF IInv, Types, RowOK, Row, Time, Upto, Before
<1>4. SessionOK(t)
  BY <1>3 DEF SessionOK, IInv, Types
<1>5. Types'
  <2>1. \A o \in Sessions : SessionOK(tx[o])'
    BY <1>1, <1>4 DEF IInv, Types, SessionOK, RowOK
  <2> QED BY <1>1, <2>1 DEF IInv, Types, RowOK, JobsOK
<1>6. Current(t)
  BY DEF Current
<1>7. Kept'
  <2> SUFFICES ASSUME lost = "no", sub.status \in TIMED_STATUSES PROVE \E j \in queued : Covers(j)'
    BY <1>1 DEF Kept, Covered
  <2>1. PICK j \in queued : Covers(j)
    BY DEF IInv, Kept, Covered
  <2>2. ASSUME NEW o \in Sessions, tx'[o].op = "reconcile" /\ tx'[o].job = j
        PROVE  Current(tx[o])'
    <3>1. CASE o = s
      BY <1>1, <1>6, <3>1 DEF Current, IInv, Types
    <3>2. CASE o # s
      BY <1>1, <2>1, <2>2, <3>2 DEF Current, Covers, IInv, Types
    <3> QED BY <3>1, <3>2
  <2> QED BY <1>1, <1>2, <2>1, <2>2 DEF Covers
<1>8. ClaimsOK'
  <2>1. ASSUME NEW o \in Sessions PROVE tx'[o] = IF o = s THEN t ELSE tx[o]
    BY <1>1 DEF IInv, Types
  <2> QED BY <1>1, <2>1 DEF IInv, ClaimsOK, Claimed
<1> QED BY <1>1, <1>5, <1>7, <1>8 DEF IInv, AppliedOK

\* A session that ends gives up its claim; the other claimed jobs stay queued.
LEMMA ClaimEnds ==
  ASSUME Types, ClaimsOK, NEW s \in Sessions, tx' = [tx EXCEPT ![s] = Idle],
         \A j \in queued : j \in queued' \/ (tx[s].op = "reconcile" /\ tx[s].job = j)
  PROVE  ClaimsOK'
<1>1. ASSUME NEW o \in Sessions PROVE tx'[o] = IF o = s THEN Idle ELSE tx[o]
  BY DEF Types
<1>2. Idle.op = "idle"
  BY DEF Idle
<1> QED BY <1>1, <1>2 DEF ClaimsOK

\* Ending a session drops its claim, and nothing else.
LEMMA AbortStep ==
  ASSUME IInv, NEW s \in Sessions, Abort(s)
  PROVE  IInv'
<1>1. /\ tx' = [tx EXCEPT ![s] = Idle] /\ sub' = sub /\ now' = now /\ queued' = queued
      /\ done' = done /\ lost' = lost /\ recorded' = recorded /\ applied' = applied
  BY DEF Abort
<1>2. Deadline' = Deadline
  BY <1>1 DEF Deadline
<1>3. Types'
  <2>1. \A o \in Sessions : SessionOK(tx[o])'
    BY <1>1 DEF IInv, Types, SessionOK, RowOK
  <2> QED BY <1>1, <2>1 DEF IInv, Types, RowOK, JobsOK
<1>4. Kept'
  <2> SUFFICES ASSUME lost = "no", sub.status \in TIMED_STATUSES PROVE \E j \in queued : Covers(j)'
    BY <1>1 DEF Kept, Covered
  <2>1. PICK j \in queued : Covers(j)
    BY DEF IInv, Kept, Covered
  <2>2. \A o \in Sessions : tx'[o].op = "reconcile" /\ tx'[o].job = j => Current(tx[o])'
    BY <1>1, <2>1 DEF Current, Covers, IInv, Types, Idle
  <2> QED BY <1>1, <1>2, <2>1, <2>2 DEF Covers
<1>5. ClaimsOK'
  BY <1>1, ClaimEnds DEF IInv
<1> QED BY <1>1, <1>3, <1>4, <1>5 DEF IInv, AppliedOK

\* A day passes only between requests, and no deadline moves.
LEMMA TickStep ==
  ASSUME IInv, Tick
  PROVE  IInv'
<1>1. /\ tx' = tx /\ sub' = sub /\ queued' = queued
      /\ done' = done /\ lost' = lost /\ recorded' = recorded /\ applied' = applied
      /\ \A s \in Sessions : tx[s] = Idle
  BY DEF Tick
<1>2. now' \in Time /\ now'.day = now.day + 1 /\ now'.at = now.at + 2
  BY DEF Tick, At, IInv, Types, Time
<1>3. now.day \in Int /\ now.at \in Int /\ now.day >= 0 /\ now.at > 0
  BY DEF IInv, Types, Time
<1>4. Types'
  <2>1. RowOK(sub)'
    BY <1>1, <1>2, <1>3 DEF IInv, Types, RowOK, Row, Time
  <2>2. JobsOK'
    BY <1>1, <1>2, <1>3 DEF IInv, Types, JobsOK, Time
  <2>3. \A s \in Sessions : SessionOK(tx[s])'
    BY <1>1 DEF SessionOK
  <2>4. tx' = [s \in Sessions |-> tx'[s]]
    BY <1>1 DEF IInv, Types
  <2> QED BY <1>2, <1>3, <2>1, <2>2, <2>3, <2>4 DEF Types
<1>5. Kept'
  <2> SUFFICES ASSUME lost = "no", sub.status \in TIMED_STATUSES PROVE \E j \in queued : Covers(j)'
    BY <1>1 DEF Kept, Covered
  <2>1. Deadline' = Deadline
    BY <1>1 DEF Deadline, TIMED_STATUSES
  <2>2. PICK j \in queued : Covers(j)
    BY DEF IInv, Kept, Covered
  <2> QED BY <1>1, <2>1, <2>2 DEF Covers, Idle
<1>6. ClaimsOK'
  BY <1>1 DEF IInv, ClaimsOK
<1> QED BY <1>1, <1>4, <1>5, <1>6 DEF IInv, AppliedOK

-----------------------------------------------------------------------------
(* What a commit does to the types.                                        *)

\* Facts about the clock that the arithmetic steps need.
LEMMA ClockFacts ==
  ASSUME Types
  PROVE  /\ now.day \in Int /\ now.at \in Int /\ now.day >= 0 /\ now.at > 0
         /\ now = At(now.day, now.at)
         /\ Flushed \in Time /\ Flushed.day = now.day /\ Flushed.at = now.at + 1
         /\ Upto(sub.updated, Flushed)
BY DEF Types, RowOK, Row, Time, At, Flushed, Upto, Before

\* The row of a session that runs.
LEMMA LoadedRow ==
  ASSUME Types, NEW s \in Sessions, tx[s].op \in {"webhook", "manual", "plan", "reconcile"}
  PROVE  RowOK(tx[s].row) /\ Upto(tx[s].row.updated, sub.updated)
BY DEF Types, SessionOK, Idle

\* transition_status column by column.
LEMMA TransitionRow ==
  ASSUME Types, NEW r, RowOK(r), NEW to \in Statuses
  PROVE  /\ Transition(r, to) \in Row
         /\ Transition(r, to).graceEnds.at <= now.at
         /\ Transition(r, to).status = to
         /\ Transition(r, to).trialEnds = r.trialEnds
         /\ Transition(r, to).updated = r.updated
         /\ to = r.status => Transition(r, to) = r
         /\ to # r.status /\ to = "grace_period" => Transition(r, to).graceEnds = After(now, GraceDays)
<1> USE ConstantsAssumption
<1>1. r \in Row /\ r.graceEnds.at < now.at /\ r.graceEnds \in Time
  BY DEF RowOK, Row
<1>2. now.day \in Int /\ now.at \in Int
  BY ClockFacts
<1>3. After(now, GraceDays) \in Time /\ After(now, GraceDays).at = now.at
  BY <1>2 DEF After, At, Time
<1>4. Null \in Time /\ Null.at = 0 /\ now.at > 0
  BY ClockFacts DEF Null, At, Time
<1>5. CASE to = r.status
  BY <1>1, <1>2, <1>5 DEF Transition, Row, Time
<1>6. CASE to # r.status
  <2> DEFINE g == CASE to = "grace_period" -> After(now, GraceDays)
                    [] to = "active" -> Null
                    [] OTHER -> r.graceEnds
             n == [r EXCEPT !.status = to, !.graceEnds = g, !.snapshot = SnapshotFor(r.plan, to)]
  <2>1. Transition(r, to) = n
    BY <1>6 DEF Transition
  <2>2. g \in Time /\ g.at <= now.at
    BY <1>1, <1>2, <1>3, <1>4 DEF Time
  <2>3. SnapshotFor(r.plan, to) \in [plan: Plans, status: Statuses]
    BY <1>1 DEF Row, SnapshotFor
  <2>4. to = "grace_period" => g = After(now, GraceDays)
    OBVIOUS
  <2> HIDE DEF g
  <2>5. /\ n \in Row /\ n.graceEnds = g /\ n.status = to
        /\ n.trialEnds = r.trialEnds /\ n.updated = r.updated
    BY <1>1, <2>2, <2>3 DEF Row
  <2> QED BY <1>6, <2>1, <2>2, <2>4, <2>5
<1> QED BY <1>5, <1>6

\* The flush stores a row: its columns are the session's or the ones that were there.
LEMMA FlushRow ==
  ASSUME Types, NEW old, RowOK(old), NEW new \in Row, new.graceEnds.at <= now.at,
         Flush(old, new), now' = At(now.day, now.at + 2)
  PROVE  /\ RowOK(sub)' /\ Upto(sub.updated, sub'.updated)
         /\ new = old => sub' = sub
         /\ new # old => /\ sub'.status = Written(old.status, new.status, sub.status)
                         /\ sub'.graceEnds = Written(old.graceEnds, new.graceEnds, sub.graceEnds)
                         /\ sub'.trialEnds = sub.trialEnds
                         /\ sub'.updated = Flushed
<1>1. now'.day = now.day /\ now'.at = now.at + 2 /\ now.day \in Int /\ now.at \in Int
  BY ClockFacts DEF At
<1>2. RowOK(sub) /\ sub \in Row /\ old \in Row
  BY DEF Types, RowOK
<1>3. CASE new = old
  <2>1. sub' = sub
    BY <1>3 DEF Flush
  <2>2. Upto(sub.updated, sub.updated)
    BY <1>2 DEF Row, Time, Upto, Before
  <2>3. RowOK(sub)'
    BY <1>1, <1>2, <2>1 DEF RowOK, Row, Time
  <2> QED BY <1>3, <2>1, <2>2, <2>3
<1>4. CASE new # old
  <2> DEFINE g == Written(old.graceEnds, new.graceEnds, sub.graceEnds)
             w == [status |-> Written(old.status, new.status, sub.status),
                   plan |-> Written(old.plan, new.plan, sub.plan),
                   snapshot |-> Written(old.snapshot, new.snapshot, sub.snapshot),
                   trialEnds |-> Written(old.trialEnds, new.trialEnds, sub.trialEnds),
                   graceEnds |-> g,
                   updated |-> Flushed]
  <2>1. sub' = w
    BY <1>4 DEF Flush
  <2>2. g \in Time /\ g.at < now.at + 2
    BY <1>1, <1>2 DEF Written, RowOK, Row, Time
  <2>3. Written(old.trialEnds, new.trialEnds, sub.trialEnds) = sub.trialEnds
    BY <1>2 DEF Written, Row
  <2>4. /\ Written(old.status, new.status, sub.status) \in Statuses
        /\ Written(old.plan, new.plan, sub.plan) \in Plans
        /\ Written(old.snapshot, new.snapshot, sub.snapshot) \in [plan: Plans, status: Statuses]
    BY <1>2 DEF Written, Row
  <2> HIDE DEF g
  <2>5. Flushed \in Time /\ Flushed.day = now.day /\ Flushed.at = now.at + 1 /\ Upto(sub.updated, Flushed)
    BY ClockFacts
  <2>6. w \in Row
    BY <1>2, <2>2, <2>3, <2>4, <2>5 DEF Row
  <2>7. RowOK(sub)'
    <3>1. sub' \in Row /\ sub'.graceEnds = g /\ sub'.updated = Flushed
      BY <2>1, <2>6
    <3> QED BY <1>1, <2>2, <2>5, <3>1 DEF RowOK, Row
  <2> QED BY <1>4, <2>1, <2>3, <2>5, <2>7 DEF g
<1> QED BY <1>3, <1>4

\* A commit ends its session and lets two instants pass; the others stay in order.
LEMMA CommitTypes ==
  ASSUME Types, NEW s \in Sessions, End(s),
         RowOK(sub)', Upto(sub.updated, sub'.updated), JobsOK'
  PROVE  Types'
<1>1. tx' = [tx EXCEPT ![s] = Idle] /\ now' = At(now.day, now.at + 2)
  BY DEF End
<1>2. now.day \in Int /\ now.at \in Int /\ now.day >= 0 /\ now.at > 0
  BY ClockFacts
<1>3. now' \in Time /\ now'.day = now.day /\ now'.at = now.at + 2
  BY <1>1, <1>2 DEF At, Time
<1>4. sub.updated \in Time /\ sub'.updated \in Time
  BY DEF Types, RowOK, Row
<1>5. ASSUME NEW o \in Sessions PROVE SessionOK(tx[o])'
  <2>1. CASE o = s
    BY <1>1, <2>1 DEF Types, SessionOK
  <2>2. CASE o # s
    <3>1. tx'[o] = tx[o] /\ SessionOK(tx[o])
      BY <1>1, <2>2 DEF Types
    <3>2. CASE tx[o] = Idle
      BY <3>1, <3>2 DEF SessionOK
    <3>3. CASE tx[o] # Idle
      <4>1. RowOK(tx[o].row) /\ Upto(tx[o].row.updated, sub.updated) /\ tx[o].row.updated \in Time
        BY <3>1, <3>3 DEF SessionOK, RowOK, Row
      <4>2. Upto(tx[o].row.updated, sub'.updated)
        BY <1>4, <4>1, UptoTransitive
      <4>3. RowOK(tx[o].row)'
        BY <1>2, <1>3, <3>1, <4>1 DEF RowOK, Row, Time
      <4>4. tx[o].op = "reconcile" =>
              tx[o].job \in Time /\ tx[o].job.day <= now'.day /\ tx[o].job.at < now'.at
        BY <1>2, <1>3, <3>1, <3>3 DEF SessionOK, Time
      <4> QED BY <3>1, <3>3, <4>2, <4>3, <4>4 DEF SessionOK
    <3> QED BY <3>2, <3>3
  <2> QED BY <2>1, <2>2
<1>6. tx' = [o \in Sessions |-> tx'[o]]
  BY <1>1 DEF Types
<1> QED BY <1>2, <1>3, <1>5, <1>6 DEF Types

-----------------------------------------------------------------------------
(* What a commit does to the coverage.                                     *)

\* A job that no session has seen covers the status of the row that was flushed.
LEMMA CoverByUnseen ==
  ASSUME Types, NEW s \in Sessions, tx' = [tx EXCEPT ![s] = Idle],
         NEW j \in queued', Unseen(j), Upto(j, Deadline')
  PROVE  Covered'
<1>1. \A o \in Sessions : ~(tx'[o].op = "reconcile" /\ tx'[o].job = j)
  BY UnseenIsFree DEF Types, Idle
<1> QED BY <1>1 DEF Covered, Covers

\* A job that covered the status still does when the session that ends is the only
\* change to the claims, the status and its grace period stay and the deadline is no earlier.
LEMMA CoverKept ==
  ASSUME Types, NEW s \in Sessions, tx' = [tx EXCEPT ![s] = Idle],
         sub'.status = sub.status, sub'.graceEnds = sub.graceEnds,
         sub.status \in TIMED_STATUSES => Upto(Deadline, Deadline'),
         sub.status \in TIMED_STATUSES => Deadline \in Time /\ Deadline' \in Time,
         NEW j \in queued', Covers(j)
  PROVE  Covered'
<1> SUFFICES ASSUME sub.status \in TIMED_STATUSES PROVE Covers(j)'
  BY DEF Covered
<1>1. j \in Time /\ Upto(j, Deadline)
  BY DEF Covers, Types, JobsOK
<1>2. Upto(j, Deadline')
  BY <1>1, UptoTransitive
<1>3. \A o \in Sessions : tx'[o].op = "reconcile" /\ tx'[o].job = j => Current(tx[o])'
  BY DEF Current, Covers, Types, Idle
<1> QED BY <1>2, <1>3 DEF Covers

\* The deadline of a timed status is a timestamp.
LEMMA DeadlineTime ==
  ASSUME RowOK(sub), sub.status \in TIMED_STATUSES
  PROVE  Deadline \in Time
<1> USE ConstantsAssumption
<1>1. sub.trialEnds \in Time
  BY DEF RowOK, Row, Time, At
<1>2. After(sub.updated, PastDueDays) \in Time
  BY DEF RowOK, Row, Time, At, After
<1> QED BY <1>1, <1>2 DEF Deadline, TIMED_STATUSES, RowOK, Row

\* A flush that keeps status and grace period moves the deadline nowhere or later.
LEMMA DeadlineGrows ==
  ASSUME Types, RowOK(sub)', sub'.status = sub.status, sub'.graceEnds = sub.graceEnds,
         sub'.trialEnds = sub.trialEnds, Upto(sub.updated, sub'.updated),
         sub.status \in TIMED_STATUSES
  PROVE  Upto(Deadline, Deadline') /\ Deadline \in Time /\ Deadline' \in Time
<1> USE ConstantsAssumption
<1>1. Deadline \in Time
  BY DeadlineTime DEF Types
<1>2. sub'.updated \in Time /\ sub.updated \in Time
  BY DEF Types, RowOK, Row
<1>3. Deadline' = CASE sub.status = "trial" -> sub.trialEnds
                    [] sub.status = "grace_period" -> sub.graceEnds
                    [] sub.status = "past_due" -> After(sub'.updated, PastDueDays)
                    [] OTHER -> now'
  BY DEF Deadline
<1>4. Deadline = CASE sub.status = "trial" -> sub.trialEnds
                   [] sub.status = "grace_period" -> sub.graceEnds
                   [] sub.status = "past_due" -> After(sub.updated, PastDueDays)
                   [] OTHER -> now
  BY DEF Deadline
<1>5. CASE sub.status = "past_due"
  <2>1. Deadline' = After(sub'.updated, PastDueDays) /\ Deadline = After(sub.updated, PastDueDays)
    BY <1>3, <1>4, <1>5
  <2> QED BY <1>2, <2>1 DEF Time, Upto, Before, After, At
<1>6. CASE sub.status # "past_due"
  <2>1. Deadline' = Deadline
    BY <1>3, <1>4, <1>6 DEF TIMED_STATUSES
  <2> QED BY <1>1, <2>1 DEF Time, Upto, Before
<1> QED BY <1>5, <1>6

\* The jobs a commit enqueues carry this instant or an earlier one, on a day that exists.
JobsFit(J) == \A j \in J : j \in Time /\ j.day >= 0 /\ j.at <= now.at + 1

\* The deadlines of a loaded row fit, whichever of the two schedules computes them.
LEMMA PendingFits ==
  ASSUME Types, NEW r \in Row, r.graceEnds.at <= now.at, r.updated.at <= now.at + 1
  PROVE  JobsFit(NextPending(r))
<1> USE ConstantsAssumption
<1>1. now.day \in Int /\ now.at \in Int /\ now.day >= 0 /\ now.at > 0 /\ now \in Time
  BY ClockFacts DEF Types
<1> SUFFICES ASSUME NEW j \in NextPending(r)
             PROVE  j \in Time /\ j.day >= 0 /\ j.at <= now.at + 1
  BY DEF JobsFit
<1>2. CASE r.status = "trial"
  <2>1. j = At(TrialDays, 0)
    BY <1>2 DEF NextPending, Row
  <2> QED BY <1>1, <2>1 DEF At, Time
<1>3. CASE r.status = "grace_period"
  <2>1. j = r.graceEnds /\ Before(now, r.graceEnds)
    BY <1>3 DEF NextPending
  <2> QED BY <1>1, <2>1 DEF Row, Time, Before
<1>4. CASE r.status = "past_due"
  <2>1. j = Later(After(r.updated, PastDueDays), now)
    BY <1>4 DEF NextPending
  <2>2. CASE j = now
    BY <1>1, <2>2
  <2>3. CASE j # now
    <3>1. j = After(r.updated, PastDueDays) /\ Before(now, j)
      BY <2>1, <2>3 DEF Later
    <3> QED BY <1>1, <3>1 DEF Row, Time, Before, After, At
  <2> QED BY <2>2, <2>3
<1>5. CASE r.status \notin TIMED_STATUSES
  BY <1>5 DEF NextPending, TIMED_STATUSES
<1> QED BY <1>2, <1>3, <1>4, <1>5 DEF TIMED_STATUSES

\* Enqueueing such jobs keeps the queue in order.
LEMMA EnqueueJobs ==
  ASSUME Types, NEW J, JobsFit(J), now' = At(now.day, now.at + 2),
         queued' \subseteq queued \cup J,
         \A j \in done' \ done : j \in Time /\ j.day <= now.day /\ j.at < now.at
  PROVE  JobsOK'
<1>1. now'.day = now.day /\ now'.at = now.at + 2 /\ now.day \in Int /\ now.at \in Int
  BY ClockFacts DEF At
<1> QED BY <1>1 DEF Types, JobsOK, JobsFit, Time

-----------------------------------------------------------------------------
(* The commits.                                                            *)

\* A commit whose flush keeps the row keeps the invariant, if it removes no covering job.
LEMMA UnchangedCovered ==
  ASSUME IInv, NEW s \in Sessions, End(s), sub' = sub, lost' = lost, RowOK(sub)', queued \subseteq queued'
  PROVE  Kept'
<1>1. tx' = [tx EXCEPT ![s] = Idle]
  BY DEF End
<1> SUFFICES ASSUME lost = "no", sub.status \in TIMED_STATUSES PROVE Covered'
  BY DEF Kept, Covered
<1>2. PICK j \in queued : Covers(j)
  BY DEF IInv, Kept, Covered
<1>3. Upto(sub.updated, sub'.updated)
  BY DEF IInv, Types, RowOK, Row, Time, Upto, Before
<1>4. Upto(Deadline, Deadline') /\ Deadline \in Time /\ Deadline' \in Time
  BY <1>3, DeadlineGrows DEF IInv
<1> QED BY <1>1, <1>2, <1>4, CoverKept DEF IInv

\* Webhooks and manual transitions: a transition into a timed status enqueues a
\* job that no session has seen and that is due by the new deadline.
LEMMA TransitionCommit ==
  ASSUME IInv, NEW s \in Sessions, tx[s].op \in {"webhook", "manual"},
         Allowed(tx[s].row, tx[s].to),
         Flush(tx[s].row, Transition(tx[s].row, tx[s].to)),
         Moved(tx[s].row, Transition(tx[s].row, tx[s].to)),
         queued' = queued \cup Enqueued(TransitionJobs(tx[s].row, tx[s].to)),
         done' = done, End(s)
  PROVE  Types' /\ ClaimsOK' /\ Kept'
<1> USE ConstantsAssumption
<1> DEFINE r == tx[s].row
           to == tx[s].to
           n == Transition(r, to)
<1>1. Types /\ RowOK(r) /\ Upto(r.updated, sub.updated) /\ to \in Statuses
  BY LoadedRow DEF IInv, Types, SessionOK, Idle
<1>2. tx' = [tx EXCEPT ![s] = Idle] /\ now' = At(now.day, now.at + 2)
  BY DEF End
<1>3. /\ n \in Row /\ n.graceEnds.at <= now.at /\ n.status = to
      /\ n.trialEnds = r.trialEnds /\ n.updated = r.updated
      /\ to = r.status => n = r
      /\ to # r.status /\ to = "grace_period" => n.graceEnds = After(now, GraceDays)
  BY <1>1, TransitionRow
<1>4. Allowed(r, to) /\ Flush(r, n) /\ queued' = queued \cup Enqueued(TransitionJobs(r, to))
      /\ Moved(r, n)
  OBVIOUS
<1>5. TransitionJobs(r, to) = IF to = r.status THEN {} ELSE NextPending(n)
  BY DEF TransitionJobs
<1> HIDE DEF n, to, r
<1>6. /\ RowOK(sub)' /\ Upto(sub.updated, sub'.updated)
      /\ n = r => sub' = sub
      /\ n # r => /\ sub'.status = Written(r.status, n.status, sub.status)
                  /\ sub'.graceEnds = Written(r.graceEnds, n.graceEnds, sub.graceEnds)
                  /\ sub'.trialEnds = sub.trialEnds
                  /\ sub'.updated = Flushed
  BY <1>1, <1>2, <1>3, <1>4, FlushRow
<1>7. /\ now.day \in Int /\ now.at \in Int /\ now.day >= 0 /\ now.at > 0 /\ now \in Time
      /\ Flushed.day = now.day /\ Flushed.at = now.at + 1
  BY <1>1, ClockFacts DEF Types
<1>8. r \in Row /\ r.updated \in Time /\ r.updated.at < now.at /\ r.updated.day <= now.day
      /\ r.graceEnds.at < now.at
  BY <1>1 DEF RowOK, Row
<1>9. Types' /\ ClaimsOK'
  <2>1. JobsFit(NextPending(n))
    <3>1. n.updated.at <= now.at + 1
      BY <1>3, <1>7, <1>8 DEF Time
    <3> QED BY <1>1, <1>3, <3>1, PendingFits
  <2>2. queued' \subseteq queued \cup NextPending(n)
    BY <1>4, <1>5 DEF Enqueued
  <2>3. \A j \in done' \ done : j \in Time /\ j.day <= now.day /\ j.at < now.at
    OBVIOUS
  <2>4. JobsOK'
    BY <1>1, <1>2, <2>1, <2>2, <2>3, EnqueueJobs
  <2>5. ClaimsOK'
    BY <1>1, <1>2, <1>4, ClaimEnds DEF IInv
  <2> QED BY <1>1, <1>6, <2>4, <2>5, CommitTypes
<1>10. CASE to = r.status
  <2>1. sub' = sub /\ queued \subseteq queued' /\ lost' = lost
    BY <1>3, <1>4, <1>6, <1>10 DEF Moved
  <2> QED BY <1>6, <1>9, <2>1, UnchangedCovered
<1>11. CASE to # r.status
  <2>1. n # r /\ sub'.status = to /\ sub'.updated = Flushed
    BY <1>3, <1>6, <1>11 DEF Written
  <2>2. to # "trial"
    BY <1>1, <1>4, <1>8, <1>11 DEF Allowed, ALLOWED_TRANSITIONS, Row, Statuses
  <2>3. \A j \in NextPending(n) : j \notin done => j \in queued'
    BY <1>4, <1>5, <1>11 DEF Enqueued
  <2>4. CASE to = "grace_period"
    <3> DEFINE j == After(now, GraceDays)
    <3>1. j \in Time /\ j.day = now.day + GraceDays /\ j.at = now.at
      BY <1>7 DEF After, At, Time
    <3>2. n.graceEnds = j /\ j # r.graceEnds
      BY <1>3, <1>7, <1>8, <1>11, <2>4, <3>1 DEF Row, Time
    <3> HIDE DEF j
    <3>3. sub'.graceEnds = j
      BY <1>6, <2>1, <3>2 DEF Written
    <3>4. Before(now, j)
      BY <1>7, <3>1 DEF Before, Time
    <3>5. j \in NextPending(n)
      BY <1>3, <2>4, <3>2, <3>4 DEF NextPending
    <3>6. Unseen(j)
      BY <1>7, <3>1 DEF Unseen
    <3>7. j \in queued'
      BY <1>1, <2>3, <3>5, <3>6, UnseenIsFree
    <3>8. Deadline' = j
      BY <2>1, <2>4, <3>3 DEF Deadline
    <3>9. Upto(j, Deadline')
      BY <3>1, <3>8 DEF Upto, Before, Time
    <3> QED BY <1>1, <1>2, <1>9, <3>6, <3>7, <3>9, CoverByUnseen DEF Kept
  <2>5. CASE to = "past_due"
    <3> DEFINE a == After(r.updated, PastDueDays)
               j == Later(a, now)
    <3>1. a \in Time /\ a.day = r.updated.day + PastDueDays /\ a.at = r.updated.at
      BY <1>8 DEF After, At, Time
    <3>2. j \in NextPending(n)
      BY <1>3, <2>5 DEF NextPending
    <3>3. (Before(now, a) /\ j = a) \/ j = now
      BY DEF Later
    <3> HIDE DEF a, j
    <3>4. Unseen(j)
      BY <1>7, <1>8, <3>1, <3>3 DEF Unseen, Before, Time
    <3>5. j \in queued'
      BY <1>1, <2>3, <3>2, <3>4, UnseenIsFree
    <3>6. Deadline' = After(Flushed, PastDueDays)
      BY <2>1, <2>5 DEF Deadline
    <3>7. Deadline'.day = now.day + PastDueDays /\ Deadline'.at = now.at + 1
      BY <1>7, <3>6 DEF After, At
    <3>8. Upto(j, Deadline')
      BY <1>7, <1>8, <3>1, <3>3, <3>7 DEF Upto, Before, Time
    <3> QED BY <1>1, <1>2, <1>9, <3>4, <3>5, <3>8, CoverByUnseen DEF Kept
  <2>6. CASE to \notin TIMED_STATUSES
    BY <1>9, <2>1, <2>6 DEF Kept, Covered
  <2> QED BY <2>2, <2>4, <2>5, <2>6 DEF TIMED_STATUSES
<1> QED BY <1>9, <1>10, <1>11

\* process_webhook: the event is recorded with the transition it caused.
LEMMA WebhookStep ==
  ASSUME IInv, NEW s \in Sessions, WebhookCommit(s)
  PROVE  IInv'
<1>1. Types' /\ ClaimsOK' /\ Kept'
  BY TransitionCommit DEF WebhookCommit
<1>2. tx[s].event \in Events
  BY DEF WebhookCommit, IInv, Types, SessionOK, Idle
<1>3. AppliedOK'
  <2>1. /\ applied' = [applied EXCEPT ![tx[s].event] = @ + 1]
        /\ recorded' = recorded \cup {tx[s].event} /\ tx[s].event \notin recorded
    BY DEF WebhookCommit
  <2>2. applied = [e \in Events |-> IF e \in recorded THEN 1 ELSE 0]
    BY DEF IInv, AppliedOK
  <2> QED BY <1>2, <2>1, <2>2 DEF AppliedOK
<1> QED BY <1>1, <1>3 DEF IInv

\* A manual transition.
LEMMA ManualStep ==
  ASSUME IInv, NEW s \in Sessions, ManualCommit(s)
  PROVE  IInv'
<1>1. Types' /\ ClaimsOK' /\ Kept'
  BY TransitionCommit DEF ManualCommit
<1> QED BY <1>1 DEF ManualCommit, IInv, AppliedOK

\* A change of plan keeps the status that is stored: the deadline only moves later.
LEMMA PlanStep ==
  ASSUME IInv, NEW s \in Sessions, PlanCommit(s)
  PROVE  IInv'
<1> DEFINE r == tx[s].row
           n == [r EXCEPT !.plan = tx[s].to, !.snapshot = SnapshotFor(tx[s].to, r.status)]
<1>1. Types /\ RowOK(r) /\ r \in Row /\ tx[s].to \in Plans
  BY LoadedRow DEF PlanCommit, IInv, Types, SessionOK, Idle, RowOK
<1>2. /\ tx' = [tx EXCEPT ![s] = Idle] /\ now' = At(now.day, now.at + 2)
      /\ queued' = queued /\ done' = done /\ lost' = lost
      /\ recorded' = recorded /\ applied' = applied
      /\ End(s) /\ Flush(r, n)
  BY DEF PlanCommit, End
<1>3. SnapshotFor(tx[s].to, r.status) \in [plan: Plans, status: Statuses]
  BY <1>1 DEF SnapshotFor, Row
<1>4. n \in Row /\ n.status = r.status /\ n.graceEnds = r.graceEnds
  BY <1>1, <1>3 DEF Row
<1> HIDE DEF n, r
<1>5. n.graceEnds.at <= now.at
  BY <1>1, <1>4, ClockFacts DEF RowOK, Row, Time
<1>6. /\ RowOK(sub)' /\ Upto(sub.updated, sub'.updated)
      /\ n = r => sub' = sub
      /\ n # r => /\ sub'.status = Written(r.status, n.status, sub.status)
                  /\ sub'.graceEnds = Written(r.graceEnds, n.graceEnds, sub.graceEnds)
                  /\ sub'.trialEnds = sub.trialEnds
                  /\ sub'.updated = Flushed
  BY <1>1, <1>2, <1>4, <1>5, FlushRow
<1>7. sub'.status = sub.status /\ sub'.graceEnds = sub.graceEnds /\ sub'.trialEnds = sub.trialEnds
  BY <1>4, <1>6 DEF Written
<1>8. Types'
  <2>1. JobsFit({}) /\ queued' \subseteq queued \cup {}
    BY <1>2 DEF JobsFit
  <2>2. \A j \in done' \ done : j \in Time /\ j.day <= now.day /\ j.at < now.at
    BY <1>2
  <2>3. JobsOK'
    BY <1>1, <1>2, <2>1, <2>2, EnqueueJobs
  <2> QED BY <1>1, <1>2, <1>6, <2>3, CommitTypes
<1>9. Kept'
  <2> SUFFICES ASSUME lost = "no", sub.status \in TIMED_STATUSES PROVE Covered'
    BY <1>2, <1>7 DEF Kept, Covered
  <2>1. PICK j \in queued : Covers(j)
    BY DEF IInv, Kept, Covered
  <2>2. Upto(Deadline, Deadline') /\ Deadline \in Time /\ Deadline' \in Time
    BY <1>1, <1>6, <1>7, DeadlineGrows
  <2> QED BY <1>1, <1>2, <1>7, <2>1, <2>2, CoverKept
<1>10. ClaimsOK'
  BY <1>1, <1>2, ClaimEnds DEF IInv
<1> QED BY <1>2, <1>8, <1>9, <1>10 DEF IInv, AppliedOK

\* Where reconcile_subscription moves a row.
LEMMA ReconciledTo ==
  ASSUME NEW r \in Row
  PROVE  /\ ReconciledStatus(r) \in Statuses
         /\ ReconciledStatus(r) # r.status => ReconciledStatus(r) \in {"past_due", "suspended"}
BY DEF ReconciledStatus, Row, Statuses

\* A row that stays in its timed status has a deadline to come, and that is what the
\* reconcile enqueues.
LEMMA PendingAhead ==
  ASSUME Types, NEW r, RowOK(r), ReconciledStatus(r) = r.status, r.status \in TIMED_STATUSES
  PROVE  \E j \in NextPending(r) :
           /\ Unseen(j) /\ Before(now, j)
           /\ j = CASE r.status = "trial" -> r.trialEnds
                    [] r.status = "grace_period" -> r.graceEnds
                    [] r.status = "past_due" -> After(r.updated, PastDueDays)
<1> USE ConstantsAssumption
<1>1. now.day \in Int /\ now.at \in Int /\ now.day >= 0 /\ now.at > 0
  BY ClockFacts
<1>2. r \in Row /\ r.graceEnds \in Time /\ r.updated \in Time
  BY DEF RowOK, Row
<1>3. CASE r.status = "trial"
  <2>1. Before(now, r.trialEnds)
    BY <1>3 DEF ReconciledStatus
  <2>2. r.trialEnds \in NextPending(r)
    BY <1>3, <2>1 DEF NextPending
  <2>3. r.trialEnds \in Time /\ r.trialEnds.at = 0
    BY <1>2 DEF Row, At, Time
  <2>4. Unseen(r.trialEnds)
    BY <1>1, <2>1, <2>3 DEF Unseen, Before, Time
  <2> QED BY <1>3, <2>1, <2>2, <2>4
<1>4. CASE r.status = "grace_period"
  <2>1. Before(now, r.graceEnds)
    BY <1>4 DEF ReconciledStatus
  <2>2. r.graceEnds \in NextPending(r)
    BY <1>4, <2>1 DEF NextPending
  <2>3. Unseen(r.graceEnds)
    BY <1>1, <1>2, <2>1 DEF Unseen, Before, Time
  <2> QED BY <1>4, <2>1, <2>2, <2>3
<1>5. CASE r.status = "past_due"
  <2> DEFINE a == After(r.updated, PastDueDays)
  <2>1. Before(now, a)
    BY <1>5 DEF ReconciledStatus
  <2>2. a \in NextPending(r)
    BY <1>5, <2>1 DEF NextPending, Later
  <2>3. a \in Time
    BY <1>2 DEF After, At, Time
  <2>4. Unseen(a)
    BY <1>1, <2>1, <2>3 DEF Unseen, Before, Time
  <2> QED BY <1>5, <2>1, <2>2, <2>4
<1> QED BY <1>3, <1>4, <1>5 DEF TIMED_STATUSES

\* The jobs a reconcile enqueues fit, from either schedule.
LEMMA ReconcileJobsFit ==
  ASSUME Types, NEW r, RowOK(r)
  PROVE  JobsFit(ReconcileJobs(r))
<1>1. r \in Row /\ r.graceEnds.at < now.at /\ r.updated.at < now.at
      /\ r.graceEnds \in Time /\ r.updated \in Time
  BY DEF RowOK, Row
<1>2. now.at \in Int /\ Flushed \in Time /\ Flushed.at = now.at + 1
  BY ClockFacts
<1>3. ReconciledStatus(r) \in Statuses
  BY <1>1, ReconciledTo
<1> DEFINE n == Reconciled(r)
           f == [n EXCEPT !.updated = Flushed]
<1>4. n \in Row /\ n.graceEnds.at <= now.at /\ n.updated = r.updated
  BY <1>3, TransitionRow DEF Reconciled
<1>5. JobsFit(NextPending(r)) /\ JobsFit(NextPending(n))
  BY <1>1, <1>2, <1>4, PendingFits DEF Time
<1>6. JobsFit(NextPending(f))
  <2> HIDE DEF n
  <2>1. f \in Row /\ f.graceEnds = n.graceEnds /\ f.updated = Flushed
    BY <1>2, <1>4 DEF Row
  <2> HIDE DEF f
  <2> QED BY <1>2, <1>4, <2>1, PendingFits
<1>7. \A j \in ReconcileJobs(r) :
        j \in NextPending(r) \/ j \in NextPending(n) \/ j \in NextPending(f)
  BY DEF ReconcileJobs, TransitionJobs, Reconciled
<1> HIDE DEF n, f
<1> QED BY <1>5, <1>6, <1>7 DEF JobsFit

\* reconcile_subscription and the worker that finishes its job: a row that moves on gets
\* a job for its new deadline; one that stays keeps its job or gets a later one.
LEMMA ReconcileStep ==
  ASSUME IInv, NEW s \in Sessions, ReconcileCommit(s)
  PROVE  IInv'
<1> USE ConstantsAssumption
<1> DEFINE r == tx[s].row
           to == ReconciledStatus(r)
           n == Reconciled(r)
           k == tx[s].job
<1>1. Types /\ RowOK(r) /\ r \in Row /\ Upto(r.updated, sub.updated)
  BY LoadedRow DEF ReconcileCommit, IInv, RowOK
<1>2. k \in Time /\ k.day <= now.day /\ k.at < now.at
  BY DEF ReconcileCommit, IInv, Types, SessionOK, Idle
<1>3. /\ tx' = [tx EXCEPT ![s] = Idle] /\ now' = At(now.day, now.at + 2)
      /\ queued' = (queued \cup Enqueued(ReconcileJobs(r))) \ {k}
      /\ done' = done \cup ({k} \ {NoJob})
      /\ recorded' = recorded /\ applied' = applied
      /\ End(s) /\ Flush(r, n) /\ Moved(r, n) /\ tx[s].op = "reconcile"
  BY DEF ReconcileCommit, End
<1>4. to \in Statuses /\ (to # r.status => to \in {"past_due", "suspended"})
  BY <1>1, ReconciledTo
<1>5. /\ n \in Row /\ n.graceEnds.at <= now.at /\ n.status = to
      /\ to = r.status => n = r
  BY <1>1, <1>4, TransitionRow DEF Reconciled
<1>6. to # r.status => NextPending([n EXCEPT !.updated = Flushed]) \subseteq ReconcileJobs(r)
  BY DEF ReconcileJobs
<1>7. to = r.status => NextPending(r) \subseteq ReconcileJobs(r)
  BY DEF ReconcileJobs
<1>8. to = ReconciledStatus(r) /\ r = tx[s].row /\ k = tx[s].job
  OBVIOUS
<1> HIDE DEF r, to, n, k
<1>9. /\ RowOK(sub)' /\ Upto(sub.updated, sub'.updated)
      /\ n = r => sub' = sub
      /\ n # r => /\ sub'.status = Written(r.status, n.status, sub.status)
                  /\ sub'.updated = Flushed
  BY <1>1, <1>3, <1>5, FlushRow
<1>10. /\ now.day \in Int /\ now.at \in Int /\ now.day >= 0 /\ now.at > 0
       /\ Flushed \in Time /\ Flushed.day = now.day /\ Flushed.at = now.at + 1
  BY <1>1, ClockFacts
<1>11. Types'
  <2>1. JobsFit(ReconcileJobs(r)) /\ queued' \subseteq queued \cup ReconcileJobs(r)
    BY <1>1, <1>3, ReconcileJobsFit DEF Enqueued
  <2>2. \A j \in done' \ done : j \in Time /\ j.day <= now.day /\ j.at < now.at
    BY <1>2, <1>3
  <2>3. JobsOK'
    BY <1>1, <1>3, <2>1, <2>2, EnqueueJobs
  <2> QED BY <1>1, <1>3, <1>9, <2>3, CommitTypes
<1>12. ASSUME NEW j \in ReconcileJobs(r), Unseen(j)
       PROVE  j \in queued'
  <2>1. j \notin done /\ j # k
    BY <1>1, <1>3, <1>8, <1>12, UnseenIsFree
  <2> QED BY <1>3, <2>1 DEF Enqueued
<1>13. ClaimsOK'
  BY <1>1, <1>3, <1>8, ClaimEnds DEF IInv
<1>14. CASE to # r.status
  <2>1. n # r /\ sub'.status = to /\ sub'.updated = Flushed
    BY <1>5, <1>9, <1>14 DEF Written
  <2>2. CASE to = "past_due"
    <3> DEFINE f == [n EXCEPT !.updated = Flushed]
               j == After(Flushed, PastDueDays)
    <3>1. f.status = "past_due" /\ f.updated = Flushed
      BY <1>5, <2>2 DEF Row
    <3>2. j \in Time /\ j.day = now.day + PastDueDays /\ j.at = now.at + 1
      BY <1>10 DEF After, At, Time
    <3>3. Before(now, j) /\ Unseen(j)
      BY <1>10, <3>2 DEF Before, Unseen
    <3>4. j \in ReconcileJobs(r)
      <4> HIDE DEF f
      <4>1. NextPending(f) = {Later(j, now)}
        BY <3>1 DEF NextPending
      <4>2. Later(j, now) = j
        BY <3>3 DEF Later
      <4> QED BY <1>6, <1>14, <4>1, <4>2 DEF f
    <3>5. j \in queued'
      BY <1>12, <3>3, <3>4
    <3>6. Deadline' = j
      BY <2>1, <2>2 DEF Deadline
    <3>7. Upto(j, Deadline')
      BY <3>2, <3>6 DEF Upto, Before, Time
    <3>8. Covered'
      BY <1>1, <1>3, <3>3, <3>5, <3>7, CoverByUnseen
    <3> QED BY <1>3, <1>11, <1>13, <3>8 DEF IInv, Kept, AppliedOK
  <2>3. CASE to = "suspended"
    BY <1>3, <1>11, <1>13, <2>1, <2>3 DEF IInv, AppliedOK, Kept, Covered, TIMED_STATUSES
  <2> QED BY <1>4, <1>14, <2>2, <2>3
<1>15. CASE to = r.status
  <2>1. sub' = sub /\ lost' = lost
    BY <1>3, <1>5, <1>9, <1>15 DEF Moved
  <2>2. Kept'
    <3> SUFFICES ASSUME lost = "no", sub.status \in TIMED_STATUSES PROVE Covered'
      BY <2>1 DEF Kept, Covered
    <3>1. PICK j \in queued : Covers(j)
      BY DEF IInv, Kept, Covered
    <3>2. Upto(Deadline, Deadline') /\ Deadline \in Time /\ Deadline' \in Time
      BY <1>1, <1>9, <2>1, DeadlineGrows
    <3>3. CASE j # k
      <4>1. j \in queued'
        BY <1>3, <3>1, <3>3
      <4> QED BY <1>1, <1>3, <2>1, <3>1, <3>2, <4>1, CoverKept
    <3>4. CASE j = k
      <4>1. r.status = sub.status /\ (sub.status = "grace_period" => r.graceEnds = sub.graceEnds)
        BY <1>3, <1>8, <3>1, <3>4 DEF Covers, Current
      <4>2. PICK i \in NextPending(r) :
              /\ Unseen(i) /\ Before(now, i)
              /\ i = CASE r.status = "trial" -> r.trialEnds
                       [] r.status = "grace_period" -> r.graceEnds
                       [] r.status = "past_due" -> After(r.updated, PastDueDays)
        BY <1>1, <1>8, <1>15, <4>1, PendingAhead
      <4>3. i \in queued'
        BY <1>7, <1>12, <1>15, <4>2
      <4>4. i \in Time
        BY <4>2 DEF Unseen
      <4>5. Upto(i, Deadline)
        <5>1. CASE r.status = "past_due"
          <6>1. Deadline = After(sub.updated, PastDueDays) /\ i = After(r.updated, PastDueDays)
            BY <4>1, <4>2, <5>1 DEF Deadline
          <6>2. sub.updated \in Time /\ r.updated \in Time
            BY <1>1 DEF Types, RowOK, Row
          <6> QED BY <1>1, <6>1, <6>2 DEF Upto, Before, After, At, Time
        <5>2. CASE r.status # "past_due"
          <6>1. sub.trialEnds = r.trialEnds
            BY <1>1 DEF Types, RowOK, Row
          <6>2. i = Deadline
            BY <4>1, <4>2, <5>2, <6>1 DEF Deadline, TIMED_STATUSES
          <6> QED BY <4>4, <6>2 DEF Upto, Before, Time
        <5> QED BY <5>1, <5>2
      <4>6. Upto(i, Deadline')
        BY <3>2, <4>4, <4>5, UptoTransitive
      <4> QED BY <1>1, <1>3, <4>2, <4>3, <4>6, CoverByUnseen
    <3> QED BY <3>3, <3>4
  <2> QED BY <1>3, <1>11, <1>13, <2>2 DEF IInv, AppliedOK
<1> QED BY <1>14, <1>15

\* What a reconcile that raises may have written.
LEMMA PrefixFacts ==
  ASSUME Types, NEW r, RowOK(r), NEW p \in Prefixes(r)
  PROVE  /\ p[1] \in Row /\ p[1].graceEnds.at <= now.at /\ JobsFit(p[2])
         /\ p[1].status # r.status => p[1].status \in {"past_due", "suspended"}
         /\ p[1].status = r.status => p[1] = r
<1> DEFINE to == ReconciledStatus(r)
<1>1. r \in Row /\ r.graceEnds.at <= now.at
  BY ClockFacts DEF RowOK, Row, Time
<1>2. to \in Statuses /\ (to # r.status => to \in {"past_due", "suspended"})
  BY <1>1, ReconciledTo
<1>3. /\ Reconciled(r) \in Row /\ Reconciled(r).graceEnds.at <= now.at
      /\ Reconciled(r).status = to /\ (to = r.status => Reconciled(r) = r)
  BY <1>2, TransitionRow DEF Reconciled
<1>4. JobsFit({}) /\ JobsFit(ReconcileJobs(r)) /\ TransitionJobs(r, to) \subseteq ReconcileJobs(r)
  BY ReconcileJobsFit DEF JobsFit, ReconcileJobs
<1>5. JobsFit(TransitionJobs(r, to))
  BY <1>4 DEF JobsFit
<1>6. CASE p = <<r, {}>>
  BY <1>1, <1>4, <1>6
<1>7. CASE p = <<[r EXCEPT !.status = to], {}>>
  <2>1. PICK q : q = [r EXCEPT !.status = to]
    OBVIOUS
  <2>2. q \in Row /\ q.status = to /\ q.graceEnds = r.graceEnds /\ (to = r.status => q = r)
    BY <1>1, <1>2, <2>1 DEF Row
  <2>3. p[1] = q /\ p[2] = {}
    BY <1>7, <2>1
  <2> QED BY <1>1, <1>2, <1>4, <2>2, <2>3
<1>8. CASE p \in {Reconciled(r)} \X {{}, TransitionJobs(r, to), ReconcileJobs(r)}
  <2>1. p[1] = Reconciled(r) /\ p[2] \in {{}, TransitionJobs(r, to), ReconcileJobs(r)}
    BY <1>8
  <2> QED BY <1>2, <1>3, <1>4, <1>5, <2>1
<1> QED BY <1>6, <1>7, <1>8 DEF Prefixes

\* A reconcile that raises, and whose job is tried again: the job covers what the
\* partial writes may have made of the row.
LEMMA FailsStep ==
  ASSUME IInv, NEW s \in Sessions, ReconcileFails(s)
  PROVE  IInv'
<1> USE ConstantsAssumption
<1> DEFINE r == tx[s].row
           k == tx[s].job
<1>1. Types /\ RowOK(r) /\ r \in Row
  BY LoadedRow DEF ReconcileFails, IInv, RowOK
<1>2. k \in Time /\ k.day <= now.day /\ k.at < now.at
  BY DEF ReconcileFails, IInv, Types, SessionOK, Idle
<1>3. /\ tx' = [tx EXCEPT ![s] = Idle] /\ now' = At(now.day, now.at + 2) /\ End(s)
      /\ done' = done /\ recorded' = recorded /\ applied' = applied
      /\ tx[s].op = "reconcile" /\ k # NoJob
  BY DEF ReconcileFails, End
<1>4. PICK p \in Prefixes(r) :
        /\ Flush(r, p[1])
        /\ \/ queued' = (queued \cup Enqueued(p[2])) \ {k} /\ lost' = "yes"
           \/ queued' = queued \cup Enqueued(p[2]) /\ lost' = lost
  BY DEF ReconcileFails
<1>5. k \in queued /\ \A o \in Sessions : tx[o].op = "reconcile" /\ tx[o].job = k => o = s
  BY <1>3 DEF IInv, ClaimsOK
<1>6. k = tx[s].job
  OBVIOUS
<1> HIDE DEF r, k
<1>7. /\ p[1] \in Row /\ p[1].graceEnds.at <= now.at /\ JobsFit(p[2])
      /\ p[1].status # r.status => p[1].status \in {"past_due", "suspended"}
      /\ p[1].status = r.status => p[1] = r
  BY <1>1, PrefixFacts
<1>8. PICK n : n = p[1]
  OBVIOUS
<1>9. /\ RowOK(sub)' /\ Upto(sub.updated, sub'.updated)
      /\ n = r => sub' = sub
      /\ n # r => /\ sub'.status = Written(r.status, n.status, sub.status)
                  /\ sub'.updated = Flushed
  BY <1>1, <1>3, <1>4, <1>7, <1>8, FlushRow
<1>10. Types'
  <2>1. queued' \subseteq queued \cup p[2]
    BY <1>4 DEF Enqueued
  <2>2. \A j \in done' \ done : j \in Time /\ j.day <= now.day /\ j.at < now.at
    BY <1>3
  <2>3. JobsOK'
    BY <1>1, <1>3, <1>7, <2>1, <2>2, EnqueueJobs
  <2> QED BY <1>1, <1>3, <1>9, <2>3, CommitTypes
<1>11. ClaimsOK'
  BY <1>1, <1>3, <1>4, <1>6, ClaimEnds DEF IInv
<1>12. Kept'
  <2> SUFFICES ASSUME lost' = "no" PROVE Covered'
    BY DEF Kept
  <2>1. queued' = queued \cup Enqueued(p[2]) /\ lost' = lost
    BY <1>4
  <2>2. CASE n = r
    BY <1>3, <1>9, <2>1, <2>2, UnchangedCovered DEF Kept
  <2>3. CASE n # r
    <3>1. sub'.status \in {"past_due", "suspended"} /\ sub'.updated = Flushed
      BY <1>7, <1>8, <1>9, <2>3 DEF Written
    <3>2. CASE sub'.status = "past_due"
      <4>1. /\ now.day \in Int /\ now.at \in Int
            /\ Flushed \in Time /\ Flushed.day = now.day /\ Flushed.at = now.at + 1
        BY <1>1, ClockFacts
      <4>2. Deadline' = After(Flushed, PastDueDays)
        BY <3>1, <3>2 DEF Deadline
      <4>3. Deadline'.day = now.day + PastDueDays /\ Deadline'.at = now.at + 1
        BY <4>1, <4>2 DEF After, At
      <4>4. Upto(k, Deadline')
        BY <1>2, <4>1, <4>3 DEF Upto, Before, Time
      <4>5. \A o \in Sessions : ~(tx'[o].op = "reconcile" /\ tx'[o].job = k)
        BY <1>1, <1>3, <1>5 DEF Types, Idle
      <4>6. PICK j : j = k
        OBVIOUS
      <4>7. j \in queued' /\ Covers(j)'
        BY <1>5, <2>1, <4>4, <4>5, <4>6 DEF Covers
      <4> QED BY <4>7 DEF Covered
    <3>3. CASE sub'.status = "suspended"
      BY <3>3 DEF Covered, TIMED_STATUSES
    <3> QED BY <3>1, <3>2, <3>3
  <2> QED BY <2>2, <2>3
<1> QED BY <1>3, <1>10, <1>11, <1>12 DEF IInv, AppliedOK

-----------------------------------------------------------------------------
(* The theorems.                                                           *)

\* Every step of the system preserves the invariant.
LEMMA InvStep == IInv /\ [Next]_vars => IInv'
<1> SUFFICES ASSUME IInv, [Next]_vars PROVE IInv'
  OBVIOUS
<1>1. ASSUME NEW s \in Sessions, NEW e \in Events, NEW to \in Statuses, WebhookLoad(s, e, to)
      PROVE  IInv'
  BY <1>1, BeginStep DEF WebhookLoad
<1>2. ASSUME NEW s \in Sessions, NEW to \in Statuses, ManualLoad(s, to) PROVE IInv'
  BY <1>2, BeginStep DEF ManualLoad
<1>3. ASSUME NEW s \in Sessions, NEW plan \in Plans, PlanLoad(s, plan) PROVE IInv'
  BY <1>3, BeginStep DEF PlanLoad
<1>4. ASSUME NEW s \in Sessions, NEW j, ReconcileLoad(s, j) PROVE IInv'
  <2>1. now.day \in Int /\ now.at \in Int /\ now.day >= 0 /\ now.at > 0
    BY ClockFacts DEF IInv
  <2>2. CASE j = NoJob
    <3>1. j \in Time /\ j.day <= now.day /\ j.at < now.at
      BY <2>1, <2>2 DEF NoJob, At, Time
    <3> QED BY <1>4, <3>1, BeginStep DEF ReconcileLoad
  <2>3. CASE j \in queued /\ ~Before(now, j)
    <3>1. j \in Time /\ j.day <= now.day /\ j.at < now.at
      BY <2>1, <2>3 DEF IInv, Types, JobsOK, Before, Time
    <3> QED BY <1>4, <3>1, BeginStep DEF ReconcileLoad
  <2> QED BY <1>4, <2>2, <2>3 DEF ReconcileLoad
<1>5. CASE UNCHANGED vars
  <2>1. Deadline' = Deadline
    BY <1>5 DEF vars, Deadline
  <2> QED BY <1>5, <2>1 DEF vars, IInv, Types, RowOK, SessionOK, JobsOK, Covered, Covers,
                            Current, ClaimsOK, Kept, AppliedOK
<1> QED BY <1>1, <1>2, <1>3, <1>4, <1>5, WebhookStep, ManualStep, PlanStep, ReconcileStep,
           FailsStep, AbortStep, TickStep DEF Next

\* The invariant holds in every reachable state, for any number of sessions, events and
\* plans and for periods of any length.
THEOREM Invariance == Spec => []IInv
BY InitInv, InvStep, PTL DEF Spec

\* A trial, a grace period or a past-due period never slips through: a reconcile job is
\* queued that is due no later than it ends (_schedule_next_pending, reconcile_subscription),
\* unless a job was dead-lettered since the status moved (queue.fail).
THEOREM DeadlinesAreCovered == Spec => []DeadlineCovered
<1>1. IInv => DeadlineCovered
  BY DEF IInv, Kept, Covered, Covers, Upto, DeadlineCovered
<1> QED BY <1>1, Invariance, PTL

\* A provider event moves the subscription at most once (process_webhook).
THEOREM EventsApplyOnce == Spec => []EventAppliedOnce
<1>1. IInv => EventAppliedOnce
  BY DEF IInv, AppliedOK, EventAppliedOnce
<1> QED BY <1>1, Invariance, PTL

=============================================================================
