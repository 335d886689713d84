------------------------------ MODULE UsageProofs ------------------------------
(***************************************************************************)
(* Proofs about UsageHistory: an open store has every table, a prune       *)
(* spares active runs, and the history mirrors the records; and about      *)
(* UsageCollect: a disabled integration keeps nothing it collected, and    *)
(* orderly collections count every event once.                             *)
(*                                                                         *)
(* UsageHistory.  Opening: whoever migrates has seen a version below the   *)
(* last, and the version never goes back.  Every run by itself: while its  *)
(* mirror writes neither failed nor crossed, what is still to be mirrored  *)
(* is what the record says (MirrorOK); nobody is past the first write of   *)
(* a run that has no record, unless it was removed early (GoneOK); and an  *)
(* active run on the list of a prune was restarted beside it, or its row   *)
(* was wrong (ListedOK).                                                   *)
(*                                                                         *)
(* UsageCollect.  CollectInv: commands one after the other, a collection   *)
(* works on an enabled integration, and a disable has deleted what was     *)
(* collected before it writes the setting.  CountInv: the cursor stands    *)
(* behind some event k, the Codex total is the one of the first k events,  *)
(* and the rows recorded, followed by those the command under way has      *)
(* still to record, hold no event twice and no more than the first k       *)
(* events are worth, and all of it unless lines or rows share a time; of a *)
(* database that is read as a whole they hold every event under its id.    *)
(* It rests on the layout of a JSONL source (line k ends at End(k),        *)
(* whatever was half written) and on what the recursive functions of the   *)
(* model compute, proved by induction over the numbers of a set.           *)
(***************************************************************************)
EXTENDS UsageHistory, UsageCollect, FiniteSetTheorems, WellFoundedInduction, SequenceTheorems, TLAPS

States == {"none", "active", "ended"}

\* A process that writes run records, and one that removes runs.
RecordWriter == [pc: {"idle", "write", "sync", "spawn", "front", "boot", "work", "usage"},
                 run: Runs \cup {0}, state: States, next: {"idle", "spawn", "front", "work", "usage"}]
RunRemover == [pc: {"idle", "open", "migrate", "ready", "remove", "rows"},
               kind: {"none", "prune", "remove"}, seen: Nat, ids: SUBSET Runs, half: SUBSET Runs]

\* The values of the variables the arguments look at.
Types ==
  /\ record \in [Runs -> States] /\ row \in [Runs -> States] /\ tokens \in [Runs -> Nat]
  /\ schema \in 0..Migrations
  /\ writer \in [Writers -> RecordWriter] /\ proc \in [Procs -> RunRemover]

\* Whoever is at work is at work on a run, and no writer writes a record away.
WriterOK(w) ==
  /\ w.pc # "idle" => w.run \in Runs
  /\ w.pc \in {"write", "sync"} => w.state \in {"active", "ended"}

\* What a process knows of the store it opened, and when a removal is half done.
OpenedOK(p) ==
  /\ p.pc = "migrate" => p.seen < Migrations
  /\ p.pc = "ready" => schema = Migrations
  /\ p.kind = "prune" /\ p.pc \in {"remove", "rows"} => schema = Migrations
  /\ p.pc # "rows" => p.half = {}

\* A run whose mirror writes neither failed nor crossed: what is still to be mirrored is what
\* the record says, and what was mirrored too; usage of a run that is gone is about to be deleted.
MirrorOK(r) ==
  r \notin torn =>
    /\ Unmirrored(r) \subseteq {record[r]}
    /\ Unmirrored(r) = {} => row[r] = record[r]
    /\ record[r] = "none" /\ r \notin early =>
         tokens[r] = 0 \/ ("none" \in Unmirrored(r) /\ row[r] # "none")

\* Nobody is past the first write of a run that has no record, unless it was removed early.
GoneOK(r) ==
  record[r] = "none" /\ r \notin early =>
    \A i \in Writers : writer[i].pc \in {"idle", "write"} \/ writer[i].run # r

\* An active run on a list was noticed, or its row was wrong.
ListedOK(r) ==
  record[r] = "active" /\ (\E c \in Procs : r \in proc[c].ids) => r \in raced \cup torn

IInv ==
  /\ Types
  /\ \A i \in Writers : WriterOK(writer[i])
  /\ \A c \in Procs : OpenedOK(proc[c])
  /\ \A r \in Runs : MirrorOK(r) /\ GoneOK(r) /\ ListedOK(r)
  /\ PruneSparesActive

\* Who has something to mirror.
LEMMA UnmirroredIs ==
  ASSUME NEW r
  PROVE  \A x : x \in Unmirrored(r) <=>
                  \/ \E i \in Writers : writer[i].pc = "sync" /\ writer[i].run = r /\ x = writer[i].state
                  \/ x = "none" /\ \E c \in Procs : r \in proc[c].half
BY DEF Unmirrored

\* The same of the next state.
LEMMA UnmirroredWillBe ==
  ASSUME NEW r
  PROVE  \A x : x \in Unmirrored(r)' <=>
                  \/ \E i \in Writers : writer'[i].pc = "sync" /\ writer'[i].run = r /\ x = writer'[i].state
                  \/ x = "none" /\ \E c \in Procs : r \in proc'[c].half
BY DEF Unmirrored

\* The invariant holds on a fresh installation.
LEMMA InitInv == Init => IInv
<1> SUFFICES ASSUME Init PROVE IInv
  OBVIOUS
<1>1. Idle \in RunRemover /\ Idle.pc = "idle" /\ Idle.ids = {} /\ Idle.half = {} /\ Idle.kind = "none"
  BY DEF Idle, RunRemover
<1>2. NoWriter \in RecordWriter /\ NoWriter.pc = "idle"
  BY DEF NoWriter, RecordWriter, States
<1>3. Types
  BY <1>1, <1>2 DEF Init, Types, States, Migrations
<1>4. (\A i \in Writers : WriterOK(writer[i])) /\ (\A c \in Procs : OpenedOK(proc[c])) /\ PruneSparesActive
  BY <1>1, <1>2 DEF Init, WriterOK, OpenedOK, PruneSparesActive
<1>5. ASSUME NEW r \in Runs PROVE MirrorOK(r) /\ GoneOK(r) /\ ListedOK(r)
  <2>1. \A x : x \notin Unmirrored(r)
    BY <1>1, <1>2, UnmirroredIs DEF Init
  <2>2. record[r] = "none" /\ row[r] = "none" /\ tokens[r] = 0
    BY DEF Init
  <2> QED BY <1>1, <1>2, <2>1, <2>2 DEF Init, MirrorOK, GoneOK, ListedOK
<1> QED BY <1>3, <1>4, <1>5 DEF IInv

\* The runs nothing happens to stay as they were.
LEMMA RunKept ==
  ASSUME NEW r \in Runs, MirrorOK(r), ListedOK(r),
         record'[r] = record[r], row'[r] = row[r], tokens'[r] = tokens[r],
         Unmirrored(r)' = Unmirrored(r),
         \A c \in Procs : r \in proc'[c].ids => r \in raced' \/ \E d \in Procs : r \in proc[d].ids,
         r \in torn => r \in torn', r \in early => r \in early', r \in raced => r \in raced'
  PROVE  MirrorOK(r)' /\ ListedOK(r)'
<1>1. MirrorOK(r)'
  BY DEF MirrorOK
<1>2. ListedOK(r)'
  BY DEF ListedOK
<1> QED BY <1>1, <1>2

\* A writer at work on a run goes on with it, or decides what to write.
Follows(w) ==
  \/ w.pc \in {"idle", "write"}
  \/ \E k \in Writers : writer[k].pc \notin {"idle", "write"} /\ writer[k].run = w.run

\* Nobody gets past the first write of a run that is gone.
LEMMA GoneKept ==
  ASSUME NEW r \in Runs, GoneOK(r), record'[r] = "none" => record[r] = "none",
         r \in early => r \in early',
         \A j \in Writers : writer'[j] = writer[j] \/ Follows(writer'[j])
  PROVE  GoneOK(r)'
BY DEF GoneOK, Follows

\* Writers that neither write nor mirror.
LEMMA WritersMove ==
  ASSUME IInv, writer' \in [Writers -> RecordWriter], \A j \in Writers : WriterOK(writer'[j]),
         \A j \in Writers : \/ writer'[j] = writer[j]
                            \/ writer[j].pc # "sync" /\ writer'[j].pc # "sync" /\ Follows(writer'[j]),
         UNCHANGED <<record, row, tokens, schema, proc, lost, raced, torn, early>>
  PROVE  IInv'
<1>1. Types'
  BY DEF IInv, Types
<1>2. (\A i \in Writers : WriterOK(writer[i])') /\ PruneSparesActive'
  BY DEF IInv, WriterOK, PruneSparesActive
<1>3. \A c \in Procs : OpenedOK(proc[c])'
  BY DEF IInv, OpenedOK
<1>4. ASSUME NEW r \in Runs PROVE MirrorOK(r)' /\ GoneOK(r)' /\ ListedOK(r)'
  <2>1. Unmirrored(r)' = Unmirrored(r)
    <3>1. ASSUME NEW j \in Writers
          PROVE  writer'[j].pc = "sync" \/ writer[j].pc = "sync" => writer'[j] = writer[j]
      OBVIOUS
    <3>2. \A x : x \in Unmirrored(r)' <=> x \in Unmirrored(r)
      BY <3>1, UnmirroredIs, UnmirroredWillBe
    <3> QED BY <3>2
  <2>2. MirrorOK(r) /\ GoneOK(r) /\ ListedOK(r)
    BY DEF IInv
  <2>3. MirrorOK(r)' /\ ListedOK(r)'
    BY <2>1, <2>2, RunKept
  <2>4. GoneOK(r)'
    BY <2>2, GoneKept
  <2> QED BY <2>3, <2>4
<1> QED BY <1>1, <1>2, <1>3, <1>4 DEF IInv

\* One writer does.
LEMMA WriterMoves ==
  ASSUME IInv, NEW i \in Writers, NEW w \in RecordWriter, writer' = [writer EXCEPT ![i] = w], WriterOK(w),
         writer[i].pc # "sync", w.pc # "sync", Follows(w),
         UNCHANGED <<record, row, tokens, schema, proc, lost, raced, torn, early>>
  PROVE  IInv'
<1>1. writer \in [Writers -> RecordWriter] /\ \A j \in Writers : WriterOK(writer[j])
  BY DEF IInv, Types
<1>2. /\ writer' \in [Writers -> RecordWriter] /\ writer'[i] = w
      /\ \A j \in Writers : j # i => writer'[j] = writer[j]
  BY <1>1
<1> QED BY <1>1, <1>2, WritersMove


\* An idle slot.
LEMMA NoWriterOK == NoWriter \in RecordWriter /\ WriterOK(NoWriter) /\ NoWriter.pc = "idle" /\ NoWriter.next = "idle"
BY DEF NoWriter, RecordWriter, WriterOK, States

\* A process has decided what it writes.
LEMMA DecisionKept ==
  ASSUME IInv, NEW i \in Writers, NEW r \in Runs, NEW state, NEW next,
         state = "active" \/ state = "ended", next \in {"idle", "spawn", "front", "work", "usage"},
         WillWrite(i, r, state, next), writer[i].pc # "sync",
         UNCHANGED <<record, row, tokens, schema, proc, lost, raced, torn, early>>
  PROVE  IInv'
<1>1. PICK w \in RecordWriter : w = [pc |-> "write", run |-> r, state |-> state, next |-> next]
  BY DEF RecordWriter, States
<1>2. w.pc = "write" /\ w.run = r /\ w.state = state
  BY <1>1
<1>3. WriterOK(w) /\ Follows(w) /\ w.pc # "sync"
  BY <1>2 DEF WriterOK, Follows
<1>4. writer' = [writer EXCEPT ![i] = w]
  BY <1>1 DEF WillWrite
<1> QED BY <1>3, <1>4, WriterMoves

\* run, restart, the worker and the settlers decide.
LEMMA StepDecides ==
  ASSUME IInv, NEW i \in Writers,
         \/ WorkerWrites(i) \/ WriterEnds(i)
         \/ \E r \in Runs : Start(i, r) \/ Restart(i, r) \/ Settle(i, r)
  PROVE  IInv'
<1>1. Types /\ WriterOK(writer[i])
  BY DEF IInv
<1>2. ASSUME NEW r \in Runs, Start(i, r) PROVE IInv'
  <2>1. /\ writer[i].pc # "sync" /\ UNCHANGED <<record, row, tokens, schema, proc, lost, raced, torn, early>>
        /\ \E next \in {"spawn", "front"} : WillWrite(i, r, "active", next)
    BY <1>2 DEF Start, db, ghosts
  <2> QED BY <2>1, DecisionKept
<1>3. ASSUME NEW r \in Runs, Restart(i, r) PROVE IInv'
  <2>1. /\ writer[i].pc # "sync" /\ UNCHANGED <<record, row, tokens, schema, proc, lost, raced, torn, early>>
        /\ WillWrite(i, r, "active", "spawn")
    BY <1>3 DEF Restart, db, ghosts
  <2> QED BY <2>1, DecisionKept
<1>4. ASSUME NEW r \in Runs, Settle(i, r) PROVE IInv'
  <2>1. /\ writer[i].pc # "sync" /\ UNCHANGED <<record, row, tokens, schema, proc, lost, raced, torn, early>>
        /\ \E state \in {"active", "ended"} : WillWrite(i, r, state, "idle")
    BY <1>4 DEF Settle, db, ghosts
  <2> QED BY <2>1, DecisionKept
<1>5. CASE WorkerWrites(i)
  <2>1. /\ writer[i].pc = "work" /\ UNCHANGED <<record, row, tokens, schema, proc, lost, raced, torn, early>>
        /\ WillWrite(i, writer[i].run, IF record[writer[i].run] = "none" THEN "active" ELSE record[writer[i].run], "work")
    BY <1>5 DEF WorkerWrites, db, ghosts
  <2>2. PICK r \in Runs : r = writer[i].run
    BY <1>1, <2>1 DEF WriterOK
  <2>3. PICK state : state = IF record[r] = "none" THEN "active" ELSE record[r]
    OBVIOUS
  <2>4. (state = "active" \/ state = "ended") /\ WillWrite(i, r, state, "work")
    BY <1>1, <2>1, <2>2, <2>3 DEF Types, States
  <2> QED BY <2>1, <2>4, DecisionKept
<1>6. CASE WriterEnds(i)
  <2>1. /\ writer[i].pc \in {"work", "front"}
        /\ UNCHANGED <<record, row, tokens, schema, proc, lost, raced, torn, early>>
        /\ \E next \in {"usage", "idle"} : WillWrite(i, writer[i].run, "ended", next)
    BY <1>6 DEF WriterEnds, db, ghosts
  <2>2. PICK r \in Runs : r = writer[i].run
    BY <1>1, <2>1 DEF WriterOK
  <2>3. PICK next \in {"usage", "idle"} : WillWrite(i, r, "ended", next)
    BY <2>1, <2>2
  <2> QED BY <2>1, <2>3, DecisionKept
<1> QED BY <1>2, <1>3, <1>4, <1>5, <1>6

\* A writer is over.
LEMMA WriterOver ==
  ASSUME IInv, NEW i \in Writers, writer[i].pc # "sync", writer' = [writer EXCEPT ![i] = NoWriter],
         UNCHANGED <<record, row, tokens, schema, proc, lost, raced, torn, early>>
  PROVE  IInv'
<1>1. Follows(NoWriter) /\ NoWriter.pc # "sync"
  BY NoWriterOK DEF Follows
<1> QED BY <1>1, NoWriterOK, WriterMoves

\* The worker reads the record.
LEMMA StepBoot ==
  ASSUME IInv, NEW i \in Writers, Boot(i)
  PROVE  IInv'
<1>1. /\ writer[i].pc = "boot" /\ UNCHANGED <<record, row, tokens, schema, proc, lost, raced, torn, early>>
      /\ \/ writer' = [writer EXCEPT ![i] = NoWriter]
         \/ WillWrite(i, writer[i].run, "active", "work")
  BY DEF Boot, db, ghosts
<1>2. PICK r \in Runs : r = writer[i].run
  BY <1>1 DEF IInv, WriterOK
<1>3. CASE writer' = [writer EXCEPT ![i] = NoWriter]
  BY <1>1, <1>3, WriterOver
<1>4. CASE WillWrite(i, r, "active", "work")
  BY <1>1, <1>4, DecisionKept
<1> QED BY <1>1, <1>2, <1>3, <1>4

\* A slot at a step of a run.
LEMMA AtOK ==
  ASSUME NEW pc, pc \in {"spawn", "front", "boot", "work", "usage"}, NEW r \in Runs
  PROVE  At(pc, r) \in RecordWriter /\ WriterOK(At(pc, r)) /\ At(pc, r).pc = pc /\ At(pc, r).run = r
         /\ At(pc, r).next = "idle"
BY DEF At, NoWriter, RecordWriter, WriterOK, States

\* The starter spawns the worker, for the run it has written.
LEMMA StepSpawn ==
  ASSUME IInv, NEW i \in Writers, Spawn(i)
  PROVE  IInv'
<1>1. /\ writer[i].pc = "spawn" /\ UNCHANGED <<record, row, tokens, schema, proc, lost, raced, torn, early>>
  BY DEF Spawn, db, ghosts
<1>2. PICK r \in Runs : r = writer[i].run
  BY <1>1 DEF IInv, WriterOK
<1>3. PICK v \in RecordWriter : v = [writer[i] EXCEPT !.pc = "write", !.state = "active"]
  BY DEF IInv, Types, RecordWriter, States
<1>4. v.pc = "write" /\ v.run = r /\ v.state = "active"
  BY <1>2, <1>3 DEF IInv, Types, RecordWriter
<1>5. PICK j \in Writers : writer[j].pc = "idle" /\ writer' = [writer EXCEPT ![i] = v, ![j] = At("boot", r)]
  BY <1>2, <1>3 DEF Spawn, IInv, Types
<1>6. PICK b \in RecordWriter : b = At("boot", r) /\ WriterOK(b) /\ b.pc = "boot" /\ b.run = r
  BY AtOK
<1>7. j # i
  BY <1>1, <1>5
<1>8. /\ writer' \in [Writers -> RecordWriter] /\ writer'[i] = v /\ writer'[j] = b
      /\ \A k \in Writers : k # i /\ k # j => writer'[k] = writer[k]
  BY <1>5, <1>6, <1>7 DEF IInv, Types
<1>9. WriterOK(v) /\ Follows(v) /\ Follows(b)
  BY <1>1, <1>2, <1>4, <1>6 DEF WriterOK, Follows
<1>10. \A k \in Writers : WriterOK(writer'[k])
  BY <1>6, <1>8, <1>9 DEF IInv
<1>11. \A k \in Writers : \/ writer'[k] = writer[k]
                          \/ writer[k].pc # "sync" /\ writer'[k].pc # "sync" /\ Follows(writer'[k])
  BY <1>1, <1>4, <1>5, <1>6, <1>8, <1>9
<1> QED BY <1>1, <1>8, <1>10, <1>11, WritersMove

\* The version of the store only grows.
LEMMA StoresKept ==
  ASSUME IInv, schema' \in 0..Migrations, schema' >= schema, NEW p, OpenedOK(p)
  PROVE  OpenedOK(p)'
BY DEF IInv, Types, OpenedOK, Migrations

\* Usage is recorded: of a run that is gone only if it was removed early.
LEMMA StepRecordUsage ==
  ASSUME IInv, NEW i \in Writers, RecordUsage(i)
  PROVE  IInv'
<1>1. /\ writer[i].pc = "usage" /\ writer' = [writer EXCEPT ![i] = NoWriter] /\ schema' = Migrations
      /\ UNCHANGED <<record, row, proc, lost, raced, torn, early>>
      /\ \E n \in 0..1 : InsertSamples(writer[i].run, n)
  BY DEF RecordUsage, Opened, ghosts
<1>2. PICK r \in Runs : r = writer[i].run
  BY <1>1 DEF IInv, WriterOK
<1>3. Types /\ tokens' \in [Runs -> Nat] /\ \A s \in Runs : s # r => tokens'[s] = tokens[s]
  BY <1>1, <1>2 DEF IInv, Types, InsertSamples
<1>4. /\ writer' \in [Writers -> RecordWriter] /\ writer'[i] = NoWriter
      /\ \A j \in Writers : j # i => writer'[j] = writer[j]
  BY <1>1, <1>3, NoWriterOK DEF Types
<1>5. Types'
  BY <1>1, <1>3, <1>4 DEF Types, Migrations
<1>6. (\A j \in Writers : WriterOK(writer[j])') /\ PruneSparesActive'
  BY <1>1, <1>4, NoWriterOK DEF IInv, WriterOK, PruneSparesActive
<1>7. \A c \in Procs : OpenedOK(proc[c])'
  BY <1>1 DEF IInv, OpenedOK
<1>8. ASSUME NEW s \in Runs PROVE MirrorOK(s)' /\ GoneOK(s)' /\ ListedOK(s)'
  <2>1. MirrorOK(s) /\ GoneOK(s) /\ ListedOK(s)
    BY DEF IInv
  <2>2. Unmirrored(s)' = Unmirrored(s)
    <3>1. \A x : x \in Unmirrored(s)' <=> x \in Unmirrored(s)
      BY <1>1, <1>4, NoWriterOK, UnmirroredIs, UnmirroredWillBe
    <3> QED BY <3>1
  <2>3. GoneOK(s)'
    <3>1. \A j \in Writers : writer'[j] = writer[j] \/ Follows(writer'[j])
      BY <1>4, NoWriterOK DEF Follows
    <3> QED BY <1>1, <2>1, <3>1, GoneKept
  <2>4. CASE s # r
    BY <1>1, <1>3, <2>1, <2>2, <2>3, <2>4, RunKept
  <2>5. CASE s = r
    <3>1. record[r] = "none" => r \in early
      BY <1>1, <1>2, <2>1, <2>5 DEF GoneOK
    <3>2. MirrorOK(s)'
      BY <1>1, <2>1, <2>2, <2>5, <3>1 DEF MirrorOK
    <3>3. ListedOK(s)'
      BY <1>1, <2>1 DEF ListedOK
    <3> QED BY <2>3, <3>2, <3>3
  <2> QED BY <2>4, <2>5
<1> QED BY <1>5, <1>6, <1>7, <1>8 DEF IInv


\* The record file is written: the row is behind, or the writes of two processes crossed; an
\* active run on a list is noticed.
LEMMA StepWriteRun ==
  ASSUME IInv, NEW i \in Writers, writeRun(i)
  PROVE  IInv'
<1>1. Types /\ WriterOK(writer[i]) /\ writer[i].pc = "write"
  BY DEF IInv, writeRun
<1>2. PICK r \in Runs : r = writer[i].run
  BY <1>1 DEF WriterOK
<1>3. PICK state \in States : state = writer[i].state /\ state # "none"
  BY <1>1 DEF WriterOK, States
<1>4. /\ record' = [record EXCEPT ![r] = state]
      /\ torn' = IF Unmirrored(r) \subseteq {state} THEN torn ELSE torn \cup {r}
      /\ raced' = IF state = "active" /\ \E c \in Procs : r \in proc[c].ids THEN raced \cup {r} ELSE raced
      /\ writer' = [writer EXCEPT ![i].pc = "sync"]
      /\ UNCHANGED <<row, tokens, schema, proc, lost, early>>
  BY <1>2, <1>3 DEF writeRun, Crosses, ACTIVE, db
<1>5. PICK w \in RecordWriter : w = [writer[i] EXCEPT !.pc = "sync"]
  BY <1>1 DEF Types, RecordWriter
<1>6. w.pc = "sync" /\ w.run = r /\ w.state = state
  BY <1>1, <1>2, <1>3, <1>5 DEF Types, RecordWriter
<1>7. /\ writer' \in [Writers -> RecordWriter] /\ writer'[i] = w
      /\ \A j \in Writers : j # i => writer'[j] = writer[j]
  BY <1>1, <1>4, <1>5 DEF Types
<1>8. Types'
  BY <1>1, <1>4, <1>7 DEF Types
<1>9. record'[r] = state /\ \A s \in Runs : s # r => record'[s] = record[s]
  BY <1>1, <1>4 DEF Types
<1>10. \A j \in Writers : WriterOK(writer[j])'
  <2>1. WriterOK(w)
    BY <1>3, <1>6 DEF WriterOK, States
  <2> QED BY <1>7, <2>1 DEF IInv, WriterOK
<1>11. \A c \in Procs : OpenedOK(proc[c])'
  BY <1>4 DEF IInv, OpenedOK
<1>12. PruneSparesActive'
  BY <1>4 DEF IInv, PruneSparesActive
<1>13. ASSUME NEW s \in Runs PROVE MirrorOK(s)' /\ GoneOK(s)' /\ ListedOK(s)'
  <2>1. MirrorOK(s) /\ GoneOK(s) /\ ListedOK(s)
    BY DEF IInv
  <2>2. CASE s # r
    <3>1. \A x : x \in Unmirrored(s)' <=> x \in Unmirrored(s)
      BY <1>1, <1>2, <1>4, <1>6, <1>7, <2>2, UnmirroredIs, UnmirroredWillBe
    <3>2. GoneOK(s)'
      BY <1>2, <1>4, <1>6, <1>7, <1>9, <2>1, <2>2 DEF GoneOK
    <3>3. Unmirrored(s)' = Unmirrored(s)
      BY <3>1
    <3>4. /\ s \in torn => s \in torn'
          /\ s \in raced => s \in raced'
          /\ s \in early => s \in early'
          /\ row'[s] = row[s] /\ tokens'[s] = tokens[s]
      BY <1>4
    <3>5. MirrorOK(s)' /\ ListedOK(s)'
      BY <1>4, <1>9, <2>1, <2>2, <3>3, <3>4, RunKept
    <3> QED BY <3>2, <3>5
  <2>3. CASE s = r
    <3>1. ASSUME NEW x, x \in Unmirrored(r)', x # state PROVE x \in Unmirrored(r)
      <4>1. \/ \E j \in Writers : writer'[j].pc = "sync" /\ writer'[j].run = r /\ x = writer'[j].state
            \/ x = "none" /\ \E c \in Procs : r \in proc'[c].half
        BY <3>1, UnmirroredWillBe
      <4>2. \/ \E j \in Writers : writer[j].pc = "sync" /\ writer[j].run = r /\ x = writer[j].state
            \/ x = "none" /\ \E c \in Procs : r \in proc[c].half
        BY <1>4, <1>6, <1>7, <3>1, <4>1
      <4> QED BY <4>2, UnmirroredIs
    <3>1a. state \in Unmirrored(r)'
      BY <1>6, <1>7, UnmirroredWillBe
    <3>2. MirrorOK(s)'
      BY <1>3, <1>4, <1>9, <2>3, <3>1, <3>1a DEF MirrorOK
    <3>3. GoneOK(s)'
      BY <1>3, <1>9, <2>3 DEF GoneOK
    <3>4. ListedOK(s)'
      BY <1>4, <1>9, <2>3 DEF ListedOK
    <3> QED BY <3>2, <3>3, <3>4
  <2> QED BY <2>2, <2>3
<1> QED BY <1>8, <1>10, <1>11, <1>12, <1>13 DEF IInv

\* A writer that was to mirror a record does so, or not.
LEMMA WriterMirrors ==
  ASSUME IInv, NEW i \in Writers, NEW w \in RecordWriter, writer' = [writer EXCEPT ![i] = w], WriterOK(w),
         writer[i].pc = "sync", w.pc # "sync", Follows(w),
         UNCHANGED <<record, tokens, proc, lost, raced, early>>,
         schema' \in 0..Migrations, schema' >= schema,
         \/ row' = [row EXCEPT ![writer[i].run] = writer[i].state] /\ torn' = torn
         \/ row' = row /\ torn' = torn \cup {writer[i].run}
  PROVE  IInv'
<1>1. Types /\ WriterOK(writer[i])
  BY DEF IInv
<1>2. PICK r \in Runs : r = writer[i].run
  BY <1>1 DEF WriterOK
<1>3. PICK state \in States : state = writer[i].state /\ state # "none"
  BY <1>1 DEF WriterOK, States
<1>4. /\ writer' \in [Writers -> RecordWriter] /\ writer'[i] = w
      /\ \A j \in Writers : j # i => writer'[j] = writer[j]
  BY <1>1 DEF Types
<1>5. /\ row' \in [Runs -> States] /\ \A s \in Runs : s # r => row'[s] = row[s]
      /\ (row'[r] = state /\ torn' = torn) \/ (row'[r] = row[r] /\ torn' = torn \cup {r})
  BY <1>1, <1>2, <1>3 DEF Types
<1>6. Types'
  BY <1>1, <1>4, <1>5 DEF Types
<1>7. (\A j \in Writers : WriterOK(writer[j])') /\ PruneSparesActive'
  BY <1>4, <1>5 DEF IInv, WriterOK, PruneSparesActive
<1>8. \A c \in Procs : OpenedOK(proc[c])'
  <2>1. ASSUME NEW c \in Procs PROVE OpenedOK(proc[c])'
    <3>1. PICK p : p = proc[c]
      OBVIOUS
    <3>2. OpenedOK(p)
      BY <3>1 DEF IInv
    <3>3. OpenedOK(p)'
      BY <3>2, StoresKept
    <3> QED BY <3>1, <3>3 DEF OpenedOK
  <2> QED BY <2>1
<1>9. ASSUME NEW s \in Runs PROVE MirrorOK(s)' /\ GoneOK(s)' /\ ListedOK(s)'
  <2>1. MirrorOK(s) /\ GoneOK(s) /\ ListedOK(s)
    BY DEF IInv
  <2>2. GoneOK(s)'
    <3>1. \A j \in Writers : writer'[j] = writer[j] \/ Follows(writer'[j])
      BY <1>4
    <3> QED BY <2>1, <3>1, GoneKept
  <2>3. CASE s # r
    <3>1. \A x : x \in Unmirrored(s)' <=> x \in Unmirrored(s)
      BY <1>2, <1>4, <2>3, UnmirroredIs, UnmirroredWillBe
    <3>2. Unmirrored(s)' = Unmirrored(s)
      BY <3>1
    <3>3. s \in torn => s \in torn'
      BY <1>5
    <3>4. MirrorOK(s)' /\ ListedOK(s)'
      BY <1>5, <2>1, <2>3, <3>2, <3>3, RunKept
    <3> QED BY <2>2, <3>4
  <2>4. CASE s = r
    <3>1. state \in Unmirrored(r) /\ \A x : x \in Unmirrored(r)' => x \in Unmirrored(r)
      BY <1>2, <1>3, <1>4, UnmirroredIs, UnmirroredWillBe
    <3>2. MirrorOK(s)'
      <4>1. CASE r \in torn'
        BY <2>4, <4>1 DEF MirrorOK
      <4>2. CASE r \notin torn'
        <5>1. r \notin torn /\ row'[r] = state
          BY <1>5, <4>2
        <5>2. record[r] = state /\ Unmirrored(r) \subseteq {state}
          BY <2>1, <2>4, <3>1, <5>1 DEF MirrorOK
        <5> QED BY <1>3, <2>4, <3>1, <5>1, <5>2 DEF MirrorOK
      <4> QED BY <4>1, <4>2
    <3>3. ListedOK(s)'
      BY <1>5, <2>1 DEF ListedOK
    <3> QED BY <2>2, <3>2, <3>3
  <2> QED BY <2>3, <2>4
<1> QED BY <1>6, <1>7, <1>8, <1>9 DEF IInv

\* The row is written, or the error swallowed.
LEMMA StepSyncRun ==
  ASSUME IInv, NEW i \in Writers, syncRunToUsage(i)
  PROVE  IInv'
<1>1. /\ writer[i].pc = "sync" /\ GoesOn(i) /\ UNCHANGED <<record, tokens, proc, lost, raced, early>>
      /\ \/ Opened /\ syncRun(writer[i].run, writer[i].state) /\ UNCHANGED torn
         \/ torn' = torn \cup {writer[i].run} /\ UNCHANGED <<row, schema>>
  BY DEF syncRunToUsage
<1>2. Types
  BY DEF IInv
<1>3. schema' \in 0..Migrations /\ schema' >= schema
  BY <1>1, <1>2 DEF Types, Opened, Migrations
<1>4. PICK r \in Runs : r = writer[i].run
  BY <1>1 DEF IInv, WriterOK
<1>5. PICK next \in {"idle", "spawn", "front", "work", "usage"} : next = writer[i].next
  BY <1>2 DEF Types, RecordWriter
<1>6. PICK w \in RecordWriter : w = (IF next = "idle" THEN NoWriter ELSE At(next, r)) /\ WriterOK(w)
                                /\ w.pc # "sync" /\ (w.pc = "idle" \/ w.run = r)
  <2>1. CASE next = "idle"
    BY <2>1, NoWriterOK
  <2>2. CASE next # "idle"
    BY <2>2, AtOK
  <2> QED BY <2>1, <2>2
<1>7. writer' = [writer EXCEPT ![i] = w]
  BY <1>1, <1>4, <1>5, <1>6 DEF GoesOn
<1>8. Follows(w)
  BY <1>1, <1>4, <1>6 DEF Follows
<1>9. \/ row' = [row EXCEPT ![writer[i].run] = writer[i].state] /\ torn' = torn
      \/ row' = row /\ torn' = torn \cup {writer[i].run}
  BY <1>1 DEF syncRun
<1> QED BY <1>1, <1>3, <1>6, <1>7, <1>8, <1>9, WriterMirrors

\* A writer is killed.
LEMMA StepWriterKilled ==
  ASSUME IInv, NEW i \in Writers, WriterKilled(i)
  PROVE  IInv'
<1>1. /\ writer' = [writer EXCEPT ![i] = NoWriter] /\ UNCHANGED <<record, row, tokens, schema, proc, lost, raced, early>>
      /\ torn' = IF writer[i].pc = "sync" THEN torn \cup {writer[i].run} ELSE torn
  BY DEF WriterKilled, db
<1>2. Follows(NoWriter) /\ NoWriter.pc # "sync"
  BY NoWriterOK DEF Follows
<1>3. schema' \in 0..Migrations /\ schema' >= schema
  BY <1>1 DEF IInv, Types, Migrations
<1>4. CASE writer[i].pc = "sync"
  BY <1>1, <1>2, <1>3, <1>4, NoWriterOK, WriterMirrors
<1>5. CASE writer[i].pc # "sync"
  BY <1>1, <1>5, WriterOver
<1> QED BY <1>4, <1>5


\* A process goes on, or is over; what it lists anew is not active, or noticed.
LEMMA ProcessMoves ==
  ASSUME IInv, NEW c \in Procs, NEW p \in RunRemover, proc' = [proc EXCEPT ![c] = p],
         p.half = proc[c].half, schema' \in 0..Migrations, schema' >= schema, OpenedOK(p)',
         \A r \in p.ids : r \in proc[c].ids \/ record[r] # "active" \/ r \in raced' \cup torn,
         UNCHANGED <<record, row, tokens, writer, lost, torn, early>>, raced \subseteq raced'
  PROVE  IInv'
<1>1. Types
  BY DEF IInv
<1>2. /\ proc' \in [Procs -> RunRemover] /\ proc'[c] = p
      /\ \A d \in Procs : d # c => proc'[d] = proc[d]
  BY <1>1 DEF Types
<1>3. Types'
  BY <1>1, <1>2 DEF Types
<1>4. (\A i \in Writers : WriterOK(writer[i])') /\ PruneSparesActive'
  BY DEF IInv, WriterOK, PruneSparesActive
<1>5. ASSUME NEW d \in Procs PROVE OpenedOK(proc[d])'
  <2>1. PICK q : q = proc[d]
    OBVIOUS
  <2>2. CASE d = c
    BY <1>2, <2>2 DEF OpenedOK
  <2>3. CASE d # c
    <3>1. OpenedOK(q)'
      BY <2>1, StoresKept DEF IInv
    <3> QED BY <1>2, <2>1, <2>3, <3>1 DEF OpenedOK
  <2> QED BY <2>2, <2>3
<1>6. ASSUME NEW r \in Runs PROVE MirrorOK(r)' /\ GoneOK(r)' /\ ListedOK(r)'
  <2>1. MirrorOK(r) /\ GoneOK(r) /\ ListedOK(r)
    BY DEF IInv
  <2>2. Unmirrored(r)' = Unmirrored(r)
    <3>1. \A d \in Procs : r \in proc'[d].half <=> r \in proc[d].half
      BY <1>2
    <3>2. \A x : x \in Unmirrored(r)' <=> x \in Unmirrored(r)
      BY <3>1, UnmirroredIs, UnmirroredWillBe
    <3> QED BY <3>2
  <2>3. MirrorOK(r)'
    BY <2>1, <2>2 DEF MirrorOK
  <2>4. GoneOK(r)'
    BY <2>1 DEF GoneOK
  <2>5. ListedOK(r)'
    BY <1>2, <2>1 DEF ListedOK
  <2> QED BY <2>3, <2>4, <2>5
<1> QED BY <1>3, <1>4, <1>5, <1>6 DEF IInv

\* The fields of an idle slot.
LEMMA IdleOK == /\ Idle \in RunRemover /\ Idle.pc = "idle" /\ Idle.kind = "none" /\ Idle.ids = {} /\ Idle.half = {}
                /\ Idle.seen = 0
BY DEF Idle, RunRemover

\* A process is over.
LEMMA ProcessOver ==
  ASSUME IInv, NEW c \in Procs, proc[c].half = {}, proc' = [proc EXCEPT ![c] = Idle],
         UNCHANGED <<record, row, tokens, schema, writer, lost, torn, early>>, raced \subseteq raced'
  PROVE  IInv'
<1>1. OpenedOK(Idle)'
  BY IdleOK DEF OpenedOK
<1>2. schema' \in 0..Migrations /\ schema' >= schema
  BY DEF IInv, Types, Migrations
<1> QED BY <1>1, <1>2, IdleOK, ProcessMoves

\* prune and remove are asked for: remove reads a record that has ended.
LEMMA StepAsked ==
  ASSUME IInv, NEW c \in Procs, PruneAsked(c) \/ \E r \in Runs : RemoveAsked(c, r)
  PROVE  IInv'
<1>1. schema \in 0..Migrations /\ schema >= schema
  BY DEF IInv, Types, Migrations
<1>2. ASSUME NEW p \in RunRemover, Ask(c, p), p.half = {}, p.pc \in {"open", "remove"}, p.kind # "prune" \/ p.pc = "open",
             \A r \in p.ids : record[r] # "active"
      PROVE  IInv'
  <2>1. /\ proc[c].half = {} /\ proc' = [proc EXCEPT ![c] = p]
        /\ UNCHANGED <<record, row, tokens, schema, writer, lost, raced, torn, early>>
    BY <1>2, IdleOK DEF Ask, db, ghosts
  <2>2. OpenedOK(p)'
    BY <1>2 DEF OpenedOK
  <2> QED BY <1>1, <1>2, <2>1, <2>2, ProcessMoves
<1>3. CASE PruneAsked(c)
  <2>1. PICK p \in RunRemover : p = [Idle EXCEPT !.pc = "open", !.kind = "prune"]
    BY DEF Idle, RunRemover
  <2>2. p.half = {} /\ p.pc = "open" /\ p.ids = {}
    BY <2>1 DEF Idle
  <2> QED BY <1>2, <1>3, <2>1, <2>2 DEF PruneAsked
<1>4. ASSUME NEW r \in Runs, RemoveAsked(c, r) PROVE IInv'
  <2>1. PICK p \in RunRemover : p = [Idle EXCEPT !.pc = "remove", !.kind = "remove", !.ids = {r}]
    BY DEF Idle, RunRemover
  <2>2. p.half = {} /\ p.pc = "remove" /\ p.ids = {r} /\ p.kind = "remove"
    BY <2>1 DEF Idle
  <2> QED BY <1>2, <1>4, <2>1, <2>2 DEF RemoveAsked
<1> QED BY <1>3, <1>4

\* The version is read.
LEMMA StepOpenStore ==
  ASSUME IInv, NEW c \in Procs, OpenStore(c)
  PROVE  IInv'
<1>1. Types /\ proc[c] \in RunRemover /\ proc[c].pc = "open" /\ OpenedOK(proc[c])
  BY DEF IInv, Types, OpenStore
<1>2. PICK pc \in {"migrate", "ready"} : pc = IF schema < Migrations THEN "migrate" ELSE "ready"
  OBVIOUS
<1>3. PICK p \in RunRemover : p = [proc[c] EXCEPT !.seen = schema, !.pc = pc]
  <2>1. schema \in Nat
    BY <1>1 DEF Types, Migrations
  <2> QED BY <1>1, <2>1 DEF RunRemover
<1>4. p.pc = pc /\ p.seen = schema /\ p.ids = proc[c].ids /\ p.half = proc[c].half
  BY <1>1, <1>3 DEF RunRemover
<1>5. proc' = [proc EXCEPT ![c] = p]
  BY <1>1, <1>2, <1>3 DEF OpenStore, Types
<1>6. UNCHANGED <<record, row, tokens, schema, writer, lost, raced, torn, early>>
  BY DEF OpenStore, db, ghosts
<1>7. /\ schema' \in 0..Migrations /\ schema' >= schema
      /\ pc = "migrate" => schema < Migrations
      /\ pc # "migrate" => schema' = Migrations
  BY <1>1, <1>2, <1>6 DEF Types, Migrations
<1>8. OpenedOK(p)'
  <2>1. p.half = {}
    BY <1>1, <1>4 DEF OpenedOK
  <2> QED BY <1>2, <1>4, <1>7, <2>1 DEF OpenedOK
<1> QED BY <1>4, <1>5, <1>6, <1>7, <1>8, ProcessMoves

\* One migration, or the opener fails.
LEMMA StepMigrate ==
  ASSUME IInv, NEW c \in Procs, Migrate(c)
  PROVE  IInv'
<1>1. /\ Types /\ proc[c] \in RunRemover /\ proc[c].pc = "migrate" /\ proc[c].seen < Migrations
      /\ proc[c].half = {}
  BY DEF IInv, Types, Migrate, OpenedOK
<1>2. UNCHANGED <<record, row, tokens, writer, lost, raced, torn, early>>
  BY DEF Migrate, ghosts
<1>3. CASE proc[c].seen = schema
  <2>1. PICK pc \in {"migrate", "ready"} : pc = IF schema + 1 < Migrations THEN "migrate" ELSE "ready"
    OBVIOUS
  <2>2. PICK p \in RunRemover : p = [proc[c] EXCEPT !.seen = schema + 1, !.pc = pc]
    <3>1. schema + 1 \in Nat
      BY <1>1 DEF Types, Migrations
    <3> QED BY <1>1, <3>1 DEF RunRemover
  <2>3. p.pc = pc /\ p.seen = schema + 1 /\ p.ids = proc[c].ids /\ p.half = {}
    BY <1>1, <2>2 DEF RunRemover
  <2>4. proc' = [proc EXCEPT ![c] = p] /\ schema' = schema + 1
    BY <1>1, <1>3, <2>1, <2>2 DEF Migrate, Types
  <2>5. /\ schema' \in 0..Migrations /\ schema' >= schema
        /\ pc = "migrate" => schema + 1 < Migrations
        /\ pc = "ready" => schema' = Migrations
    BY <1>1, <1>3, <2>1, <2>4 DEF Types, Migrations
  <2>6. OpenedOK(p)'
    BY <2>3, <2>5 DEF OpenedOK
  <2> QED BY <1>1, <1>2, <2>3, <2>4, <2>5, <2>6, ProcessMoves
<1>4. CASE proc[c].seen # schema
  <2>1. proc' = [proc EXCEPT ![c] = Idle] /\ UNCHANGED schema
    BY <1>4 DEF Migrate
  <2> QED BY <1>1, <1>2, <2>1, ProcessOver
<1> QED BY <1>3, <1>4

\* The list of a prune: the row of each has ended, so an active one is still to be mirrored.
LEMMA StepPruneList ==
  ASSUME IInv, NEW c \in Procs, NEW keepFlag, NEW daysFlag, PruneList(c, keepFlag, daysFlag)
  PROVE  IInv'
<1>1. Types /\ proc[c].pc = "ready" /\ schema = Migrations /\ proc[c].half = {}
  BY DEF IInv, Types, PruneList, OpenedOK
<1>2. UNCHANGED <<record, row, tokens, schema, writer, lost, torn, early>>
  BY DEF PruneList, db
<1>3. PICK keep, days : \E ids \in pruneCandidates(keep, days) :
        /\ proc' = [proc EXCEPT ![c] = IF ids = {} THEN Idle
                                       ELSE [Idle EXCEPT !.pc = "remove", !.kind = "prune", !.ids = ids]]
        /\ raced' = raced \cup {r \in ids : "active" \in Unmirrored(r)}
  BY DEF PruneList
<1>4. PICK ids \in pruneCandidates(keep, days) :
        /\ proc' = [proc EXCEPT ![c] = IF ids = {} THEN Idle
                                       ELSE [Idle EXCEPT !.pc = "remove", !.kind = "prune", !.ids = ids]]
        /\ raced' = raced \cup {r \in ids : "active" \in Unmirrored(r)}
  BY <1>3
<1>5. ids \subseteq {r \in Runs : row[r] # "none" /\ row[r] # "active"}
  BY <1>4 DEF pruneCandidates, Beyond, ACTIVE
<1>6. raced' = raced \cup {r \in ids : "active" \in Unmirrored(r)} /\ raced \subseteq raced'
  BY <1>4
<1>7. CASE ids = {}
  BY <1>1, <1>2, <1>3, <1>4, <1>6, <1>7, ProcessOver
<1>8. CASE ids # {}
  <2>1. PICK p \in RunRemover : p = [Idle EXCEPT !.pc = "remove", !.kind = "prune", !.ids = ids]
    BY <1>5 DEF Idle, RunRemover
  <2>2. p.pc = "remove" /\ p.ids = ids /\ p.half = {}
    BY <2>1 DEF Idle
  <2>3. proc' = [proc EXCEPT ![c] = p]
    BY <1>3, <1>4, <1>8, <2>1
  <2>4. schema' \in 0..Migrations /\ schema' >= schema /\ OpenedOK(p)'
    BY <1>1, <1>2, <2>2 DEF OpenedOK, Migrations
  <2>5. ASSUME NEW r \in ids, record[r] = "active", r \notin torn PROVE r \in raced'
    <3>1. MirrorOK(r) /\ row[r] # "active"
      BY <1>5 DEF IInv
    <3>2. "active" \in Unmirrored(r)
      BY <2>5, <3>1 DEF MirrorOK
    <3> QED BY <1>6, <3>2
  <2> QED BY <1>1, <1>2, <1>6, <2>2, <2>3, <2>4, <2>5, ProcessMoves
<1> QED BY <1>7, <1>8


\* The record file of a listed run is removed: the row is behind, or the writes of two processes
\* crossed; usage can still come only of a run somebody is at work on.
LEMMA StepRemoveRun ==
  ASSUME IInv, NEW c \in Procs, removeRun(c)
  PROVE  IInv'
<1>1. /\ Types /\ proc[c] \in RunRemover /\ proc[c].pc = "remove" /\ proc[c].half = {}
      /\ OpenedOK(proc[c]) /\ UNCHANGED <<row, tokens, schema, writer, raced>>
  BY DEF IInv, Types, removeRun, OpenedOK, db
<1>2. PICK r \in proc[c].ids :
        /\ record' = [record EXCEPT ![r] = "none"]
        /\ torn' = IF Unmirrored(r) \subseteq {"none"} THEN torn ELSE torn \cup {r}
        /\ lost' = IF record[r] = "active" THEN lost \cup {r} ELSE lost
        /\ early' = IF \E i \in Writers : writer[i].pc # "idle" /\ writer[i].run = r
                    THEN early \cup {r} ELSE early
        /\ proc' = [proc EXCEPT ![c] = [proc[c] EXCEPT !.pc = "rows", !.ids = proc[c].ids \ {r}, !.half = {r}]]
  BY DEF removeRun, Crosses, ACTIVE
<1>3. r \in Runs /\ proc[c].ids \subseteq Runs
  BY <1>1, <1>2 DEF RunRemover
<1>4. PICK p \in RunRemover : p = [proc[c] EXCEPT !.pc = "rows", !.ids = proc[c].ids \ {r}, !.half = {r}]
  BY <1>1, <1>3 DEF RunRemover
<1>5. p.pc = "rows" /\ p.kind = proc[c].kind /\ p.ids = proc[c].ids \ {r} /\ p.half = {r}
  BY <1>1, <1>4 DEF RunRemover
<1>6. /\ proc' \in [Procs -> RunRemover] /\ proc'[c] = p
      /\ \A d \in Procs : d # c => proc'[d] = proc[d]
  BY <1>1, <1>2, <1>4 DEF Types
<1>7. record' \in [Runs -> States] /\ record'[r] = "none" /\ \A s \in Runs : s # r => record'[s] = record[s]
  BY <1>1, <1>2, <1>3 DEF Types, States
<1>8. Types'
  BY <1>1, <1>6, <1>7 DEF Types
<1>9. \A i \in Writers : WriterOK(writer[i])'
  BY <1>1 DEF IInv, WriterOK
<1>10. \A d \in Procs : OpenedOK(proc[d])'
  BY <1>1, <1>5, <1>6 DEF IInv, OpenedOK
<1>11. torn \subseteq torn' /\ early \subseteq early'
  BY <1>2
<1>12. PruneSparesActive'
  <2>1. record[r] = "active" => r \in raced \cup torn
    BY <1>2, <1>3 DEF IInv, ListedOK
  <2> QED BY <1>1, <1>2, <1>11, <2>1 DEF IInv, PruneSparesActive
<1>13. ASSUME NEW s \in Runs PROVE MirrorOK(s)' /\ GoneOK(s)' /\ ListedOK(s)'
  <2>1. MirrorOK(s) /\ GoneOK(s) /\ ListedOK(s)
    BY DEF IInv
  <2>2. CASE s # r
    <3>1. \A d \in Procs : s \in proc'[d].half <=> s \in proc[d].half
      BY <1>1, <1>5, <1>6, <2>2
    <3>2. \A x : x \in Unmirrored(s)' <=> x \in Unmirrored(s)
      BY <1>1, <3>1, UnmirroredIs, UnmirroredWillBe
    <3>3. Unmirrored(s)' = Unmirrored(s)
      BY <3>2
    <3>4. \A d \in Procs : s \in proc'[d].ids => s \in raced' \/ \E e \in Procs : s \in proc[e].ids
      BY <1>5, <1>6
    <3>5. MirrorOK(s)' /\ ListedOK(s)'
      BY <1>1, <1>7, <1>11, <2>1, <2>2, <3>3, <3>4, RunKept
    <3>6. GoneOK(s)'
      BY <1>1, <1>7, <1>11, <2>1, <2>2, GoneKept
    <3> QED BY <3>5, <3>6
  <2>3. CASE s = r
    <3>1. "none" \in Unmirrored(r)'
      BY <1>5, <1>6, UnmirroredWillBe
    <3>2. ASSUME NEW x, x \in Unmirrored(r)', x # "none" PROVE x \in Unmirrored(r)
      BY <1>1, <3>2, UnmirroredIs, UnmirroredWillBe
    <3>3. MirrorOK(s)'
      <4>1. CASE r \in torn'
        BY <2>3, <4>1 DEF MirrorOK
      <4>2. CASE r \notin torn'
        <5>1. r \notin torn /\ Unmirrored(r) \subseteq {"none"}
          BY <1>2, <4>2
        <5>2. Unmirrored(r)' \subseteq {"none"}
          BY <3>2, <5>1
        <5>3. r \notin early' => tokens[r] = 0 \/ row[r] # "none"
          <6>1. CASE record[r] = "none"
            BY <1>11, <2>1, <2>3, <5>1, <6>1 DEF MirrorOK
          <6>2. CASE record[r] # "none"
            <7>1. Unmirrored(r) = {}
              BY <2>1, <2>3, <5>1, <6>2 DEF MirrorOK
            <7> QED BY <2>1, <2>3, <5>1, <6>2, <7>1 DEF MirrorOK
          <6> QED BY <6>1, <6>2
        <5> QED BY <1>1, <1>7, <2>3, <3>1, <5>2, <5>3 DEF MirrorOK
      <4> QED BY <4>1, <4>2
    <3>4. GoneOK(s)'
      BY <1>1, <1>2, <2>3 DEF GoneOK
    <3>5. ListedOK(s)'
      BY <1>7, <2>3 DEF ListedOK
    <3> QED BY <3>3, <3>4, <3>5
  <2> QED BY <2>2, <2>3
<1> QED BY <1>8, <1>9, <1>10, <1>12, <1>13 DEF IInv

\* A removal that was half done is completed, or not; the process goes on with its list.
LEMMA RowsFollow ==
  ASSUME IInv, NEW c \in Procs, NEW p \in RunRemover, proc' = [proc EXCEPT ![c] = p], p.half = {},
         p.ids \subseteq proc[c].ids, schema' \in 0..Migrations, schema' >= schema, OpenedOK(p)',
         UNCHANGED <<record, writer, lost, raced, early>>,
         \/ removeRuns(proc[c].half) /\ torn' = torn
         \/ row' = row /\ tokens' = tokens /\ torn' = torn \cup proc[c].half
  PROVE  IInv'
<1>1. Types /\ proc[c] \in RunRemover
  BY DEF IInv, Types
<1>2. /\ proc' \in [Procs -> RunRemover] /\ proc'[c] = p
      /\ \A d \in Procs : d # c => proc'[d] = proc[d]
  BY <1>1 DEF Types
<1>3. /\ row' \in [Runs -> States] /\ tokens' \in [Runs -> Nat] /\ torn \subseteq torn'
      /\ \A s \in Runs : \/ row'[s] = row[s] /\ tokens'[s] = tokens[s]
                            /\ (s \in proc[c].half => s \in torn' \/ row[s] = "none")
                         \/ s \in proc[c].half /\ row'[s] = "none" /\ tokens'[s] = 0
  <2>1. CASE removeRuns(proc[c].half) /\ torn' = torn
    <3>1. row' = [s \in Runs |-> IF s \in proc[c].half /\ row[s] # "none" THEN "none" ELSE row[s]]
      BY <1>1, <2>1 DEF removeRuns, RunRemover
    <3>2. tokens' = [s \in Runs |-> IF s \in proc[c].half /\ row[s] # "none" THEN 0 ELSE tokens[s]]
      BY <1>1, <2>1 DEF removeRuns, RunRemover
    <3> QED BY <1>1, <2>1, <3>1, <3>2 DEF Types, States
  <2>2. CASE row' = row /\ tokens' = tokens /\ torn' = torn \cup proc[c].half
    BY <1>1, <2>2 DEF Types
  <2> QED BY <2>1, <2>2
<1>4. Types'
  BY <1>1, <1>2, <1>3 DEF Types
<1>5. (\A i \in Writers : WriterOK(writer[i])') /\ PruneSparesActive'
  BY <1>3 DEF IInv, WriterOK, PruneSparesActive
<1>6. ASSUME NEW d \in Procs PROVE OpenedOK(proc[d])'
  <2>1. PICK q : q = proc[d]
    OBVIOUS
  <2>2. CASE d = c
    BY <1>2, <2>2 DEF OpenedOK
  <2>3. CASE d # c
    <3>1. OpenedOK(q)'
      BY <2>1, StoresKept DEF IInv
    <3> QED BY <1>2, <2>1, <2>3, <3>1 DEF OpenedOK
  <2> QED BY <2>2, <2>3
<1>7. ASSUME NEW s \in Runs PROVE MirrorOK(s)' /\ GoneOK(s)' /\ ListedOK(s)'
  <2>1. MirrorOK(s) /\ GoneOK(s) /\ ListedOK(s)
    BY DEF IInv
  <2>2. GoneOK(s)'
    BY <2>1 DEF GoneOK
  <2>3. ListedOK(s)'
    BY <1>2, <1>3, <2>1 DEF ListedOK
  <2>4. CASE s \notin proc[c].half
    <3>1. \A d \in Procs : s \in proc'[d].half <=> s \in proc[d].half
      BY <1>2, <2>4
    <3>2. \A x : x \in Unmirrored(s)' <=> x \in Unmirrored(s)
      BY <3>1, UnmirroredIs, UnmirroredWillBe
    <3>3. Unmirrored(s)' = Unmirrored(s)
      BY <3>2
    <3>4. row'[s] = row[s] /\ tokens'[s] = tokens[s]
      BY <1>3, <2>4
    <3>5. MirrorOK(s)'
      BY <1>3, <2>1, <3>3, <3>4 DEF MirrorOK
    <3> QED BY <2>2, <2>3, <3>5
  <2>5. CASE s \in proc[c].half
    <3>1. "none" \in Unmirrored(s)
      BY <2>5, UnmirroredIs
    <3>2. \A x : x \in Unmirrored(s)' => x \in Unmirrored(s)
      BY <1>2, UnmirroredIs, UnmirroredWillBe
    <3>3. MirrorOK(s)'
      <4>1. CASE s \in torn'
        BY <4>1 DEF MirrorOK
      <4>2. CASE s \notin torn'
        <5>1. s \notin torn /\ record[s] = "none" /\ Unmirrored(s)' \subseteq {record[s]}
          BY <1>3, <2>1, <3>1, <3>2, <4>2 DEF MirrorOK
        <5>2. row'[s] = "none" /\ (s \notin early => tokens'[s] = 0)
          BY <1>3, <2>1, <2>5, <4>2, <5>1 DEF MirrorOK
        <5> QED BY <5>1, <5>2 DEF MirrorOK
      <4> QED BY <4>1, <4>2
    <3> QED BY <2>2, <2>3, <3>3
  <2> QED BY <2>4, <2>5
<1> QED BY <1>4, <1>5, <1>6, <1>7 DEF IInv

\* The rows of a removed run go, or the error is swallowed.
LEMMA StepPruneById ==
  ASSUME IInv, NEW c \in Procs, pruneById(c)
  PROVE  IInv'
<1>1. /\ Types /\ proc[c] \in RunRemover /\ proc[c].pc = "rows" /\ OpenedOK(proc[c])
      /\ UNCHANGED <<record, writer, lost, raced, early>>
      /\ \/ Opened /\ removeRuns(proc[c].half) /\ torn' = torn
         \/ row' = row /\ tokens' = tokens /\ schema' = schema /\ torn' = torn \cup proc[c].half
  BY DEF IInv, Types, pruneById
<1>2. schema' \in 0..Migrations /\ schema' >= schema
  BY <1>1 DEF Types, Opened, Migrations
<1>3. proc' = [proc EXCEPT ![c] = IF proc[c].ids = {} THEN Idle ELSE [proc[c] EXCEPT !.pc = "remove", !.half = {}]]
  BY <1>1, Zenon DEF pruneById, Types
<1>4. CASE proc[c].ids = {}
  <2>1. OpenedOK(Idle)' /\ Idle.half = {} /\ Idle.ids \subseteq proc[c].ids /\ Idle \in RunRemover
    BY IdleOK DEF OpenedOK
  <2>2. proc' = [proc EXCEPT ![c] = Idle]
    BY <1>3, <1>4
  <2> QED BY <1>1, <1>2, <2>1, <2>2, RowsFollow
<1>5. CASE proc[c].ids # {}
  <2>1. PICK p \in RunRemover : p = [proc[c] EXCEPT !.pc = "remove", !.half = {}]
    BY <1>1 DEF RunRemover
  <2>2. p.pc = "remove" /\ p.kind = proc[c].kind /\ p.ids = proc[c].ids /\ p.half = {}
    BY <1>1, <2>1 DEF RunRemover
  <2>3. proc' = [proc EXCEPT ![c] = p]
    BY <1>3, <1>5, <2>1
  <2>4. OpenedOK(p)'
    BY <1>1, <1>2, <2>2 DEF OpenedOK, Migrations, Types
  <2> QED BY <1>1, <1>2, <2>2, <2>3, <2>4, RowsFollow
<1> QED BY <1>4, <1>5

\* A process is killed, perhaps with a removal half done.
LEMMA StepKilled ==
  ASSUME IInv, NEW c \in Procs, Killed(c)
  PROVE  IInv'
<1>1. /\ proc' = [proc EXCEPT ![c] = Idle] /\ torn' = torn \cup proc[c].half
      /\ UNCHANGED <<record, row, tokens, schema, writer, lost, raced, early>>
  BY DEF Killed, db
<1>2. schema' \in 0..Migrations /\ schema' >= schema
  BY <1>1 DEF IInv, Types, Migrations
<1>3. OpenedOK(Idle)' /\ Idle.half = {} /\ Idle.ids \subseteq proc[c].ids /\ Idle \in RunRemover
  BY IdleOK DEF OpenedOK
<1> QED BY <1>1, <1>2, <1>3, RowsFollow

\* Settings change nothing the invariant looks at but the version of the store.
LEMMA StepSettings ==
  ASSUME IInv, \E keep \in Keeps, days \in {"no", "yes"} : SaveRetention(keep, days)
  PROVE  IInv'
<1>1. /\ UNCHANGED <<record, row, tokens, writer, proc, lost, raced, torn, early>>
      /\ schema' = schema \/ schema' = Migrations
  BY DEF SaveRetention, Opened, db, ghosts
<1>2. schema' \in 0..Migrations /\ schema' >= schema
  BY <1>1 DEF IInv, Types, Migrations
<1>3. ASSUME NEW c \in Procs PROVE OpenedOK(proc[c])'
  <2>1. PICK q : q = proc[c]
    OBVIOUS
  <2>2. OpenedOK(q)'
    BY <1>2, <2>1, StoresKept DEF IInv
  <2> QED BY <1>1, <2>1, <2>2 DEF OpenedOK
<1>4. Types'
  BY <1>1, <1>2 DEF IInv, Types
<1>5. \A r \in Runs : MirrorOK(r)' /\ GoneOK(r)' /\ ListedOK(r)'
  BY <1>1 DEF IInv, MirrorOK, GoneOK, ListedOK, Unmirrored
<1>6. (\A i \in Writers : WriterOK(writer[i])') /\ PruneSparesActive'
  BY <1>1 DEF IInv, WriterOK, PruneSparesActive
<1> QED BY <1>3, <1>4, <1>5, <1>6 DEF IInv

\* Every step keeps the invariant.
LEMMA InvStep == IInv /\ [Next]_vars => IInv'
<1> SUFFICES ASSUME IInv, [Next]_vars PROVE IInv'
  OBVIOUS
<1>1. CASE UNCHANGED vars
  <2>1. UNCHANGED <<record, row, tokens, schema, writer, proc, lost, raced, torn, early>>
    BY <1>1 DEF vars, db, ghosts
  <2>2. (\A i \in Writers : WriterOK(writer[i])') /\ (\A c \in Procs : OpenedOK(proc[c])')
    BY <2>1 DEF IInv, WriterOK, OpenedOK
  <2>3. \A r \in Runs : MirrorOK(r)' /\ GoneOK(r)' /\ ListedOK(r)'
    BY <2>1 DEF IInv, MirrorOK, GoneOK, ListedOK, Unmirrored
  <2>4. Types' /\ PruneSparesActive'
    BY <2>1 DEF IInv, Types, PruneSparesActive
  <2> QED BY <2>2, <2>3, <2>4 DEF IInv
<1> QED BY <1>1, StepWriteRun, StepSyncRun, StepDecides, StepSpawn, StepBoot, StepRecordUsage,
           StepWriterKilled, StepAsked, StepOpenStore, StepMigrate, StepPruneList, StepRemoveRun,
           StepPruneById, StepKilled, StepSettings
        DEF Next

\* The invariant holds of every behaviour.
THEOREM Invariance == Spec => []IInv
BY InitInv, InvStep, PTL DEF Spec

\* migrate never lets an opener go on with a store whose tables are not all there, however many
\* processes open a fresh database at once.
THEOREM OpenersFindTables == Spec => []StoreReady
<1>1. IInv => StoreReady
  BY DEF IInv, OpenedOK, StoreReady
<1> QED BY <1>1, Invariance, PTL

\* remove, history prune and the daemon's retention lose an active run only by a race that the
\* model names (it became active on their list, or its restart was not mirrored yet) or by a
\* mirror write that failed or crossed another; for any number of runs, processes and commands.
THEOREM PrunesAreSafe == Spec => []PruneSparesActive
<1>1. IInv => PruneSparesActive
  BY DEF IInv
<1> QED BY <1>1, Invariance, PTL

\* However the two writes of each process interleave with those of the others, a run none of
\* whose mirror writes failed or crossed has the row its record says once they are done, and
\* its usage is gone with it unless it was removed while a process was at work on it.
THEOREM HistoryIsMirror == Spec => []HistoryMirrors
<1>1. IInv => HistoryMirrors
  BY DEF IInv, MirrorOK, HistoryMirrors
<1> QED BY <1>1, Invariance, PTL

--------------------------------------------------------------------------------

(***************************************************************************)
(* UsageCollect: what a disabled integration keeps                         *)
(***************************************************************************)

\* A command that reads the source, or records what it read.
Collects(p) == p.pc \in {"stat", "parse", "record"}

\* Nothing that was collected is left.
Forgotten == external = << >> /\ limits # "local"

\* Commands one after the other: a collection works on an enabled integration, a disable that
\* is about to write the setting has deleted what was collected, and so has one that wrote it.
AloneOK ==
  /\ \A c, d \in Slots : command[c] # NoCommand /\ command[d] # NoCommand => c = d
  /\ \A c \in Slots : Collects(command[c]) => settings.enabled # "off"
  /\ \A c \in Slots : command[c].pc = "off" => Forgotten
  /\ settings.enabled = "off" => Forgotten

\* The inductive invariant.
CollectInv ==
  /\ command = [c \in Slots |-> command[c]]
  /\ overlap = "no" => AloneOK

\* An idle slot neither collects nor disables.
LEMMA IdleCommand == NoCommand.pc = "idle" /\ ~ Collects(NoCommand)
BY DEF NoCommand, Collects

\* A command that is under way takes a step: the others are idle, unless commands overlap.
LEMMA CommandMoves ==
  ASSUME CollectInv, NEW c \in Slots, NEW p, command[c] # NoCommand, Becomes(c, p),
         overlap' = overlap,
         overlap = "no" /\ AloneOK =>
           /\ Collects(p) => settings'.enabled # "off"
           /\ p.pc = "off" => Forgotten'
           /\ settings'.enabled = "off" => Forgotten'
  PROVE  CollectInv'
<1>1. /\ command' = [d \in Slots |-> command'[d]]
      /\ command'[c] = p
      /\ \A d \in Slots : d # c => command'[d] = command[d]
  BY DEF CollectInv, Becomes
<1>2. SUFFICES ASSUME overlap = "no" PROVE AloneOK'
  BY <1>1 DEF CollectInv
<1>3. AloneOK
  BY <1>2 DEF CollectInv
<1>4. \A d \in Slots : d # c => command[d] = NoCommand
  BY <1>3 DEF AloneOK
<1>5. \A d \in Slots : d # c => command'[d] = NoCommand
  BY <1>1, <1>4
<1>6. QED
  BY <1>1, <1>2, <1>3, <1>5, IdleCommand DEF AloneOK

\* A command begins: no other is under way, or the overlap is noticed.
LEMMA CommandBegins ==
  ASSUME CollectInv, NEW c \in Slots, NEW pc \in {"stat", "clear"}, Begins(c, pc),
         pc = "stat" => settings'.enabled # "off",
         settings'.enabled = "off" => settings.enabled = "off",
         UNCHANGED <<external, limits>>
  PROVE  CollectInv'
<1> DEFINE p == [NoCommand EXCEPT !.pc = pc]
<1>1. p.pc = pc
  BY DEF NoCommand
<1>2. /\ command' = [d \in Slots |-> command'[d]]
      /\ command'[c] = p
      /\ \A d \in Slots : d # c => command'[d] = command[d]
  BY DEF CollectInv, Becomes, Begins
<1> HIDE DEF p
<1>3. SUFFICES ASSUME overlap' = "no" PROVE AloneOK'
  BY <1>2 DEF CollectInv
<1>4. overlap = "no" /\ Active = {}
  BY <1>3 DEF Begins
<1>5. AloneOK /\ \A d \in Slots : command[d] = NoCommand
  BY <1>4 DEF CollectInv, Active
<1>6. \A d \in Slots : d # c => command'[d] = NoCommand
  BY <1>2, <1>5
<1>7. Forgotten => Forgotten'
  BY DEF Forgotten
<1>8. p.pc # "off" /\ (Collects(p) => settings'.enabled # "off")
  BY <1>1 DEF Collects
<1>9. settings'.enabled = "off" => Forgotten'
  BY <1>5, <1>7 DEF AloneOK
<1>10. QED
  BY <1>2, <1>6, <1>8, <1>9, IdleCommand DEF AloneOK

\* A step beside the commands.
LEMMA CommandsStay ==
  ASSUME CollectInv, UNCHANGED <<command, overlap>>, Forgotten => Forgotten',
         settings'.enabled = "off" => settings.enabled = "off"
  PROVE  CollectInv'
BY DEF CollectInv, AloneOK

\* A collection reads the source, whatever it finds: none of the tables the invariant is about
\* is changed before it records.
LEMMA AdapterKeeps ==
  ASSUME CollectInv, NEW c \in Slots, NEW n,
         collectClaude(c, n) \/ collectCodex(c, n) \/ collectOpencode(c, n)
  PROVE  CollectInv'
<1>1. command[c].pc \in {"stat", "parse"}
  BY DEF collectClaude, collectCodex, collectOpencode, Unread, CollectStat, ParseSessionFile, ParseDb,
         AdapterError
<1>2. UNCHANGED <<external, limits, settings, overlap>>
  BY DEF collectClaude, collectCodex, collectOpencode, Unread, CollectStat, ParseSessionFile, ParseDb,
         AdapterError, tables, history
<1>3. \E p : Becomes(c, p) /\ p.pc \in {"parse", "record"}
  <2> DEFINE Plain == [NoCommand EXCEPT !.pc = "record"]
             Limited(l) == [NoCommand EXCEPT !.pc = "record", !.limit = l]
             Rows(o) == [NoCommand EXCEPT !.pc = "record", !.obs = o]
             Lined(o, l) == [NoCommand EXCEPT !.pc = "record", !.obs = o, !.limit = l]
             Looked == [NoCommand EXCEPT !.pc = "parse", !.size = Len(file), !.mtime = mtime,
                                         !.cursor = cursor]
  <2>0. /\ Plain.pc = "record"
        /\ \A l : Limited(l).pc = "record"
        /\ \A o : Rows(o).pc = "record"
        /\ Looked.pc = "parse"
    BY DEF NoCommand
  <2>1. CASE Unread(c)
    <3>1. Becomes(c, Plain) \/ Becomes(c, Limited(LocalLimit("no")))
      BY <2>1, Zenon DEF Unread
    <3> HIDE DEF Plain, Limited
    <3>2. QED
      BY <3>1, <2>0, Zenon
  <2>2. CASE CollectStat(c)
    <3>1. Becomes(c, Looked) \/ Becomes(c, Limited(LocalLimit("no")))
      BY <2>2, Zenon DEF CollectStat
    <3> HIDE DEF Looked, Limited
    <3>2. QED
      BY <3>1, <2>0, Zenon
  <2>3. CASE ParseSessionFile(c, n)
    <3>1. \E o, l : Becomes(c, Lined(o, l))
      <4>1. Becomes(c, Lined(Read(Lines(command[c]), n).obs, LocalLimit(Read(Lines(command[c]), n).limit)))
        BY <2>3, Zenon DEF ParseSessionFile
      <4> HIDE DEF Lined
      <4>2. QED
        BY <4>1, Zenon
    <3> HIDE DEF Lined
    <3>2. PICK o, l : Becomes(c, Lined(o, l))
      BY <3>1, Zenon
    <3>3. Lined(o, l).pc = "record"
      BY DEF Lined, NoCommand
    <3>4. QED
      BY <3>2, <3>3, Zenon
  <2>4. CASE ParseDb(c, n)
    <3>1. \E o : Becomes(c, Rows(o))
      <4>1. Becomes(c, Rows(ReadRows(RowsFor(command[c]), n, command[c].cursor.offset).obs))
        BY <2>4, Zenon DEF ParseDb
      <4> HIDE DEF Rows
      <4>2. QED
        BY <4>1, Zenon
    <3> HIDE DEF Rows
    <3>2. QED
      BY <3>1, <2>0, Zenon
  <2>5. CASE AdapterError(c, n)
    <3>1. Becomes(c, Plain)
      BY <2>5, Zenon DEF AdapterError
    <3> HIDE DEF Plain
    <3>2. QED
      BY <3>1, <2>0, Zenon
  <2>6. QED
    BY <2>1, <2>2, <2>3, <2>4, <2>5 DEF collectClaude, collectCodex, collectOpencode
<1>4. PICK p : Becomes(c, p) /\ p.pc \in {"parse", "record"}
  BY <1>3
<1>5. Forgotten' <=> Forgotten
  BY <1>2 DEF Forgotten
<1>6. overlap = "no" /\ AloneOK => settings.enabled # "off"
  BY <1>1 DEF AloneOK, Collects
<1>7. QED
  BY <1>1, <1>2, <1>4, <1>6, IdleCommand, CommandMoves

\* A row or the limits are recorded, of an enabled integration.
LEMMA RecordKeeps ==
  ASSUME CollectInv, NEW c \in Slots, CollectRecord(c) \/ CollectLimits(c)
  PROVE  CollectInv'
<1>1. command[c].pc = "record" /\ UNCHANGED <<settings, overlap>>
  BY DEF CollectRecord, CollectLimits, history
<1>2. overlap = "no" /\ AloneOK => settings.enabled # "off"
  BY <1>1 DEF AloneOK, Collects
<1>3. \E p : Becomes(c, p) /\ p.pc # "off"
  <2>1. CASE CollectRecord(c)
    <3> DEFINE p == [command[c] EXCEPT !.obs = Tail(@)]
    <3>1. p.pc = "record" 
      BY <1>1
    <3>2. Becomes(c, p)
      BY <2>1 DEF CollectRecord, Becomes
    <3>3. QED
      BY <3>1, <3>2
  <2>2. CASE CollectLimits(c)
    BY <2>2, IdleCommand DEF CollectLimits
  <2>3. QED
    BY <2>1, <2>2
<1>4. PICK p : Becomes(c, p) /\ p.pc # "off"
  BY <1>3
<1>5. QED
  BY <1>1, <1>2, <1>4, IdleCommand, CommandMoves

\* A disable clears, then writes the setting.
LEMMA DisableKeeps ==
  ASSUME CollectInv, NEW c \in Slots, ClearProviderUsage(c) \/ DisableSetting(c)
  PROVE  CollectInv'
<1>1. CASE ClearProviderUsage(c)
  <2>1. Forgotten' /\ UNCHANGED <<settings, overlap>> /\ command[c].pc = "clear"
    BY <1>1 DEF ClearProviderUsage, Forgotten
  <2>2. PICK p : p = [NoCommand EXCEPT !.pc = "off"]
    OBVIOUS
  <2>3. p.pc = "off" /\ ~ Collects(p)
    BY <2>2 DEF NoCommand, Collects
  <2>4. Becomes(c, p)
    BY <1>1, <2>2 DEF ClearProviderUsage
  <2>5. QED
    BY <2>1, <2>3, <2>4, IdleCommand, CommandMoves
<1>2. CASE DisableSetting(c)
  <2>1. UNCHANGED <<external, limits, overlap>> /\ command[c].pc = "off" /\ Becomes(c, NoCommand)
    BY <1>2 DEF DisableSetting, history
  <2>2. AloneOK => Forgotten'
    BY <2>1 DEF AloneOK, Forgotten
  <2>3. QED
    BY <2>1, <2>2, IdleCommand, CommandMoves
<1>3. QED
  BY <1>1, <1>2

\* A command of the user, or of the web API, that is one step or the first of several.
LEMMA RequestKeeps ==
  ASSUME CollectInv, NEW c \in Slots,
         CollectBegin(c) \/ Disable(c)
           \/ \E credentials \in {"keep", "on", "off"}, collect \in {"no", "yes"} :
                POST(c, credentials, collect)
  PROVE  CollectInv'
<1>1. CASE CollectBegin(c)
  <2>1. settings' = settings /\ settings.enabled # "off" /\ UNCHANGED <<external, limits>>
        /\ Begins(c, "stat")
    BY <1>1 DEF CollectBegin, enabled, tables
  <2>2. QED
    BY <2>1, CommandBegins
<1>2. CASE Disable(c)
  <2>1. UNCHANGED <<external, limits>> /\ Begins(c, "clear")
    BY <1>2 DEF Disable
  <2>2. settings'.enabled = "off" => settings.enabled = "off"
    BY <1>2 DEF Disable
  <2>3. QED
    BY <2>1, <2>2, CommandBegins
<1>3. CASE \E credentials \in {"keep", "on", "off"}, collect \in {"no", "yes"} :
             POST(c, credentials, collect)
  <2>1. settings'.enabled = "on" /\ UNCHANGED <<external, limits>>
    BY <1>3 DEF POST, Enabled
  <2>2. Begins(c, "stat") \/ UNCHANGED <<command, overlap>>
    BY <1>3 DEF POST
  <2>3. Forgotten => Forgotten'
    BY <2>1 DEF Forgotten
  <2>4. QED
    BY <2>1, <2>2, <2>3, CommandBegins, CommandsStay
<1>4. QED
  BY <1>1, <1>2, <1>3

\* No step breaks the invariant.
LEMMA CollectStepKeeps ==
  ASSUME CollectInv, [CollectNext]_collectVars
  PROVE  CollectInv'
<1>1. ASSUME UNCHANGED <<command, overlap, settings, external, limits>> PROVE CollectInv'
  BY <1>1, CommandsStay DEF Forgotten
<1>2. CASE \E n \in 1..2 : Append1(n)
  BY <1>1, <1>2 DEF Append1, tables, history
<1>3. CASE FinishLine \/ Rewrite
  BY <1>1, <1>3 DEF FinishLine, Rewrite, tables, history
<1>4. ASSUME NEW c \in Slots, CommandStep(c) PROVE CollectInv'
  BY <1>4, AdapterKeeps, RecordKeeps, DisableKeeps, RequestKeeps DEF CommandStep
<1>5. ASSUME NEW c \in Slots, CommandKilled(c) PROVE CollectInv'
  <2>1. UNCHANGED <<external, limits, settings, overlap>> /\ Becomes(c, NoCommand)
        /\ command[c] # NoCommand
    BY <1>5 DEF CommandKilled, tables, history
  <2>2. AloneOK /\ settings.enabled = "off" => Forgotten'
    BY <2>1 DEF AloneOK, Forgotten
  <2>3. QED
    BY <2>1, <2>2, IdleCommand, CommandMoves
<1>6. CASE \E credentials \in {"keep", "on"} : Enable(credentials)
  <2>1. settings'.enabled = "on" /\ UNCHANGED <<command, overlap, external, limits>>
    BY <1>6 DEF Enable, Enabled
  <2>2. Forgotten => Forgotten'
    BY <2>1 DEF Forgotten
  <2>3. QED
    BY <2>1, <2>2, CommandsStay
<1>7. CASE \E c \in Slots, credentials \in {"keep", "on", "off"}, collect \in {"no", "yes"} :
             POST(c, credentials, collect)
  BY <1>7, RequestKeeps
<1>8. CASE SetManualLimit \/ PUT
  <2>1. UNCHANGED <<command, overlap, settings, external>> /\ limits' = "manual"
    BY <1>8 DEF SetManualLimit, PUT, upsertLimit
  <2>2. Forgotten => Forgotten'
    BY <2>1 DEF Forgotten
  <2>3. QED
    BY <2>1, <2>2, CommandsStay
<1>9. CASE UNCHANGED collectVars
  BY <1>1, <1>9 DEF collectVars, tables, history
<1>10. QED
  BY <1>2, <1>3, <1>4, <1>5, <1>6, <1>7, <1>8, <1>9 DEF CollectNext

\* The invariant holds in every state of the specification.
THEOREM CollectInvariance == CollectSpec => []CollectInv
<1>1. CollectInit => CollectInv
  BY IdleCommand DEF CollectInit, CollectInv, AloneOK
<1>2. CollectInv /\ [CollectNext]_collectVars => CollectInv'
  BY CollectStepKeeps
<1>3. QED
  BY <1>1, <1>2, PTL DEF CollectSpec

\* A disabled integration keeps nothing that was collected from the provider, as long as no
\* command overlaps another: revokeProvider deletes before the switch is written, and a
\* collection that is under way sees the integration enabled from its first step to its last.
THEOREM DisabledKeepsNothing == CollectSpec => []DisableForgets
<1>1. CollectInv => DisableForgets
  BY DEF CollectInv, AloneOK, DisableForgets, Forgotten
<1>2. QED
  BY <1>1, CollectInvariance, PTL

(***************************************************************************)
(* The layout of a JSONL source                                            *)
(***************************************************************************)

\* Where line k ends.
End(k) == 2 * k + ((k + 1) \div 2)

\* Lines have one cell or two, and then their newline.
LEMMA EndSteps ==
  /\ End(0) = 0
  /\ \A k \in Nat : /\ End(k) \in Nat
                    /\ Width(k + 1) = 1 \/ Width(k + 1) = 2
                    /\ End(k + 1) = End(k) + Width(k + 1) + 1
                    /\ End(k + 1) \in Nat /\ End(k + 1) > 0 /\ End(k) < End(k + 1)
BY DEF End, Width

\* Later lines end later.
LEMMA EndGrows ==
  \A a, b \in Nat : a < b => End(a) + 2 <= End(b)
BY DEF End

\* The ends lie in the order of the lines.
LEMMA EndOrder ==
  \A a, b \in Nat : /\ End(a) \in Nat
                    /\ End(a) <= End(b) <=> a <= b
                    /\ End(a) < End(b) <=> a < b
BY DEF End

\* Every place belongs to one line.
LEMMA EndCovers ==
  ASSUME NEW i \in Nat, i > 0
  PROVE  \E k \in Nat : End(k) < i /\ i <= End(k + 1)
<1> DEFINE q == (i - 1) \div 5
           r == (i - 1) % 5
<1>1. q \in Nat /\ r \in 0..4 /\ i = 5 * q + r + 1
  OBVIOUS
<1>2. End(2 * q) = 5 * q /\ End(2 * q + 1) = 5 * q + 3 /\ End(2 * q + 2) = 5 * q + 5
  BY <1>1 DEF End
<1> HIDE DEF q, r
<1>3. CASE r < 3
  <2>1. 2 * q \in Nat /\ End(2 * q) < i /\ i <= End(2 * q + 1)
    BY <1>1, <1>2, <1>3
  <2> QED BY <2>1
<1>4. CASE r >= 3
  <2>1. 2 * q + 1 \in Nat /\ End(2 * q + 1) < i /\ i <= End((2 * q + 1) + 1)
    BY <1>1, <1>2, <1>4
  <2> QED BY <2>1
<1> QED BY <1>1, <1>3, <1>4

\* Every cell of a source is the one of its place.
Cells(f) ==
  /\ f \in Seq(Nat)
  /\ \A k \in Nat, i \in 1..Len(f) : /\ End(k) < i /\ i < End(k + 1) => f[i] = k + 1
                                     /\ i = End(k + 1) => f[i] = Newline

\* The first w lines of a source, the last one perhaps without its second cell and newline.
LaidOut(f, w) ==
  /\ Cells(f) /\ w \in Nat
  /\ \/ Len(f) = End(w)
     \/ w > 0 /\ Len(f) = End(w - 1) + 1 /\ Width(w) = 2

\* A newline ends a line.
LEMMA NewlineAtEnd ==
  ASSUME NEW f, NEW w, LaidOut(f, w), NEW i \in 1..Len(f), f[i] = Newline
  PROVE  \E k \in Nat : i = End(k + 1)
<1>1. Len(f) \in Nat /\ i \in Nat /\ i > 0
  BY DEF LaidOut, Cells
<1>2. PICK k \in Nat : End(k) < i /\ i <= End(k + 1)
  BY <1>1, EndCovers
<1>3. k + 1 # Newline
  BY DEF Newline
<1>4. ~ (i < End(k + 1))
  BY <1>2, <1>3 DEF LaidOut, Cells
<1>5. End(k + 1) \in Nat
  BY EndSteps
<1> QED BY <1>1, <1>2, <1>4, <1>5

\* How many lines are complete.
LEMMA CompleteLines ==
  ASSUME NEW f, NEW w, LaidOut(f, w)
  PROVE  \E b \in 0..w : /\ End(b) <= Len(f) /\ Len(f) < End(b + 1)
                         /\ b = IF Len(f) = End(w) THEN w ELSE w - 1
<1>1. Len(f) \in Nat /\ w \in Nat
  BY DEF LaidOut, Cells
<1>2. CASE Len(f) = End(w)
  <2>1. End(w) \in Nat /\ End(w) < End(w + 1)
    BY <1>1, EndSteps
  <2> QED BY <1>1, <1>2, <2>1
<1>3. CASE Len(f) # End(w)
  <2>1. w > 0 /\ Len(f) = End(w - 1) + 1 /\ Width(w) = 2
    BY <1>3 DEF LaidOut, Cells
  <2>2. PICK b \in Nat : b = w - 1
    BY <1>1, <2>1
  <2>3. b + 1 = w
    BY <1>1, <2>2
  <2>4. End(b) \in Nat /\ End(b + 1) = End(b) + Width(b + 1) + 1
    BY EndSteps
  <2>5. End(b) <= Len(f) /\ Len(f) < End(b + 1)
    BY <2>1, <2>2, <2>3, <2>4
  <2> QED BY <1>1, <1>3, <2>2, <2>3, <2>5
<1> QED BY <1>2, <1>3

\* completeEnd finds the end of the last complete line.
LEMMA CompleteEndFound ==
  ASSUME NEW f, NEW w, LaidOut(f, w), NEW b \in Nat, End(b) <= Len(f), Len(f) < End(b + 1)
  PROVE  CompleteEnd(f) = End(b)
<1> DEFINE S == {0} \cup {i \in DOMAIN f : f[i] = Newline}
<1>1. Len(f) \in Nat /\ DOMAIN f = 1..Len(f)
  BY DEF LaidOut, Cells
<1>2. End(b) \in S
  <2>1. CASE b = 0
    BY <2>1, EndSteps
  <2>2. CASE b # 0
    <3>1. PICK a \in Nat : a + 1 = b
      BY <2>2
    <3>2. End(b) \in Nat /\ End(b) > 0
      BY <3>1, EndSteps
    <3>3. End(b) \in 1..Len(f)
      BY <1>1, <3>2
    <3>4. f[End(b)] = Newline
      BY <3>1, <3>3 DEF LaidOut, Cells
    <3> QED BY <1>1, <3>3, <3>4
  <2> QED BY <2>1, <2>2
<1>3. \A i \in S : i \in Nat /\ i <= End(b)
  <2>0. 0 \in Nat /\ 0 <= End(b)
    BY EndSteps
  <2>1. SUFFICES ASSUME NEW i \in 1..Len(f), f[i] = Newline PROVE i <= End(b)
    BY <1>1, <2>0
  <2>2. PICK k \in Nat : i = End(k + 1)
    BY <2>1, NewlineAtEnd
  <2>3. End(k + 1) \in Nat /\ End(b) \in Nat /\ End(b + 1) \in Nat
    BY EndSteps
  <2>4. ~ (b + 1 < k + 1) /\ b + 1 # k + 1
    BY <1>1, <2>1, <2>2, <2>3, EndGrows
  <2>5. k + 1 = b \/ k + 1 < b
    BY <2>4
  <2> QED BY <2>2, <2>3, <2>5, EndGrows
<1>4. CompleteEnd(f) = CHOOSE x \in S : \A y \in S : x >= y
  BY DEF CompleteEnd, Max
<1> HIDE DEF S
<1>5. End(b) \in Nat
  BY EndSteps
<1>6. \E x \in S : \A y \in S : x >= y
  BY <1>2, <1>3, <1>5
<1>7. PICK x \in S : x = CompleteEnd(f) /\ \A y \in S : x >= y
  BY <1>4, <1>6
<1> QED BY <1>2, <1>3, <1>5, <1>7

\* A line is open when its end was not written.
LEMMA OpenLineIs ==
  ASSUME provider # "opencode", NEW w, LaidOut(file, w)
  PROVE  OpenLine <=> Len(file) # End(w)
<1>1. Len(file) \in Nat /\ w \in Nat /\ file \in Seq(Nat)
  BY DEF LaidOut, Cells
<1>2. OpenLine <=> file # << >> /\ file[Len(file)] # Newline
  BY DEF OpenLine, Last
<1>3. CASE Len(file) = End(w)
  <2>1. CASE w = 0
    BY <1>1, <1>2, <1>3, <2>1, EndSteps
  <2>2. CASE w # 0
    <3>1. PICK k \in Nat : k + 1 = w
      BY <1>1, <2>2
    <3>4. End(k + 1) > 0
      BY EndSteps
    <3>2. Len(file) \in 1..Len(file)
      BY <1>1, <1>3, <3>1, <3>4
    <3>3. file[Len(file)] = Newline
      BY <1>3, <3>1, <3>2 DEF LaidOut, Cells
    <3> QED BY <1>2, <1>3, <3>3
  <2> QED BY <2>1, <2>2
<1>4. CASE Len(file) # End(w)
  <2>1. w > 0 /\ Len(file) = End(w - 1) + 1 /\ Width(w) = 2
    BY <1>4 DEF LaidOut, Cells
  <2>2. PICK k \in Nat : k = w - 1
    BY <1>1, <2>1
  <2>3. k + 1 = w
    BY <1>1, <2>2
  <2>4. End(k) \in Nat /\ End(k + 1) = End(k) + Width(k + 1) + 1
    BY EndSteps
  <2>5. Len(file) \in 1..Len(file) /\ End(k) < Len(file) /\ Len(file) < End(k + 1)
    BY <1>1, <2>1, <2>2, <2>3, <2>4
  <2>6. file[Len(file)] = k + 1 /\ file # << >>
    BY <2>5 DEF LaidOut, Cells
  <2> QED BY <1>2, <1>4, <2>6 DEF Newline
<1> QED BY <1>3, <1>4

\* One more cell of line k + 1.
LEMMA CellFits ==
  ASSUME NEW f, Cells(f), NEW k \in Nat, NEW x \in Nat,
         \/ End(k) < Len(f) + 1 /\ Len(f) + 1 < End(k + 1) /\ x = k + 1
         \/ Len(f) + 1 = End(k + 1) /\ x = Newline
  PROVE  Cells(Append(f, x)) /\ Len(Append(f, x)) = Len(f) + 1
<1> DEFINE g == Append(f, x)
<1>0. f \in Seq(Nat) /\ Len(f) \in Nat
  BY DEF Cells
<1>1. /\ g \in Seq(Nat) /\ Len(g) = Len(f) + 1 /\ g[Len(f) + 1] = x
      /\ \A i \in 1..Len(f) : g[i] = f[i]
  BY <1>0
<1> HIDE DEF g
<1>2. ASSUME NEW m \in Nat, NEW i \in 1..Len(g)
      PROVE  /\ End(m) < i /\ i < End(m + 1) => g[i] = m + 1
             /\ i = End(m + 1) => g[i] = Newline
  <2>2. CASE i \in 1..Len(f)
    BY <1>1, <2>2 DEF Cells
  <2>3. CASE i = Len(f) + 1
    <3>0. /\ End(m) \in Nat /\ End(m + 1) \in Nat /\ End(k) \in Nat /\ End(k + 1) \in Nat
          /\ End(k) < End(k + 1) /\ End(m) < End(m + 1)
      BY EndSteps
    <3>1. g[i] = x
      BY <1>1, <2>3
    <3>2. m < k \/ m = k \/ k < m
      OBVIOUS
    <3>3. m < k => End(m + 1) <= End(k)
      <4>1. m < k => m + 1 = k \/ m + 1 < k
        OBVIOUS
      <4> QED BY <3>0, <4>1, EndGrows
    <3>4. k < m => End(k + 1) <= End(m)
      <4>1. k < m => k + 1 = m \/ k + 1 < m
        OBVIOUS
      <4> QED BY <3>0, <4>1, EndGrows
    <3>5. End(k) < i /\ i <= End(k + 1)
      BY <1>0, <2>3, <3>0
    <3>6. (End(m) < i /\ i <= End(m + 1)) => m = k
      BY <1>0, <2>3, <3>0, <3>2, <3>3, <3>4, <3>5
    <3>8. CASE m = k
      BY <1>0, <2>3, <3>1, <3>0, <3>8
    <3>9. CASE m # k
      BY <1>0, <2>3, <3>0, <3>6, <3>9
    <3> QED BY <3>8, <3>9
  <2> QED BY <1>0, <1>1, <2>2, <2>3
<1>3. Cells(g) /\ Len(g) = Len(f) + 1
  BY <1>1, <1>2 DEF Cells
<1> QED BY <1>3 DEF g

\* The next line is written, or the beginning of it.
LEMMA LineBegun ==
  ASSUME NEW f, NEW w, LaidOut(f, w), Len(f) = End(w), NEW n \in 1..Width(w + 1)
  PROVE  LaidOut(f \o SubSeq(Text(w + 1), 1, n)
                   \o (IF n = Width(w + 1) THEN <<Newline>> ELSE << >>), w + 1)
<1> DEFINE g == f \o SubSeq(Text(w + 1), 1, n) \o (IF n = Width(w + 1) THEN <<Newline>> ELSE << >>)
<1>1. f \in Seq(Nat) /\ Cells(f) /\ w \in Nat /\ w + 1 \in Nat /\ Newline \in Nat /\ Len(f) \in Nat
  BY DEF LaidOut, Cells, Newline
<1>2. End(w) \in Nat /\ End(w + 1) = End(w) + Width(w + 1) + 1
  BY <1>1, EndSteps
<1>3. CASE Width(w + 1) = 1
  <2>1. g = Append(Append(f, w + 1), Newline)
    BY <1>1, <1>3 DEF Text
  <2>2. PICK h : h = Append(f, w + 1)
    OBVIOUS
  <2>3. Len(f) + 1 < End(w + 1) /\ End(w) < Len(f) + 1
    BY <1>1, <1>2, <1>3
  <2>4. Cells(h) /\ Len(h) = Len(f) + 1
    BY <1>1, <2>2, <2>3, CellFits
  <2>5. Len(h) + 1 = End(w + 1)
    BY <1>1, <1>2, <1>3, <2>4
  <2>6. Cells(Append(h, Newline)) /\ Len(Append(h, Newline)) = Len(h) + 1
    BY <1>1, <2>4, <2>5, CellFits
  <2>7. g = Append(h, Newline)
    BY <2>1, <2>2
  <2> HIDE DEF g
  <2>8. LaidOut(g, w + 1)
    BY <1>1, <2>5, <2>6, <2>7 DEF LaidOut
  <2> QED BY <2>8 DEF g
<1>4. CASE Width(w + 1) = 2
  <2>2. PICK h : h = Append(f, w + 1)
    OBVIOUS
  <2>3. Len(f) + 1 < End(w + 1) /\ End(w) < Len(f) + 1
    BY <1>1, <1>2, <1>4
  <2>4. Cells(h) /\ Len(h) = Len(f) + 1
    BY <1>1, <2>2, <2>3, CellFits
  <2>5. CASE n = 1
    <3>1. g = h
      BY <1>1, <1>4, <2>2, <2>5 DEF Text
    <3> HIDE DEF g
    <3>2. w + 1 > 0 /\ Len(g) = End((w + 1) - 1) + 1
      BY <1>1, <2>4, <3>1
    <3>3. LaidOut(g, w + 1)
      BY <1>1, <1>4, <2>4, <3>1, <3>2 DEF LaidOut
    <3> QED BY <3>3 DEF g
  <2>6. CASE n = 2
    <3>1. g = Append(Append(Append(f, w + 1), w + 1), Newline)
      <4>1. SubSeq(Text(w + 1), 1, n) = <<w + 1, w + 1>>
        <5>1. PICK t : t = Text(w + 1)
          OBVIOUS
        <5>2. t = [i \in 1..2 |-> w + 1]
          BY <1>4, <5>1 DEF Text
        <5>3. t \in Seq(Nat) /\ Len(t) = 2 /\ t[1] = w + 1 /\ t[2] = w + 1
          BY <1>1, <5>2
        <5>4. SubSeq(t, 1, Len(t)) = t
          BY <5>3, SubSeqFull
        <5>5. t = <<w + 1, w + 1>>
          BY <5>2
        <5> QED BY <2>6, <5>1, <5>3, <5>4, <5>5
      <4>2. g = f \o <<w + 1, w + 1>> \o <<Newline>>
        BY <1>4, <2>6, <4>1
      <4> QED BY <1>1, <4>2
    <3>2. PICK u : u = Append(h, w + 1)
      OBVIOUS
    <3>3. Len(h) + 1 < End(w + 1) /\ End(w) < Len(h) + 1
      BY <1>1, <1>2, <1>4, <2>4
    <3>4. Cells(u) /\ Len(u) = Len(h) + 1
      BY <1>1, <2>4, <3>2, <3>3, CellFits
    <3>5. Len(u) + 1 = End(w + 1)
      BY <1>1, <1>2, <1>4, <2>4, <3>4
    <3>6. Cells(Append(u, Newline)) /\ Len(Append(u, Newline)) = Len(u) + 1
      BY <1>1, <3>4, <3>5, CellFits
    <3>7. g = Append(u, Newline)
      BY <2>2, <3>1, <3>2
    <3> HIDE DEF g
    <3>8. LaidOut(g, w + 1)
      BY <1>1, <3>5, <3>6, <3>7 DEF LaidOut
    <3> QED BY <3>8 DEF g
  <2> QED BY <1>4, <2>5, <2>6
<1> QED BY <1>1, <1>3, <1>4, EndSteps

\* The rest of a line begun is written.
LEMMA LineFinished ==
  ASSUME NEW f, NEW w, LaidOut(f, w), Len(f) # End(w)
  PROVE  LaidOut(Append(Append(f, Last(f)), Newline), w)
<1>1. w > 0 /\ Len(f) = End(w - 1) + 1 /\ Width(w) = 2
  BY DEF LaidOut
<1>2. f \in Seq(Nat) /\ Cells(f) /\ w \in Nat /\ Len(f) \in Nat /\ Newline \in Nat
  BY DEF LaidOut, Cells, Newline
<1>3. PICK k \in Nat : k = w - 1 /\ k + 1 = w
  BY <1>1, <1>2
<1>4. End(k) \in Nat /\ End(k + 1) = End(k) + 3 /\ Len(f) = End(k) + 1
  BY <1>1, <1>3, EndSteps
<1>5. Last(f) = k + 1
  <2>1. Len(f) \in 1..Len(f) /\ End(k) < Len(f) /\ Len(f) < End(k + 1)
    BY <1>2, <1>4
  <2> QED BY <2>1 DEF LaidOut, Cells, Last
<1>6. PICK h : h = Append(f, k + 1)
  OBVIOUS
<1>7. Len(f) + 1 < End(k + 1) /\ End(k) < Len(f) + 1 /\ k + 1 \in Nat
  BY <1>4
<1>8. Cells(h) /\ Len(h) = Len(f) + 1
  BY <1>2, <1>6, <1>7, CellFits
<1>9. Len(h) + 1 = End(k + 1)
  BY <1>4, <1>8
<1>10. Cells(Append(h, Newline)) /\ Len(Append(h, Newline)) = Len(h) + 1
  BY <1>2, <1>8, <1>9, CellFits
<1>11. LaidOut(Append(h, Newline), w)
  BY <1>2, <1>3, <1>9, <1>10 DEF LaidOut
<1> QED BY <1>5, <1>6, <1>11

\* The text of a line, between the newline before it and its own.
LEMMA TextFound ==
  ASSUME NEW f, Cells(f), NEW e \in Nat, End(e + 1) <= Len(f)
  PROVE  SubSeq(f, End(e) + 1, End(e + 1) - 1) = Text(e + 1)
<1>1. f \in Seq(Nat) /\ Len(f) \in Nat
  BY DEF Cells
<1>2. /\ End(e) \in Nat /\ End(e + 1) = End(e) + Width(e + 1) + 1
      /\ Width(e + 1) = 1 \/ Width(e + 1) = 2
  BY EndSteps
<1>20. PICK p \in Nat, wd \in Nat : p = End(e) /\ wd = Width(e + 1) /\ wd > 0
  BY <1>2
<1>21. PICK q \in Nat, L \in Nat : q = End(e + 1) /\ L = Len(f)
  BY <1>1, EndSteps
<1>23. q = p + wd + 1 /\ q <= L
  BY <1>2, <1>20, <1>21
<1>22. PICK m \in Nat, n \in Nat : m = p + 1 /\ n = p + wd
  BY <1>20
<1>30. n = m + wd - 1 /\ n < q /\ m >= 1 /\ n <= L /\ m <= n /\ n - m + 1 = wd /\ n = q - 1
  <2>1. wd > 0
    BY <1>20
  <2>2. n = m + wd - 1 
    BY <1>22, <2>1
  <2>3. n < q
    BY <1>22, <1>23
  <2>4. n = q - 1
    BY <1>22, <1>23
  <2>5. m >= 1
    BY <1>22
  <2>6. n <= L
    BY <2>3, <1>23
  <2>7. m <= n /\ n - m + 1 = wd
    BY <2>1, <2>2
  <2> QED BY <2>2, <2>3, <2>4, <2>5, <2>6, <2>7
<1>3. m = End(e) + 1 /\ n = End(e + 1) - 1
  BY <1>20, <1>21, <1>22, <1>30
<1>4. \A i \in m..n : f[i] = e + 1
  <2> SUFFICES ASSUME NEW i \in m..n PROVE f[i] = e + 1
    OBVIOUS
  <2>1. i \in 1..Len(f) /\ End(e) < i /\ i < End(e + 1)
    <3>1. i \in 1..L /\ p < i /\ i < q
      BY <1>22, <1>30
    <3> QED BY <1>20, <1>21, <3>1
  <2> QED BY <2>1 DEF Cells
<1>5. /\ SubSeq(f, m, n) \in Seq(Nat) /\ Len(SubSeq(f, m, n)) = wd
      /\ \A i \in 1..wd : SubSeq(f, m, n)[i] = f[m + i - 1]
  <2>1. \A i \in m..n : f[i] \in Nat
    BY <1>4
  <2>2. /\ SubSeq(f, m, n) \in Seq(Nat)
        /\ Len(SubSeq(f, m, n)) = IF m <= n THEN n - m + 1 ELSE 0
        /\ \A i \in 1 .. n - m + 1 : SubSeq(f, m, n)[i] = f[m + i - 1]
    BY <2>1, SubSeqProperties
  <2>3. m <= n /\ n - m + 1 = wd
    BY <1>30
  <2> QED BY <2>2, <2>3
<1>6. \A i \in 1..wd : SubSeq(f, m, n)[i] = e + 1
  <2> SUFFICES ASSUME NEW i \in 1..wd PROVE SubSeq(f, m, n)[i] = e + 1
    OBVIOUS
  <2>1. m + i - 1 \in m..n
    BY <1>22, <1>30
  <2> QED BY <1>4, <1>5, <2>1
<1>7. Text(e + 1) = [i \in 1..wd |-> e + 1]
  BY <1>20 DEF Text
<1>8. Text(e + 1) \in Seq(Nat) /\ Len(Text(e + 1)) = wd /\ \A i \in 1..wd : Text(e + 1)[i] = e + 1
  BY <1>20, <1>7
<1>9. SubSeq(f, m, n) = Text(e + 1)
  BY <1>5, <1>6, <1>8, SeqEqual
<1> QED BY <1>3, <1>9

\* The ends of the lines from a + 1 to b.
Ends(a, b) == {End(k) : k \in (a + 1)..b}

\* How many of them lie up to the end of line a + m.
LEMMA EndsCounted ==
  ASSUME NEW a \in Nat, NEW b \in Nat, NEW m \in Nat, a + m <= b
  PROVE  Cardinality({j \in Ends(a, b) : j <= End(a + m)}) = m
<1> DEFINE T == {j \in Ends(a, b) : j <= End(a + m)}
           g == [k \in 1..m |-> End(a + k)]
<1>0. \A k \in Nat : End(k) \in Nat
  BY EndSteps
<1>1. \A k \in 1..m : g[k] \in T
  <2> SUFFICES ASSUME NEW k \in 1..m PROVE End(a + k) \in T
    OBVIOUS
  <2>1. a + k \in (a + 1)..b /\ a + k \in Nat /\ a + m \in Nat
    OBVIOUS
  <2>2. a + k = a + m \/ a + k < a + m
    OBVIOUS
  <2>3. End(a + k) <= End(a + m)
    BY <1>0, <2>1, <2>2, EndGrows
  <2> QED BY <2>1, <2>3 DEF Ends
<1>2. \A k, l \in 1..m : g[k] = g[l] => k = l
  <2> SUFFICES ASSUME NEW k \in 1..m, NEW l \in 1..m, End(a + k) = End(a + l) PROVE k = l
    OBVIOUS
  <2>1. ~ (a + k < a + l) /\ ~ (a + l < a + k)
    BY <1>0, EndGrows
  <2> QED BY <2>1
<1>3. \A j \in T : \E k \in 1..m : g[k] = j
  <2> SUFFICES ASSUME NEW j \in T PROVE \E k \in 1..m : g[k] = j
    OBVIOUS
  <2>1. PICK l \in (a + 1)..b : j = End(l)
    BY DEF Ends
  <2>2. ~ (a + m < l)
    BY <1>0, <2>1, EndGrows
  <2>3. l - a \in 1..m /\ a + (l - a) = l
    BY <2>1, <2>2
  <2>4. g[l - a] = j
    BY <2>1, <2>3
  <2> QED BY <2>3, <2>4
<1>4. g \in Bijection(1..m, T)
  <2>1. g \in [1..m -> T]
    BY <1>1
  <2>2. \A j \in T : \E k \in 1..m : g[k] = j
    BY <1>3
  <2> HIDE DEF g, T
  <2> QED BY <1>2, <2>1, <2>2 DEF Bijection, Injection, Surjection, IsInjective
<1>5. IsFiniteSet(1..m) /\ Cardinality(1..m) = m
  BY FS_Interval
<1>6. ExistsBijection(1..m, T)
  BY <1>4 DEF ExistsBijection
<1> HIDE DEF T, g
<1>7. Cardinality(T) = m
  BY <1>5, <1>6, FS_Bijection
<1> QED BY <1>7 DEF T

\* The complete lines between the ends of two lines are the events between them.
LEMMA LinesParsed ==
  ASSUME NEW f, Cells(f), NEW a \in Nat, NEW b \in Nat, a <= b, End(b) <= Len(f)
  PROVE  Parsed(f, End(a), End(b)) = [k \in 1..(b - a) |-> a + k]
<1> DEFINE ends == {i \in (End(a) + 1)..End(b) : f[i] = Newline}
           end(k) == CHOOSE i \in ends : Cardinality({j \in ends : j <= i}) = k
           begin(k) == IF k = 1 THEN End(a) + 1 ELSE end(k - 1) + 1
           text(k) == SubSeq(f, begin(k), end(k) - 1)
           event(t) == IF t # << >> /\ t = Text(t[1]) THEN t[1] ELSE 0
<1>0. f \in Seq(Nat) /\ Len(f) \in Nat
  BY DEF Cells
<1>1. Parsed(f, End(a), End(b)) = [k \in 1..Cardinality(ends) |-> event(text(k))]
  BY DEF Parsed
<1> HIDE DEF end, begin, text, event
<1>2. ends = Ends(a, b)
  <2>0. \A i : i \in ends <=> i \in (End(a) + 1)..End(b) /\ f[i] = Newline
    OBVIOUS
  <2> HIDE DEF ends
  <2>1. ASSUME NEW i, i \in ends PROVE i \in Ends(a, b)
    <3>0. End(a) \in Nat /\ End(b) \in Nat
      BY EndOrder
    <3>1. /\ i \in 1..Len(f) /\ f[i] = Newline /\ i \in Nat /\ i > 0
          /\ End(a) < i /\ i <= End(b)
      BY <1>0, <2>0, <2>1, <3>0
    <3>2. PICK k \in Nat : End(k) < i /\ i <= End(k + 1)
      BY <3>1, EndCovers
    <3>8. k + 1 \in Nat /\ k + 1 # Newline
      BY DEF Newline
    <3>3. End(k + 1) \in Nat /\ k + 1 \in Nat /\ k + 1 # Newline
      BY <3>8, EndOrder
    <3>4. i < End(k + 1) => f[i] = k + 1
      BY <3>1, <3>2 DEF Cells
    <3>5. i = End(k + 1)
      BY <3>1, <3>2, <3>3, <3>4
    <3>6. a < k + 1 /\ k + 1 <= b
      BY <3>1, <3>3, <3>5, EndOrder
    <3>7. k + 1 \in (a + 1)..b
      BY <3>6
    <3> QED BY <3>5, <3>7 DEF Ends
  <2>2. ASSUME NEW k \in (a + 1)..b PROVE End(k) \in ends
    <3>1. PICK l \in Nat : l + 1 = k
      BY <2>2
    <3>2. k \in Nat /\ a < k /\ k <= b
      BY <2>2
    <3>3. /\ End(k) \in Nat /\ End(a) \in Nat /\ End(b) \in Nat
          /\ End(a) < End(k) /\ End(k) <= End(b)
      BY <3>2, EndOrder
    <3>4. End(k) \in 1..Len(f) /\ End(k) \in (End(a) + 1)..End(b)
      BY <1>0, <3>3
    <3>5. f[End(k)] = Newline
      BY <3>1, <3>4 DEF Cells
    <3> QED BY <2>0, <3>4, <3>5
  <2> QED BY <2>1, <2>2 DEF Ends
<1> HIDE DEF ends
<1>3. ASSUME NEW m \in Nat, a + m <= b PROVE Cardinality({j \in ends : j <= End(a + m)}) = m
  BY <1>2, <1>3, EndsCounted, Zenon
<1>4. Cardinality(ends) = b - a
  <2>1. b - a \in Nat /\ a + (b - a) = b
    OBVIOUS
  <2>2. \A j \in ends : j <= End(b)
    <3> SUFFICES ASSUME NEW k \in (a + 1)..b PROVE End(k) <= End(b)
      BY <1>2 DEF Ends
    <3>1. k \in Nat /\ k <= b
      OBVIOUS
    <3> QED BY <3>1, EndOrder
  <2>3. {j \in ends : j <= End(b)} = ends
    BY <2>2
  <2>4. Cardinality({j \in ends : j <= End(a + (b - a))}) = b - a
    BY <1>3, <2>1
  <2> QED BY <2>1, <2>3, <2>4
<1>5. ASSUME NEW k \in 1..(b - a) PROVE end(k) = End(a + k)
  <2>1. End(a + k) \in ends /\ Cardinality({j \in ends : j <= End(a + k)}) = k
    BY <1>2, <1>3 DEF Ends
  <2>2. ASSUME NEW i \in ends, Cardinality({j \in ends : j <= i}) = k PROVE i = End(a + k)
    <3>1. PICK l \in (a + 1)..b : i = End(l)
      BY <1>2, <2>2 DEF Ends
    <3>2. l - a \in Nat /\ a + (l - a) = l /\ a + (l - a) <= b
      BY <3>1
    <3>3. Cardinality({j \in ends : j <= End(a + (l - a))}) = l - a
      BY <1>3, <3>2
    <3>4. l - a = k
      BY <2>2, <3>1, <3>2, <3>3
    <3> QED BY <3>1, <3>2, <3>4
  <2>3. \E i \in ends : Cardinality({j \in ends : j <= i}) = k
    BY <2>1
  <2>4. end(k) \in ends /\ Cardinality({j \in ends : j <= end(k)}) = k
    BY <2>3 DEF end
  <2> QED BY <2>2, <2>4
<1>6. ASSUME NEW k \in 1..(b - a) PROVE event(text(k)) = a + k
  <2>1. PICK e \in Nat : e + 1 = a + k
    BY <1>6
  <2>2. begin(k) = End(e) + 1
    <3>1. CASE k = 1
      <4>1. e = a
        BY <2>1, <3>1
      <4> QED BY <3>1, <4>1 DEF begin
    <3>2. CASE k # 1
      <4>1. k - 1 \in 1..(b - a) /\ a + (k - 1) = e
        BY <2>1, <3>2
      <4> QED BY <1>5, <3>2, <4>1 DEF begin
    <3> QED BY <3>1, <3>2
  <2>3. end(k) = End(e + 1)
    BY <1>5, <2>1
  <2>4. End(e + 1) <= Len(f)
    <3>1. e + 1 \in Nat /\ e + 1 <= b
      BY <2>1
    <3>2. End(e + 1) \in Nat /\ End(b) \in Nat /\ End(e + 1) <= End(b)
      BY <3>1, EndOrder
    <3> QED BY <1>0, <3>2
  <2>5. text(k) = Text(e + 1)
    BY <2>2, <2>3, <2>4, TextFound DEF text
  <2>6. PICK t : t = Text(e + 1)
    OBVIOUS
  <2>7. t # << >> /\ t[1] = e + 1
    <3>1. Width(e + 1) = 1 \/ Width(e + 1) = 2
      BY EndSteps
    <3>2. t = [i \in 1..Width(e + 1) |-> e + 1]
      BY <2>6 DEF Text
    <3>3. 1 \in DOMAIN t
      BY <3>1, <3>2
    <3> QED BY <3>2, <3>3
  <2>8. event(t) = e + 1
    BY <2>6, <2>7 DEF event
  <2> QED BY <2>1, <2>5, <2>6, <2>8
<1> QED BY <1>1, <1>4, <1>6

(***************************************************************************)
(* What rows add up to                                                     *)
(***************************************************************************)

\* A set of numbers that is not empty has a least element.
LEMMA LeastNumber ==
  ASSUME NEW S \in SUBSET Nat, S # {}
  PROVE  \E n \in S : \A m \in S : n <= m
<1> DEFINE R == OpToRel(<, Nat)
<1>1. IsWellFoundedOn(R, Nat)
  BY NatLessThanWellFounded
<1>2. \A p, q \in Nat : p < q => <<p, q>> \in R
  BY DEF OpToRel
<1>3. PICK n \in S : \A m \in S : ~ (<<m, n>> \in R)
  <2> HIDE DEF R
  <2> QED BY <1>1, WFMin
<1>4. \A p, q \in Nat : ~ (p < q) => q <= p
  OBVIOUS
<1> QED
  <2> HIDE DEF R
  <2> QED BY <1>2, <1>3, <1>4, Zenon

\* Induction, for the numbers in a set.
LEMMA InductionInSet ==
  ASSUME NEW S, 0 \in S, \A n \in Nat : n \in S => n + 1 \in S
  PROVE  \A n \in Nat : n \in S
<1> SUFFICES ASSUME ~ (Nat \subseteq S) PROVE FALSE
  OBVIOUS
<1>1. PICK n \in Nat \ S : \A m \in Nat \ S : n <= m
  BY LeastNumber
<1>2. n # 0
  OBVIOUS
<1>3. n - 1 \in Nat /\ n - 1 \in S
  BY <1>1, <1>2
<1>4. n \in S
  BY <1>3
<1> QED BY <1>1, <1>4

\* The rows of external_usage: a key that is not made from a time and a line number holds the
\* number of the event.
UsageRows ==
  {o \in [key: {"id", "line", "cum"} \X Nat \X Nat, event: Nat, tokens: Nat] :
     o.key[1] # "line" => o.key[2] = o.event}

\* The running totals of a sequence of rows.
Sums(s, N, f) ==
  /\ f \in [0..N -> Nat] /\ f[0] = 0
  /\ \A n \in 0..(N - 1) : f[n + 1] = f[n] + s[n + 1].tokens

\* One more row.
LEMMA SumsGo ==
  ASSUME NEW s, NEW N \in Nat, NEW f, Sums(s, N, f), s[N + 1].tokens \in Nat
  PROVE  LET g == [n \in 0..(N + 1) |-> IF n = N + 1 THEN f[N] + s[N + 1].tokens ELSE f[n]]
         IN Sums(s, N + 1, g)
<1>1. PICK g : g = [n \in 0..(N + 1) |-> IF n = N + 1 THEN f[N] + s[N + 1].tokens ELSE f[n]]
  OBVIOUS
<1>2. PICK t \in Nat, u \in Nat : t = s[N + 1].tokens /\ u = f[N]
  BY DEF Sums
<1>3. \A n \in 0..N : n # N + 1 /\ n \in 0..(N + 1) /\ f[n] \in Nat
  BY DEF Sums
<1>4. \A n \in 0..N : g[n] = f[n]
  BY <1>1, <1>3
<1>5. g[N + 1] = u + t /\ u + t \in Nat
  BY <1>1, <1>2
<1>6. \A n \in 0..(N + 1) : n = N + 1 \/ n \in 0..N
  OBVIOUS
<1>7. g \in [0..(N + 1) -> Nat]
  <2>1. \A n \in 0..(N + 1) : g[n] \in Nat
    BY <1>3, <1>4, <1>5, <1>6
  <2> QED BY <1>1, <2>1
<1>8. g[0] = 0
  BY <1>4 DEF Sums
<1>9. ASSUME NEW n \in 0..N PROVE g[n + 1] = g[n] + s[n + 1].tokens
  <2>1. CASE n = N
    BY <1>2, <1>4, <1>5, <2>1
  <2>2. CASE n # N
    <3>1. n \in 0..(N - 1) /\ n + 1 \in 0..N
      BY <2>2
    <3> QED BY <1>4, <3>1 DEF Sums
  <2> QED BY <2>1, <2>2
<1>10. Sums(s, N + 1, g)
  <2>1. (N + 1) - 1 = N
    OBVIOUS
  <2> QED BY <1>7, <1>8, <1>9, <2>1 DEF Sums
<1> QED BY <1>1, <1>10

\* The running totals exist.
LEMMA SumsExist ==
  ASSUME NEW s \in Seq(UsageRows)
  PROVE  \E f : Sums(s, Len(s), f)
<1> DEFINE S == {N \in Nat : N <= Len(s) => \E f : Sums(s, N, f)}
<1>1. 0 \in S
  <2>1. Sums(s, 0, [n \in 0..0 |-> 0])
    BY DEF Sums
  <2> QED BY <2>1
<1>2. ASSUME NEW N \in Nat, N \in S PROVE N + 1 \in S
  <2> SUFFICES ASSUME N + 1 <= Len(s) PROVE \E g : Sums(s, N + 1, g)
    OBVIOUS
  <2>1. PICK f : Sums(s, N, f)
    BY <1>2
  <2>2. s[N + 1] \in UsageRows
    OBVIOUS
  <2>3. s[N + 1].tokens \in Nat
    BY <2>2 DEF UsageRows
  <2> QED BY <2>1, <2>3, SumsGo
<1> HIDE DEF S
<1>3. \A N \in Nat : N \in S
  BY <1>1, <1>2, InductionInSet
<1> QED BY <1>3 DEF S

\* Tokens is the last of them.
LEMMA TokensAre ==
  ASSUME NEW s \in Seq(UsageRows), NEW f, Sums(s, Len(s), f)
  PROVE  Tokens(s) = f[Len(s)]
<1> DEFINE Rec(g) == g = [n \in 0..Len(s) |-> IF n = 0 THEN 0 ELSE g[n - 1] + s[n].tokens]
<1>1. PICK N \in Nat : N = Len(s)
  OBVIOUS
<1>2. Rec(f)
  <2>1. ASSUME NEW n \in 0..N PROVE f[n] = IF n = 0 THEN 0 ELSE f[n - 1] + s[n].tokens
    <3>1. CASE n = 0
      BY <1>1, <3>1 DEF Sums
    <3>2. CASE n # 0
      <4>1. PICK m \in 0..(N - 1) : m = n - 1 /\ n = m + 1
        BY <3>2
      <4>2. f[m + 1] = f[m] + s[m + 1].tokens
        BY <1>1, <4>1 DEF Sums
      <4> QED BY <3>2, <4>1, <4>2
    <3> QED BY <3>1, <3>2
  <2>2. f = [n \in 0..N |-> f[n]]
    BY <1>1 DEF Sums
  <2> QED BY <1>1, <2>1, <2>2
<1>3. PICK g : g = CHOOSE h : Rec(h)
  OBVIOUS
<1>4. Rec(g)
  BY <1>2, <1>3
<1>5. Tokens(s) = g[Len(s)]
  BY <1>3 DEF Tokens
<1>6. g[0] = 0 /\ \A n \in 0..(N - 1) : g[n + 1] = g[n] + s[n + 1].tokens
  <2>1. g[0] = 0
    BY <1>1, <1>4
  <2>2. ASSUME NEW n \in 0..(N - 1) PROVE g[n + 1] = g[n] + s[n + 1].tokens
    <3>1. n + 1 \in 0..N /\ n + 1 # 0 /\ (n + 1) - 1 = n
      OBVIOUS
    <3>2. g[n + 1] = g[(n + 1) - 1] + s[n + 1].tokens
      BY <1>1, <1>4, <3>1
    <3> QED BY <3>1, <3>2
  <2> QED BY <2>1, <2>2
<1> DEFINE S == {n \in Nat : n <= N => g[n] = f[n]}
<1> HIDE DEF Rec
<1>7. 0 \in S
  BY <1>1, <1>6 DEF Sums
<1>8. ASSUME NEW n \in Nat, n \in S PROVE n + 1 \in S
  <2> SUFFICES ASSUME n + 1 <= N PROVE g[n + 1] = f[n + 1]
    OBVIOUS
  <2>1. n \in 0..(N - 1) /\ n <= N
    OBVIOUS
  <2>2. g[n] = f[n]
    BY <1>8, <2>1
  <2> QED BY <1>1, <1>6, <2>1, <2>2 DEF Sums
<1> HIDE DEF S
<1>9. \A n \in Nat : n \in S
  BY <1>7, <1>8, InductionInSet
<1> QED BY <1>1, <1>5, <1>9 DEF S

\* No rows add up to nothing, one more adds its tokens.
LEMMA TokensOfNone == Tokens(<< >>) = 0
<1>1. << >> \in Seq(UsageRows) /\ Len(<< >>) = 0
  OBVIOUS
<1>2. Sums(<< >>, Len(<< >>), [n \in 0..0 |-> 0])
  BY <1>1 DEF Sums
<1>3. Tokens(<< >>) = [n \in 0..0 |-> 0][0]
  BY <1>1, <1>2, TokensAre
<1> QED BY <1>3

\* A row more adds its tokens.
LEMMA TokensAppend ==
  ASSUME NEW s \in Seq(UsageRows), NEW o \in UsageRows
  PROVE  /\ Tokens(s) \in Nat /\ o.tokens \in Nat
         /\ Tokens(Append(s, o)) = Tokens(s) + o.tokens
<1>1. PICK f : Sums(s, Len(s), f)
  BY SumsExist
<1>2. PICK t : t = Append(s, o)
  OBVIOUS
<1>3. PICK N \in Nat : N = Len(s)
  OBVIOUS
<1>4. /\ t \in Seq(UsageRows) /\ Len(t) = N + 1 /\ t[N + 1] = o
      /\ \A i \in 1..N : t[i] = s[i]
  BY <1>2, <1>3
<1>5. o.tokens \in Nat
  BY DEF UsageRows
<1>6. Sums(t, N, f)
  <2>1. ASSUME NEW n \in 0..(N - 1) PROVE f[n + 1] = f[n] + t[n + 1].tokens
    <3>1. n + 1 \in 1..N
      OBVIOUS
    <3> QED BY <1>1, <1>3, <1>4, <3>1 DEF Sums
  <2> QED BY <1>1, <1>3, <2>1 DEF Sums
<1>7. PICK g : g = [n \in 0..(N + 1) |-> IF n = N + 1 THEN f[N] + t[N + 1].tokens ELSE f[n]]
  OBVIOUS
<1>8. Sums(t, N + 1, g)
  BY <1>4, <1>5, <1>6, <1>7, SumsGo
<1>9. g[N + 1] = f[N] + o.tokens
  BY <1>4, <1>7
<1>10. Tokens(t) = g[N + 1]
  BY <1>4, <1>8, TokensAre
<1>11. Tokens(s) = f[N] /\ f[N] \in Nat
  BY <1>1, <1>3, TokensAre DEF Sums
<1> QED BY <1>2, <1>5, <1>9, <1>10, <1>11

\* A row between others adds its tokens.
LEMMA TokensWithout ==
  ASSUME NEW s \in Seq(UsageRows), NEW q \in Seq(UsageRows), NEW a \in Nat, NEW h \in UsageRows,
         a <= Len(s), Len(q) = Len(s) + 1, q[a + 1] = h,
         \A i \in 1..a : q[i] = s[i], \A i \in (a + 1)..Len(s) : q[i + 1] = s[i]
  PROVE  /\ Tokens(s) \in Nat /\ h.tokens \in Nat
         /\ Tokens(q) = Tokens(s) + h.tokens
<1>1. PICK f : Sums(s, Len(s), f)
  BY SumsExist
<1>2. PICK N \in Nat : N = Len(s)
  OBVIOUS
<1>3. PICK t \in Nat : t = h.tokens
  BY DEF UsageRows
<1>4. PICK g : g = [n \in 0..(N + 1) |-> IF n <= a THEN f[n] ELSE f[n - 1] + t]
  OBVIOUS
<1>5. \A n \in 0..N : f[n] \in Nat
  BY <1>1, <1>2 DEF Sums
<1>6. /\ \A n \in 0..a : n \in 0..N /\ g[n] = f[n]
      /\ \A n \in a..N : g[n + 1] = f[n] + t
  <2>1. ASSUME NEW n \in 0..a PROVE n \in 0..N /\ g[n] = f[n]
    <3>1. n \in 0..N /\ n \in 0..(N + 1) /\ n <= a
      BY <1>2
    <3> QED BY <1>4, <3>1
  <2>2. ASSUME NEW n \in a..N PROVE g[n + 1] = f[n] + t
    <3>1. n + 1 \in 0..(N + 1) /\ ~ (n + 1 <= a) /\ (n + 1) - 1 = n
      OBVIOUS
    <3> QED BY <1>4, <3>1
  <2> QED BY <2>1, <2>2
<1>7. g \in [0..(N + 1) -> Nat] /\ g[0] = 0
  <2>1. ASSUME NEW n \in 0..(N + 1) PROVE g[n] \in Nat
    <3>1. CASE n <= a
      <4>1. n \in 0..a
        BY <3>1
      <4> QED BY <1>5, <1>6, <4>1
    <3>2. CASE ~ (n <= a)
      <4>1. n - 1 \in a..N /\ (n - 1) + 1 = n
        BY <3>2
      <4>2. PICK m \in a..N : m + 1 = n
        BY <4>1
      <4>3. m \in 0..N
        OBVIOUS
      <4>4. g[m + 1] = f[m] + t /\ f[m] \in Nat
        BY <1>5, <1>6, <4>3
      <4> QED BY <4>2, <4>4
    <3> QED BY <3>1, <3>2
  <2>2. g[0] = f[0]
    BY <1>6
  <2>3. f[0] = 0
    BY <1>1 DEF Sums
  <2> QED BY <1>4, <2>1, <2>2, <2>3
<1>8. \A n \in 0..(N - 1) : f[n + 1] = f[n] + s[n + 1].tokens /\ s[n + 1].tokens \in Nat
  <2>1. ASSUME NEW n \in 0..(N - 1) PROVE s[n + 1].tokens \in Nat
    <3>1. s[n + 1] \in UsageRows
      BY <1>2
    <3> QED BY <3>1 DEF UsageRows
  <2> QED BY <1>1, <1>2, <2>1 DEF Sums
<1>9. ASSUME NEW n \in 0..N PROVE g[n + 1] = g[n] + q[n + 1].tokens
  <2>1. CASE n < a
    <3>1. n \in 0..a /\ n + 1 \in 0..a /\ n + 1 \in 1..a /\ n \in 0..(N - 1)
      BY <1>2, <2>1
    <3>2. q[n + 1] = s[n + 1]
      BY <3>1
    <3> QED BY <1>6, <1>8, <3>1, <3>2
  <2>2. CASE n = a
    <3>1. n \in 0..a /\ n \in a..N
      BY <2>2
    <3> QED BY <1>3, <1>6, <2>2, <3>1
  <2>3. CASE n > a
    <3>1. PICK m \in a..N : m + 1 = n
      BY <2>3
    <3>2. n \in a..N /\ m \in 0..(N - 1) /\ n \in (a + 1)..N /\ m \in 0..N
      BY <2>3, <3>1
    <3>3. g[n + 1] = f[n] + t /\ g[n] = f[m] + t
      BY <1>6, <3>1, <3>2
    <3>4. q[n + 1] = s[n]
      BY <1>2, <3>2
    <3>5. f[m + 1] = f[m] + s[m + 1].tokens /\ s[m + 1].tokens \in Nat /\ f[m] \in Nat
      BY <1>5, <1>8, <3>2
    <3>6. f[n] = f[m] + s[n].tokens /\ s[n].tokens \in Nat /\ f[m] \in Nat
      BY <3>1, <3>5, Zenon
    <3>7. PICK x \in Nat, y \in Nat : x = f[m] /\ y = s[n].tokens /\ f[n] = x + y
      BY <3>6
    <3>8. g[n + 1] = (x + y) + t /\ g[n] = x + t /\ q[n + 1].tokens = y
      BY <3>3, <3>4, <3>7, Zenon
    <3>9. (x + y) + t = (x + t) + y
      OBVIOUS
    <3> QED BY <3>8, <3>9, Zenon
  <2> QED BY <1>2, <2>1, <2>2, <2>3
<1>10. Sums(q, N + 1, g)
  <2>1. (N + 1) - 1 = N
    OBVIOUS
  <2> QED BY <1>7, <1>9, <2>1 DEF Sums
<1>11. Tokens(q) = g[N + 1]
  BY <1>2, <1>10, TokensAre
<1>12. Tokens(s) = f[N] /\ f[N] \in Nat
  BY <1>1, <1>2, <1>5, TokensAre
<1>13. g[N + 1] = f[N] + t
  <2>1. N \in a..N
    BY <1>2
  <2> QED BY <1>6, <2>1
<1> QED BY <1>3, <1>11, <1>12, <1>13

(***************************************************************************)
(* What the lines of a source are worth                                    *)
(***************************************************************************)

\* The events up to k of one shape.
Of(shape, k) == {e \in 1..k : Shape[provider][e] = shape}

\* The last cumulative total among the first k events.
Top(k) == Max({0} \cup Of("total", k))

\* The tokens of the first k events.
Due(k) ==
  Cardinality(Of("named", k))
  + (IF provider = "opencode" THEN 0 ELSE Cardinality(Of("bare", k)))
  + (IF provider = "codex" THEN Top(k) ELSE 0)

\* One more event of a shape, or of another.
LEMMA OfSteps ==
  ASSUME NEW k \in Nat, NEW shape
  PROVE  /\ Cardinality(Of(shape, k)) \in Nat
         /\ Cardinality(Of(shape, k + 1)) =
              Cardinality(Of(shape, k)) + (IF Shape[provider][k + 1] = shape THEN 1 ELSE 0)
<1>1. IsFiniteSet(Of(shape, k)) /\ Cardinality(Of(shape, k)) \in Nat
  <2>1. IsFiniteSet(1..k)
    BY FS_Interval
  <2>2. Of(shape, k) \in SUBSET (1..k)
    BY DEF Of
  <2> QED BY <2>1, <2>2, FS_Subset, FS_CardinalityType
<1>2. k + 1 \notin Of(shape, k)
  BY DEF Of
<1>3. \A e : e \in 1..(k + 1) <=> e \in 1..k \/ e = k + 1
  OBVIOUS
<1>4. CASE Shape[provider][k + 1] = shape
  <2>1. Of(shape, k + 1) = Of(shape, k) \cup {k + 1}
    BY <1>3, <1>4 DEF Of
  <2>2. Cardinality(Of(shape, k) \cup {k + 1}) = Cardinality(Of(shape, k)) + 1
    BY <1>1, <1>2, FS_AddElement
  <2> QED BY <1>1, <1>4, <2>1, <2>2
<1>5. CASE Shape[provider][k + 1] # shape
  <2>1. Of(shape, k + 1) = Of(shape, k)
    BY <1>3, <1>5 DEF Of
  <2> QED BY <1>1, <1>5, <2>1
<1> QED BY <1>4, <1>5

\* The largest of a bounded set of numbers.
LEMMA MaxIs ==
  ASSUME NEW S, NEW m \in S, \A y \in S : y \in Nat /\ y <= m
  PROVE  Max(S) = m
<1>1. Max(S) = CHOOSE x \in S : \A y \in S : x >= y
  BY DEF Max
<1>2. m \in Nat /\ \A y \in S : m >= y
  OBVIOUS
<1>3. \E x \in S : \A y \in S : x >= y
  BY <1>2
<1>4. PICK x \in S : x = Max(S) /\ \A y \in S : x >= y
  BY <1>1, <1>3
<1> QED BY <1>2, <1>4

\* The last total, step by step.
LEMMA TopSteps ==
  /\ Top(0) = 0
  /\ \A k \in Nat : /\ Top(k) \in Nat /\ Top(k) <= k
                    /\ Top(k + 1) = IF Shape[provider][k + 1] = "total" THEN k + 1 ELSE Top(k)
<1> DEFINE U(k) == {0} \cup Of("total", k)
<1>1. \A k : Top(k) = Max(U(k))
  BY DEF Top
<1>2. \A k \in Nat : \A y \in U(k) : y \in Nat /\ y <= k
  BY DEF Of
<1>3. \A k \in Nat : /\ Shape[provider][k + 1] = "total" => U(k + 1) = U(k) \cup {k + 1}
                     /\ Shape[provider][k + 1] # "total" => U(k + 1) = U(k)
  <2>1. \A k \in Nat : \A e : e \in 1..(k + 1) <=> e \in 1..k \/ e = k + 1
    OBVIOUS
  <2> QED BY <2>1 DEF Of
<1>4. U(0) = {0}
  BY DEF Of
<1> HIDE DEF U
<1> DEFINE S == {k \in Nat : Top(k) \in U(k) /\ \A y \in U(k) : y <= Top(k)}
<1>5. Top(0) = 0
  BY <1>1, <1>4, MaxIs
<1>6. 0 \in S
  BY <1>4, <1>5
<1>7. ASSUME NEW k \in Nat, k \in S PROVE k + 1 \in S
  <2>1. CASE Shape[provider][k + 1] = "total"
    <3>1. U(k + 1) = U(k) \cup {k + 1} /\ k + 1 \in Nat
      BY <1>3, <2>1
    <3>2. \A y \in U(k + 1) : y \in Nat /\ y <= k + 1
      BY <1>2, <3>1
    <3>3. Top(k + 1) = k + 1
      BY <1>1, <3>1, <3>2, MaxIs
    <3> QED BY <3>1, <3>2, <3>3
  <2>2. CASE Shape[provider][k + 1] # "total"
    <3>1. U(k + 1) = U(k)
      BY <1>3, <2>2
    <3>2. Top(k + 1) = Top(k)
      BY <1>1, <3>1
    <3> QED BY <1>7, <3>1, <3>2
  <2> QED BY <2>1, <2>2
<1> HIDE DEF S
<1>8. \A k \in Nat : k \in S
  BY <1>6, <1>7, InductionInSet
<1>9. \A k \in Nat : Top(k) \in U(k)
  BY <1>8 DEF S
<1>10. \A k \in Nat : Top(k) \in Nat /\ Top(k) <= k
  BY <1>2, <1>9
<1>11. ASSUME NEW k \in Nat
       PROVE  Top(k + 1) = IF Shape[provider][k + 1] = "total" THEN k + 1 ELSE Top(k)
  <2>1. CASE Shape[provider][k + 1] = "total"
    <3>1. U(k + 1) = U(k) \cup {k + 1} /\ k + 1 \in Nat
      BY <1>3, <2>1
    <3>2. \A y \in U(k + 1) : y \in Nat /\ y <= k + 1
      BY <1>2, <3>1
    <3>3. Top(k + 1) = k + 1
      BY <1>1, <3>1, <3>2, MaxIs
    <3> QED BY <2>1, <3>3
  <2>2. CASE Shape[provider][k + 1] # "total"
    BY <1>1, <1>3, <2>2
  <2> QED BY <2>1, <2>2
<1> QED BY <1>5, <1>10, <1>11

\* What one more event is worth.
Worth(k) ==
  CASE Shape[provider][k + 1] = "named" -> 1
    [] Shape[provider][k + 1] = "bare" /\ provider # "opencode" -> 1
    [] Shape[provider][k + 1] = "total" /\ provider = "codex" -> (k + 1) - Top(k)
    [] OTHER -> 0

\* The tokens due, step by step.
LEMMA DueSteps ==
  /\ Due(0) = 0
  /\ \A k \in Nat : /\ Due(k) \in Nat /\ Worth(k) \in Nat
                    /\ Due(k + 1) = Due(k) + Worth(k)
<1>1. Due(0) = 0
  <2>1. \A shape : Of(shape, 0) = {}
    BY DEF Of
  <2>2. Cardinality({}) = 0
    BY FS_EmptySet
  <2>3. Cardinality(Of("named", 0)) = 0 /\ Cardinality(Of("bare", 0)) = 0 /\ Top(0) = 0
    BY <2>1, <2>2, TopSteps
  <2> QED BY <2>3 DEF Due
<1>2. ASSUME NEW k \in Nat
      PROVE  Due(k) \in Nat /\ Worth(k) \in Nat /\ Due(k + 1) = Due(k) + Worth(k)
  <2>1. PICK n \in Nat, b \in Nat, t \in Nat :
          n = Cardinality(Of("named", k)) /\ b = Cardinality(Of("bare", k)) /\ t = Top(k) /\ t <= k
    BY OfSteps, TopSteps
  <2>2. Due(k) = n + (IF provider = "opencode" THEN 0 ELSE b) + (IF provider = "codex" THEN t ELSE 0)
    BY <2>1 DEF Due
  <2>3. Cardinality(Of("named", k + 1)) = n + (IF Shape[provider][k + 1] = "named" THEN 1 ELSE 0)
    BY <2>1, OfSteps
  <2>4. Cardinality(Of("bare", k + 1)) = b + (IF Shape[provider][k + 1] = "bare" THEN 1 ELSE 0)
    BY <2>1, OfSteps
  <2>5. Top(k + 1) = IF Shape[provider][k + 1] = "total" THEN k + 1 ELSE t
    BY <2>1, TopSteps
  <2>6. Due(k + 1) =
          (n + (IF Shape[provider][k + 1] = "named" THEN 1 ELSE 0))
          + (IF provider = "opencode" THEN 0 ELSE b + (IF Shape[provider][k + 1] = "bare" THEN 1 ELSE 0))
          + (IF provider = "codex" THEN (IF Shape[provider][k + 1] = "total" THEN k + 1 ELSE t) ELSE 0)
    BY <2>3, <2>4, <2>5 DEF Due
  <2>7. CASE Shape[provider][k + 1] = "named"
    BY <2>1, <2>2, <2>6, <2>7 DEF Worth
  <2>8. CASE Shape[provider][k + 1] = "bare"
    BY <2>1, <2>2, <2>6, <2>8 DEF Worth
  <2>9. CASE Shape[provider][k + 1] = "total"
    BY <2>1, <2>2, <2>6, <2>9 DEF Worth
  <2>10. CASE Shape[provider][k + 1] \notin {"named", "bare", "total"}
    BY <2>1, <2>2, <2>6, <2>10 DEF Worth
  <2> QED BY <2>7, <2>8, <2>9, <2>10
<1> QED BY <1>1, <1>2

\* What is due grows.
LEMMA DueGrows ==
  ASSUME NEW k \in Nat, NEW e \in Nat, k <= e
  PROVE  Due(k) \in Nat /\ Due(e) \in Nat /\ Due(k) <= Due(e)
<1> DEFINE S == {n \in Nat : Due(k) <= Due(k + n)}
<1>1. 0 \in S
  <2>1. k + 0 = k /\ Due(k) \in Nat
    BY DueSteps
  <2> QED BY <2>1
<1>2. ASSUME NEW n \in Nat, n \in S PROVE n + 1 \in S
  <2>1. PICK m \in Nat : m = k + n /\ m + 1 = k + (n + 1)
    OBVIOUS
  <2>2. Due(m) \in Nat /\ Worth(m) \in Nat /\ Due(m + 1) = Due(m) + Worth(m) /\ Due(k) \in Nat
    BY DueSteps
  <2>3. Due(k) <= Due(m)
    BY <1>2, <2>1
  <2>4. Due(k) <= Due(m + 1)
    BY <2>2, <2>3
  <2> QED BY <2>1, <2>4
<1> HIDE DEF S
<1>3. \A n \in Nat : n \in S
  BY <1>1, <1>2, InductionInSet
<1>4. PICK n \in Nat : k + n = e
  OBVIOUS
<1>5. Due(k) <= Due(k + n)
  BY <1>3 DEF S
<1> QED BY <1>4, <1>5, DueSteps

(***************************************************************************)
(* Reading                                                                 *)
(***************************************************************************)

\* A key made from a time and a line number has the time of its event, which has no id.
RowOK(o) ==
  o.key[1] = "line" => /\ provider # "opencode" /\ Shape[provider][o.event] = "bare"
                       /\ o.key[2] = TimeOf(o.event)

\* Rows of the first k events, less the ones forgotten, no event twice: of all of them, unless
\* lines share a time.
Counted(rows, k) ==
  /\ rows \in Seq(UsageRows)
  /\ Tokens(rows) + forgotten <= Due(k)
  /\ TimesApart => Tokens(rows) + forgotten = Due(k)
  /\ \A i \in 1..Len(rows) : rows[i].event <= k /\ rows[i].event >= 1 /\ RowOK(rows[i])
  /\ \A i, j \in 1..Len(rows) : rows[i].event = rows[j].event => i = j

\* A row of a later event is added.
LEMMA CountedMore ==
  ASSUME forgotten \in Nat, NEW k \in Nat, NEW e \in Nat, k < e, NEW rows, Counted(rows, k),
         NEW o \in UsageRows, o.event = e, RowOK(o), Due(e) = Due(k) + o.tokens
  PROVE  Counted(Append(rows, o), e)
<1>1. PICK N \in Nat : N = Len(rows)
  BY DEF Counted
<1>2. PICK t : t = Append(rows, o)
  OBVIOUS
<1>3. rows \in Seq(UsageRows)
  BY DEF Counted
<1>4. /\ t \in Seq(UsageRows) /\ Len(t) = N + 1 /\ t[N + 1] = o
      /\ \A i \in 1..N : t[i] = rows[i]
  BY <1>1, <1>2, <1>3
<1>5. /\ Tokens(t) + forgotten <= Due(e)
      /\ TimesApart => Tokens(t) + forgotten = Due(e)
  <2>1. PICK x \in Nat, y \in Nat : x = Tokens(rows) /\ y = o.tokens /\ Tokens(t) = x + y
    BY <1>2, <1>3, TokensAppend
  <2>2. PICK d \in Nat : d = Due(k) /\ Due(e) = d + y
    BY <2>1, DueSteps
  <2>3. x + forgotten <= d /\ (TimesApart => x + forgotten = d)
    BY <2>1, <2>2 DEF Counted
  <2> QED BY <2>1, <2>2, <2>3
<1>6. \A i \in 1..N : rows[i].event <= k /\ rows[i].event >= 1 /\ rows[i].event \in Nat /\ RowOK(rows[i])
  <2>1. \A i \in 1..N : rows[i] \in UsageRows
    BY <1>1, <1>3
  <2>2. \A i \in 1..N : rows[i].event \in Nat
    BY <2>1 DEF UsageRows
  <2> QED BY <1>1, <2>2 DEF Counted
<1>7. \A i \in 1..(N + 1) : i = N + 1 \/ i \in 1..N
  OBVIOUS
<1>8. \A i \in 1..(N + 1) : t[i].event <= e /\ t[i].event >= 1 /\ RowOK(t[i])
  BY <1>4, <1>6, <1>7
<1>9. ASSUME NEW i \in 1..(N + 1), NEW j \in 1..(N + 1), t[i].event = t[j].event PROVE i = j
  <2>1. CASE i \in 1..N /\ j \in 1..N
    BY <1>1, <1>4, <1>9, <2>1 DEF Counted
  <2>2. CASE i = N + 1 /\ j \in 1..N
    BY <1>4, <1>6, <1>9, <2>2
  <2>3. CASE i \in 1..N /\ j = N + 1
    BY <1>4, <1>6, <1>9, <2>3
  <2> QED BY <1>7, <2>1, <2>2, <2>3
<1>10. Counted(t, e)
  BY <1>4, <1>5, <1>8, <1>9 DEF Counted
<1> QED BY <1>2, <1>10

\* Events that are worth nothing, or are not told apart, pass by.
LEMMA CountedPast ==
  ASSUME forgotten \in Nat, NEW k \in Nat, NEW e \in Nat, k <= e, NEW rows, Counted(rows, k),
         TimesApart => Due(e) = Due(k)
  PROVE  Counted(rows, e)
<1>1. rows \in Seq(UsageRows)
  BY DEF Counted
<1>2. \A i \in 1..Len(rows) : rows[i].event \in Nat
  <2>1. \A i \in 1..Len(rows) : rows[i] \in UsageRows
    BY <1>1
  <2> QED BY <2>1 DEF UsageRows
<1>3. \A i \in 1..Len(rows) : rows[i].event <= e /\ rows[i].event >= 1 /\ RowOK(rows[i])
  BY <1>2 DEF Counted
<1>4. PICK x \in Nat, d \in Nat, f \in Nat :
        x = Tokens(rows) /\ d = Due(k) /\ f = Due(e) /\ d <= f
  <2>1. PICK g : Sums(rows, Len(rows), g)
    BY <1>1, SumsExist
  <2>2. Tokens(rows) \in Nat
    BY <1>1, <2>1, TokensAre DEF Sums
  <2> QED BY <2>2, DueGrows
<1>5. x + forgotten <= d /\ (TimesApart => x + forgotten = d)
  BY <1>4 DEF Counted
<1>6. x + forgotten <= f /\ (TimesApart => x + forgotten = f)
  BY <1>4, <1>5
<1> QED BY <1>1, <1>3, <1>4, <1>6 DEF Counted

\* A row after others, behind the ones of the table.
LEMMA AppendBehind ==
  ASSUME NEW s \in Seq(UsageRows), NEW t \in Seq(UsageRows), NEW o \in UsageRows
  PROVE  /\ Append(t, o) \in Seq(UsageRows)
         /\ s \o Append(t, o) = Append(s \o t, o)
<1>1. PICK a : a = Append(t, o)
  OBVIOUS
<1>2. PICK u : u = s \o t
  OBVIOUS
<1>3. /\ a \in Seq(UsageRows) /\ Len(a) = Len(t) + 1 /\ a[Len(t) + 1] = o
      /\ \A i \in 1..Len(t) : a[i] = t[i]
  BY <1>1
<1>4. <<o>> \in Seq(UsageRows)
  OBVIOUS
<1>5. a = t \o <<o>>
  BY <1>1, AppendIsConcat
<1>6. u \in Seq(UsageRows) /\ Append(u, o) = u \o <<o>>
  BY <1>2, ConcatProperties, AppendIsConcat
<1>7. s \o a = u \o <<o>>
  BY <1>2, <1>4, <1>5, ConcatAssociative
<1> QED BY <1>1, <1>2, <1>3, <1>6, <1>7

\* What the reading of lines has found so far.
Accs == [obs: Seq(UsageRows), total: Nat, limit: {"no", "yes"}]

\* Behind event k, it is what the table lacks of the tokens due.
AccOK(acc, k) ==
  /\ acc \in Accs
  /\ Counted(external \o acc.obs, k)
  /\ provider = "codex" => acc.total = Top(k)

\* The row of an event with an id, or of a line.
LEMMA KeyedRow ==
  ASSUME CollectAssumption, provider \in Providers, NEW e \in Events, NEW lineNo \in Nat,
         Shape[provider][e] = "named" \/ (Shape[provider][e] = "bare" /\ provider # "opencode")
  PROVE  /\ Keyed(e, lineNo) \in UsageRows /\ RowOK(Keyed(e, lineNo))
         /\ Keyed(e, lineNo).event = e /\ Keyed(e, lineNo).tokens = 1
         /\ Shape[provider][e] = "named" => Keyed(e, lineNo).key = <<"id", e, 0>>
<1>1. e \in Nat
  BY DEF CollectAssumption, Events
<1>2. TimeOf(e) \in Nat
  BY DEF CollectAssumption, Events, TimeOf
<1>3. PICK t \in Nat : t = TimeOf(e)
  BY <1>2
<1>4. CASE Shape[provider][e] = "named"
  <2>1. Keyed(e, lineNo) = [key |-> <<"id", e, 0>>, event |-> e, tokens |-> 1]
    BY <1>4 DEF Keyed
  <2> QED BY <1>1, <2>1 DEF UsageRows, RowOK
<1>5. CASE Shape[provider][e] = "bare" /\ provider # "opencode"
  <2>1. PICK o : o = [key |-> <<"line", t, lineNo>>, event |-> e, tokens |-> 1]
    OBVIOUS
  <2>2. Keyed(e, lineNo) = o
    BY <1>3, <1>5, <2>1 DEF Keyed
  <2>3. o \in UsageRows /\ o.event = e /\ o.tokens = 1 /\ o.key[2] = t
    BY <1>1, <2>1 DEF UsageRows
  <2>4. RowOK(o)
    BY <1>3, <1>5, <2>3 DEF RowOK
  <2> QED BY <1>5, <2>2, <2>3, <2>4
<1> QED BY <1>4, <1>5

\* The row of a cumulative total.
LEMMA CumulativeRow ==
  ASSUME NEW e \in Nat, NEW last \in Nat, last <= e
  PROVE  /\ Cumulative(e, last) \in UsageRows /\ RowOK(Cumulative(e, last))
         /\ Cumulative(e, last).event = e /\ Cumulative(e, last).tokens = e - last
BY DEF Cumulative, UsageRows, RowOK

\* Rows of different events have different keys, unless lines share a time.
LEMMA KeysApart ==
  ASSUME TimesApart, written \in Nat, NEW o \in UsageRows, NEW q \in UsageRows, RowOK(o), RowOK(q),
         o.event >= 1, q.event >= 1, o.event <= written, q.event <= written, o.key = q.key
  PROVE  o.event = q.event
<1>1. PICK d \in Nat, e \in Nat : d = o.event /\ e = q.event
  BY DEF UsageRows
<1>2. CASE o.key[1] = "line"
  <2>1. /\ provider # "opencode" /\ Shape[provider][d] = "bare" /\ Shape[provider][e] = "bare"
        /\ TimeOf(d) = TimeOf(e)
    BY <1>1, <1>2 DEF RowOK
  <2>2. d \in 1..written /\ e \in 1..written
    BY <1>1
  <2> QED BY <1>1, <2>1, <2>2 DEF TimesApart
<1>3. CASE o.key[1] # "line"
  BY <1>3 DEF UsageRows
<1> QED BY <1>2, <1>3

\* An event later than those of the table is not in it, unless lines share a time.
LEMMA NotRecorded ==
  ASSUME TimesApart, written \in Nat, NEW a \in Nat, NEW e \in Nat, a < e, e <= written,
         external \in Seq(UsageRows),
         \A i \in 1..Len(external) : external[i].event <= a /\ external[i].event >= 1 /\ RowOK(external[i]),
         NEW o \in UsageRows, o.event = e, RowOK(o)
  PROVE  ~ hasExternal(o.key)
<1> SUFFICES ASSUME NEW i \in DOMAIN external, external[i].key = o.key PROVE FALSE
  BY DEF hasExternal
<1>1. i \in 1..Len(external) /\ external[i] \in UsageRows
  OBVIOUS
<1>2. PICK d \in Nat : d = external[i].event
  BY <1>1 DEF UsageRows
<1>3. d <= a /\ d >= 1 /\ d <= written /\ e >= 1
  BY <1>1, <1>2
<1>4. external[i].event = o.event
  BY <1>1, <1>2, <1>3, KeysApart
<1> QED BY <1>2, <1>3, <1>4

\* One more line.
LEMMA LineRead ==
  ASSUME CollectAssumption, provider \in Providers, provider # "opencode", forgotten \in Nat,
         external \in Seq(UsageRows), written \in Nat, NEW a \in Nat,
         \A i \in 1..Len(external) : external[i].event <= a /\ external[i].event >= 1 /\ RowOK(external[i]),
         NEW k \in Nat, a <= k, k + 1 <= Len(Shape[provider]), k + 1 <= written,
         NEW acc, AccOK(acc, k), NEW n \in Nat
  PROVE  AccOK(ReadLine(acc, k + 1, n), k + 1)
<1> DEFINE e == k + 1
           add(o) == IF hasExternal(o.key) THEN acc.obs ELSE Append(acc.obs, o)
<1>1. /\ acc \in Accs /\ acc.obs \in Seq(UsageRows) /\ acc.total \in Nat /\ acc.limit \in {"no", "yes"}
      /\ Counted(external \o acc.obs, k) /\ (provider = "codex" => acc.total = Top(k))
  BY DEF AccOK, Accs
<1>2. e \in Nat /\ e # 0 /\ a < e /\ k < e
  OBVIOUS
<1>3. Shape[provider][e] \in Shapes
  BY DEF CollectAssumption
<1>4. Due(e) = Due(k) + Worth(k) /\ Top(k) \in Nat /\ Top(k) <= k /\ Due(k) \in Nat
      /\ Top(e) = IF Shape[provider][e] = "total" THEN e ELSE Top(k)
  BY DueSteps, TopSteps
<1>5. ASSUME NEW o \in UsageRows, o.event = e, RowOK(o), Worth(k) = o.tokens
      PROVE  /\ add(o) \in Seq(UsageRows)
             /\ Counted(external \o add(o), e)
  <2>1. CASE hasExternal(o.key)
    <3>1. ~ TimesApart
      BY <1>2, <1>5, <2>1, NotRecorded
    <3>2. Counted(external \o acc.obs, e)
      BY <1>1, <1>2, <3>1, CountedPast
    <3> QED BY <1>1, <2>1, <3>2
  <2>2. CASE ~ hasExternal(o.key)
    <3>1. Append(acc.obs, o) \in Seq(UsageRows) /\ external \o Append(acc.obs, o) = Append(external \o acc.obs, o)
      BY <1>1, AppendBehind
    <3>2. Counted(Append(external \o acc.obs, o), e)
      BY <1>1, <1>2, <1>4, <1>5, CountedMore
    <3> QED BY <2>2, <3>1, <3>2
  <2> QED BY <2>1, <2>2
<1> DEFINE R == ReadLine(acc, e, n)
<1>6. CASE Shape[provider][e] \in {"named", "bare"}
  <2>1. R = [acc EXCEPT !.obs = add(Keyed(e, n))]
    BY <1>2, <1>6 DEF ReadLine
  <2>2. Worth(k) = 1
    BY <1>6 DEF Worth
  <2>3. add(Keyed(e, n)) \in Seq(UsageRows) /\ Counted(external \o add(Keyed(e, n)), e)
    <3>1. e \in Events
      BY <1>2 DEF CollectAssumption, Events
    <3>2. PICK o : o = Keyed(e, n)
      OBVIOUS
    <3>3. o \in UsageRows /\ RowOK(o) /\ o.event = e /\ o.tokens = 1
      BY <1>6, <3>1, <3>2, KeyedRow
    <3>4. add(o) \in Seq(UsageRows) /\ Counted(external \o add(o), e)
      BY <1>5, <2>2, <3>3
    <3> QED BY <3>2, <3>4
  <2>4. PICK s : s = add(Keyed(e, n))
    OBVIOUS
  <2>5. R \in Accs /\ R.obs = s /\ R.total = acc.total
    BY <1>1, <2>1, <2>3, <2>4 DEF Accs
  <2>6. Top(e) = Top(k)
    BY <1>4, <1>6
  <2> HIDE DEF R, e
  <2>7. AccOK(R, e)
    BY <1>1, <2>3, <2>4, <2>5, <2>6 DEF AccOK
  <2> QED BY <2>7 DEF R, e
<1>7. CASE Shape[provider][e] = "total"
  <2>1. CASE provider = "codex"
    <3>0. e > acc.total
      BY <1>1, <1>2, <1>4, <2>1
    <3>1. R = [acc EXCEPT !.obs = add(Cumulative(e, acc.total)), !.total = e]
      BY <1>2, <1>7, <2>1, <3>0 DEF ReadLine
    <3>2. Worth(k) = e - Top(k)
      BY <1>7, <2>1 DEF Worth
    <3>3. add(Cumulative(e, acc.total)) \in Seq(UsageRows) /\ Counted(external \o add(Cumulative(e, acc.total)), e)
      <4>1. PICK o : o = Cumulative(e, acc.total)
        OBVIOUS
      <4>2. o \in UsageRows /\ o.event = e /\ o.tokens = e - acc.total /\ RowOK(o)
        <5>1. acc.total <= e
          BY <1>1, <1>2, <3>0
        <5> QED BY <1>1, <1>2, <4>1, <5>1, CumulativeRow
      <4>3. Worth(k) = o.tokens
        BY <1>1, <2>1, <3>2, <4>2
      <4>4. add(o) \in Seq(UsageRows) /\ Counted(external \o add(o), e)
        BY <1>5, <4>2, <4>3
      <4> QED BY <4>1, <4>4
    <3>4. PICK s : s = add(Cumulative(e, acc.total))
      OBVIOUS
    <3>5. R \in Accs /\ R.obs = s /\ R.total = e
      BY <1>1, <1>2, <3>1, <3>3, <3>4 DEF Accs
    <3>6. Top(e) = e
      BY <1>4, <1>7
    <3> HIDE DEF R, e
    <3>7. AccOK(R, e)
      BY <1>1, <3>3, <3>4, <3>5, <3>6 DEF AccOK
    <3> QED BY <3>7 DEF R, e
  <2>2. CASE provider # "codex"
    <3>1. R = acc
      BY <1>2, <1>7, <2>2 DEF ReadLine
    <3>2. Worth(k) = 0
      BY <1>7, <2>2 DEF Worth
    <3>3. Counted(external \o acc.obs, e)
      BY <1>1, <1>2, <1>4, <3>2, CountedPast
    <3> QED BY <1>1, <2>2, <3>1, <3>3 DEF AccOK
  <2> QED BY <2>1, <2>2
<1>8. CASE Shape[provider][e] = "limit"
  <2>1. R = acc \/ R = [acc EXCEPT !.limit = "yes"]
    BY <1>2, <1>8 DEF ReadLine
  <2>2. Worth(k) = 0
    BY <1>8 DEF Worth
  <2>3. Counted(external \o acc.obs, e)
    BY <1>1, <1>2, <1>4, <2>2, CountedPast
  <2>4. R \in Accs /\ R.obs = acc.obs /\ R.total = acc.total
    BY <1>1, <2>1 DEF Accs
  <2>5. Top(e) = Top(k)
    BY <1>4, <1>8
  <2> HIDE DEF R, e
  <2>6. AccOK(R, e)
    BY <1>1, <2>3, <2>4, <2>5 DEF AccOK
  <2> QED BY <2>6 DEF R, e
<1> QED BY <1>3, <1>6, <1>7, <1>8 DEF Shapes

\* Read goes over the lines one by one.
LEMMA ReadGoes ==
  ASSUME NEW lines, NEW N \in Nat
  PROVE  \E f : /\ f[0] = [obs |-> << >>, total |-> total, limit |-> "no"]
                /\ \A k \in 0..(N - 1) : f[k + 1] = ReadLine(f[k], lines[k + 1], k + 1)
                /\ Read(lines, N) = f[N]
<1> DEFINE First == [obs |-> << >>, total |-> total, limit |-> "no"]
           Rec(f, M) == f = [k \in 0..M |-> IF k = 0 THEN First ELSE ReadLine(f[k - 1], lines[k], k)]
           S == {M \in Nat : \E f : Rec(f, M)}
<1> HIDE DEF First
<1>1. 0 \in S
  <2>1. Rec([k \in 0..0 |-> First], 0)
    OBVIOUS
  <2> QED BY <2>1
<1>2. ASSUME NEW M \in Nat, M \in S PROVE M + 1 \in S
  <2>1. PICK f : Rec(f, M)
    BY <1>2
  <2>2. PICK g : g = [k \in 0..(M + 1) |-> IF k = M + 1 THEN ReadLine(f[M], lines[M + 1], M + 1) ELSE f[k]]
    OBVIOUS
  <2>3. \A k \in 0..M : k \in 0..(M + 1) /\ k # M + 1
    OBVIOUS
  <2>4. \A k \in 0..M : g[k] = f[k]
    BY <2>2, <2>3
  <2>5. ASSUME NEW k \in 0..(M + 1)
        PROVE  g[k] = IF k = 0 THEN First ELSE ReadLine(g[k - 1], lines[k], k)
    <3>1. CASE k = M + 1
      <4>1. k # 0 /\ k - 1 = M /\ M \in 0..M
        BY <3>1
      <4>2. g[k] = ReadLine(f[M], lines[k], k)
        BY <2>2, <3>1
      <4>3. g[k - 1] = f[M]
        BY <2>4, <4>1
      <4> QED BY <4>1, <4>2, <4>3
    <3>2. CASE k # M + 1
      <4>1. k \in 0..M /\ (k # 0 => k - 1 \in 0..M)
        BY <3>2
      <4>2. f[k] = IF k = 0 THEN First ELSE ReadLine(f[k - 1], lines[k], k)
        BY <2>1, <4>1
      <4> QED BY <2>4, <4>1, <4>2
    <3> QED BY <3>1, <3>2
  <2>6. g = [k \in 0..(M + 1) |-> g[k]]
    BY <2>2
  <2>7. Rec(g, M + 1)
    BY <2>5, <2>6
  <2> QED BY <2>7
<1> HIDE DEF S
<1>3. N \in S
  BY <1>1, <1>2, InductionInSet
<1>4. \E f : Rec(f, N)
  BY <1>3 DEF S
<1>5. PICK f : f = CHOOSE g : Rec(g, N)
  OBVIOUS
<1>6. Rec(f, N)
  BY <1>4, <1>5
<1>7. Read(lines, N) = f[N]
  BY <1>5 DEF Read, First
<1>8. f[0] = First
  BY <1>6
<1>9. ASSUME NEW k \in 0..(N - 1) PROVE f[k + 1] = ReadLine(f[k], lines[k + 1], k + 1)
  <2>1. k + 1 \in 0..N /\ k + 1 # 0 /\ (k + 1) - 1 = k
    OBVIOUS
  <2>2. f[k + 1] = ReadLine(f[(k + 1) - 1], lines[k + 1], k + 1)
    BY <1>6, <2>1
  <2> QED BY <2>1, <2>2
<1> QED BY <1>7, <1>8, <1>9 DEF First

\* A function that goes over the rows one by one, and ends with what ReadRows gives.
RowsReading(f, rows, N, from) ==
  /\ f[0] = [obs |-> << >>, offset |-> from]
  /\ \A k \in 0..(N - 1) : f[k + 1] = ReadRow(f[k], rows[k + 1])
  /\ ReadRows(rows, N, from) = f[N]

\* There is one.
LEMMA ReadRowsGoes ==
  ASSUME NEW rows, NEW N \in Nat, NEW from
  PROVE  \E f : RowsReading(f, rows, N, from)
<1> DEFINE First == [obs |-> << >>, offset |-> from]
           Rec(f, M) == f = [k \in 0..M |-> IF k = 0 THEN First ELSE ReadRow(f[k - 1], rows[k])]
           S == {M \in Nat : \E f : Rec(f, M)}
<1> HIDE DEF First
<1>1. 0 \in S
  <2>1. Rec([k \in 0..0 |-> First], 0)
    OBVIOUS
  <2> QED BY <2>1
<1>2. ASSUME NEW M \in Nat, M \in S PROVE M + 1 \in S
  <2>1. PICK f : Rec(f, M)
    BY <1>2
  <2>2. PICK g : g = [k \in 0..(M + 1) |-> IF k = M + 1 THEN ReadRow(f[M], rows[M + 1]) ELSE f[k]]
    OBVIOUS
  <2>3. \A k \in 0..M : k \in 0..(M + 1) /\ k # M + 1
    OBVIOUS
  <2>4. \A k \in 0..M : g[k] = f[k]
    BY <2>2, <2>3
  <2>5. ASSUME NEW k \in 0..(M + 1)
        PROVE  g[k] = IF k = 0 THEN First ELSE ReadRow(g[k - 1], rows[k])
    <3>1. CASE k = M + 1
      <4>1. k # 0 /\ k - 1 = M /\ M \in 0..M
        BY <3>1
      <4>2. g[k] = ReadRow(f[M], rows[k])
        BY <2>2, <3>1
      <4>3. g[k - 1] = f[M]
        BY <2>4, <4>1
      <4> QED BY <4>1, <4>2, <4>3
    <3>2. CASE k # M + 1
      <4>1. k \in 0..M /\ (k # 0 => k - 1 \in 0..M)
        BY <3>2
      <4>2. f[k] = IF k = 0 THEN First ELSE ReadRow(f[k - 1], rows[k])
        BY <2>1, <4>1
      <4> QED BY <2>4, <4>1, <4>2
    <3> QED BY <3>1, <3>2
  <2>6. g = [k \in 0..(M + 1) |-> g[k]]
    BY <2>2
  <2>7. Rec(g, M + 1)
    BY <2>5, <2>6
  <2> QED BY <2>7
<1> HIDE DEF S
<1>3. N \in S
  BY <1>1, <1>2, InductionInSet
<1>4. \E f : Rec(f, N)
  BY <1>3 DEF S
<1>5. PICK f : f = CHOOSE g : Rec(g, N)
  OBVIOUS
<1>6. Rec(f, N)
  BY <1>4, <1>5
<1>7. ReadRows(rows, N, from) = f[N]
  BY <1>5 DEF ReadRows, First
<1>8. f[0] = First
  BY <1>6
<1>9. ASSUME NEW k \in 0..(N - 1) PROVE f[k + 1] = ReadRow(f[k], rows[k + 1])
  <2>1. k + 1 \in 0..N /\ k + 1 # 0 /\ (k + 1) - 1 = k
    OBVIOUS
  <2>2. f[k + 1] = ReadRow(f[(k + 1) - 1], rows[k + 1])
    BY <1>6, <2>1
  <2> QED BY <2>1, <2>2
<1> QED BY <1>7, <1>8, <1>9 DEF First, RowsReading

\* All lines from event a + 1 to event b.
LEMMA LinesRead ==
  ASSUME CollectAssumption, provider \in Providers, provider # "opencode", forgotten \in Nat,
         written \in Nat, total \in Nat, NEW a \in Nat, NEW b \in Nat, a <= b,
         b <= Len(Shape[provider]), b <= written, Counted(external, a), provider = "codex" => total = Top(a)
  PROVE  AccOK(Read([k \in 1..(b - a) |-> a + k], b - a), b)
<1>1. PICK N \in Nat : N = b - a /\ a + N = b
  OBVIOUS
<1>2. PICK lines : lines = [k \in 1..N |-> a + k]
  OBVIOUS
<1>3. PICK f : /\ f[0] = [obs |-> << >>, total |-> total, limit |-> "no"]
               /\ \A k \in 0..(N - 1) : f[k + 1] = ReadLine(f[k], lines[k + 1], k + 1)
               /\ Read(lines, N) = f[N]
  BY ReadGoes
<1>4. /\ external \in Seq(UsageRows)
      /\ \A i \in 1..Len(external) : external[i].event <= a /\ external[i].event >= 1 /\ RowOK(external[i])
  BY DEF Counted
<1> DEFINE S == {k \in Nat : k <= N => AccOK(f[k], a + k)}
<1>5. 0 \in S
  <2>1. f[0] \in Accs /\ f[0].obs = << >> /\ f[0].total = total
    BY <1>3 DEF Accs
  <2>2. external \o << >> = external
    BY <1>4, ConcatEmptySeq
  <2>3. AccOK(f[0], a + 0)
    BY <2>1, <2>2 DEF AccOK
  <2> QED BY <2>3
<1>6. ASSUME NEW k \in Nat, k \in S PROVE k + 1 \in S
  <2> SUFFICES ASSUME k + 1 <= N PROVE AccOK(f[k + 1], a + (k + 1))
    OBVIOUS
  <2>1. k \in 0..(N - 1) /\ k + 1 \in 1..N /\ k + 1 \in Nat /\ k <= N
    OBVIOUS
  <2>2. lines[k + 1] = a + (k + 1)
    BY <1>2, <2>1
  <2>3. PICK m \in Nat : m = a + k /\ m + 1 = a + (k + 1)
    OBVIOUS
  <2>4. a <= m /\ m + 1 <= Len(Shape[provider]) /\ m + 1 <= written
    <3>1. m + 1 <= b
      BY <1>1, <2>3
    <3>2. Len(Shape[provider]) \in Nat
      BY DEF CollectAssumption
    <3> QED BY <2>3, <3>1, <3>2
  <2>5. AccOK(f[k], m)
    BY <1>6, <2>1, <2>3
  <2>6. f[k + 1] = ReadLine(f[k], m + 1, k + 1)
    BY <1>3, <2>1, <2>2, <2>3
  <2>7. AccOK(ReadLine(f[k], m + 1, k + 1), m + 1)
    BY <1>4, <2>1, <2>4, <2>5, LineRead
  <2> QED BY <2>3, <2>6, <2>7
<1> HIDE DEF S
<1>7. N \in S
  BY <1>5, <1>6, InductionInSet
<1>8. AccOK(f[N], b)
  BY <1>1, <1>7 DEF S
<1> QED BY <1>1, <1>2, <1>3, <1>8

\* Where the reading of rows stands, k rows read in all, from row a and time t on: o is the last
\* one that has tokens.
RowsAt(acc, o, a, t, k) ==
  /\ acc \in [obs: Seq(UsageRows), offset: Nat]
  /\ a <= o /\ o <= k /\ Due(o) = Due(k)
  /\ Counted(external \o acc.obs, o)
  /\ o = a => acc.offset = t
  /\ o > a => acc.offset = TimeOf(o)

\* All rows from event a + 1 to event b.
LEMMA RowsRead ==
  ASSUME CollectAssumption, provider = "opencode", forgotten \in Nat, NEW t \in Nat,
         NEW a \in Nat, NEW b \in Nat, a <= b, b <= Len(Shape[provider]), Counted(external, a)
  PROVE  \E o \in Nat : RowsAt(ReadRows([k \in 1..(b - a) |-> a + k], b - a, t), o, a, t, b)
<1>0. provider \in Providers
  BY DEF Providers
<1>1. PICK N \in Nat : N = b - a /\ a + N = b
  OBVIOUS
<1>2. PICK rows : rows = [k \in 1..N |-> a + k]
  OBVIOUS
<1>3. PICK f : /\ f[0] = [obs |-> << >>, offset |-> t]
               /\ \A k \in 0..(N - 1) : f[k + 1] = ReadRow(f[k], rows[k + 1])
               /\ ReadRows(rows, N, t) = f[N]
  <2>1. PICK f : RowsReading(f, rows, N, t)
    BY ReadRowsGoes
  <2> QED BY <2>1 DEF RowsReading
<1>4. external \in Seq(UsageRows)
  BY DEF Counted
<1> DEFINE S == {k \in Nat : k <= N => \E o \in Nat : RowsAt(f[k], o, a, t, a + k)}
<1>5. 0 \in S
  <2>1. f[0] \in [obs: Seq(UsageRows), offset: Nat] /\ f[0].obs = << >> /\ f[0].offset = t
    BY <1>3
  <2>2. external \o << >> = external
    BY <1>4, ConcatEmptySeq
  <2>3. RowsAt(f[0], a, a, t, a + 0)
    BY <2>1, <2>2 DEF RowsAt
  <2> QED BY <2>3
<1>6. ASSUME NEW k \in Nat, k \in S PROVE k + 1 \in S
  <2> SUFFICES ASSUME k + 1 <= N PROVE \E o \in Nat : RowsAt(f[k + 1], o, a, t, a + (k + 1))
    OBVIOUS
  <2>1. k \in 0..(N - 1) /\ k + 1 \in 1..N /\ k <= N
    OBVIOUS
  <2>2. PICK m \in Nat, e \in Nat : m = a + k /\ e = m + 1 /\ e = a + (k + 1)
    OBVIOUS
  <2>3. f[k + 1] = ReadRow(f[k], e)
    BY <1>2, <1>3, <2>1, <2>2
  <2>4. PICK o \in Nat : RowsAt(f[k], o, a, t, m)
    BY <1>6, <2>1, <2>2
  <2>5. PICK s \in Seq(UsageRows) :
          /\ f[k].obs = s /\ a <= o /\ o <= m /\ Due(o) = Due(m)
          /\ Counted(external \o s, o)
    BY <2>4 DEF RowsAt
  <2>6. Due(e) = Due(m) + Worth(m) /\ Due(m) \in Nat
    BY <2>2, DueSteps
  <2>7. CASE Shape[provider][e] = "named"
    <3>1. Worth(m) = 1
      BY <2>2, <2>7 DEF Worth
    <3>2. PICK r : r = Keyed(e, 0)
      OBVIOUS
    <3>3. e \in Events
      <4>1. e <= b /\ e >= 1
        BY <1>1, <2>2
      <4>2. Len(Shape[provider]) \in Nat /\ Events = 1..Len(Shape[provider])
        BY <1>0 DEF CollectAssumption, Events
      <4> QED BY <4>1, <4>2
    <3>4. r \in UsageRows /\ r.event = e /\ r.tokens = 1 /\ RowOK(r)
      BY <1>0, <2>7, <3>2, <3>3, KeyedRow
    <3>5. TimeOf(e) \in Nat
      BY <1>0, <3>3 DEF CollectAssumption, Events, TimeOf
    <3>6. f[k + 1] = [obs |-> Append(s, r), offset |-> TimeOf(e)]
      BY <2>3, <2>5, <2>7, <3>2 DEF ReadRow
    <3>7. Append(s, r) \in Seq(UsageRows) /\ external \o Append(s, r) = Append(external \o s, r)
      BY <1>4, <3>4, AppendBehind
    <3>8. Due(e) = Due(o) + r.tokens /\ o < e /\ a < e
      BY <2>2, <2>5, <2>6, <3>1, <3>4
    <3>9. Counted(Append(external \o s, r), e)
      BY <2>5, <3>4, <3>8, CountedMore
    <3>10. RowsAt(f[k + 1], e, a, t, e)
      <4>1. PICK acc : acc = f[k + 1]
        OBVIOUS
      <4>2. PICK v \in Nat : v = TimeOf(e)
        BY <3>5
      <4>3. acc \in [obs: Seq(UsageRows), offset: Nat] /\ acc.obs = Append(s, r) /\ acc.offset = v
        BY <3>6, <3>7, <4>1, <4>2
      <4>4. Counted(external \o acc.obs, e)
        BY <3>7, <3>9, <4>3
      <4> QED BY <3>8, <4>1, <4>2, <4>3, <4>4 DEF RowsAt
    <3> QED BY <2>2, <3>10
  <2>8. CASE Shape[provider][e] # "named"
    <3>1. Worth(m) = 0
      BY <2>2, <2>8 DEF Worth
    <3>2. f[k + 1] = f[k]
      BY <2>3, <2>8 DEF ReadRow
    <3>3. Due(e) = Due(o) /\ o <= e
      BY <2>2, <2>5, <2>6, <3>1
    <3>4. RowsAt(f[k + 1], o, a, t, e)
      BY <2>4, <2>5, <3>2, <3>3 DEF RowsAt
    <3> QED BY <2>2, <3>4
  <2> QED BY <2>7, <2>8
<1> HIDE DEF S
<1>7. N \in S
  BY <1>5, <1>6, InductionInSet
<1>8. \E o \in Nat : RowsAt(f[N], o, a, t, b)
  BY <1>1, <1>7 DEF S
<1> QED BY <1>1, <1>2, <1>3, <1>8

\* An OpenCode source that only grew.
Numbered(f) == f \in Seq(Nat) /\ \A i \in 1..Len(f) : f[i] = i

\* A time stands behind row k: it is the time of a row, or nothing was read, and the first k
\* rows are the ones that are not later.
Stands(t, k) ==
  /\ \A e \in 1..written : TimeOf(e) <= t <=> e <= k
  /\ t = 0 \/ \E o \in 1..written : t = TimeOf(o)

\* The times of an OpenCode source.
LEMMA RowTimes ==
  ASSUME CollectAssumption, provider = "opencode", written \in 0..Len(Shape[provider])
  PROVE  /\ written \in Nat
         /\ \A e \in 1..written : TimeOf(e) \in Nat /\ TimeOf(e) > 0
         /\ \A d, e \in 1..written : d <= e => TimeOf(d) <= TimeOf(e)
<1>1. provider \in Providers
  BY DEF Providers
<1>2. Len(Shape[provider]) \in Nat /\ DOMAIN Shape[provider] = 1..Len(Shape[provider])
  BY <1>1 DEF CollectAssumption
<1>3. \A e \in 1..written : e \in DOMAIN Shape[provider]
  BY <1>2
<1>4. written \in Nat
  BY <1>2
<1>5. \A e \in DOMAIN Shape[provider] : TimeOf(e) \in Nat /\ TimeOf(e) > 0
  <2>1. provider \in Providers \ {"codex"}
    BY <1>1
  <2> QED BY <1>1, <2>1 DEF CollectAssumption, TimeOf
<1>6. \A d, e \in DOMAIN Shape[provider] : d <= e => TimeOf(d) <= TimeOf(e)
  BY DEF CollectAssumption, TimeOf
<1> QED BY <1>3, <1>4, <1>5, <1>6

\* The time of a row stands behind that row, or behind a later one of the same time.
LEMMA RowStands ==
  ASSUME CollectAssumption, provider = "opencode", written \in 0..Len(Shape[provider]),
         NEW o \in 1..written
  PROVE  \E k \in Nat : /\ o <= k /\ k <= written /\ Stands(TimeOf(o), k)
                        /\ TimesApart => k = o
<1>1. /\ written \in Nat
      /\ \A e \in 1..written : TimeOf(e) \in Nat
      /\ \A d, e \in 1..written : d <= e => TimeOf(d) <= TimeOf(e)
  BY RowTimes
<1>2. PICK t \in Nat : t = TimeOf(o)
  BY <1>1
<1> DEFINE S == {n \in Nat : n <= written =>
                   \E k \in Nat : k <= n /\ \A e \in 1..n : TimeOf(e) <= t <=> e <= k}
<1>3. 0 \in S
  OBVIOUS
<1>4. ASSUME NEW n \in Nat, n \in S PROVE n + 1 \in S
  <2> SUFFICES ASSUME n + 1 <= written
               PROVE  \E k \in Nat : k <= n + 1 /\ \A e \in 1..(n + 1) : TimeOf(e) <= t <=> e <= k
    OBVIOUS
  <2>1. PICK k \in Nat : k <= n /\ \A e \in 1..n : TimeOf(e) <= t <=> e <= k
    BY <1>1, <1>4
  <2>2. n + 1 \in 1..written /\ \A e \in 1..(n + 1) : e = n + 1 \/ e \in 1..n
    BY <1>1
  <2>3. CASE TimeOf(n + 1) <= t
    <3>1. ASSUME NEW e \in 1..(n + 1) PROVE TimeOf(e) <= t
      <4>1. e \in 1..written /\ e <= n + 1
        BY <1>1
      <4>2. PICK x \in Nat, y \in Nat : x = TimeOf(e) /\ y = TimeOf(n + 1) /\ x <= y
        BY <1>1, <2>2, <4>1
      <4> QED BY <2>3, <4>2
    <3>2. \A e \in 1..(n + 1) : TimeOf(e) <= t <=> e <= n + 1
      BY <3>1
    <3> QED BY <3>2
  <2>4. CASE ~ (TimeOf(n + 1) <= t)
    <3>1. \A e \in 1..(n + 1) : TimeOf(e) <= t <=> e <= k
      BY <2>1, <2>2, <2>4
    <3>2. k <= n + 1
      BY <2>1
    <3> QED BY <3>1, <3>2
  <2> QED BY <2>3, <2>4
<1> HIDE DEF S
<1>5. written \in S
  BY <1>1, <1>3, <1>4, InductionInSet
<1>6. PICK k \in Nat : k <= written /\ \A e \in 1..written : TimeOf(e) <= t <=> e <= k
  BY <1>1, <1>5 DEF S
<1>7. o <= k
  BY <1>2, <1>6
<1>8. Stands(TimeOf(o), k)
  BY <1>2, <1>6 DEF Stands
<1>9. ASSUME TimesApart PROVE k = o
  <2>1. k \in 1..written
    BY <1>1, <1>6, <1>7
  <2>2. PICK x \in Nat : x = TimeOf(k)
    BY <1>1, <2>1
  <2>3. x <= t /\ t <= x
    BY <1>1, <1>2, <1>6, <1>7, <2>1, <2>2
  <2>4. TimeOf(k) = TimeOf(o)
    BY <1>2, <2>2, <2>3
  <2> QED BY <1>9, <2>1, <2>4 DEF TimesApart
<1> QED BY <1>6, <1>7, <1>8, <1>9

\* The rows after a time that stands behind row a.
LEMMA RowsAfterAre ==
  ASSUME Numbered(file), Len(file) = written, NEW a \in Nat, a <= Len(file), NEW t, Stands(t, a)
  PROVE  RowsAfter(t) = [k \in 1..(Len(file) - a) |-> a + k]
<1>1. PICK N \in Nat : N = Len(file)
  BY DEF Numbered
<1>2. DOMAIN file = 1..N /\ \A i \in 1..N : file[i] = i
  BY <1>1 DEF Numbered
<1>3. {i \in DOMAIN file : TimeOf(file[i]) <= t} = 1..a
  <2>1. \A i \in 1..N : TimeOf(file[i]) <= t <=> i <= a
    BY <1>1, <1>2 DEF Stands
  <2> QED BY <1>1, <1>2, <2>1
<1>4. Cardinality(1..a) = a
  BY FS_Interval
<1>5. RowsAfter(t) = SubSeq(file, a + 1, N)
  BY <1>1, <1>3, <1>4 DEF RowsAfter
<1>6. PICK s : s = SubSeq(file, a + 1, N)
  OBVIOUS
<1>7. /\ s \in Seq(Nat)
      /\ Len(s) = N - a
      /\ \A i \in 1..(N - a) : s[i] = a + i
  <2>1. \A i \in (a + 1)..N : file[i] \in Nat
    BY <1>2
  <2>2. /\ s \in Seq(Nat)
        /\ Len(s) = IF a + 1 <= N THEN N - (a + 1) + 1 ELSE 0
        /\ \A i \in 1..(N - (a + 1) + 1) : s[i] = file[(a + 1) + i - 1]
    BY <1>6, <2>1, SubSeqProperties
  <2>3. N - (a + 1) + 1 = N - a /\ N - a \in Nat
    BY <1>1
  <2>4. Len(s) = N - a
    BY <1>1, <2>2, <2>3
  <2>5. ASSUME NEW i \in 1..(N - a) PROVE s[i] = a + i
    <3>1. (a + 1) + i - 1 = a + i /\ a + i \in 1..N
      BY <1>1
    <3> QED BY <1>2, <2>2, <2>3, <3>1
  <2> QED BY <2>2, <2>4, <2>5
<1>8. PICK u : u = [k \in 1..(N - a) |-> a + k]
  OBVIOUS
<1>9. u \in Seq(Nat) /\ Len(u) = N - a /\ \A i \in 1..(N - a) : u[i] = a + i
  BY <1>1, <1>8
<1>10. s = u
  BY <1>7, <1>9, SeqEqual
<1> QED BY <1>1, <1>5, <1>6, <1>8, <1>10

(***************************************************************************)
(* UsageCollect: orderly collections count every event once                *)
(***************************************************************************)

\* A source that only grew.
SourceOK ==
  /\ written \in 0..Len(Shape[provider])
  /\ provider # "opencode" => LaidOut(file, written)
  /\ provider = "opencode" => Numbered(file) /\ Len(file) = written

\* The cursor stands behind event k, and so does the Codex total.
CursorAt(k) ==
  /\ k <= written /\ cursor.offset \in Nat
  /\ total \in Nat /\ (provider = "codex" => total = Top(k))
  /\ provider # "opencode" => cursor.offset = End(k) /\ cursor.offset <= Len(file)
  /\ provider = "opencode" => IF timed = "yes" THEN Stands(cursor.offset, k) ELSE cursor.offset = k

\* A command that is about to read holds the cursor of the table, and saw a file that long.
ReadingOK(p) ==
  p.pc = "parse" => /\ p.cursor = cursor /\ p.size \in Nat /\ p.size <= Len(file)
                    /\ provider # "opencode" => cursor.offset <= p.size

\* Rows of a database that is read as a whole: they have the ids of their events, and until
\* something is forgotten the first k events are among them.
IdRow(o) == o.key = <<"id", o.event, 0>> /\ o.tokens = 1
Whole(rows, k) ==
  /\ rows \in Seq(UsageRows)
  /\ \A i \in 1..Len(rows) : IdRow(rows[i])
  /\ forgotten = 0 =>
       \A e \in 1..k : Shape[provider][e] = "named" => \E i \in 1..Len(rows) : rows[i].event = e

\* What the rows hold when the cursor stands behind event k.
Holds(rows, k) == IF Incremental THEN Counted(rows, k) ELSE Whole(rows, k)

\* What is recorded, and what the command under way has still to record, is what the first k
\* events are worth.
CountOK(k) ==
  /\ CursorAt(k)
  /\ \A c \in Slots : /\ command[c] # NoCommand =>
                           /\ command[c].obs \in Seq(UsageRows)
                           /\ Holds(external \o command[c].obs, k)
                      /\ command[c].pc # "record" => command[c].obs = << >>
                      /\ ReadingOK(command[c])
  /\ Active = {} => Holds(external, k)

\* The unique key of external_usage.
KeysDiffer ==
  ~ Incremental => \A i, j \in 1..Len(external) : external[i].key = external[j].key => i = j

\* The inductive invariant.
CountInv ==
  /\ provider \in Providers /\ collectFaults \in Nat
  /\ collectFaults = 0 /\ overlap = "no" =>
       /\ forgotten \in Nat /\ external \in Seq(UsageRows) /\ KeysDiffer
       /\ SourceOK
       /\ \E k \in Nat : CountOK(k)

\* Lines that share a time keep sharing it.
LEMMA ApartBefore ==
  ASSUME provider' = provider, written \in Nat, written' \in Nat, written <= written'
  PROVE  TimesApart' => TimesApart
<1>1. \A e \in 1..written : e \in 1..written'
  OBVIOUS
<1> QED BY <1>1 DEF TimesApart, TimeOf

\* What is counted depends on the provider, on what was forgotten and on what was written only.
LEMMA HoldsStill ==
  ASSUME UNCHANGED <<provider, timed, written, forgotten>>, NEW rows, NEW k, Holds(rows, k)
  PROVE  Holds(rows, k)'
<1>1. Due(k)' = Due(k)
  BY DEF Due, Top, Of
<1>2. TimesApart' <=> TimesApart
  BY DEF TimesApart, TimeOf
<1>3. \A o : RowOK(o)' <=> RowOK(o)
  BY DEF RowOK, TimeOf
<1>4. Counted(rows, k) => Counted(rows, k)'
  BY <1>1, <1>2, <1>3 DEF Counted
<1>5. Whole(rows, k) => Whole(rows, k)'
  BY DEF Whole
<1> QED BY <1>4, <1>5 DEF Holds, Incremental

\* Rows that are written and not told apart are passed by.
LEMMA HoldsPast ==
  ASSUME UNCHANGED <<provider, timed, forgotten>>, forgotten \in Nat, NEW rows,
         NEW k \in Nat, NEW j \in Nat, k <= j, Holds(rows, k),
         TimesApart' => TimesApart /\ j = k, ~ Incremental => j = k
  PROVE  Holds(rows, j)'
<1>1. Due(j)' = Due(j)
  BY DEF Due, Top, Of
<1>2. \A o : RowOK(o)' <=> RowOK(o)
  BY DEF RowOK, TimeOf
<1>3. ASSUME Counted(rows, k) PROVE Counted(rows, j)'
  <2>1. /\ rows \in Seq(UsageRows)
        /\ \A i, l \in 1..Len(rows) : rows[i].event = rows[l].event => i = l
    BY <1>3 DEF Counted
  <2>2. \A i \in 1..Len(rows) : rows[i].event <= j /\ rows[i].event >= 1 /\ RowOK(rows[i])'
    <3>1. \A i \in 1..Len(rows) : rows[i] \in UsageRows
      BY <2>1
    <3>2. \A i \in 1..Len(rows) : rows[i].event \in Nat
      BY <3>1 DEF UsageRows
    <3> QED BY <1>2, <1>3, <3>2 DEF Counted
  <2>3. PICK x \in Nat, d \in Nat, f \in Nat :
          x = Tokens(rows) /\ d = Due(k) /\ f = Due(j) /\ d <= f
    <3>1. PICK g : Sums(rows, Len(rows), g)
      BY <2>1, SumsExist
    <3>2. Tokens(rows) \in Nat
      BY <2>1, <3>1, TokensAre DEF Sums
    <3> QED BY <3>2, DueGrows
  <2>4. x + forgotten <= d /\ (TimesApart => x + forgotten = d)
    BY <1>3, <2>3 DEF Counted
  <2>5. x + forgotten <= f /\ (TimesApart' => x + forgotten = f)
    BY <2>3, <2>4
  <2> QED BY <1>1, <2>1, <2>2, <2>3, <2>5 DEF Counted
<1>4. Whole(rows, k) => Whole(rows, k)'
  BY DEF Whole
<1> QED BY <1>3, <1>4 DEF Holds, Incremental

\* The cursor stands still, and no row is written beside it.
LEMMA CursorStays ==
  ASSUME UNCHANGED <<provider, timed, cursor, total>>, SourceOK, SourceOK', NEW k \in Nat, CursorAt(k),
         Len(file) <= Len(file'), written <= written',
         provider = "opencode" /\ timed = "yes" => written' = written
  PROVE  CursorAt(k)'
<1>1. Len(file) \in Nat /\ Len(file') \in Nat /\ written \in Nat /\ written' \in Nat
  BY DEF SourceOK, LaidOut, Cells, Numbered
<1>2. Top(k)' = Top(k)
  BY DEF Top, Of
<1>3. k <= written /\ k <= written'
  BY <1>1 DEF CursorAt
<1>4. cursor.offset \in Nat
  BY DEF CursorAt
<1>5. provider # "opencode" => cursor.offset = End(k) /\ cursor.offset <= Len(file')
  BY <1>1, <1>4 DEF CursorAt
<1>6. provider = "opencode" /\ timed = "yes" => Stands(cursor.offset, k)'
  BY DEF CursorAt, Stands, TimeOf
<1>7. provider = "opencode" /\ timed # "yes" => cursor.offset = k
  BY DEF CursorAt
<1>8. total \in Nat /\ (provider = "codex" => total = Top(k))
  BY DEF CursorAt
<1> QED BY <1>2, <1>3, <1>4, <1>5, <1>6, <1>7, <1>8 DEF CursorAt

\* The cursor that stood behind k stands behind j.
CursorGoes(k, j) ==
  /\ k <= j /\ CursorAt(j)'
  /\ TimesApart' => TimesApart /\ j = k
  /\ ~ Incremental => j = k

\* The commands stand still.
LEMMA NothingMoves ==
  ASSUME CountInv,
         UNCHANGED <<provider, timed, cursor, total, external, command, forgotten, overlap, collectFaults>>,
         SourceOK => /\ SourceOK' /\ Len(file) <= Len(file')
                     /\ \A k \in Nat : CursorAt(k) => \E j \in Nat : CursorGoes(k, j)
  PROVE  CountInv'
<1>1. SUFFICES ASSUME collectFaults = 0, overlap = "no"
               PROVE  SourceOK' /\ \E k \in Nat : CountOK(k)'
  BY DEF CountInv, KeysDiffer, Incremental
<1>2. SourceOK /\ SourceOK' /\ forgotten \in Nat /\ Len(file) \in Nat /\ Len(file') \in Nat
  <2>1. SourceOK /\ SourceOK' /\ forgotten \in Nat
    BY <1>1 DEF CountInv
  <2> QED BY <2>1 DEF SourceOK, LaidOut, Cells, Numbered
<1>3. PICK k \in Nat : CountOK(k)
  BY <1>1 DEF CountInv
<1>4. PICK j \in Nat : CursorGoes(k, j)
  BY <1>2, <1>3 DEF CountOK
<1>5. CursorAt(j)'
  BY <1>4 DEF CursorGoes
<1>6. ASSUME NEW rows, Holds(rows, k) PROVE Holds(rows, j)'
  BY <1>2, <1>4, <1>6, HoldsPast DEF CursorGoes
<1>7. ASSUME NEW c \in Slots
      PROVE  /\ command'[c] # NoCommand =>
                  /\ command'[c].obs \in Seq(UsageRows)
                  /\ Holds(external \o command[c].obs, j)'
             /\ command'[c].pc # "record" => command'[c].obs = << >>
             /\ ReadingOK(command[c])'
  <2>1. PICK r : r = external \o command[c].obs
    OBVIOUS
  <2>2. command[c] # NoCommand => Holds(r, j)'
    BY <1>3, <1>6, <2>1 DEF CountOK
  <2>3. r = (external \o command[c].obs)'
    BY <2>1
  <2>4. command[c] # NoCommand => Holds(external \o command[c].obs, j)'
    BY <2>2, <2>3
  <2>5. ReadingOK(command[c])'
    <3>1. ReadingOK(command[c])
      BY <1>3 DEF CountOK
    <3>2. Len(file) <= Len(file')
      BY <1>2
    <3> QED BY <1>2, <3>1, <3>2 DEF ReadingOK
  <2> QED BY <1>3, <2>4, <2>5 DEF CountOK
<1>8. (Active = {})' => Holds(external, j)'
  <2>1. PICK r : r = external
    OBVIOUS
  <2>2. Active = {} => Holds(r, j)'
    BY <1>3, <1>6, <2>1 DEF CountOK
  <2> QED BY <2>1, <2>2 DEF Active
<1>9. CountOK(j)'
  BY <1>5, <1>7, <1>8 DEF CountOK
<1> QED BY <1>2, <1>9

\* A fault ends what the invariant says.
LEMMA FaultVoids ==
  ASSUME CountInv, CollectFault, provider' = provider
  PROVE  CountInv'
BY DEF CountInv, CollectFault

\* The rows of an idle slot.
LEMMA IdleRows == NoCommand.pc = "idle" /\ NoCommand.obs = << >>
BY DEF NoCommand

\* Nothing behind the rows of the table.
LEMMA NoneBehind == ASSUME NEW s \in Seq(UsageRows) PROVE s \o << >> = s
BY ConcatEmptySeq

\* One command moves, the others are idle.
LEMMA OneMoves ==
  ASSUME CollectInv, NEW c \in Slots, NEW p, Becomes(c, p),
         \A d \in Slots : d # c => command[d] = NoCommand,
         NEW k \in Nat, NEW r, p.obs \in Seq(UsageRows), external' \in Seq(UsageRows),
         r = external' \o p.obs, Holds(r, k)',
         p.pc # "record" => p.obs = << >>,
         p.pc = "parse" => /\ p.cursor = cursor' /\ p.size \in Nat /\ p.size <= Len(file')
                           /\ provider' # "opencode" => cursor'.offset <= p.size,
         CursorAt(k)'
  PROVE  CountOK(k)'
<1>1. /\ command'[c] = p
      /\ \A d \in Slots : d # c => command'[d] = NoCommand
  BY DEF CollectInv, Becomes
<1>2. ASSUME NEW d \in Slots
      PROVE  /\ command'[d] # NoCommand =>
                  /\ command'[d].obs \in Seq(UsageRows)
                  /\ Holds(external \o command[d].obs, k)'
             /\ command'[d].pc # "record" => command'[d].obs = << >>
             /\ ReadingOK(command[d])'
  <2>1. CASE d = c
    <3>1. r = (external \o command[d].obs)'
      BY <1>1, <2>1
    <3>2. Holds(external \o command[d].obs, k)'
      BY <3>1
    <3>3. ReadingOK(command[d])'
      BY <1>1, <2>1 DEF ReadingOK
    <3> QED BY <1>1, <2>1, <3>2, <3>3
  <2>2. CASE d # c
    <3>1. command'[d] = NoCommand
      BY <1>1, <2>2
    <3>2. ReadingOK(command[d])'
      BY <3>1, IdleRows DEF ReadingOK
    <3> QED BY <3>1, <3>2, IdleRows
  <2> QED BY <2>1, <2>2
<1>3. (Active = {})' => Holds(external, k)'
  <2>1. SUFFICES ASSUME (Active = {})' PROVE Holds(external, k)'
    OBVIOUS
  <2>2. p = NoCommand
    BY <1>1, <2>1 DEF Active
  <2>3. r = external'
    BY <2>2, IdleRows, NoneBehind
  <2> QED BY <2>3
<1> QED BY <1>2, <1>3 DEF CountOK

\* The others are idle, and what is recorded is what was read.
LEMMA Mover ==
  ASSUME CollectInv, CountInv, collectFaults = 0, overlap = "no", NEW c \in Slots,
         command[c] # NoCommand, NEW k \in Nat, CountOK(k)
  PROVE  /\ \A d \in Slots : d # c => command[d] = NoCommand
         /\ command[c].obs \in Seq(UsageRows)
         /\ Holds(external \o command[c].obs, k)
         /\ command[c].obs = << >> => Holds(external, k)
<1>1. \A d \in Slots : d # c => command[d] = NoCommand
  BY DEF CollectInv, AloneOK
<1>2. command[c].obs \in Seq(UsageRows) /\ Holds(external \o command[c].obs, k)
  BY DEF CountOK
<1>3. external \o << >> = external
  BY NoneBehind DEF CountInv
<1> QED BY <1>1, <1>2, <1>3

\* A command goes from one step without rows to another.
LEMMA EmptyMove ==
  ASSUME CollectInv, CountInv, NEW c \in Slots, NEW p, Becomes(c, p),
         \/ /\ command[c] # NoCommand /\ overlap' = overlap
            /\ command[c].pc = "record" => command[c].obs = << >>
         \/ overlap' = "no" => overlap = "no" /\ Active = {},
         p.obs = << >>,
         p.pc = "parse" => p.cursor = cursor /\ p.size = Len(file),
         UNCHANGED <<source, cursor, total, external, forgotten, collectFaults>>
  PROVE  CountInv'
<1>0. UNCHANGED <<provider, timed, file, written>>
  BY DEF source
<1>1. SUFFICES ASSUME collectFaults = 0, overlap' = "no"
               PROVE  SourceOK' /\ \E k \in Nat : CountOK(k)'
  BY <1>0 DEF CountInv, KeysDiffer, Incremental
<1>2. overlap = "no"
  BY <1>1
<1>3. SourceOK /\ SourceOK' /\ external \in Seq(UsageRows)
  BY <1>0, <1>1, <1>2 DEF CountInv, SourceOK
<1>4. PICK k \in Nat : CountOK(k)
  BY <1>1, <1>2 DEF CountInv
<1>5. /\ \A d \in Slots : d # c => command[d] = NoCommand
      /\ Holds(external, k)
  <2>1. CASE command[c] # NoCommand /\ (command[c].pc = "record" => command[c].obs = << >>)
    <3>1. command[c].obs = << >>
      BY <1>4, <2>1 DEF CountOK
    <3> QED BY <1>1, <1>2, <1>4, <2>1, <3>1, Mover
  <2>2. CASE Active = {}
    BY <1>4, <2>2 DEF CountOK, Active
  <2> QED BY <1>1, <2>1, <2>2
<1>6. Len(file) \in Nat
  BY <1>3 DEF SourceOK, LaidOut, Cells, Numbered
<1>7. CursorAt(k)'
  <2>1. Len(file) <= Len(file') /\ written <= written'
    BY <1>0, <1>3, <1>6 DEF SourceOK
  <2> QED BY <1>0, <1>3, <1>4, <2>1, CursorStays DEF CountOK
<1>8. PICK r : r = external
  OBVIOUS
<1>9. Holds(r, k)'
  BY <1>0, <1>5, <1>8, HoldsStill
<1>10. r = external' \o p.obs /\ p.obs \in Seq(UsageRows)
  BY <1>3, <1>8, NoneBehind
<1>11. p.pc = "parse" => /\ p.cursor = cursor' /\ p.size \in Nat /\ p.size <= Len(file')
                         /\ provider' # "opencode" => cursor'.offset <= p.size
  <2>1. provider # "opencode" => cursor.offset <= Len(file)
    BY <1>4 DEF CountOK, CursorAt
  <2>2. Len(file) <= Len(file')
    BY <1>0, <1>6
  <2> QED BY <1>0, <1>6, <2>1, <2>2
<1>12. CountOK(k)'
  BY <1>3, <1>5, <1>7, <1>9, <1>10, <1>11, OneMoves
<1> QED BY <1>3, <1>12

\* The source grows, and no row is written beside the cursor.
LEMMA CursorFollows ==
  ASSUME UNCHANGED <<provider, timed, cursor, total>>, SourceOK, SourceOK', NEW k \in Nat, CursorAt(k),
         Len(file) <= Len(file'), written <= written',
         provider = "opencode" /\ timed = "yes" => written' = written
  PROVE  CursorGoes(k, k)
<1>1. CursorAt(k)'
  BY CursorStays
<1>2. written \in Nat /\ written' \in Nat
  BY DEF SourceOK, LaidOut, Cells, Numbered
<1>3. TimesApart' => TimesApart
  BY <1>2, ApartBefore
<1> QED BY <1>1, <1>3 DEF CursorGoes

\* A row is written: the cursor stays behind the same rows, unless the new one has its time too.
LEMMA RowFollows ==
  ASSUME CollectAssumption, provider = "opencode", timed = "yes", SourceOK, SourceOK',
         UNCHANGED <<provider, timed, cursor, total>>, written' = written + 1,
         NEW k \in Nat, CursorAt(k)
  PROVE  \E j \in Nat : CursorGoes(k, j)
<1>1. written \in Nat /\ written \in 0..Len(Shape[provider]) /\ written' \in 0..Len(Shape[provider])
  BY DEF SourceOK, Numbered
<1>2. PICK e \in Nat : e = written + 1 /\ written' = e
  BY <1>1
<1>3. /\ written' \in Nat /\ (\A d \in 1..e : TimeOf(d) \in Nat /\ TimeOf(d) > 0)
      /\ \A c, d \in 1..e : c <= d => TimeOf(c) <= TimeOf(d)
  <2>1. provider \in Providers
    BY DEF Providers
  <2>2. Len(Shape[provider]) \in Nat /\ DOMAIN Shape[provider] = 1..Len(Shape[provider])
    BY <2>1 DEF CollectAssumption
  <2>3. \A d \in 1..e : d \in DOMAIN Shape[provider]
    BY <1>1, <1>2, <2>2
  <2>4. \A d \in DOMAIN Shape[provider] : TimeOf(d) \in Nat /\ TimeOf(d) > 0
    <3>1. provider \in Providers \ {"codex"}
      BY <2>1
    <3> QED BY <2>1, <3>1 DEF CollectAssumption, TimeOf
  <2>5. \A c, d \in DOMAIN Shape[provider] : c <= d => TimeOf(c) <= TimeOf(d)
    BY DEF CollectAssumption, TimeOf
  <2> QED BY <1>2, <2>3, <2>4, <2>5
<1>4. PICK t \in Nat : t = cursor.offset
  BY DEF CursorAt
<1>5. k <= written /\ Stands(t, k) /\ total \in Nat
  BY <1>4 DEF CursorAt
<1>6. TimesApart' => TimesApart
  BY <1>1, <1>2, ApartBefore
<1>7. /\ \A d \in 1..e : d = e \/ d \in 1..written
      /\ \A d \in 1..written : d \in 1..e /\ d # e
      /\ e \in 1..e
  BY <1>1, <1>2
<1>8. t = 0 \/ \E o \in 1..e : t = TimeOf(o)
  BY <1>5, <1>7 DEF Stands
<1>9. \A d : TimeOf(d)' = TimeOf(d)
  BY DEF TimeOf
<1>10. CASE TimeOf(e) <= t
  <2>1. PICK o \in 1..written : t = TimeOf(o)
    <3>1. TimeOf(e) \in Nat /\ TimeOf(e) > 0
      BY <1>3, <1>7
    <3>2. t # 0
      BY <1>10, <3>1
    <3> QED BY <1>5, <3>2 DEF Stands
  <2>2. TimeOf(e) = TimeOf(o)
    <3>1. o \in 1..e /\ o <= e /\ o \in Nat
      BY <1>7, <1>2
    <3>2. TimeOf(o) <= TimeOf(e) /\ TimeOf(o) \in Nat /\ TimeOf(e) \in Nat
      BY <1>3, <1>7, <3>1
    <3> QED BY <1>10, <2>1, <3>2
  <2>3. ~ TimesApart'
    <3>1. o \in 1..written' /\ e \in 1..written' /\ o # e
      BY <1>2, <1>7
    <3> QED BY <1>9, <2>2, <3>1 DEF TimesApart
  <2>4. ASSUME NEW d \in 1..e PROVE TimeOf(d) <= t
    <3>1. TimeOf(d) <= TimeOf(e) /\ TimeOf(d) \in Nat /\ TimeOf(e) \in Nat
      BY <1>3, <1>7
    <3> QED BY <1>10, <3>1
  <2>5. Stands(cursor.offset, e)'
    BY <1>2, <1>4, <1>8, <1>9, <2>4 DEF Stands
  <2>6. CursorAt(e)'
    BY <1>2, <1>4, <1>5, <2>5 DEF CursorAt
  <2>7. k <= e
    BY <1>1, <1>2, <1>5
  <2>8. CursorGoes(k, e)
    BY <2>3, <2>6, <2>7 DEF CursorGoes, Incremental
  <2> QED BY <2>8
<1>11. CASE ~ (TimeOf(e) <= t)
  <2>1. \A d \in 1..e : TimeOf(d) <= t <=> d <= k
    <3>1. ~ (e <= k)
      BY <1>1, <1>2, <1>5
    <3> QED BY <1>5, <1>7, <1>11, <3>1 DEF Stands
  <2>2. Stands(cursor.offset, k)'
    BY <1>2, <1>4, <1>8, <1>9, <2>1 DEF Stands
  <2>3. k <= written'
    BY <1>1, <1>2, <1>5
  <2>4. CursorAt(k)'
    BY <1>4, <1>5, <2>2, <2>3 DEF CursorAt
  <2>5. CursorGoes(k, k)
    BY <1>6, <2>4 DEF CursorGoes
  <2> QED BY <2>5
<1> QED BY <1>10, <1>11

\* The provider writes a line or a row.
LEMMA AppendCounts ==
  ASSUME CollectAssumption, CountInv, NEW n \in 1..2, Append1(n)
  PROVE  CountInv'
<1>1. UNCHANGED <<provider, timed, cursor, total, external, command, forgotten, overlap, collectFaults>>
  BY DEF Append1, tables, history
<1>2. ASSUME SourceOK PROVE SourceOK' /\ Len(file) <= Len(file') /\ written <= written'
  <2>0. provider \in Providers
    BY DEF CountInv
  <2>1. Len(Shape[provider]) \in Nat
    BY <2>0 DEF CollectAssumption
  <2>2. /\ written \in Nat /\ written' = written + 1 /\ written' \in 0..Len(Shape[provider])
        /\ written <= written' /\ ~ OpenLine
    BY <1>2, <2>1 DEF Append1, SourceOK
  <2>3. CASE provider = "opencode"
    <3>1. file' = Append(file, written + 1)
      BY <2>3 DEF Append1, Writes
    <3>2. PICK N \in Nat : N = written
      BY <2>2
    <3>3. file \in Seq(Nat) /\ Len(file) = N /\ \A i \in 1..N : file[i] = i
      BY <1>2, <2>3, <3>2 DEF SourceOK, Numbered
    <3>4. /\ file' \in Seq(Nat) /\ Len(file') = N + 1 /\ file'[N + 1] = N + 1
          /\ \A i \in 1..N : file'[i] = file[i]
      BY <3>1, <3>2, <3>3
    <3>5. \A i \in 1..(N + 1) : file'[i] = i
      <4>1. \A i \in 1..(N + 1) : i = N + 1 \/ i \in 1..N
        OBVIOUS
      <4> QED BY <3>3, <3>4, <4>1
    <3>6. Numbered(file)'
      BY <3>4, <3>5 DEF Numbered
    <3> QED BY <1>1, <2>2, <2>3, <3>2, <3>3, <3>4, <3>6 DEF SourceOK
  <2>4. CASE provider # "opencode"
    <3>1. LaidOut(file, written)
      BY <1>2, <2>4 DEF SourceOK
    <3>2. Len(file) = End(written)
      BY <2>2, <2>4, <3>1, OpenLineIs
    <3>3. /\ n \in 1..Width(written + 1)
          /\ file' = file \o SubSeq(Text(written + 1), 1, n)
                          \o (IF n = Width(written + 1) THEN <<Newline>> ELSE << >>)
      BY <2>4 DEF Append1, Writes
    <3>4. PICK f, w : f = file /\ w = written
      OBVIOUS
    <3>5. LaidOut(f \o SubSeq(Text(w + 1), 1, n)
                    \o (IF n = Width(w + 1) THEN <<Newline>> ELSE << >>), w + 1)
      BY <3>1, <3>2, <3>3, <3>4, LineBegun
    <3>6. LaidOut(file, written)'
      BY <2>2, <3>3, <3>4, <3>5
    <3>7. Len(file) <= Len(file')
      <4>1. PICK b \in 0..written' : End(b) <= Len(file') /\ Len(file') < End(b + 1)
                                     /\ b = IF Len(file') = End(written') THEN written' ELSE written' - 1
        BY <3>6, CompleteLines
      <4>2. b \in Nat /\ written <= b
        BY <2>2, <4>1
      <4>3. End(written) <= End(b) /\ End(written) \in Nat /\ End(b) \in Nat
        BY <2>2, <4>2, EndOrder
      <4>4. Len(file') \in Nat
        BY <3>6 DEF LaidOut, Cells
      <4> QED BY <3>2, <4>1, <4>3, <4>4
    <3> QED BY <1>1, <2>2, <2>4, <3>6, <3>7 DEF SourceOK
  <2> QED BY <2>3, <2>4
<1>3. ASSUME SourceOK, NEW k \in Nat, CursorAt(k) PROVE \E j \in Nat : CursorGoes(k, j)
  <2>1. SourceOK' /\ Len(file) <= Len(file') /\ written <= written' /\ written' = written + 1
    BY <1>2, <1>3 DEF Append1
  <2>2. CASE provider = "opencode" /\ timed = "yes"
    BY <1>1, <1>3, <2>1, <2>2, RowFollows
  <2>3. CASE ~ (provider = "opencode" /\ timed = "yes")
    <3>1. CursorGoes(k, k)
      BY <1>1, <1>3, <2>1, <2>3, CursorFollows
    <3> QED BY <3>1
  <2> QED BY <2>2, <2>3
<1> QED BY <1>1, <1>2, <1>3, NothingMoves

\* The provider finishes a line.
LEMMA FinishCounts ==
  ASSUME CountInv, FinishLine
  PROVE  CountInv'
<1>1. UNCHANGED <<provider, timed, written, cursor, total, external, command, forgotten, overlap, collectFaults>>
  BY DEF FinishLine, tables, history
<1>2. ASSUME SourceOK PROVE SourceOK' /\ Len(file) <= Len(file') /\ written <= written'
  <2>1. provider # "opencode" /\ OpenLine
    BY DEF FinishLine, OpenLine
  <2>2. LaidOut(file, written) /\ written \in Nat
    BY <1>2, <2>1 DEF SourceOK, LaidOut
  <2>3. Len(file) # End(written)
    BY <2>1, <2>2, OpenLineIs
  <2>4. PICK f, w : f = file /\ w = written
    OBVIOUS
  <2>5. LaidOut(Append(Append(f, Last(f)), Newline), w)
    BY <2>2, <2>3, <2>4, LineFinished
  <2>6. file' = Append(Append(f, Last(f)), Newline)
    BY <2>4 DEF FinishLine, Writes
  <2>7. LaidOut(file, written)'
    BY <1>1, <2>4, <2>5, <2>6
  <2>8. Len(file) <= Len(file')
    <3>1. f \in Seq(Nat) /\ Len(f) \in Nat /\ f # << >>
      BY <2>1, <2>2, <2>4 DEF LaidOut, Cells, OpenLine
    <3>2. Last(f) \in Nat /\ Newline \in Nat
      BY <3>1 DEF Last, Newline
    <3>3. Len(Append(Append(f, Last(f)), Newline)) = Len(f) + 2
      BY <3>1, <3>2
    <3> QED BY <2>4, <2>6, <3>1, <3>3
  <2> QED BY <1>1, <1>2, <2>1, <2>2, <2>7, <2>8 DEF SourceOK
<1>3. ASSUME SourceOK, NEW k \in Nat, CursorAt(k) PROVE \E j \in Nat : CursorGoes(k, j)
  <2>1. CursorGoes(k, k)
    BY <1>1, <1>2, <1>3, CursorFollows
  <2> QED BY <2>1
<1> QED BY <1>1, <1>2, <1>3, NothingMoves

\* Reading begins at the cursor.
LEMMA OffsetIs ==
  ASSUME NEW f, NEW w, LaidOut(f, w), NEW k \in Nat, NEW cur, NEW size \in Nat, NEW mt,
         cur.offset = End(k), End(k) <= Len(f), End(k) <= size
  PROVE  Offset(cur, size, mt, f) = End(k)
<1> DEFINE boundary == cur.offset = 0 \/ (cur.offset <= Len(f) /\ f[cur.offset] = Newline)
           kept == IF cur # NoCursor /\ cur.offset <= size /\ (mt = cur.mtime \/ boundary) THEN cur.offset ELSE 0
<1>1. Offset(cur, size, mt, f) = IF CompleteEnd(f) < kept THEN 0 ELSE kept
  BY DEF Offset
<1>2. Len(f) \in Nat /\ End(k) \in Nat
  BY EndSteps DEF LaidOut, Cells
<1>3. boundary
  <2>1. CASE k = 0
    BY <2>1, EndSteps
  <2>2. CASE k # 0
    <3>1. PICK l \in Nat : l + 1 = k
      BY <2>2
    <3>2. End(l + 1) > 0
      BY EndSteps
    <3>3. End(k) \in 1..Len(f)
      BY <1>2, <3>1, <3>2
    <3>4. f[End(k)] = Newline
      BY <3>1, <3>3 DEF LaidOut, Cells
    <3> QED BY <3>4
  <2> QED BY <2>1, <2>2
<1>4. kept = End(k)
  <2>1. CASE cur = NoCursor
    <3>1. cur.offset = 0
      BY <2>1 DEF NoCursor
    <3> QED BY <2>1, <3>1
  <2>2. CASE cur # NoCursor
    BY <1>3, <2>2
  <2> QED BY <2>1, <2>2
<1>5. PICK b \in 0..w : End(b) <= Len(f) /\ Len(f) < End(b + 1)
  BY CompleteLines
<1>6. b \in Nat /\ CompleteEnd(f) = End(b) /\ End(b) \in Nat
  <2>1. w \in Nat
    BY DEF LaidOut
  <2>2. b \in Nat
    BY <1>5, <2>1
  <2>3. CompleteEnd(f) = End(b)
    BY <1>5, <2>2, CompleteEndFound
  <2>4. End(b) \in Nat
    BY <2>2, EndOrder
  <2> QED BY <2>2, <2>3, <2>4
<1>7. End(k) <= End(b)
  <2>1. b + 1 \in Nat /\ End(b + 1) \in Nat /\ End(k) < End(b + 1)
    <3>1. b + 1 \in Nat
      BY <1>6
    <3>2. End(b + 1) \in Nat
      BY <3>1, EndOrder
    <3> QED BY <1>2, <1>5, <3>1, <3>2
  <2>2. k < b + 1
    BY <2>1, EndOrder
  <2>3. k <= b
    BY <1>6, <2>2
  <2> QED BY <1>6, <2>3, EndOrder
<1> HIDE DEF kept, boundary
<1>8. ~ (CompleteEnd(f) < kept)
  BY <1>2, <1>4, <1>6, <1>7
<1> QED BY <1>1, <1>4, <1>8

\* A JSONL source is read to its last complete line.
LEMMA SessionCounts ==
  ASSUME CollectAssumption, CollectInv, CountInv, NEW c \in Slots, NEW n \in Nat, provider # "opencode",
         ParseSessionFile(c, n)
  PROVE  CountInv'
<1>0. UNCHANGED <<provider, timed, file, mtime, written, external, forgotten, overlap>>
  BY DEF ParseSessionFile, source, history
<1>1. CASE CollectFault
  BY <1>0, <1>1, FaultVoids
<1>2. CASE ~ CollectFault
  <2>1. UNCHANGED collectFaults
    BY <1>2 DEF ParseSessionFile
  <2>2. SUFFICES ASSUME collectFaults = 0, overlap = "no"
                 PROVE  SourceOK' /\ \E k \in Nat : CountOK(k)'
    BY <1>0, <2>1 DEF CountInv, KeysDiffer, Incremental
  <2>3. /\ SourceOK /\ external \in Seq(UsageRows) /\ forgotten \in Nat /\ provider \in Providers
        /\ LaidOut(file, written) /\ SourceOK'
    BY <1>0, <2>2 DEF CountInv, SourceOK
  <2>4. PICK k \in Nat : CountOK(k)
    BY <2>2 DEF CountInv
  <2>5. command[c].pc = "parse" /\ command[c] # NoCommand
    BY IdleCommand DEF ParseSessionFile
  <2>6. /\ command[c].obs = << >> /\ command[c].cursor = cursor
        /\ command[c].size \in Nat /\ cursor.offset <= command[c].size
    BY <2>4, <2>5 DEF CountOK, ReadingOK
  <2>7. \A d \in Slots : d # c => command[d] = NoCommand
    BY <2>2, <2>4, <2>5, Mover
  <2>8. Counted(external, k)
    BY <2>2, <2>4, <2>5, <2>6, Mover DEF Holds, Incremental
  <2>9. /\ cursor.offset = End(k) /\ End(k) <= Len(file) /\ End(k) <= command[c].size /\ k <= written
        /\ total \in Nat /\ (provider = "codex" => total = Top(k))
    BY <2>4, <2>6 DEF CountOK, CursorAt
  <2>10. PICK b \in 0..written : End(b) <= Len(file) /\ Len(file) < End(b + 1)
    BY <2>3, CompleteLines
  <2>11. b \in Nat /\ written \in Nat /\ b <= written /\ Len(Shape[provider]) \in Nat
         /\ b <= Len(Shape[provider]) /\ Len(file) \in Nat
    <3>1. Len(Shape[provider]) \in Nat
      BY <2>3 DEF CollectAssumption
    <3> QED BY <2>3, <2>10, <3>1 DEF SourceOK, LaidOut, Cells
  <2>12. CompleteEnd(file) = End(b)
    BY <2>3, <2>10, <2>11, CompleteEndFound
  <2>13. k <= b
    <3>0. b + 1 \in Nat
      BY <2>11
    <3>1. End(k) \in Nat /\ b + 1 \in Nat /\ End(b + 1) \in Nat
      BY <3>0, EndOrder
    <3>2. End(k) < End(b + 1)
      BY <2>9, <2>10, <2>11, <3>1
    <3>3. k < b + 1
      BY <3>1, <3>2, EndOrder
    <3> QED BY <2>11, <3>3
  <2>14. Offset(command[c].cursor, command[c].size, command[c].mtime, file) = End(k)
    BY <2>3, <2>6, <2>9, OffsetIs
  <2>15. Lines(command[c]) = [j \in 1..(b - k) |-> k + j]
    <3>1. Cells(file)
      BY <2>3 DEF LaidOut
    <3> QED BY <2>10, <2>11, <2>12, <2>13, <2>14, <3>1, LinesParsed DEF Lines
  <2>16. n = b - k
    <3>1. Len(Lines(command[c])) = b - k /\ b - k \in Nat
      BY <2>11, <2>13, <2>15
    <3>2. n <= Len(Lines(command[c])) /\ ~ (n < Len(Lines(command[c])))
      BY <1>2 DEF ParseSessionFile
    <3> QED BY <3>1, <3>2
  <2>17. PICK found : found = Read(Lines(command[c]), n)
    OBVIOUS
  <2>18. AccOK(found, b)
    BY <2>3, <2>8, <2>9, <2>11, <2>13, <2>15, <2>16, <2>17, LinesRead
  <2>19. /\ found.obs \in Seq(UsageRows) /\ found.total \in Nat
         /\ Counted(external \o found.obs, b) /\ (provider = "codex" => found.total = Top(b))
    BY <2>18 DEF AccOK, Accs
  <2>20. /\ total' = found.total
         /\ cursor'.offset = End(b)
    <3>1. total' = found.total
      BY <2>17 DEF ParseSessionFile, setCodexTotal
    <3>2. setSourceCursor(command[c], CompleteEnd(file))
      BY DEF ParseSessionFile
    <3> QED BY <2>12, <3>1, <3>2 DEF setSourceCursor
  <2>21. PICK p : p = [NoCommand EXCEPT !.pc = "record", !.obs = found.obs, !.limit = LocalLimit(found.limit)]
    OBVIOUS
  <2>22. Becomes(c, p)
    BY <2>17, <2>21, Zenon DEF ParseSessionFile
  <2>23. p.pc = "record" /\ p.obs = found.obs
    BY <2>21 DEF NoCommand
  <2>24. CursorAt(b)'
    <3>1. Top(b)' = Top(b)
      BY <1>0 DEF Top, Of
    <3>2. End(b) \in Nat
      BY <2>11, EndOrder
    <3> QED BY <1>0, <2>10, <2>11, <2>19, <2>20, <3>1, <3>2 DEF CursorAt
  <2>25. PICK r : r = external \o found.obs
    OBVIOUS
  <2>26. Holds(r, b)'
    <3>1. Holds(r, b)
      BY <2>19, <2>25 DEF Holds, Incremental
    <3> QED BY <1>0, <3>1, HoldsStill
  <2>27. r = external' \o p.obs /\ external' \in Seq(UsageRows)
    BY <1>0, <2>3, <2>23, <2>25
  <2>28. CountOK(b)'
    BY <2>7, <2>11, <2>19, <2>22, <2>23, <2>24, <2>26, <2>27, OneMoves
  <2> QED BY <2>3, <2>11, <2>28
<1> QED BY <1>1, <1>2

\* The first k rows of a database that is read as a whole.
WholeAt(obs, k) ==
  /\ obs \in Seq(UsageRows)
  /\ \A i \in 1..Len(obs) : IdRow(obs[i])
  /\ \A e \in 1..k : Shape[provider][e] = "named" => \E i \in 1..Len(obs) : obs[i].event = e

\* All rows.
LEMMA WholeRead ==
  ASSUME CollectAssumption, provider = "opencode", NEW N \in Nat, N <= Len(Shape[provider]), NEW t,
         NEW rows, \A k \in 1..N : rows[k] = k
  PROVE  WholeAt(ReadRows(rows, N, t).obs, N)
<1>0. /\ provider \in Providers /\ Len(Shape[provider]) \in Nat
      /\ Events = 1..Len(Shape[provider])
  BY DEF Providers, CollectAssumption, Events
<1>1. PICK f : /\ f[0] = [obs |-> << >>, offset |-> t]
               /\ \A k \in 0..(N - 1) : f[k + 1] = ReadRow(f[k], rows[k + 1])
               /\ ReadRows(rows, N, t) = f[N]
  <2>1. PICK f : RowsReading(f, rows, N, t)
    BY ReadRowsGoes
  <2> QED BY <2>1 DEF RowsReading
<1> DEFINE S == {k \in Nat : k <= N => WholeAt(f[k].obs, k)}
<1>2. 0 \in S
  <2>1. f[0].obs = << >>
    BY <1>1
  <2>2. WholeAt(<< >>, 0)
    BY DEF WholeAt
  <2> QED BY <2>1, <2>2
<1>3. ASSUME NEW k \in Nat, k \in S PROVE k + 1 \in S
  <2> SUFFICES ASSUME k + 1 <= N PROVE WholeAt(f[k + 1].obs, k + 1)
    OBVIOUS
  <2>1. k \in 0..(N - 1) /\ k + 1 \in 1..N /\ k <= N
    OBVIOUS
  <2>2. PICK e \in Nat : e = k + 1
    OBVIOUS
  <2>3. f[e] = ReadRow(f[k], e) /\ e \in Events
    BY <1>0, <1>1, <2>1, <2>2
  <2>4. PICK s : s = f[k].obs
    OBVIOUS
  <2>5. WholeAt(s, k)
    BY <1>3, <2>1, <2>4
  <2>6. \A d \in 1..e : d = e \/ d \in 1..k
    BY <2>2
  <2>7. CASE Shape[provider][e] = "named"
    <3>1. PICK o : o = Keyed(e, 0)
      OBVIOUS
    <3>2. o \in UsageRows /\ o.event = e /\ IdRow(o)
      BY <1>0, <2>3, <2>7, <3>1, KeyedRow DEF IdRow
    <3>3. PICK u : u = Append(s, o)
      OBVIOUS
    <3>4. f[e].obs = u
      BY <2>3, <2>4, <2>7, <3>1, <3>3 DEF ReadRow
    <3>5. s \in Seq(UsageRows)
      BY <2>5 DEF WholeAt
    <3>6. PICK M \in Nat : M = Len(s)
      BY <3>5
    <3>7. /\ u \in Seq(UsageRows) /\ Len(u) = M + 1 /\ u[M + 1] = o
          /\ \A i \in 1..M : u[i] = s[i]
      BY <3>2, <3>3, <3>5, <3>6
    <3>8. \A i \in 1..(M + 1) : i = M + 1 \/ i \in 1..M
      OBVIOUS
    <3>9. \A i \in 1..(M + 1) : IdRow(u[i])
      BY <2>5, <3>2, <3>6, <3>7, <3>8 DEF WholeAt
    <3>10. ASSUME NEW d \in 1..e, Shape[provider][d] = "named" PROVE \E i \in 1..(M + 1) : u[i].event = d
      <4>1. CASE d = e
        <5>1. M + 1 \in 1..(M + 1)
          OBVIOUS
        <5> QED BY <3>2, <3>7, <4>1, <5>1
      <4>2. CASE d \in 1..k
        <5>1. PICK i \in 1..M : s[i].event = d
          BY <2>5, <3>6, <3>10, <4>2 DEF WholeAt
        <5>2. i \in 1..(M + 1) /\ u[i] = s[i]
          BY <3>7
        <5> QED BY <5>1, <5>2
      <4> QED BY <2>6, <4>1, <4>2
    <3>11. WholeAt(u, e)
      BY <3>7, <3>9, <3>10 DEF WholeAt
    <3> QED BY <2>2, <3>4, <3>11
  <2>8. CASE Shape[provider][e] # "named"
    <3>1. f[e] = f[k]
      BY <2>3, <2>8 DEF ReadRow
    <3>2. WholeAt(s, e)
      BY <2>5, <2>6, <2>8 DEF WholeAt
    <3> QED BY <2>2, <2>4, <3>1, <3>2
  <2> QED BY <2>7, <2>8
<1> HIDE DEF S
<1>4. N \in S
  BY <1>2, <1>3, InductionInSet
<1>5. WholeAt(f[N].obs, N)
  BY <1>4 DEF S
<1> QED BY <1>1, <1>5

\* Rows behind others.
LEMMA WholeBehind ==
  ASSUME NEW s, NEW t, NEW k, NEW j \in Nat, NEW b \in Nat, j <= b, Whole(s, k), WholeAt(t, b)
  PROVE  Whole(s \o t, j)
<1>1. s \in Seq(UsageRows) /\ t \in Seq(UsageRows)
  BY DEF Whole, WholeAt
<1>2. PICK M \in Nat, N \in Nat : M = Len(s) /\ N = Len(t)
  BY <1>1
<1>3. PICK q : q = s \o t
  OBVIOUS
<1>4. /\ q \in Seq(UsageRows) /\ Len(q) = M + N
      /\ \A i \in 1..(M + N) : q[i] = IF i <= M THEN s[i] ELSE t[i - M]
  BY <1>1, <1>2, <1>3, ConcatProperties
<1>5. ASSUME NEW i \in 1..(M + N) PROVE IdRow(q[i])
  <2>1. CASE i <= M
    <3>1. i \in 1..M /\ q[i] = s[i]
      BY <1>4, <2>1
    <3> QED BY <1>2, <3>1 DEF Whole
  <2>2. CASE ~ (i <= M)
    <3>1. i - M \in 1..N /\ q[i] = t[i - M]
      BY <1>4, <2>2
    <3> QED BY <1>2, <3>1 DEF WholeAt
  <2> QED BY <2>1, <2>2
<1>6. ASSUME NEW e \in 1..j, Shape[provider][e] = "named" PROVE \E i \in 1..(M + N) : q[i].event = e
  <2>1. PICK i \in 1..N : t[i].event = e
    BY <1>2, <1>6 DEF WholeAt
  <2>2. M + i \in 1..(M + N) /\ ~ (M + i <= M) /\ (M + i) - M = i
    OBVIOUS
  <2>3. q[M + i] = t[i]
    BY <1>4, <2>2
  <2> QED BY <2>1, <2>2, <2>3
<1>7. Whole(q, j)
  BY <1>4, <1>5, <1>6 DEF Whole
<1> QED BY <1>3, <1>7

\* The rows of an OpenCode source are read to the last.
LEMMA DbCounts ==
  ASSUME CollectAssumption, CollectInv, CountInv, NEW c \in Slots, NEW n \in Nat,
         provider = "opencode", ParseDb(c, n)
  PROVE  CountInv'
<1>0. UNCHANGED <<provider, timed, file, mtime, written, total, external, forgotten, overlap>>
  BY DEF ParseDb, source, history
<1>1. CASE CollectFault
  BY <1>0, <1>1, FaultVoids
<1>2. CASE ~ CollectFault
  <2>1. UNCHANGED collectFaults
    BY <1>2 DEF ParseDb
  <2>2. SUFFICES ASSUME collectFaults = 0, overlap = "no"
                 PROVE  SourceOK' /\ \E k \in Nat : CountOK(k)'
    BY <1>0, <2>1 DEF CountInv, KeysDiffer, Incremental
  <2>3. /\ SourceOK /\ external \in Seq(UsageRows) /\ forgotten \in Nat
        /\ Numbered(file) /\ Len(file) = written /\ written \in Nat /\ SourceOK'
        /\ written \in 0..Len(Shape[provider]) /\ Len(Shape[provider]) \in Nat
    <3>1. Len(Shape[provider]) \in Nat
      BY DEF CountInv, CollectAssumption
    <3> QED BY <1>0, <2>2, <3>1 DEF CountInv, SourceOK
  <2>4. PICK k \in Nat : CountOK(k)
    BY <2>2 DEF CountInv
  <2>5. command[c].pc = "parse" /\ command[c] # NoCommand
    BY IdleCommand DEF ParseDb
  <2>6. /\ command[c].obs = << >> /\ command[c].cursor = cursor
        /\ command[c].size \in Nat /\ command[c].size <= Len(file)
    BY <2>4, <2>5 DEF CountOK, ReadingOK
  <2>7. \A d \in Slots : d # c => command[d] = NoCommand
    BY <2>2, <2>4, <2>5, Mover
  <2>8. Holds(external, k)
    BY <2>2, <2>4, <2>5, <2>6, Mover
  <2>9. PICK t \in Nat : /\ t = cursor.offset /\ k <= written /\ total \in Nat
                         /\ timed = "yes" => Stands(t, k)
    BY <2>4 DEF CountOK, CursorAt
  <2>10. PICK rows : rows = RowsFor(command[c])
    OBVIOUS
  <2>11. PICK found : found = ReadRows(rows, n, t)
    OBVIOUS
  <2>12. n = Len(rows) \/ ~ (n <= Len(rows)) \/ n < Len(rows)
    <3>1. n <= Len(rows) /\ ~ (n < Len(rows))
      BY <1>2, <2>10 DEF ParseDb
    <3>2. Len(rows) \in Nat
      <4>1. CASE timed = "yes"
        <5>1. rows = [j \in 1..(written - k) |-> k + j]
          BY <2>3, <2>6, <2>9, <2>10, <4>1, RowsAfterAre DEF RowsFor
        <5> QED BY <2>3, <2>9, <5>1
      <4>2. CASE timed # "yes"
        BY <2>3, <2>10, <4>2 DEF RowsFor
      <4> QED BY <4>1, <4>2
    <3> QED BY <3>1, <3>2
  <2>13. n = Len(rows)
    <3>1. n <= Len(rows) /\ ~ (n < Len(rows))
      BY <1>2, <2>10 DEF ParseDb
    <3> QED BY <2>12, <3>1
  <2>14. cursor'.offset = IF timed = "yes" THEN found.offset ELSE command[c].size
    <3>1. setSourceCursor(command[c], IF timed = "yes" THEN found.offset ELSE command[c].size)
      BY <2>6, <2>9, <2>10, <2>11 DEF ParseDb
    <3> QED BY <3>1 DEF setSourceCursor
  <2>15. PICK p : p = [NoCommand EXCEPT !.pc = "record", !.obs = found.obs]
    OBVIOUS
  <2>16. Becomes(c, p)
    BY <2>6, <2>9, <2>10, <2>11, <2>15, Zenon DEF ParseDb
  <2>17. p.pc = "record" /\ p.obs = found.obs
    BY <2>15 DEF NoCommand
  <2>18. \E j \in Nat : /\ found.obs \in Seq(UsageRows) /\ Holds(external \o found.obs, j)
                        /\ CursorAt(j)'
    <3>1. CASE timed = "yes"
      <4>1. rows = [j \in 1..(written - k) |-> k + j]
        BY <2>3, <2>6, <2>9, <2>10, <3>1, RowsAfterAre DEF RowsFor
      <4>2. n = written - k
        BY <2>3, <2>9, <2>13, <4>1
      <4>3. Counted(external, k)
        BY <2>8, <3>1 DEF Holds, Incremental
      <4>4. written <= Len(Shape[provider])
        BY <2>3
      <4>5. PICK o \in Nat : RowsAt(found, o, k, t, written)
        BY <2>3, <2>9, <2>11, <4>1, <4>2, <4>3, <4>4, RowsRead
      <4>6. /\ found.obs \in Seq(UsageRows) /\ found.offset \in Nat
            /\ k <= o /\ o <= written /\ Counted(external \o found.obs, o)
            /\ (o = k => found.offset = t) /\ (o > k => found.offset = TimeOf(o))
        BY <4>5 DEF RowsAt
      <4>7. cursor'.offset = found.offset
        BY <2>14, <3>1
      <4>8. \A v : \A j : Stands(v, j)' <=> Stands(v, j)
        BY <1>0 DEF Stands, TimeOf
      <4>9. \A j \in Nat : j <= written /\ Stands(found.offset, j) => CursorAt(j)'
        BY <1>0, <2>9, <3>1, <4>6, <4>7, <4>8 DEF CursorAt
      <4>10. CASE o = k
        <5>1. CursorAt(k)'
          BY <2>9, <3>1, <4>6, <4>9, <4>10
        <5> QED BY <3>1, <4>6, <4>10, <5>1 DEF Holds, Incremental
      <4>11. CASE o # k
        <5>1. o > k /\ o \in 1..written
          BY <2>3, <4>6, <4>11
        <5>2. PICK j \in Nat : /\ o <= j /\ j <= written /\ Stands(TimeOf(o), j)
                               /\ TimesApart => j = o
          BY <2>3, <5>1, RowStands
        <5>3. CursorAt(j)'
          <6>1. found.offset = TimeOf(o)
            BY <4>6, <5>1
          <6>2. j \in Nat /\ j <= written /\ Stands(found.offset, j)
            BY <5>2, <6>1
          <6> QED BY <4>9, <6>2
        <5>4. PICK q : q = external \o found.obs
          OBVIOUS
        <5>5. Counted(q, j)
          <6>1. TimesApart => Due(j) = Due(o)
            BY <5>2
          <6>2. Counted(q, o) /\ o <= j /\ o \in Nat /\ j \in Nat /\ forgotten \in Nat
            BY <2>3, <4>5, <4>6, <5>2, <5>4
          <6> QED BY <6>1, <6>2, CountedPast
        <5> QED BY <3>1, <4>6, <5>3, <5>4, <5>5 DEF Holds, Incremental
      <4> QED BY <4>10, <4>11
    <3>2. CASE timed # "yes"
      <4>1. rows = file /\ n = written
        BY <2>3, <2>10, <2>13, <3>2 DEF RowsFor
      <4>2. \A i \in 1..written : rows[i] = i
        BY <2>3, <4>1 DEF Numbered
      <4>3. written <= Len(Shape[provider])
        BY <2>3
      <4>4. WholeAt(found.obs, written)
        BY <2>3, <2>11, <4>1, <4>2, <4>3, WholeRead
      <4>5. PICK z \in Nat : z = command[c].size /\ z <= written
        BY <2>3, <2>6
      <4>6. Whole(external, k)
        BY <2>8, <3>2 DEF Holds, Incremental
      <4>7. Whole(external \o found.obs, z)
        BY <2>3, <4>4, <4>5, <4>6, WholeBehind
      <4>8. CursorAt(z)'
        BY <1>0, <2>9, <2>14, <3>2, <4>5 DEF CursorAt
      <4>9. Holds(external \o found.obs, z)
        BY <3>2, <4>7 DEF Holds, Incremental
      <4>10. found.obs \in Seq(UsageRows)
        BY <4>4 DEF WholeAt
      <4> QED BY <4>8, <4>9, <4>10
    <3> QED BY <3>1, <3>2
  <2>19. PICK j \in Nat : /\ found.obs \in Seq(UsageRows) /\ Holds(external \o found.obs, j)
                          /\ CursorAt(j)'
    BY <2>18
  <2>20. PICK q : q = external \o found.obs
    OBVIOUS
  <2>21. Holds(q, j)'
    BY <1>0, <2>19, <2>20, HoldsStill
  <2>22. q = external' \o p.obs /\ external' \in Seq(UsageRows)
    BY <1>0, <2>3, <2>17, <2>20
  <2>23. CountOK(j)'
    BY <2>7, <2>16, <2>17, <2>19, <2>21, <2>22, OneMoves
  <2> QED BY <2>3, <2>23
<1> QED BY <1>1, <1>2

\* The first row of one sequence goes to the end of the other.
LEMMA HeadMoves ==
  ASSUME NEW s \in Seq(UsageRows), NEW t \in Seq(UsageRows), t # << >>
  PROVE  /\ Head(t) \in UsageRows /\ Tail(t) \in Seq(UsageRows)
         /\ Append(s, Head(t)) \in Seq(UsageRows)
         /\ Append(s, Head(t)) \o Tail(t) = s \o t
         /\ Len(s) + 1 \in 1..Len(s \o t) /\ (s \o t)[Len(s) + 1] = Head(t)
         /\ \A i \in 1..Len(s) : i \in 1..Len(s \o t) /\ (s \o t)[i] = s[i]
<1>1. /\ Head(t) \in UsageRows /\ Tail(t) \in Seq(UsageRows) /\ Head(t) = t[1] /\ Len(t) \in Nat /\ Len(t) > 0
      /\ Len(Tail(t)) = Len(t) - 1 /\ \A i \in 1..Len(Tail(t)) : Tail(t)[i] = t[i + 1]
  BY HeadTailProperties
<1>2. PICK u : u = Append(s, Head(t))
  OBVIOUS
<1>3. /\ u \in Seq(UsageRows) /\ Len(u) = Len(s) + 1 /\ u[Len(s) + 1] = Head(t)
      /\ \A i \in 1..Len(s) : u[i] = s[i]
  BY <1>1, <1>2, AppendProperties
<1>4. PICK v, q : v = u \o Tail(t) /\ q = s \o t
  OBVIOUS
<1>5. /\ v \in Seq(UsageRows) /\ Len(v) = Len(u) + Len(Tail(t))
      /\ \A i \in 1..(Len(u) + Len(Tail(t))) : v[i] = IF i <= Len(u) THEN u[i] ELSE Tail(t)[i - Len(u)]
  BY <1>1, <1>3, <1>4, ConcatProperties
<1>6. /\ q \in Seq(UsageRows) /\ Len(q) = Len(s) + Len(t)
      /\ \A i \in 1..(Len(s) + Len(t)) : q[i] = IF i <= Len(s) THEN s[i] ELSE t[i - Len(s)]
  BY <1>4, ConcatProperties
<1>7. PICK M \in Nat, N \in Nat : M = Len(s) /\ N = Len(t) /\ N > 0
  <2>1. Len(s) \in Nat
    BY LenProperties
  <2> QED BY <1>1, <2>1
<1>8. Len(v) = M + N /\ Len(q) = M + N
  BY <1>1, <1>3, <1>5, <1>6, <1>7
<1>9. ASSUME NEW i \in 1..(M + N) PROVE v[i] = q[i]
  <2>1. CASE i <= M
    <3>1. v[i] = u[i]
      BY <1>3, <1>5, <1>7, <1>8, <2>1
    <3>2. i \in 1..M
      BY <2>1
    <3> QED BY <1>3, <1>6, <1>7, <2>1, <3>1, <3>2
  <2>2. CASE i = M + 1
    <3>1. v[i] = Head(t)
      BY <1>3, <1>5, <1>7, <1>8, <2>2
    <3>2. q[i] = t[1]
      BY <1>6, <1>7, <2>2
    <3> QED BY <1>1, <3>1, <3>2
  <2>3. CASE i > M + 1
    <3>1. PICK j \in Nat : j = i - (M + 1) /\ j \in 1..(N - 1) /\ i - M = j + 1
      BY <2>3
    <3>2. v[i] = Tail(t)[j]
      <4>1. Len(u) = M + 1 /\ Len(Tail(t)) = N - 1
        BY <1>1, <1>3, <1>7
      <4>2. i \in 1..(Len(u) + Len(Tail(t))) /\ ~ (i <= Len(u)) /\ i - Len(u) = j
        BY <1>7, <2>3, <3>1, <4>1
      <4> QED BY <1>5, <4>2
    <3>3. Tail(t)[j] = t[j + 1]
      BY <1>1, <1>7, <3>1
    <3>4. q[i] = t[j + 1]
      BY <1>6, <1>7, <2>3, <3>1
    <3> QED BY <3>2, <3>3, <3>4
  <2> QED BY <2>1, <2>2, <2>3
<1>10. v = q
  BY <1>5, <1>6, <1>8, <1>9, SeqEqual
<1>11. M + 1 \in 1..(M + N) /\ q[M + 1] = Head(t)
  BY <1>1, <1>6, <1>7
<1>12. \A i \in 1..M : i \in 1..(M + N) /\ q[i] = s[i]
  BY <1>6, <1>7
<1> QED BY <1>1, <1>2, <1>3, <1>4, <1>7, <1>8, <1>10, <1>11, <1>12

\* Of rows in two sequences, the first of the second is left out.
Without(q, v, a) ==
  /\ q \in Seq(UsageRows) /\ v \in Seq(UsageRows) /\ a \in Nat /\ a <= Len(v) /\ Len(q) = Len(v) + 1
  /\ \A i \in 1..a : q[i] = v[i]
  /\ \A i \in (a + 1)..Len(v) : q[i + 1] = v[i]

\* The first row of one sequence goes.
LEMMA HeadDrops ==
  ASSUME NEW s \in Seq(UsageRows), NEW t \in Seq(UsageRows), t # << >>, NEW q, NEW v, NEW a,
         q = s \o t, v = s \o Tail(t), a = Len(s)
  PROVE  Without(q, v, a)
<1>1. /\ Tail(t) \in Seq(UsageRows) /\ Len(t) \in Nat /\ Len(t) > 0
      /\ Len(Tail(t)) = Len(t) - 1 /\ \A i \in 1..Len(Tail(t)) : Tail(t)[i] = t[i + 1]
  BY HeadTailProperties
<1>2. PICK u : u = Tail(t)
  OBVIOUS
<1>3. PICK M \in Nat, N \in Nat : M = Len(s) /\ N = Len(u) /\ Len(t) = N + 1
  <2>1. Len(s) \in Nat
    BY LenProperties
  <2>2. Len(u) \in Nat /\ Len(t) = Len(u) + 1
    BY <1>1, <1>2
  <2> QED BY <2>1, <2>2
<1>4. /\ v \in Seq(UsageRows) /\ Len(v) = M + N
      /\ \A i \in 1..(M + N) : v[i] = IF i <= M THEN s[i] ELSE u[i - M]
  BY <1>1, <1>2, <1>3, ConcatProperties
<1>5. /\ q \in Seq(UsageRows) /\ Len(q) = M + (N + 1)
      /\ \A i \in 1..(M + (N + 1)) : q[i] = IF i <= M THEN s[i] ELSE t[i - M]
  <2>1. /\ q \in Seq(UsageRows) /\ Len(q) = Len(s) + Len(t)
        /\ \A i \in 1..(Len(s) + Len(t)) : q[i] = IF i <= Len(s) THEN s[i] ELSE t[i - Len(s)]
    BY ConcatProperties
  <2> QED BY <1>3, <2>1
<1>6. ASSUME NEW i \in 1..M PROVE q[i] = v[i]
  <2>1. i \in 1..(M + N) /\ i \in 1..(M + (N + 1)) /\ i <= M
    OBVIOUS
  <2> QED BY <1>4, <1>5, <2>1
<1>7. ASSUME NEW i \in (M + 1)..(M + N) PROVE q[i + 1] = v[i]
  <2>1. PICK j \in Nat : j = i - M /\ j \in 1..N /\ (i + 1) - M = j + 1
    OBVIOUS
  <2>2. v[i] = u[j]
    <3>1. i \in 1..(M + N) /\ ~ (i <= M)
      OBVIOUS
    <3> QED BY <1>4, <2>1, <3>1
  <2>3. q[i + 1] = t[j + 1]
    <3>1. i + 1 \in 1..(M + (N + 1)) /\ ~ (i + 1 <= M)
      OBVIOUS
    <3> QED BY <1>5, <2>1, <3>1
  <2>4. u[j] = t[j + 1]
    BY <1>1, <1>2, <1>3, <2>1
  <2> QED BY <2>2, <2>3, <2>4
<1> QED BY <1>3, <1>4, <1>5, <1>6, <1>7 DEF Without

\* Where the rows left were.
LEMMA WithoutAre ==
  ASSUME NEW q, NEW v, NEW a, Without(q, v, a), NEW i \in 1..Len(v)
  PROVE  \E l \in 1..Len(q) : /\ v[i] = q[l] /\ (i <= a => l = i) /\ (i > a => l = i + 1)
<1>1. PICK N \in Nat : N = Len(v) /\ Len(q) = N + 1 /\ a \in Nat /\ a <= N
  BY DEF Without
<1>2. CASE i <= a
  <2>1. i \in 1..a /\ i \in 1..Len(q)
    BY <1>1, <1>2
  <2> QED BY <1>1, <1>2, <2>1 DEF Without
<1>3. CASE i > a
  <2>1. i \in (a + 1)..Len(v) /\ i + 1 \in 1..Len(q)
    BY <1>1, <1>3
  <2> QED BY <1>1, <1>3, <2>1 DEF Without
<1> QED BY <1>1, <1>2, <1>3

\* One row less is counted less, where lines share a time.
LEMMA CountedLess ==
  ASSUME forgotten \in Nat, NEW k \in Nat, NEW q, NEW v, NEW a, Without(q, v, a), Counted(q, k), ~ TimesApart
  PROVE  Counted(v, k)
<1>1. PICK N \in Nat : N = Len(v) /\ Len(q) = N + 1 /\ a \in Nat /\ a <= N
  BY DEF Without
<1>2. q \in Seq(UsageRows) /\ v \in Seq(UsageRows)
  BY DEF Without
<1>3. \A i \in 1..N : v[i].event <= k /\ v[i].event >= 1 /\ RowOK(v[i])
  BY <1>1, WithoutAre DEF Counted
<1>4. ASSUME NEW i \in 1..N, NEW j \in 1..N, v[i].event = v[j].event PROVE i = j
  <2>1. PICK l \in 1..Len(q) : v[i] = q[l] /\ (i <= a => l = i) /\ (i > a => l = i + 1)
    BY <1>1, WithoutAre
  <2>2. PICK m \in 1..Len(q) : v[j] = q[m] /\ (j <= a => m = j) /\ (j > a => m = j + 1)
    BY <1>1, WithoutAre
  <2>3. l = m
    BY <1>4, <2>1, <2>2 DEF Counted
  <2> QED BY <1>1, <2>1, <2>2, <2>3
<1>5. PICK x \in Nat, y \in Nat : x = Tokens(v) /\ Tokens(q) = x + y
  <2>1. a + 1 \in 1..Len(q)
    BY <1>1
  <2>2. PICK h \in UsageRows : h = q[a + 1]
    BY <1>2, <2>1
  <2> QED BY <1>1, <1>2, <2>2, TokensWithout DEF Without
<1>6. PICK d \in Nat : d = Due(k)
  BY DueGrows
<1>7. (x + y) + forgotten <= d
  BY <1>5, <1>6 DEF Counted
<1>8. x + forgotten <= d
  BY <1>7
<1> QED BY <1>1, <1>2, <1>3, <1>4, <1>5, <1>6, <1>8 DEF Counted

\* One row less, of an event that has another, leaves the events as they were.
LEMMA WholeLess ==
  ASSUME NEW k \in Nat, NEW q, NEW v, NEW a, Without(q, v, a), Whole(q, k),
         NEW b \in 1..a, q[b].event = q[a + 1].event
  PROVE  Whole(v, k)
<1>1. PICK N \in Nat : N = Len(v) /\ Len(q) = N + 1 /\ a \in Nat /\ a <= N
  BY DEF Without
<1>2. q \in Seq(UsageRows) /\ v \in Seq(UsageRows)
  BY DEF Without
<1>3. \A i \in 1..N : IdRow(v[i])
  BY <1>1, WithoutAre DEF Whole
<1>4. ASSUME NEW l \in 1..(N + 1) PROVE \E i \in 1..N : v[i].event = q[l].event
  <2>1. CASE l <= a
    BY <1>1, <2>1 DEF Without
  <2>2. CASE l = a + 1
    <3>1. b \in 1..N /\ q[b] = v[b]
      BY <1>1 DEF Without
    <3> QED BY <2>2, <3>1
  <2>3. CASE l > a + 1
    <3>1. PICK i \in 1..N : l = i + 1 /\ i \in (a + 1)..N
      BY <1>1, <2>3
    <3>2. q[l] = v[i]
      BY <1>1, <3>1 DEF Without
    <3> QED BY <3>2
  <2> QED BY <1>1, <2>1, <2>2, <2>3
<1>5. ASSUME forgotten = 0, NEW e \in 1..k, Shape[provider][e] = "named"
      PROVE  \E i \in 1..N : v[i].event = e
  <2>1. PICK l \in 1..(N + 1) : q[l].event = e
    BY <1>1, <1>5 DEF Whole
  <2> QED BY <1>4, <2>1
<1> QED BY <1>1, <1>2, <1>3, <1>5 DEF Whole

\* A row is recorded, or has the key of one that is.
LEMMA RecordCounts ==
  ASSUME CollectInv, CountInv, NEW c \in Slots, CollectRecord(c)
  PROVE  CountInv'
<1>0. UNCHANGED <<provider, timed, file, mtime, written, cursor, total, forgotten, overlap, collectFaults>>
  BY DEF CollectRecord, source, history
<1>1. SUFFICES ASSUME collectFaults = 0, overlap = "no"
               PROVE  /\ external' \in Seq(UsageRows) /\ KeysDiffer'
                      /\ SourceOK' /\ \E k \in Nat : CountOK(k)'
  BY <1>0 DEF CountInv
<1>2. /\ SourceOK /\ SourceOK' /\ external \in Seq(UsageRows) /\ KeysDiffer
      /\ forgotten \in Nat /\ written \in Nat
  <2>1. SourceOK /\ SourceOK' /\ external \in Seq(UsageRows) /\ KeysDiffer /\ forgotten \in Nat
    BY <1>0, <1>1 DEF CountInv, SourceOK
  <2> QED BY <2>1 DEF SourceOK, LaidOut, Numbered
<1>3. PICK k \in Nat : CountOK(k)
  BY <1>1 DEF CountInv
<1>4. command[c].pc = "record" /\ command[c] # NoCommand /\ command[c].obs # << >>
  BY IdleCommand DEF CollectRecord
<1>5. /\ \A d \in Slots : d # c => command[d] = NoCommand
      /\ command[c].obs \in Seq(UsageRows) /\ Holds(external \o command[c].obs, k)
  BY <1>1, <1>3, <1>4, Mover
<1>6. PICK s, t : s = external /\ t = command[c].obs
  OBVIOUS
<1>7. s \in Seq(UsageRows) /\ t \in Seq(UsageRows) /\ t # << >>
  BY <1>2, <1>4, <1>5, <1>6
<1>8. PICK q : q = s \o t
  OBVIOUS
<1>9. /\ Head(t) \in UsageRows /\ Tail(t) \in Seq(UsageRows)
      /\ Append(s, Head(t)) \in Seq(UsageRows)
      /\ Append(s, Head(t)) \o Tail(t) = q
      /\ Len(s) + 1 \in 1..Len(q) /\ q[Len(s) + 1] = Head(t)
      /\ \A i \in 1..Len(s) : i \in 1..Len(q) /\ q[i] = s[i]
  BY <1>7, <1>8, HeadMoves
<1>10. Holds(q, k)
  BY <1>5, <1>6, <1>8
<1>11. PICK p : p = [command[c] EXCEPT !.obs = Tail(@)]
  OBVIOUS
<1>12. Becomes(c, p)
  BY <1>11 DEF CollectRecord, Becomes
<1>13. p.pc = "record" /\ p.obs = Tail(t)
  <2>1. command[c].obs = t /\ command[c].pc = "record"
    BY <1>4, <1>6
  <2> QED BY <1>11, <2>1
<1>14. CursorAt(k)'
  <2>1. Len(file) \in Nat
    BY <1>2 DEF SourceOK, LaidOut, Cells, Numbered
  <2>2. Len(file) <= Len(file') /\ written <= written'
    BY <1>0, <1>2, <2>1
  <2> QED BY <1>0, <1>2, <1>3, <2>2, CursorStays DEF CountOK
<1>15. k <= written
  BY <1>3 DEF CountOK, CursorAt
<1>16. PICK M \in Nat : M = Len(s)
  BY <1>7
<1>17. CASE ~ hasExternal(Head(t).key)
  <2>1. external' = Append(s, Head(t))
    BY <1>6, <1>17 DEF CollectRecord, recordExternal
  <2>2. q = external' \o p.obs
    BY <1>9, <1>13, <2>1
  <2>3. Holds(q, k)'
    BY <1>0, <1>10, HoldsStill
  <2>4. CountOK(k)'
    BY <1>5, <1>9, <1>12, <1>13, <1>14, <2>1, <2>2, <2>3, OneMoves
  <2>5. PICK w : w = external'
    OBVIOUS
  <2>6. /\ Len(w) = M + 1 /\ w[M + 1] = Head(t) /\ \A i \in 1..M : w[i] = s[i]
    BY <1>7, <1>9, <1>16, <2>1, <2>5
  <2>7. \A i \in 1..M : s[i].key # Head(t).key
    BY <1>6, <1>7, <1>16, <1>17 DEF hasExternal
  <2>8. ASSUME ~ Incremental, NEW i \in 1..(M + 1), NEW j \in 1..(M + 1), w[i].key = w[j].key
        PROVE  i = j
    <3>1. CASE i \in 1..M /\ j \in 1..M
      BY <1>2, <1>6, <1>16, <2>6, <2>8, <3>1 DEF KeysDiffer
    <3>2. CASE i = M + 1 /\ j \in 1..M
      BY <2>6, <2>7, <2>8, <3>2
    <3>3. CASE i \in 1..M /\ j = M + 1
      BY <2>6, <2>7, <2>8, <3>3
    <3>4. (i = M + 1 \/ i \in 1..M) /\ (j = M + 1 \/ j \in 1..M)
      OBVIOUS
    <3> QED BY <3>1, <3>2, <3>3, <3>4
  <2>9. KeysDiffer'
    BY <1>0, <2>5, <2>6, <2>8 DEF KeysDiffer, Incremental
  <2> QED BY <1>2, <1>9, <2>1, <2>4, <2>9
<1>18. CASE hasExternal(Head(t).key)
  <2>1. external' = s
    BY <1>6, <1>18 DEF CollectRecord, recordExternal
  <2>2. PICK v : v = s \o Tail(t)
    OBVIOUS
  <2>3. Without(q, v, M)
    BY <1>7, <1>8, <1>16, <2>2, HeadDrops
  <2>4. PICK b \in 1..M : s[b].key = Head(t).key
    BY <1>6, <1>7, <1>16, <1>18 DEF hasExternal
  <2>5. /\ q[b].key = q[M + 1].key /\ b \in 1..Len(q) /\ M + 1 \in 1..Len(q) /\ b # M + 1
    BY <1>9, <1>16, <2>4
  <2>6. Holds(v, k)
    <3>1. CASE Incremental
      <4>1. Counted(q, k)
        BY <1>10, <3>1 DEF Holds
      <4>2. PICK o \in UsageRows, h \in UsageRows : o = q[b] /\ h = q[M + 1]
        BY <2>3, <2>5 DEF Without
      <4>3. /\ o.event <= k /\ o.event >= 1 /\ RowOK(o) /\ h.event <= k /\ h.event >= 1 /\ RowOK(h)
        BY <2>5, <4>1, <4>2 DEF Counted
      <4>4. o.event \in Nat /\ h.event \in Nat
        BY <4>2 DEF UsageRows
      <4>5. o.event <= written /\ h.event <= written
        BY <1>2, <1>15, <4>3, <4>4
      <4>6. o.event # h.event
        BY <2>5, <4>1, <4>2 DEF Counted
      <4>7. o.key = h.key
        BY <2>5, <4>2
      <4>8. ~ TimesApart
        BY <1>2, <4>3, <4>5, <4>6, <4>7, KeysApart
      <4>9. Counted(v, k)
        BY <1>2, <2>3, <4>1, <4>8, CountedLess
      <4> QED BY <3>1, <4>9 DEF Holds
    <3>2. CASE ~ Incremental
      <4>1. Whole(q, k)
        BY <1>10, <3>2 DEF Holds
      <4>2. q[b].event = q[M + 1].event
        <5>1. IdRow(q[b]) /\ IdRow(q[M + 1])
          BY <2>5, <4>1 DEF Whole
        <5>2. q[b] \in UsageRows /\ q[M + 1] \in UsageRows
          BY <2>3, <2>5 DEF Without
        <5>3. q[b].key[1] = "id" /\ q[M + 1].key[1] = "id"
          BY <5>1 DEF IdRow
        <5>4. q[b].key[2] = q[b].event /\ q[M + 1].key[2] = q[M + 1].event
          BY <5>2, <5>3 DEF UsageRows
        <5> QED BY <2>5, <5>4
      <4>3. Whole(v, k)
        BY <2>3, <4>1, <4>2, WholeLess
      <4> QED BY <3>2, <4>3 DEF Holds
    <3> QED BY <3>1, <3>2
  <2>7. Holds(v, k)'
    BY <1>0, <2>6, HoldsStill
  <2>8. v = external' \o p.obs /\ external' \in Seq(UsageRows)
    BY <1>7, <1>13, <2>1, <2>2
  <2>9. CountOK(k)'
    BY <1>5, <1>9, <1>12, <1>13, <1>14, <2>7, <2>8, OneMoves
  <2>10. KeysDiffer'
    BY <1>0, <1>2, <1>6, <2>1 DEF KeysDiffer, Incremental
  <2> QED BY <1>2, <2>8, <2>9, <2>10
<1> QED BY <1>17, <1>18

\* Rows with ids are worth something.
LEMMA WorthNothing ==
  ASSUME NEW rows \in Seq(UsageRows), \A i \in 1..Len(rows) : IdRow(rows[i]), Tokens(rows) = 0
  PROVE  Len(rows) = 0
<1> SUFFICES ASSUME Len(rows) # 0 PROVE FALSE
  OBVIOUS
<1>1. rows # << >> /\ Len(rows) \in Nat /\ Len(rows) > 0
  OBVIOUS
<1>2. PICK u : u = Tail(rows)
  OBVIOUS
<1>3. /\ u \in Seq(UsageRows) /\ Len(u) = Len(rows) - 1
      /\ \A i \in 1..Len(u) : u[i] = rows[i + 1]
  BY <1>1, <1>2, HeadTailProperties
<1>4. PICK N \in Nat : N = Len(u) /\ Len(rows) = N + 1
  <2>1. Len(u) \in Nat /\ Len(rows) = Len(u) + 1
    BY <1>1, <1>3
  <2> QED BY <2>1
<1>5. PICK h \in UsageRows : h = rows[1] /\ h.tokens = 1
  <2>1. 1 \in 1..Len(rows)
    BY <1>1
  <2> QED BY <2>1 DEF IdRow
<1>6. PICK a \in Nat : a = 0
  OBVIOUS
<1>7. /\ a <= Len(u) /\ Len(rows) = Len(u) + 1 /\ rows[a + 1] = h
      /\ (\A i \in 1..a : rows[i] = u[i]) /\ \A i \in (a + 1)..Len(u) : rows[i + 1] = u[i]
  BY <1>3, <1>4, <1>5, <1>6
<1>8. Tokens(u) \in Nat /\ Tokens(rows) = Tokens(u) + h.tokens
  BY <1>3, <1>7, TokensWithout
<1> QED BY <1>5, <1>8

\* A disable deletes the rows, and what they held is forgotten.
LEMMA ClearCounts ==
  ASSUME CollectInv, CountInv, NEW c \in Slots, ClearProviderUsage(c)
  PROVE  CountInv'
<1>0. UNCHANGED <<provider, timed, file, mtime, written, cursor, total, overlap, collectFaults>>
  BY DEF ClearProviderUsage, source
<1>1. external' = << >> /\ forgotten' = forgotten + Tokens(external)
  BY DEF ClearProviderUsage
<1>2. SUFFICES ASSUME collectFaults = 0, overlap = "no"
               PROVE  /\ forgotten' \in Nat /\ external' \in Seq(UsageRows) /\ KeysDiffer'
                      /\ SourceOK' /\ \E k \in Nat : CountOK(k)'
  BY <1>0 DEF CountInv
<1>3. SourceOK /\ SourceOK' /\ external \in Seq(UsageRows) /\ forgotten \in Nat
  BY <1>0, <1>2 DEF CountInv, SourceOK
<1>4. PICK k \in Nat : CountOK(k)
  BY <1>2 DEF CountInv
<1>5. command[c].pc = "clear" /\ command[c] # NoCommand
  BY IdleCommand DEF ClearProviderUsage
<1>6. command[c].obs = << >>
  BY <1>4, <1>5 DEF CountOK
<1>7. (\A d \in Slots : d # c => command[d] = NoCommand) /\ Holds(external, k)
  BY <1>2, <1>4, <1>5, <1>6, Mover
<1>8. PICK x \in Nat, g \in Nat : x = Tokens(external) /\ g = forgotten
  <2>1. PICK f : Sums(external, Len(external), f)
    BY <1>3, SumsExist
  <2>2. Tokens(external) \in Nat
    BY <1>3, <2>1, TokensAre DEF Sums
  <2> QED BY <1>3, <2>2
<1>9. forgotten' = g + x
  BY <1>1, <1>8
<1>10. Due(k)' = Due(k) /\ (TimesApart' <=> TimesApart)
  BY <1>0 DEF Due, Top, Of, TimesApart, TimeOf
<1>11. << >> \in Seq(UsageRows) /\ Len(<< >>) = 0
  OBVIOUS
<1>12. ASSUME Incremental PROVE Counted(<< >>, k)'
  <2>1. PICK d \in Nat : d = Due(k)
    BY DueGrows
  <2>2. x + g <= d /\ (TimesApart => x + g = d)
    BY <1>7, <1>8, <1>12, <2>1 DEF Holds, Counted
  <2>3. 0 + forgotten' <= d /\ (TimesApart' => 0 + forgotten' = d)
    BY <1>8, <1>9, <1>10, <2>2
  <2> QED BY <1>10, <1>11, <2>1, <2>3, TokensOfNone DEF Counted
<1>13. ASSUME ~ Incremental PROVE Whole(<< >>, k)'
  <2>1. Whole(external, k)
    BY <1>7, <1>13 DEF Holds
  <2>2. ASSUME forgotten' = 0 PROVE forgotten = 0 /\ Len(external) = 0
    <3>1. g = 0 /\ x = 0
      BY <1>8, <1>9, <2>2
    <3>2. \A i \in 1..Len(external) : IdRow(external[i])
      BY <2>1 DEF Whole
    <3> QED BY <1>3, <1>8, <3>1, <3>2, WorthNothing
  <2>3. ASSUME forgotten' = 0, NEW e \in 1..k PROVE Shape[provider][e] # "named"
    BY <2>1, <2>2, <2>3 DEF Whole
  <2> QED BY <1>0, <1>11, <2>3 DEF Whole
<1>14. PICK p : p = [NoCommand EXCEPT !.pc = "off"]
  OBVIOUS
<1>15. Becomes(c, p)
  BY <1>14 DEF ClearProviderUsage
<1>16. p.pc = "off" /\ p.obs = << >>
  BY <1>14 DEF NoCommand
<1>17. PICK r : r = << >>
  OBVIOUS
<1>18. r = external' \o p.obs /\ external' \in Seq(UsageRows) /\ p.obs \in Seq(UsageRows)
  BY <1>1, <1>11, <1>16, <1>17, NoneBehind
<1>19. CursorAt(k)'
  <2>1. Len(file) \in Nat /\ written \in Nat
    BY <1>3 DEF SourceOK, LaidOut, Cells, Numbered
  <2>2. Len(file) <= Len(file') /\ written <= written'
    BY <1>0, <2>1
  <2> QED BY <1>0, <1>3, <1>4, <2>2, CursorStays DEF CountOK
<1>20. Holds(r, k)'
  BY <1>0, <1>12, <1>13, <1>17 DEF Holds, Incremental
<1>21. CountOK(k)'
  BY <1>7, <1>15, <1>16, <1>18, <1>19, <1>20, OneMoves
<1>22. KeysDiffer'
  BY <1>1, <1>11 DEF KeysDiffer
<1> QED BY <1>1, <1>3, <1>8, <1>9, <1>11, <1>21, <1>22

\* An adapter looks at the source, leaves it, or reads it.
LEMMA AdapterCounts ==
  ASSUME CollectAssumption, CollectInv, CountInv, NEW c \in Slots, NEW n \in Nat,
         collectClaude(c, n) \/ collectCodex(c, n) \/ collectOpencode(c, n)
  PROVE  CountInv'
<1> DEFINE Plain == [NoCommand EXCEPT !.pc = "record"]
           Limited(l) == [NoCommand EXCEPT !.pc = "record", !.limit = l]
           Looked == [NoCommand EXCEPT !.pc = "parse", !.size = Len(file), !.mtime = mtime,
                                       !.cursor = cursor]
<1>0. /\ Plain.pc = "record" /\ Plain.obs = << >>
      /\ \A l : Limited(l).pc = "record" /\ Limited(l).obs = << >>
      /\ Looked.pc = "parse" /\ Looked.obs = << >> /\ Looked.cursor = cursor /\ Looked.size = Len(file)
  BY DEF NoCommand
<1>1. CASE Unread(c)
  <2>0. UNCHANGED <<source, cursor, total, external, forgotten, overlap>> /\ provider' = provider
        /\ command[c].pc = "stat"
    BY <1>1 DEF Unread, tables, history, source
  <2>1. CASE CollectFault
    BY <2>0, <2>1, FaultVoids
  <2>2. CASE ~ CollectFault
    <3>1. Becomes(c, Plain) /\ UNCHANGED collectFaults
      BY <1>1, <2>2, Zenon DEF Unread
    <3>2. command[c] # NoCommand
      BY <2>0, IdleCommand
    <3> HIDE DEF Plain
    <3> QED BY <1>0, <2>0, <3>1, <3>2, EmptyMove
  <2> QED BY <2>1, <2>2
<1>2. CASE CollectStat(c)
  <2>0. UNCHANGED <<source, cursor, total, external, forgotten, overlap, collectFaults>>
        /\ command[c].pc = "stat"
    BY <1>2 DEF CollectStat, tables, history
  <2>1. Becomes(c, Looked) \/ Becomes(c, Limited(LocalLimit("no")))
    BY <1>2, Zenon DEF CollectStat
  <2>2. command[c] # NoCommand
    BY <2>0, IdleCommand
  <2> HIDE DEF Looked, Limited
  <2>3. CASE Becomes(c, Looked)
    BY <1>0, <2>0, <2>2, <2>3, EmptyMove
  <2>4. CASE Becomes(c, Limited(LocalLimit("no")))
    <3>1. PICK p : p = Limited(LocalLimit("no"))
      OBVIOUS
    <3>2. p.pc = "record" /\ p.obs = << >> /\ Becomes(c, p)
      BY <1>0, <2>4, <3>1
    <3> QED BY <2>0, <2>2, <3>2, EmptyMove
  <2> QED BY <2>1, <2>3, <2>4
<1>3. CASE AdapterError(c, n)
  <2>1. CollectFault /\ provider' = provider
    BY <1>3 DEF AdapterError, source
  <2> QED BY <2>1, FaultVoids
<1> QED BY CollectAssumption, <1>1, <1>2, <1>3, SessionCounts, DbCounts DEF collectClaude, collectCodex, collectOpencode

\* A command ends, with nothing left to record, or a disable with nothing recorded.
LEMMA EndCounts ==
  ASSUME CollectInv, CountInv, NEW c \in Slots, CollectLimits(c) \/ DisableSetting(c)
  PROVE  CountInv'
<1>1. /\ UNCHANGED <<source, cursor, total, external, forgotten, overlap, collectFaults>>
      /\ Becomes(c, NoCommand)
      /\ command[c].pc = "off" \/ (command[c].pc = "record" /\ command[c].obs = << >>)
  BY DEF CollectLimits, DisableSetting, history
<1>2. command[c] # NoCommand
  BY <1>1, IdleCommand
<1>3. PICK p : p = NoCommand
  OBVIOUS
<1>4. p.pc = "idle" /\ p.obs = << >> /\ Becomes(c, p)
  BY <1>1, <1>3, IdleRows
<1> QED BY <1>1, <1>2, <1>4, EmptyMove

\* A command begins.
LEMMA BeginCounts ==
  ASSUME CollectInv, CountInv, NEW c \in Slots, NEW pc \in {"stat", "clear"}, Begins(c, pc),
         UNCHANGED <<source, cursor, total, external, forgotten, collectFaults>>
  PROVE  CountInv'
<1>1. PICK p : p = [NoCommand EXCEPT !.pc = pc]
  OBVIOUS
<1>2. p.pc = pc /\ p.obs = << >>
  BY <1>1 DEF NoCommand
<1>3. Becomes(c, p)
  BY <1>1 DEF Begins
<1>4. overlap' = "no" => overlap = "no" /\ Active = {}
  BY DEF Begins
<1> QED BY <1>2, <1>3, <1>4, EmptyMove

\* A request beside the commands.
LEMMA AsideCounts ==
  ASSUME CountInv,
         UNCHANGED <<source, cursor, total, external, command, forgotten, overlap, collectFaults>>
  PROVE  CountInv'
<1>1. UNCHANGED <<provider, timed, file, written>>
  BY DEF source
<1>2. ASSUME SourceOK PROVE SourceOK' /\ Len(file) <= Len(file') /\ written <= written'
  <2>1. Len(file) \in Nat /\ written \in Nat
    BY <1>2 DEF SourceOK, LaidOut, Cells, Numbered
  <2> QED BY <1>1, <1>2, <2>1 DEF SourceOK
<1>3. ASSUME SourceOK, NEW k \in Nat, CursorAt(k) PROVE \E j \in Nat : CursorGoes(k, j)
  BY <1>1, <1>2, <1>3, CursorFollows
<1> QED BY <1>1, <1>2, <1>3, NothingMoves

\* No step breaks the invariant.
LEMMA CountStepKeeps ==
  ASSUME CollectAssumption, CollectInv, CountInv, [CollectNext]_collectVars
  PROVE  CountInv'
<1>1. CASE \E n \in 1..2 : Append1(n)
  BY <1>1, AppendCounts
<1>2. CASE FinishLine
  BY <1>2, FinishCounts
<1>3. CASE Rewrite
  BY <1>3, FaultVoids DEF Rewrite
<1>4. ASSUME NEW c \in Slots, CommandStep(c) PROVE CountInv'
  <2>1. CASE CollectBegin(c)
    <3>1. Begins(c, "stat") /\ UNCHANGED <<source, cursor, total, external, forgotten, collectFaults>>
      BY <2>1 DEF CollectBegin, tables
    <3> QED BY <3>1, BeginCounts
  <2>2. CASE CollectRecord(c)
    BY <2>2, RecordCounts
  <2>3. CASE CollectLimits(c) \/ DisableSetting(c)
    BY <2>3, EndCounts
  <2>4. CASE \E n \in 0..Len(file) : collectClaude(c, n) \/ collectCodex(c, n) \/ collectOpencode(c, n)
    <3>1. PICK n \in 0..Len(file) : collectClaude(c, n) \/ collectCodex(c, n) \/ collectOpencode(c, n)
      BY <2>4
    <3>2. n \in Nat
      OBVIOUS
    <3> QED BY <3>1, <3>2, AdapterCounts
  <2>5. CASE Disable(c)
    <3>1. Begins(c, "clear") /\ UNCHANGED <<source, cursor, total, external, forgotten, collectFaults>>
      BY <2>5 DEF Disable
    <3> QED BY <3>1, BeginCounts
  <2>6. CASE ClearProviderUsage(c)
    BY <2>6, ClearCounts
  <2> QED BY <1>4, <2>1, <2>2, <2>3, <2>4, <2>5, <2>6 DEF CommandStep
<1>5. ASSUME NEW c \in Slots, CommandKilled(c) PROVE CountInv'
  BY <1>5, FaultVoids DEF CommandKilled, source
<1>6. CASE \E credentials \in {"keep", "on"} : Enable(credentials)
  BY <1>6, AsideCounts DEF Enable
<1>7. ASSUME NEW c \in Slots, NEW credentials, NEW collect, POST(c, credentials, collect)
      PROVE  CountInv'
  <2>1. UNCHANGED <<source, cursor, total, external, forgotten, collectFaults>>
    BY <1>7 DEF POST
  <2>2. Begins(c, "stat") \/ UNCHANGED <<command, overlap>>
    BY <1>7 DEF POST
  <2> QED BY <2>1, <2>2, BeginCounts, AsideCounts
<1>8. CASE SetManualLimit \/ PUT
  BY <1>8, AsideCounts DEF SetManualLimit, PUT
<1>9. CASE UNCHANGED collectVars
  BY <1>9, AsideCounts DEF collectVars, tables, history
<1>10. QED
  BY <1>1, <1>2, <1>3, <1>4, <1>5, <1>6, <1>7, <1>8, <1>9 DEF CollectNext

\* Nothing is read, recorded or due at first.
LEMMA CountBegins == CollectAssumption /\ CollectInit => CountInv
<1> SUFFICES ASSUME CollectAssumption, CollectInit PROVE CountInv
  OBVIOUS
<1>1. /\ provider \in Providers /\ file = << >> /\ written = 0 /\ cursor.offset = 0 /\ total = 0
      /\ external = << >> /\ command = [c \in Slots |-> NoCommand] /\ forgotten = 0 /\ collectFaults = 0
  BY DEF CollectInit, NoCursor
<1>2. Len(Shape[provider]) \in Nat
  BY <1>1 DEF CollectAssumption
<1>3. file \in Seq(Nat) /\ Len(file) = 0 /\ external \in Seq(UsageRows) /\ Len(external) = 0
  BY <1>1
<1>4. End(0) = 0
  BY EndSteps
<1>5. SourceOK
  <2>1. Cells(file) /\ Numbered(file)
    BY <1>3 DEF Cells, Numbered
  <2>2. LaidOut(file, written)
    BY <1>1, <1>3, <1>4, <2>1 DEF LaidOut
  <2> QED BY <1>1, <1>2, <1>3, <2>1, <2>2 DEF SourceOK
<1>6. Of("named", 0) = {} /\ Of("bare", 0) = {} /\ Of("total", 0) = {}
  BY DEF Of
<1>7. Top(0) = 0
  <2>1. \A y \in {0} : y \in Nat /\ y <= 0
    OBVIOUS
  <2>2. Max({0}) = 0
    BY <2>1, MaxIs
  <2>3. {0} \cup Of("total", 0) = {0}
    BY <1>6
  <2> QED BY <2>2, <2>3 DEF Top
<1>8. Due(0) = 0
  <2>1. Cardinality({}) = 0
    BY FS_EmptySet
  <2>2. Cardinality(Of("named", 0)) = 0 /\ Cardinality(Of("bare", 0)) = 0
    BY <1>6, <2>1
  <2> QED BY <1>7, <2>2 DEF Due
<1>9. Holds(external, 0)
  <2>1. Counted(external, 0)
    BY <1>1, <1>3, <1>8, TokensOfNone DEF Counted
  <2>2. Whole(external, 0)
    BY <1>3 DEF Whole
  <2> QED BY <2>1, <2>2 DEF Holds
<1>10. CursorAt(0)
  <2>1. Stands(0, 0)
    BY <1>1 DEF Stands
  <2> QED BY <1>1, <1>3, <1>4, <1>7, <2>1 DEF CursorAt
<1>11. CountOK(0)
  BY <1>1, <1>9, <1>10, IdleRows DEF CountOK, ReadingOK
<1>12. KeysDiffer
  BY <1>3 DEF KeysDiffer
<1> QED BY <1>1, <1>3, <1>5, <1>11, <1>12 DEF CountInv

\* The tokens before the cursor, when it stands behind event k.
LEMMA ExpectedIs ==
  ASSUME CollectAssumption, provider \in Providers, Incremental, SourceOK, NEW k \in Nat, CursorAt(k)
  PROVE  Expected = Due(k)
<1> DEFINE of(shape) == {e \in Passed : Shape[provider][e] = shape}
<1>1. PICK N \in Nat : N = Len(Shape[provider]) /\ Events = 1..N
  BY DEF CollectAssumption, Events
<1>2. k <= N
  <2>1. written \in 0..N /\ k <= written
    BY <1>1 DEF SourceOK, CursorAt
  <2> QED BY <2>1
<1>3. Passed = 1..k
  <2>1. CASE provider = "opencode"
    <3>1. \A e \in 1..written : TimeOf(e) <= cursor.offset <=> e <= k
      BY <2>1 DEF CursorAt, Stands, Incremental
    <3>2. /\ written \in Nat /\ written <= N /\ k <= written
          /\ DOMAIN file = 1..written /\ \A i \in 1..written : file[i] = i
      BY <1>1, <2>1 DEF SourceOK, CursorAt, Numbered
    <3>3. Passed = {e \in 1..N : TimeOf(e) <= cursor.offset /\ \E i \in 1..written : file[i] = e}
      BY <1>1, <2>1, <3>2 DEF Passed
    <3>4. ASSUME NEW e PROVE e \in Passed <=> e \in 1..k
      <4>1. ASSUME e \in Passed PROVE e \in 1..k
        BY <3>1, <3>2, <3>3, <4>1
      <4>2. ASSUME e \in 1..k PROVE e \in Passed
        <5>1. e \in 1..written /\ e \in 1..N /\ e <= k
          BY <3>2, <4>2
        <5> QED BY <3>1, <3>2, <3>3, <5>1
      <4> QED BY <4>1, <4>2
    <3> QED BY <3>4
  <2>2. CASE provider # "opencode"
    <3>0. Cells(file) /\ Len(file) \in Nat
      <4>1. Cells(file)
        BY <2>2 DEF SourceOK, LaidOut
      <4>2. file \in Seq(Nat)
        BY <4>1 DEF Cells
      <4> QED BY <4>1, <4>2
    <3>1. cursor.offset = End(k) /\ End(k) <= Len(file) /\ Cells(file) /\ Len(file) \in Nat
      BY <2>2, <3>0 DEF CursorAt
    <3>2. End(k) \in Nat
      BY EndOrder
    <3>3. ASSUME NEW e \in 1..N, NEW i \in 1..End(k), file[i] = e PROVE e \in 1..k
      <4>1. i \in Nat /\ i > 0 /\ i \in 1..Len(file)
        BY <3>1, <3>2
      <4>2. PICK m \in Nat : End(m) < i /\ i <= End(m + 1)
        BY <4>1, EndCovers
      <4>3. m + 1 \in Nat /\ End(m) \in Nat /\ End(m + 1) \in Nat
        <5>1. m + 1 \in Nat
          OBVIOUS
        <5> QED BY <5>1, EndOrder
      <4>4. i # End(m + 1)
        <5>1. e # Newline
          BY DEF Newline
        <5> QED BY <3>1, <3>3, <4>1, <5>1 DEF Cells
      <4>5. e = m + 1
        <5>1. i < End(m + 1)
          BY <4>1, <4>2, <4>3, <4>4
        <5> QED BY <3>1, <3>3, <4>1, <4>2, <5>1 DEF Cells
      <4>6. End(m) < End(k)
        BY <3>2, <4>1, <4>2, <4>3
      <4>7. m < k
        BY <4>6, EndOrder
      <4> QED BY <4>5, <4>7
    <3>4. ASSUME NEW e \in 1..k PROVE \E i \in 1..End(k) : file[i] = e
      <4>1. PICK m \in Nat : m + 1 = e
        OBVIOUS
      <4>2. /\ End(m) \in Nat /\ End(m + 1) \in Nat /\ (Width(m + 1) = 1 \/ Width(m + 1) = 2)
            /\ End(m + 1) = End(m) + Width(m + 1) + 1
        BY EndSteps
      <4>3. End(m + 1) <= End(k)
        <5>1. m + 1 \in Nat /\ m + 1 <= k
          BY <4>1
        <5> QED BY <5>1, EndOrder
      <4>4. PICK i \in Nat : i = End(m) + 1
        BY <4>2
      <4>5. i \in 1..End(k) /\ i \in 1..Len(file) /\ End(m) < i /\ i < End(m + 1)
        BY <3>1, <3>2, <4>2, <4>3, <4>4
      <4>6. file[i] = m + 1
        BY <3>1, <4>5 DEF Cells
      <4> QED BY <4>1, <4>5, <4>6
    <3>5. \A e \in 1..k : e \in 1..N
      BY <1>2
    <3>6. Passed = {e \in 1..N : \E i \in 1..End(k) : file[i] = e}
      BY <1>1, <2>2, <3>1 DEF Passed
    <3> QED BY <3>3, <3>4, <3>5, <3>6
  <2> QED BY <2>1, <2>2
<1>4. Expected = Cardinality(of("named"))
                 + (IF provider = "opencode" THEN 0 ELSE Cardinality(of("bare")))
                 + (IF provider = "codex" THEN Max({0} \cup of("total")) ELSE 0)
  BY Zenon DEF Expected
<1>5. of("named") = Of("named", k) /\ of("bare") = Of("bare", k) /\ of("total") = Of("total", k)
  BY <1>3 DEF Of
<1> HIDE DEF of
<1> QED BY <1>4, <1>5 DEF Due, Top

\* Both invariants hold in every state of the specification.
THEOREM CountInvariance == CollectSpec => [](CollectInv /\ CountInv)
<1>1. CollectInit => CollectInv
  BY IdleCommand DEF CollectInit, CollectInv, AloneOK
<1>2. CollectInit => CountInv
  BY CollectAssumption, CountBegins
<1>3. CollectInv /\ CountInv /\ [CollectNext]_collectVars => (CollectInv /\ CountInv)'
  BY CollectAssumption, CollectStepKeeps, CountStepKeeps
<1>4. QED
  BY <1>1, <1>2, <1>3, PTL DEF CollectSpec

\* Commands that run one after the other and to their end, over a source that only grows, record
\* no event twice and never more than lies before the cursor, and exactly that as long as no two
\* lines without an id, or rows, share a time (codex.ts:282, opencode.ts:186), whatever lines were
\* half written when the source was read; a database without a time column is read again as a
\* whole, and its unique keys keep every row once.
THEOREM EveryEventOnce == CollectSpec => []CountsExactly
<1>1. CollectInv /\ CountInv => CountsExactly
  <2> SUFFICES ASSUME CollectInv, CountInv, Orderly
               PROVE  /\ \A i, j \in DOMAIN external : external[i].event = external[j].event => i = j
                      /\ Incremental =>
                           /\ Tokens(external) + forgotten <= Expected
                           /\ TimesApart => Tokens(external) + forgotten = Expected
                      /\ ~ Incremental /\ forgotten = 0 =>
                           \A e \in 1..cursor.offset :
                             Shape[provider][file[e]] = "named" =>
                               \E i \in DOMAIN external : external[i].event = file[e]
    BY DEF CountsExactly
  <2>1. collectFaults = 0 /\ overlap = "no" /\ Active = {}
    BY DEF Orderly
  <2>2. provider \in Providers /\ SourceOK /\ external \in Seq(UsageRows) /\ KeysDiffer
    BY <2>1 DEF CountInv
  <2>3. PICK k \in Nat : CountOK(k)
    BY <2>1 DEF CountInv
  <2>4. Holds(external, k) /\ CursorAt(k)
    BY <2>1, <2>3 DEF CountOK
  <2>5. DOMAIN external = 1..Len(external)
    BY <2>2
  <2>6. CASE Incremental
    <3>1. Counted(external, k)
      BY <2>4, <2>6 DEF Holds
    <3>2. Expected = Due(k)
      BY <2>2, <2>4, <2>6, CollectAssumption, ExpectedIs
    <3> QED BY <2>5, <2>6, <3>1, <3>2 DEF Counted
  <2>7. CASE ~ Incremental
    <3>1. Whole(external, k) /\ cursor.offset = k /\ provider = "opencode"
      BY <2>4, <2>7 DEF Holds, CursorAt, Incremental
    <3>2. ASSUME NEW i \in DOMAIN external, NEW j \in DOMAIN external, external[i].event = external[j].event
          PROVE  i = j
      <4>1. external[i].key = <<"id", external[i].event, 0>> /\ external[j].key = <<"id", external[j].event, 0>>
        BY <2>5, <3>1 DEF Whole, IdRow
      <4>2. external[i].key = external[j].key
        BY <3>2, <4>1
      <4> QED BY <2>2, <2>5, <2>7, <4>2 DEF KeysDiffer
    <3>3. ASSUME forgotten = 0, NEW e \in 1..cursor.offset, Shape[provider][file[e]] = "named"
          PROVE  \E i \in DOMAIN external : external[i].event = file[e]
      <4>1. file[e] = e
        <5>1. Numbered(file) /\ Len(file) = written /\ k <= written /\ written \in Nat
          BY <2>2, <2>4, <3>1 DEF SourceOK, CursorAt, Numbered
        <5>2. e \in 1..Len(file)
          BY <3>1, <5>1
        <5> QED BY <5>1, <5>2 DEF Numbered
      <4>2. e \in 1..k
        BY <3>1
      <4> QED BY <2>5, <3>1, <3>3, <4>1, <4>2 DEF Whole
    <3> QED BY <2>7, <3>2, <3>3
  <2> QED BY <2>6, <2>7
<1>2. QED
  BY <1>1, CountInvariance, PTL

================================================================================
