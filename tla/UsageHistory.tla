------------------------------ MODULE UsageHistory ------------------------------
(***************************************************************************)
(* The run history of the usage database (runtime/src/usage.ts: migrate,   *)
(* syncRun, recordUsage, recordResourceSample, pruneCandidates,            *)
(* removeRuns), and those who use it: the processes that write the record  *)
(* file of a run and then mirror it into the database (run, restart, the   *)
(* worker, stop, the listings), remove, history prune and the retention of *)
(* the daemon.                                                             *)
(*                                                                         *)
(* The file and the row of a run are two writes of two stores, and nothing *)
(* keeps the processes apart in between.  A record, and its row, is active *)
(* (starting, running or stopping) or ended; RunSupervisor has the rest of *)
(* the record.  Creation times are left out: a restart renews the one of   *)
(* its run, so any ended runs may be the newest, or too old.               *)
(***************************************************************************)
EXTENDS Integers, FiniteSets

CONSTANTS
  Runs,         \* runs, numbers in the order of their first start
  Writers,      \* process slots for those that write run records
  Procs,        \* process slots for those that remove runs
  Keeps,        \* values of --keep and retention.max_runs; 0 means not set in the settings
  MaxRequests,  \* commands ever given, after the runs are started (a bound of the model)
  MaxFaults     \* lost mirror writes and kills (a bound of the model)

ASSUME ConstantsAssumption ==
  /\ Runs \subseteq Nat /\ IsFiniteSet(Runs) /\ Keeps \subseteq Nat
  /\ MaxRequests \in Nat /\ MaxFaults \in Nat

Migrations == 2
ACTIVE == {"active"}

VARIABLES
  record,     \* the record files
  row,        \* runs: the state of the row of a run
  tokens,     \* token_usage and resource_samples: how many rows a run has
  schema,     \* user_version
  retention,  \* settings: retention.max_runs and retention.days
  created,    \* runs that were started
  writer,     \* the processes that write run records
  proc,       \* the processes that remove runs
  lost,       \* runs removed while they were active
  raced,      \* runs that became active on the list of a removal, or were put on it
              \* before the row said that they are active
  torn,       \* runs one mirror write of which failed, or crossed the writes of another process
  early,      \* runs removed while a process was still at work on them
  given, faults   \* commands and faults so far

db == <<row, tokens, schema, retention>>
ghosts == <<lost, raced, torn, early>>
bounds == <<given, faults>>
vars == <<record, db, created, writer, proc, ghosts, bounds>>

NoWriter == [pc |-> "idle", run |-> 0, state |-> "none", next |-> "idle"]
Idle == [pc |-> "idle", kind |-> "none", seen |-> 0, ids |-> {}, half |-> {}]

Init ==
  /\ record = [r \in Runs |-> "none"] /\ row = [r \in Runs |-> "none"]
  /\ tokens = [r \in Runs |-> 0]
  /\ schema = 0
  /\ retention = [keep |-> 0, days |-> "no"]
  /\ created = {}
  /\ writer = [i \in Writers |-> NoWriter]
  /\ proc = [c \in Procs |-> Idle]
  /\ lost = {} /\ raced = {} /\ torn = {} /\ early = {}
  /\ given = 0 /\ faults = 0

Fault == faults < MaxFaults /\ faults' = faults + 1
Command == given < MaxRequests /\ given' = given + 1

--------------------------------------------------------------------------------
(***************************************************************************)
(* writeRun: the record file, then its mirror                              *)
(***************************************************************************)

\* What has been done to the file of a run and not yet to its row.
Unmirrored(r) ==
  {writer[i].state : i \in {j \in Writers : writer[j].pc = "sync" /\ writer[j].run = r}}
    \cup {"none" : c \in {d \in Procs : r \in proc[d].half}}

\* The file is changed while another process is about to mirror something else.
Crosses(r, state) == torn' = IF Unmirrored(r) \subseteq {state} THEN torn ELSE torn \cup {r}

\* writeRun up to the rename.
writeRun(i) ==
  /\ writer[i].pc = "write"
  /\ LET r == writer[i].run  state == writer[i].state IN
     /\ record' = [record EXCEPT ![r] = state]
     /\ Crosses(r, state)
     /\ raced' = IF state \in ACTIVE /\ \E c \in Procs : r \in proc[c].ids THEN raced \cup {r} ELSE raced
  /\ writer' = [writer EXCEPT ![i].pc = "sync"]
  /\ UNCHANGED <<db, created, proc, lost, early, bounds>>

\* The process has a store of its own, whose opening brings the tables.
Opened == schema' = Migrations

\* syncRun: insert or update the row.
syncRun(r, state) == row' = [row EXCEPT ![r] = state]

At(pc, r) == [NoWriter EXCEPT !.pc = pc, !.run = r]
GoesOn(i) == writer' = [writer EXCEPT ![i] = IF writer[i].next = "idle" THEN NoWriter
                                          ELSE At(writer[i].next, writer[i].run)]

\* syncRunToUsage: an error is swallowed.
syncRunToUsage(i) ==
  /\ writer[i].pc = "sync"
  /\ \/ Opened /\ syncRun(writer[i].run, writer[i].state) /\ UNCHANGED <<torn, faults>>
     \/ Fault /\ torn' = torn \cup {writer[i].run} /\ UNCHANGED <<row, schema>>
  /\ GoesOn(i)
  /\ UNCHANGED <<record, tokens, retention, created, proc, lost, raced, early, given>>

--------------------------------------------------------------------------------
(***************************************************************************)
(* Those who write the record of a run                                     *)
(***************************************************************************)

\* The process has decided what it writes, from what it read.
WillWrite(i, r, state, next) ==
  writer' = [writer EXCEPT ![i] = [pc |-> "write", run |-> r, state |-> state, next |-> next]]

\* run: with --detach a worker is spawned, without it the command executes the agent.
Start(i, r) ==
  /\ writer[i].pc = "idle"
  /\ r \notin created /\ \A s \in Runs : s < r => s \in created
  /\ created' = created \cup {r}
  /\ \E next \in {"spawn", "front"} : WillWrite(i, r, "active", next)
  /\ UNCHANGED <<record, db, proc, ghosts, bounds>>

\* restart, under the same id: the record is not active, whatever its processes are doing.
Restart(i, r) ==
  /\ writer[i].pc = "idle" /\ Command
  /\ record[r] = "ended"
  /\ WillWrite(i, r, "active", "spawn")
  /\ UNCHANGED <<record, db, created, proc, ghosts, faults>>

\* startManagedRun spawns the worker, and writes the record again, with the pid.
Spawn(i) ==
  /\ writer[i].pc = "spawn"
  /\ \E j \in Writers :
       /\ writer[j].pc = "idle"
       /\ writer' = [writer EXCEPT ![i] = [@ EXCEPT !.pc = "write", !.state = "active"],
                                   ![j] = At("boot", writer[i].run)]
  /\ UNCHANGED <<record, db, created, proc, ghosts, bounds>>

\* supervisor-run reads the record and writes it back as "running".
Boot(i) ==
  /\ writer[i].pc = "boot"
  /\ IF record[writer[i].run] = "none" THEN writer' = [writer EXCEPT ![i] = NoWriter]
     ELSE WillWrite(i, writer[i].run, "active", "work")
  /\ UNCHANGED <<record, db, created, proc, ghosts, bounds>>

\* The worker writes back what it read, with the container's id or the model's name.
WorkerWrites(i) ==
  /\ writer[i].pc = "work"
  /\ LET r == writer[i].run IN WillWrite(i, r, IF record[r] = "none" THEN "active" ELSE record[r], "work")
  /\ UNCHANGED <<record, db, created, proc, ghosts, bounds>>

\* finalize, after which the usage is recorded; fail, or the end of a run in the foreground.
WriterEnds(i) ==
  /\ writer[i].pc \in {"work", "front"}
  /\ \E next \in IF writer[i].pc = "work" THEN {"usage", "idle"} ELSE {"idle"} :
       WillWrite(i, writer[i].run, "ended", next)
  /\ UNCHANGED <<record, db, created, proc, ghosts, bounds>>

\* recordUsage and recordResourceSample of the store: n rows of the run, whether or not it has
\* a row itself.
InsertSamples(r, n) == tokens' = [tokens EXCEPT ![r] = @ + n]

\* recordUsage and recordResourceSample of the worker, or nothing was reported.
RecordUsage(i) ==
  /\ writer[i].pc = "usage" /\ Opened
  /\ \E n \in 0..1 : InsertSamples(writer[i].run, n)
  /\ writer' = [writer EXCEPT ![i] = NoWriter]
  /\ UNCHANGED <<record, row, retention, created, proc, ghosts, bounds>>

\* stop writes an active record as "stopping"; stop, ps, inspect and the daemon's start write
\* one as ended.
Settle(i, r) ==
  /\ writer[i].pc = "idle" /\ Command
  /\ record[r] \in ACTIVE
  /\ \E state \in {"active", "ended"} : WillWrite(i, r, state, "idle")
  /\ UNCHANGED <<record, db, created, proc, ghosts, faults>>

\* A writer is killed, perhaps before it has mirrored what it wrote.
WriterKilled(i) ==
  /\ writer[i].pc # "idle" /\ Fault
  /\ torn' = IF writer[i].pc = "sync" THEN torn \cup {writer[i].run} ELSE torn
  /\ writer' = [writer EXCEPT ![i] = NoWriter]
  /\ UNCHANGED <<record, db, created, proc, lost, raced, early, given>>

--------------------------------------------------------------------------------
(***************************************************************************)
(* openUsageStore                                                          *)
(***************************************************************************)

Ask(c, p) ==
  /\ proc[c] = Idle /\ Command
  /\ proc' = [proc EXCEPT ![c] = p]
  /\ UNCHANGED <<record, db, created, writer, ghosts, faults>>

\* history prune, and the daemon's start.
PruneAsked(c) == Ask(c, [Idle EXCEPT !.pc = "open", !.kind = "prune"])

\* migrate reads the version and then applies the migrations from there on.
OpenStore(c) ==
  /\ proc[c].pc = "open"
  /\ proc' = [proc EXCEPT ![c].seen = schema, ![c].pc = IF schema < Migrations THEN "migrate" ELSE "ready"]
  /\ UNCHANGED <<record, db, created, writer, ghosts, bounds>>

\* Mutant: an opener whose migration fails goes on with the store as it is.
MigrateRegardless(c) ==
  /\ proc[c].pc = "migrate"
  /\ IF proc[c].seen = schema
     THEN /\ schema' = schema + 1
          /\ proc' = [proc EXCEPT ![c].seen = @ + 1, ![c].pc = IF schema + 1 < Migrations THEN "migrate" ELSE "ready"]
     ELSE proc' = [proc EXCEPT ![c].pc = "ready"] /\ UNCHANGED schema
  /\ UNCHANGED <<record, row, tokens, retention, created, writer, ghosts, bounds>>

\* One migration in a transaction: its tables are new, or the opener fails.
Migrate(c) ==
  /\ proc[c].pc = "migrate"
  /\ IF proc[c].seen = schema
     THEN /\ schema' = schema + 1
          /\ proc' = [proc EXCEPT ![c].seen = @ + 1, ![c].pc = IF schema + 1 < Migrations THEN "migrate" ELSE "ready"]
     ELSE proc' = [proc EXCEPT ![c] = Idle] /\ UNCHANGED schema
  /\ UNCHANGED <<record, row, tokens, retention, created, writer, ghosts, bounds>>

setSetting(keep, days) == retention' = [keep |-> keep, days |-> days]

\* PUT settings, by the dashboard: non-negative integers only.
SaveRetention(keep, days) ==
  /\ Command /\ Opened
  /\ setSetting(keep, days)
  /\ UNCHANGED <<record, row, tokens, created, writer, proc, ghosts, faults>>

--------------------------------------------------------------------------------
(***************************************************************************)
(* remove, history prune and the daemon's retention                        *)
(***************************************************************************)

\* Of some runs, those beyond the newest ones, and those of old days.
Beyond(runs, keep, days) ==
  LET more == IF keep >= 0 /\ keep < Cardinality(runs) THEN Cardinality(runs) - keep ELSE 0
  IN {ids \in SUBSET runs : Cardinality(ids) = more \/ (days = "yes" /\ Cardinality(ids) > more)}

\* Mutant: active runs too.
AnyCandidates(keep, days) == Beyond({r \in Runs : row[r] # "none"}, keep, days)

\* pruneCandidates: ended runs, by the rows.
pruneCandidates(keep, days) == Beyond({r \in Runs : row[r] # "none" /\ row[r] \notin ACTIVE}, keep, days)

\* The candidates are listed once, by --keep (-1 when it is not given) and --older-than, or by
\* the retention settings when neither is given, and when the daemon starts; a setting of 0 is
\* none.
PruneList(c, keepFlag, daysFlag) ==
  /\ proc[c].pc = "ready"
  /\ LET flagged == keepFlag >= 0 \/ daysFlag = "yes"
         keep == IF flagged THEN keepFlag ELSE IF retention.keep > 0 THEN retention.keep ELSE -1
         days == IF flagged THEN daysFlag ELSE retention.days IN
     \E ids \in pruneCandidates(keep, days) :
       /\ proc' = [proc EXCEPT ![c] = IF ids = {} THEN Idle ELSE [Idle EXCEPT !.pc = "remove", !.kind = "prune", !.ids = ids]]
       /\ raced' = raced \cup {r \in ids : "active" \in Unmirrored(r)}
  /\ UNCHANGED <<record, db, created, writer, lost, torn, early, bounds>>

\* remove reads the record: it has ended.
RemoveAsked(c, r) ==
  /\ record[r] = "ended"
  /\ Ask(c, [Idle EXCEPT !.pc = "remove", !.kind = "remove", !.ids = {r}])

\* removeRun, of one candidate whatever became of it: the record file...
removeRun(c) ==
  /\ proc[c].pc = "remove"
  /\ \E r \in proc[c].ids :
       /\ record' = [record EXCEPT ![r] = "none"]
       /\ Crosses(r, "none")
       /\ lost' = IF record[r] \in ACTIVE THEN lost \cup {r} ELSE lost
       /\ early' = IF \E i \in Writers : writer[i].pc # "idle" /\ writer[i].run = r
                   THEN early \cup {r} ELSE early
       /\ proc' = [proc EXCEPT ![c] = [proc[c] EXCEPT !.pc = "rows", !.ids = @ \ {r}, !.half = {r}]]
  /\ UNCHANGED <<db, created, writer, raced, bounds>>

\* Mutant: the usage rows stay.
RowOnly(ids) ==
  row' = [r \in Runs |-> IF r \in ids THEN "none" ELSE row[r]] /\ UNCHANGED tokens

\* removeRuns: one transaction over the three tables, for the runs that have a row.
removeRuns(ids) ==
  LET known == {r \in ids : row[r] # "none"} IN
  /\ row' = [r \in Runs |-> IF r \in known THEN "none" ELSE row[r]]
  /\ tokens' = [r \in Runs |-> IF r \in known THEN 0 ELSE tokens[r]]

\* ... then the rows; an error of the database is swallowed.
pruneById(c) ==
  /\ proc[c].pc = "rows"
  /\ \/ Opened /\ removeRuns(proc[c].half) /\ UNCHANGED <<torn, faults>>
     \/ Fault /\ torn' = torn \cup proc[c].half /\ UNCHANGED <<row, tokens, schema>>
  /\ proc' = [proc EXCEPT ![c] = IF @.ids = {} THEN Idle ELSE [@ EXCEPT !.pc = "remove", !.half = {}]]
  /\ UNCHANGED <<record, retention, created, writer, lost, raced, early, given>>

--------------------------------------------------------------------------------

\* A process is killed between two of its writes.
Killed(c) ==
  /\ proc[c].pc \in {"migrate", "remove", "rows"} /\ Fault
  /\ torn' = torn \cup proc[c].half
  /\ proc' = [proc EXCEPT ![c] = Idle]
  /\ UNCHANGED <<record, db, created, writer, lost, raced, early, given>>

Next ==
  \/ \E i \in Writers :
       \/ writeRun(i) \/ syncRunToUsage(i) \/ Spawn(i) \/ Boot(i) \/ WorkerWrites(i) \/ WriterEnds(i)
       \/ RecordUsage(i) \/ WriterKilled(i)
       \/ \E r \in Runs : Start(i, r) \/ Restart(i, r) \/ Settle(i, r)
  \/ \E c \in Procs :
       \/ PruneAsked(c) \/ OpenStore(c) \/ Migrate(c) \/ removeRun(c) \/ pruneById(c) \/ Killed(c)
       \/ \E keep \in Keeps \cup {-1}, days \in {"no", "yes"} : PruneList(c, keep, days)
       \/ \E r \in Runs : RemoveAsked(c, r)
  \/ \E keep \in Keeps, days \in {"no", "yes"} : SaveRetention(keep, days)

Spec == Init /\ [][Next]_vars

--------------------------------------------------------------------------------

\* A prune that got past opening the store finds every table, two first openers of a fresh
\* database included.
StoreReady ==
  \A c \in Procs : proc[c].kind = "prune" /\ proc[c].pc \in {"ready", "remove", "rows"} => schema = Migrations

\* remove and prune look at the record, or at the row, once and remove the run later.  An
\* active run is lost to them only when it became active on their list, when it was listed
\* between the rename of its restart and the mirror of it, or when its row is wrong because a
\* mirror write failed or two processes' writes crossed.
PruneSparesActive == lost \subseteq raced \cup torn

\* Whenever nobody is between its two writes of a run, the history says what the record of the
\* run says, and keeps no usage of a run that is gone, unless it was removed while a process
\* was at work on it; except for a run one mirror write of which failed or crossed another
\* process's write of a different state.
HistoryMirrors ==
  \A r \in Runs \ torn :
    Unmirrored(r) = {} => /\ row[r] = record[r]
                          /\ record[r] = "none" /\ r \notin early => tokens[r] = 0

================================================================================
