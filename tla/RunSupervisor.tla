----------------------------- MODULE RunSupervisor -----------------------------
(***************************************************************************)
(* One run id of the CLI's supervisor (cli/src/lib/supervisor.ts and the   *)
(* commands run, stop, restart, ps, inspect, remove, supervisor-run).      *)
(*                                                                         *)
(* The run is a JSON file that every process reads and replaces WHOLE,     *)
(* with no lock: the CLI commands, and the detached worker that executes   *)
(* the agent.  The worker's reads and writes are steps of their own, and   *)
(* so is a command's read whose write comes after an await, a spawn, a     *)
(* kill, a probe of the process table or a docker call: what was read is   *)
(* kept until the write.  A command's read that its write follows directly *)
(* is one step with it.                                                    *)
(*                                                                         *)
(* Abstractions.  Times, ports, health, model names, exit codes beyond     *)
(* zero and not zero, exit reasons but "manual-stop" and any other or      *)
(* none, logs and the digest are left out; a pid is a worker, never        *)
(* reused; a managed run with the http interface executes nothing and is   *)
(* left out.                                                               *)
(***************************************************************************)
EXTENDS Integers, FiniteSets, FiniteSetsExt

CONSTANTS
  Clis,         \* terminals; each runs one command at a time
  MaxWorkers,   \* workers ever spawned for the run (a bound of the model)
  MaxContained, \* the first so many of them may use a container (a bound of the model)
  MaxCommands,  \* commands other than ps (a bound of the model)
  MaxRunFaults  \* kills from outside and listings interrupted by other steps (a bound of the model)

ASSUME RunAssumption ==
  /\ MaxWorkers \in Nat \ {0}
  /\ MaxContained \in 1 .. MaxWorkers
  /\ MaxCommands \in Nat
  /\ MaxRunFaults \in Nat

Workers == 1 .. MaxWorkers   \* a worker is named by its pid
NoWorkerPid == 0

VARIABLES
  trust,    \* the trust of the installed agent: "trusted" or "untrusted"
  rec,      \* the run record on disk
  worker,   \* the detached supervisor-run processes
  agent,    \* the child each worker started
  ctr,      \* the container labelled with the run id each worker's child started
  ufile,    \* the usage file of the run: the workers whose agent's sample is in it
  counted,  \* how often the sample of each worker's agent was put into the usage store
  cli,      \* the commands
  lister,   \* what a reconcileRuns under way read: ps, history or the daemon's start
  commands, \* commands so far
  runFaults, \* faults so far
  overlap   \* "yes" once a restart began while a worker was alive or about to be spawned

processes == <<worker, agent, ctr>>
usage == <<ufile, counted, overlap>>
bounds == <<commands, runFaults>>
runVars == <<trust, rec, processes, usage, cli, lister, bounds>>

ACTIVE_STATES == {"starting", "running", "stopping"}

NoRun == [sandbox |-> "none", state |-> "absent", pid |-> NoWorkerPid, cid |-> NoWorkerPid, reason |-> "other"]

runIsActive(r) == r.state \in ACTIVE_STATES

\* The record startManagedRun builds: its sandbox comes from the trust of the
\* installed agent, not from the policy the worker will apply.
StartRecord == [sandbox |-> IF trust = "trusted" THEN "process" ELSE "container",
                state |-> "starting", pid |-> NoWorkerPid, cid |-> NoWorkerPid, reason |-> "other"]

\* readRun(runId) ?? record: a removed record is written back by its worker.
OrElse(r, fallback) == IF r = NoRun THEN fallback ELSE r

NoWorker == [pc |-> "none", record |-> NoRun, copy |-> NoRun, sig |-> "none"]
Dead == [NoWorker EXCEPT !.pc = "dead"]
Idle == [pc |-> "idle", r |-> NoRun, last |-> NoRun, pid |-> NoWorkerPid, id |-> NoWorkerPid,
         next |-> "none"]

WorkerAlive(w) == worker[w].pc \notin {"none", "dead"}
AgentAlive(w) == agent[w] \in {"silent", "reported", "client"}
processGroupAlive(w) == WorkerAlive(w) \/ AgentAlive(w)

\* docker ps -a --filter label=oah.run_id=...: the newest container first.  When
\* docker cannot be asked, the answer is that there is none.
Labelled == {w \in Workers : ctr[w] \in {"running", "exited"}}
dockerContainerByRunId == {NoWorkerPid} \cup (IF Labelled = {} THEN {} ELSE {Max(Labelled)})

RunInit ==
  /\ trust \in {"trusted", "untrusted"}
  /\ rec = NoRun
  /\ worker = [w \in Workers |-> NoWorker]
  /\ agent = [w \in Workers |-> "none"]
  /\ ctr = [w \in Workers |-> "none"]
  /\ ufile = {}
  /\ counted = [w \in Workers |-> 0]
  /\ cli = [c \in Clis |-> Idle]
  /\ lister = NoRun
  /\ commands = 0
  /\ runFaults = 0
  /\ overlap = "no"

(***************************************************************************)
(* Commands                                                                *)
(***************************************************************************)

RunFault ==
  /\ runFaults < MaxRunFaults
  /\ runFaults' = runFaults + 1

IssueCommand(c) ==
  /\ cli[c].pc = "idle"
  /\ commands < MaxCommands
  /\ commands' = commands + 1

\* run --detach, up to the first writeRun of startManagedRun.  newRunId makes a
\* new id each time, so this run is started once.
RunDetach(c) ==
  /\ IssueCommand(c)
  /\ \A w \in Workers : worker[w].pc = "none"
  /\ \A d \in Clis : cli[d].pc = "idle"
  /\ rec = NoRun
  /\ rec' = StartRecord
  /\ cli' = [cli EXCEPT ![c].pc = "spawn"]
  /\ UNCHANGED <<trust, lister, processes, usage, runFaults>>

\* startManagedRun spawns the worker.
Spawn(c) ==
  /\ cli[c].pc = "spawn"
  /\ \E w \in Workers :
       /\ worker[w].pc = "none"
       /\ \A v \in Workers : v < w => worker[v].pc # "none"
       /\ worker' = [worker EXCEPT ![w].pc = "boot"]
       /\ cli' = [cli EXCEPT ![c].pc = "pid", ![c].pid = w]
  /\ UNCHANGED <<trust, lister, rec, agent, ctr, usage, bounds>>

\* startManagedRun writes its own copy of the record again, with the pid.
RecordPid(c) ==
  /\ cli[c].pc = "pid"
  /\ rec' = [StartRecord EXCEPT !.pid = cli[c].pid]
  /\ cli' = [cli EXCEPT ![c] = [Idle EXCEPT !.pc = "wait"]]
  /\ UNCHANGED <<trust, lister, processes, usage, bounds>>

\* waitForRunStart returns, at the latest after RUN_START_TIMEOUT_MS.
WaitForRunStart(c) ==
  /\ cli[c].pc = "wait"
  /\ cli' = [cli EXCEPT ![c] = Idle]
  /\ UNCHANGED <<trust, lister, rec, processes, usage, bounds>>

\* run without --detach: the command executes the agent itself, under a record
\* that has neither a pid nor a sandbox.
ForegroundRecord == [StartRecord EXCEPT !.sandbox = "none"]

RunForeground(c) ==
  /\ IssueCommand(c)
  /\ \A w \in Workers : worker[w].pc = "none"
  /\ \A d \in Clis : cli[d].pc = "idle"
  /\ rec = NoRun
  /\ rec' = ForegroundRecord
  /\ cli' = [cli EXCEPT ![c].pc = "foreground"]
  /\ UNCHANGED <<trust, lister, processes, usage, runFaults>>

\* The policy may put a trusted agent into a container, never an untrusted one
\* into a process.
EffectiveSandboxes == IF trust = "trusted" THEN {"process", "container"} ELSE {"container"}

ForegroundEnd(c) ==
  /\ cli[c].pc = "foreground"
  /\ \E s \in EffectiveSandboxes, ended \in {"exited", "failed"} :
       rec' = [OrElse(rec, ForegroundRecord) EXCEPT
                 !.sandbox = s, !.state = ended, !.reason = "other"]
  /\ cli' = [cli EXCEPT ![c] = Idle]
  /\ UNCHANGED <<trust, lister, processes, usage, bounds>>

\* stopRun up to its writeRun of "stopping".
BeginStop(c, next) ==
  /\ runIsActive(rec)
  /\ rec' = [rec EXCEPT !.state = "stopping"]
  /\ cli' = [cli EXCEPT ![c] = [pc |-> IF rec.sandbox = "container" THEN "lookup" ELSE "term",
                                r |-> rec', last |-> NoRun, pid |-> rec.pid, id |-> rec.cid,
                                next |-> next]]

StopRun(c) ==
  /\ IssueCommand(c)
  /\ BeginStop(c, "report")
  /\ UNCHANGED <<trust, lister, processes, usage, runFaults>>

\* A container run without a container is put back to "running".
StopLookup(c) ==
  /\ cli[c].pc = "lookup"
  /\ \E id \in IF cli[c].id # NoWorkerPid THEN {cli[c].id} ELSE dockerContainerByRunId :
       IF id = NoWorkerPid
       THEN /\ rec' = [cli[c].r EXCEPT !.state = "running"]
            /\ cli' = [cli EXCEPT ![c] = Idle]
       ELSE /\ cli' = [cli EXCEPT ![c].pc = "dockerstop", ![c].id = id]
            /\ UNCHANGED rec
  /\ UNCHANGED <<trust, lister, processes, usage, bounds>>

\* docker stop: its errors, its own time limit included, are swallowed.
DockerStop(c) ==
  /\ cli[c].pc = "dockerstop"
  /\ LET id == cli[c].id IN
     ctr' \in {ctr, IF ctr[id] = "running" THEN [ctr EXCEPT ![id] = "exited"] ELSE ctr}
  /\ cli' = [cli EXCEPT ![c].pc = "settle"]
  /\ UNCHANGED <<trust, lister, rec, worker, agent, usage, bounds>>

\* killProcessGroup: SIGTERM, when the record had a pid and the group is there.
TermGroup(c) ==
  /\ cli[c].pc = "term"
  /\ LET w == cli[c].pid IN
     IF w = NoWorkerPid
     THEN /\ cli' = [cli EXCEPT ![c].pc = "settle"]
          /\ UNCHANGED worker
     ELSE /\ cli' = [cli EXCEPT ![c].pc = "killwait"]
          /\ worker' = IF WorkerAlive(w) THEN [worker EXCEPT ![w].sig = "term"] ELSE worker
  /\ UNCHANGED <<trust, lister, rec, agent, ctr, usage, bounds>>

GroupGone(c) ==
  /\ cli[c].pc = "killwait"
  /\ ~ processGroupAlive(cli[c].pid)
  /\ cli' = [cli EXCEPT ![c].pc = "settle"]
  /\ UNCHANGED <<trust, lister, rec, processes, usage, bounds>>

\* Mutant: no escalation, the command goes on when the time is up.
NoEscalation(c) ==
  /\ cli[c].pc = "killwait"
  /\ processGroupAlive(cli[c].pid)
  /\ cli' = [cli EXCEPT ![c].pc = "settle"]
  /\ UNCHANGED <<trust, lister, rec, processes, usage, bounds>>

\* CONTROL_STOP_TIMEOUT_MS is over: SIGKILL to the group.
KillGroup(c) ==
  /\ cli[c].pc = "killwait"
  /\ LET w == cli[c].pid IN
     /\ processGroupAlive(w)
     /\ worker' = IF WorkerAlive(w) THEN [worker EXCEPT ![w] = Dead] ELSE worker
     /\ agent' = IF AgentAlive(w) THEN [agent EXCEPT ![w] = "dead"] ELSE agent
  /\ cli' = [cli EXCEPT ![c].pc = "settle"]
  /\ UNCHANGED <<trust, lister, rec, ctr, usage, bounds>>

\* What stopRun's callers do with the record it returned: stop reports, restart
\* goes on only when the record is not active.
Settled(c, r) ==
  cli' = [cli EXCEPT ![c] = CASE cli[c].next = "report" -> [@ EXCEPT !.pc = "stopped", !.last = NoRun]
                              [] cli[c].next = "restart" /\ ~ runIsActive(r) -> [Idle EXCEPT !.pc = "clean"]
                              [] OTHER -> Idle]

isDead(c) == IF cli[c].r.sandbox = "container"
             THEN NoWorkerPid \in dockerContainerByRunId
             ELSE cli[c].pid # NoWorkerPid => ~ processGroupAlive(cli[c].pid)

\* settleRun reads the record and finds it settled by somebody else.
SettleSeen(c) ==
  /\ cli[c].pc = "settle"
  /\ rec # NoRun
  /\ rec.state # "stopping"
  /\ Settled(c, rec)
  /\ UNCHANGED <<trust, lister, rec, processes, usage, bounds>>

\* settleRun reads "stopping" and the process or container is dead.
SettleDead(c) ==
  /\ cli[c].pc = "settle"
  /\ rec.state = "stopping"
  /\ isDead(c)
  /\ cli' = [cli EXCEPT ![c].pc = "settlewrite", ![c].last = rec]
  /\ UNCHANGED <<trust, lister, rec, processes, usage, bounds>>

SettleWrite(c) ==
  /\ cli[c].pc = "settlewrite"
  /\ rec' = [cli[c].last EXCEPT !.state = "exited", !.reason = "manual-stop"]
  /\ Settled(c, rec')
  /\ UNCHANGED <<trust, lister, processes, usage, bounds>>

\* settleRun's deadline: readRun(runId) ?? fallback.
SettleTimeout(c) ==
  /\ cli[c].pc = "settle"
  /\ rec.state \in {"stopping", "absent"}
  /\ cli' = [cli EXCEPT ![c] = Idle]
  /\ UNCHANGED <<trust, lister, rec, processes, usage, bounds>>

StopReported(c) ==
  /\ cli[c].pc = "stopped"
  /\ cli' = [cli EXCEPT ![c] = Idle]
  /\ UNCHANGED <<trust, lister, rec, processes, usage, bounds>>

\* restart of an active run stops it first.
RestartActive(c) ==
  /\ IssueCommand(c)
  /\ BeginStop(c, "restart")
  /\ UNCHANGED <<trust, lister, processes, usage, runFaults>>

RestartEnded(c) ==
  /\ IssueCommand(c)
  /\ rec # NoRun
  /\ ~ runIsActive(rec)
  /\ cli' = [cli EXCEPT ![c] = [Idle EXCEPT !.pc = "clean"]]
  /\ UNCHANGED <<trust, lister, rec, processes, usage, runFaults>>

CanSpawn == \E w \in 1 .. (IF trust = "trusted" THEN MaxWorkers ELSE MaxContained) :
              worker[w].pc = "none"
RestartOverlap == overlap' = IF \/ \E v \in Workers : WorkerAlive(v)
                                \/ \E d \in Clis : cli[d].pc = "spawn"
                             THEN "yes" ELSE overlap

\* Mutant: the old log goes, the files whose names start with its name stay.
KeepUsageFile(c) ==
  /\ cli[c].pc = "clean"
  /\ CanSpawn
  /\ RestartOverlap
  /\ rec' = StartRecord
  /\ cli' = [cli EXCEPT ![c] = [Idle EXCEPT !.pc = "spawn"]]
  /\ UNCHANGED <<trust, lister, processes, ufile, counted, bounds>>

\* restartRun removes the log and every file named after it, the usage file too,
\* and goes into startManagedRun.
RestartClean(c) ==
  /\ cli[c].pc = "clean"
  /\ CanSpawn
  /\ ufile' = {}
  /\ RestartOverlap
  /\ rec' = StartRecord
  /\ cli' = [cli EXCEPT ![c] = [Idle EXCEPT !.pc = "spawn"]]
  /\ UNCHANGED <<trust, lister, processes, counted, bounds>>

\* Mutant: a record without a pid is taken for one that is still starting.
ReconcileWaitsForPid(r, found) ==
                           IF r.sandbox # "container" /\ r.pid # NoWorkerPid /\ ~ processGroupAlive(r.pid)
                           THEN [r EXCEPT !.state = "exited", !.reason = "other"] ELSE r

\* reconcileRun: what a probe of the processes or of docker makes of a record.
reconcileRun(r, found) ==
  CASE r.sandbox = "container" /\ found = NoWorkerPid ->
         [r EXCEPT !.state = "exited", !.reason = "other"]
    [] r.sandbox = "container" /\ found # NoWorkerPid /\ ctr[found] # "running" ->
         [r EXCEPT !.state = "exited", !.reason = "other"]
    [] r.sandbox = "container" /\ found # NoWorkerPid /\ ctr[found] = "running" ->
         [r EXCEPT !.cid = found]
    [] r.sandbox # "container" /\ r.pid = NoWorkerPid ->
         [r EXCEPT !.state = "exited", !.reason = "other"]
    [] r.sandbox # "container" /\ r.pid # NoWorkerPid /\ WorkerAlive(r.pid) -> r
    [] r.sandbox # "container" /\ r.pid # NoWorkerPid /\ ~ WorkerAlive(r.pid) ->
         IF AgentAlive(r.pid)
         THEN [r EXCEPT !.state = "orphaned", !.reason = "other"]
         ELSE [r EXCEPT !.state = "exited", !.reason = "other"]

\* ps, history and the daemon's start: reconcileRuns lists the records...
PsRead ==
  /\ lister = NoRun
  /\ RunFault
  /\ runIsActive(rec)
  /\ lister' = rec
  /\ UNCHANGED <<trust, rec, processes, usage, cli, commands>>

Reconciled(r) ==
  \E found \in dockerContainerByRunId :
    LET next == reconcileRun(r, found) IN rec' = IF next.state # r.state THEN next ELSE rec

\* Mutant: every reconciled record is written back, changed or not.
PsWritesBack ==
  /\ lister # NoRun
  /\ \E found \in dockerContainerByRunId : rec' = reconcileRun(lister, found)
  /\ lister' = NoRun
  /\ UNCHANGED <<trust, processes, usage, cli, bounds>>

\* ... and probes each one, writing it back when its state changed.
PsProbe ==
  /\ lister # NoRun
  /\ Reconciled(lister)
  /\ lister' = NoRun
  /\ UNCHANGED <<trust, processes, usage, cli, bounds>>

\* The same listing with nothing in between.
Ps ==
  /\ runIsActive(rec)
  /\ Reconciled(rec)
  /\ UNCHANGED <<trust, processes, usage, cli, lister, bounds>>

\* inspect compares the reconciled record with the one on disk now.
Inspect(c) ==
  /\ IssueCommand(c)
  /\ rec # NoRun
  /\ cli' = [cli EXCEPT ![c].pc = "inspect", ![c].r = rec]
  /\ UNCHANGED <<trust, lister, rec, processes, usage, runFaults>>

InspectProbe(c) ==
  /\ cli[c].pc = "inspect"
  /\ \E found \in dockerContainerByRunId :
       LET next == IF runIsActive(cli[c].r) THEN reconcileRun(cli[c].r, found) ELSE cli[c].r IN
       rec' = IF next.state # rec.state THEN next ELSE rec
  /\ cli' = [cli EXCEPT ![c] = Idle]
  /\ UNCHANGED <<trust, lister, processes, usage, bounds>>

\* remove and prune: the record, and every file named after the log.
Remove(c) ==
  /\ IssueCommand(c)
  /\ rec # NoRun
  /\ ~ runIsActive(rec)
  /\ rec' = NoRun
  /\ ufile' = {}
  /\ UNCHANGED <<trust, lister, processes, counted, overlap, cli, runFaults>>

\* The user interrupts a command.
Interrupt(c) ==
  /\ cli[c].pc # "idle"
  /\ RunFault
  /\ cli' = [cli EXCEPT ![c] = Idle]
  /\ UNCHANGED <<trust, lister, rec, processes, usage, commands>>

(***************************************************************************)
(* The worker: supervisor-run                                              *)
(***************************************************************************)

WorkerBoot(w) ==
  /\ worker[w].pc = "boot"
  /\ worker' = [worker EXCEPT ![w] = IF rec = NoRun THEN Dead
                                     ELSE [@ EXCEPT !.pc = "input", !.record = rec]]
  /\ UNCHANGED <<trust, lister, rec, agent, ctr, usage, cli, bounds>>

\* stdin has ended: the record read at boot is written back as "running".
WorkerRunning(w) ==
  /\ worker[w].pc = "input"
  /\ rec' = [worker[w].record EXCEPT !.state = "running"]
  /\ worker' = [worker EXCEPT ![w].pc = "prepare", ![w].record = rec']
  /\ UNCHANGED <<trust, lister, agent, ctr, usage, cli, bounds>>

\* prepareRunContext throws: fail() reads the record...
WorkerPrepareFails(w) ==
  /\ worker[w].pc = "prepare"
  /\ LET current == OrElse(rec, worker[w].record) IN
     worker' = [worker EXCEPT
       ![w].pc = "failing",
       ![w].copy = [current EXCEPT !.state = "failed",
                      !.reason = IF current.state = "stopping" THEN "manual-stop" ELSE "other"]]
  /\ UNCHANGED <<trust, lister, rec, agent, ctr, usage, cli, bounds>>

\* ... writes it and exits.
WorkerFails(w) ==
  /\ worker[w].pc = "failing"
  /\ rec' = worker[w].copy
  /\ worker' = [worker EXCEPT ![w] = Dead]
  /\ UNCHANGED <<trust, lister, agent, ctr, usage, cli, bounds>>

\* The context is ready, the signal handlers of a run that is not a container's
\* are installed, and the policy's sandbox starts its child.
WorkerExecutes(w) ==
  /\ worker[w].pc = "prepare"
  /\ worker' = [worker EXCEPT ![w].pc = "exec"]
  /\ \E s \in EffectiveSandboxes :
       /\ s = "container" => w <= MaxContained
       /\ agent' = [agent EXCEPT ![w] = IF s = "process" THEN "silent" ELSE "client"]
  /\ UNCHANGED <<trust, lister, rec, ctr, usage, cli, bounds>>

\* The poller of a container run looks for the container, reads the record...
WorkerPolls(w) ==
  /\ worker[w].pc = "exec"
  /\ worker[w].record.sandbox = "container"
  /\ \E found \in dockerContainerByRunId \ {NoWorkerPid} :
       /\ rec # NoRun
       /\ rec.cid # found
       /\ worker' = [worker EXCEPT ![w].pc = "polling", ![w].copy = [rec EXCEPT !.cid = found]]
  /\ UNCHANGED <<trust, lister, rec, agent, ctr, usage, cli, bounds>>

\* ... and stores it with the container's id.
WorkerPolled(w) ==
  /\ worker[w].pc = "polling"
  /\ rec' = worker[w].copy
  /\ worker' = [worker EXCEPT ![w].pc = "exec", ![w].copy = NoRun]
  /\ UNCHANGED <<trust, lister, agent, ctr, usage, cli, bounds>>

\* The run's time limit: SIGKILL to the child, not to the container.
WorkerTimesOut(w) ==
  /\ worker[w].pc = "exec"
  /\ AgentAlive(w)
  /\ agent' = [agent EXCEPT ![w] = "dead"]
  /\ UNCHANGED <<trust, lister, rec, worker, ctr, usage, cli, bounds>>

\* finalize reads the record...
Finalize(w, ended, reason) ==
  worker' = [worker EXCEPT ![w].pc = "finalizing", ![w].sig = "none",
               ![w].copy = [OrElse(rec, worker[w].record) EXCEPT !.state = ended, !.reason = reason]]

\* ... and writes the final one; the usage follows before the worker exits.
WorkerFinalizes(w) ==
  /\ worker[w].pc = "finalizing"
  /\ rec' = worker[w].copy
  /\ worker' = [worker EXCEPT ![w] = [NoWorker EXCEPT !.pc = "usage"]]
  /\ UNCHANGED <<trust, lister, agent, ctr, usage, cli, bounds>>

\* The child is gone: the worker reads the record, ...
WorkerEnds(w) ==
  /\ worker[w].pc = "exec"
  /\ agent[w] = "dead"
  /\ worker' = [worker EXCEPT ![w].pc = "ending", ![w].copy = OrElse(rec, worker[w].record)]
  /\ UNCHANGED <<trust, lister, rec, agent, ctr, usage, cli, bounds>>

\* ... writes it back with the model's name ...
WorkerNamesModel(w) ==
  /\ worker[w].pc = "ending"
  /\ rec' = worker[w].copy
  /\ worker' = [worker EXCEPT ![w].pc = "ended"]
  /\ UNCHANGED <<trust, lister, agent, ctr, usage, cli, bounds>>

\* ... and finalizes: the reason comes from what it read and the result.
WorkerEnded(w) ==
  /\ worker[w].pc = "ended"
  /\ IF worker[w].copy.state = "stopping" \/ worker[w].copy.reason = "manual-stop"
     THEN Finalize(w, "exited", "manual-stop")
     ELSE \E ended \in {"exited", "failed"} : Finalize(w, ended, "other")
  /\ UNCHANGED <<trust, lister, rec, agent, ctr, usage, cli, bounds>>

\* The child could not be started: finalize(1, "crashed").
WorkerCrashes(w) ==
  /\ worker[w].pc = "exec"
  /\ agent[w] \in {"silent", "client"}
  /\ ctr[w] = "none"
  /\ agent' = [agent EXCEPT ![w] = "dead"]
  /\ Finalize(w, "failed", "other")
  /\ UNCHANGED <<trust, lister, rec, ctr, usage, cli, bounds>>

\* SIGTERM: the handler finalizes; before it is installed the signal kills, and
\* nothing interrupts the worker from the end of its child on.
WorkerSignalled(w) ==
  /\ WorkerAlive(w)
  /\ worker[w].sig = "term"
  /\ IF worker[w].pc = "exec" /\ worker[w].record.sandbox # "container"
     THEN Finalize(w, "exited", "manual-stop")
     ELSE /\ worker[w].pc \notin {"ending", "ended", "finalizing", "usage", "tidy"}
          /\ worker' = [worker EXCEPT ![w] = Dead]
  /\ UNCHANGED <<trust, lister, rec, agent, ctr, usage, cli, bounds>>

\* recordUsage puts every sample of the usage file into the usage store...
RecordUsage(w) ==
  /\ worker[w].pc = "usage"
  /\ counted' = [v \in Workers |-> IF v \in ufile THEN counted[v] + 1 ELSE counted[v]]
  /\ worker' = [worker EXCEPT ![w].pc = "tidy"]
  /\ UNCHANGED <<trust, lister, rec, agent, ctr, ufile, overlap, cli, bounds>>

\* ... and the worker removes the file and exits.
WorkerExits(w) ==
  /\ worker[w].pc = "tidy"
  /\ ufile' = {}
  /\ worker' = [worker EXCEPT ![w] = Dead]
  /\ UNCHANGED <<trust, lister, rec, agent, ctr, counted, overlap, cli, bounds>>

\* Somebody kills the worker, and not its group.
WorkerKilled(w) ==
  /\ WorkerAlive(w)
  /\ RunFault
  /\ worker' = [worker EXCEPT ![w] = Dead]
  /\ UNCHANGED <<trust, lister, rec, agent, ctr, usage, cli, commands>>

(***************************************************************************)
(* The agents and docker                                                   *)
(***************************************************************************)

AgentReports(w) ==
  /\ agent[w] = "silent"
  /\ agent' = [agent EXCEPT ![w] = "reported"]
  /\ ufile' = ufile \cup {w}
  /\ UNCHANGED <<trust, lister, rec, worker, ctr, counted, overlap, cli, bounds>>

\* A process exits; the docker client exits with its container.
AgentExits(w) ==
  /\ AgentAlive(w)
  /\ agent[w] = "client" => ctr[w] \in {"exited", "gone"}
  /\ agent' = [agent EXCEPT ![w] = "dead"]
  /\ UNCHANGED <<trust, lister, rec, worker, ctr, usage, cli, bounds>>

\* The container of a docker run --rm comes up, ends and is removed.
ContainerMoves(w) ==
  /\ \/ agent[w] = "client" /\ ctr[w] = "none" /\ ctr' = [ctr EXCEPT ![w] = "running"]
     \/ ctr[w] = "running" /\ ctr' = [ctr EXCEPT ![w] = "exited"]
     \/ ctr[w] = "exited" /\ ctr' = [ctr EXCEPT ![w] = "gone"]
  /\ UNCHANGED <<trust, lister, rec, worker, agent, usage, cli, bounds>>

--------------------------------------------------------------------------------

CommandStep(c) ==
  \/ Spawn(c) \/ RecordPid(c) \/ WaitForRunStart(c) \/ ForegroundEnd(c)
  \/ StopLookup(c) \/ DockerStop(c) \/ TermGroup(c) \/ GroupGone(c) \/ KillGroup(c)
  \/ SettleSeen(c) \/ SettleDead(c) \/ SettleWrite(c) \/ SettleTimeout(c) \/ StopReported(c)
  \/ RestartClean(c) \/ InspectProbe(c)

WorkerStep(w) ==
  \/ WorkerBoot(w) \/ WorkerRunning(w) \/ WorkerPrepareFails(w) \/ WorkerFails(w)
  \/ WorkerExecutes(w) \/ WorkerPolled(w) \/ WorkerEnds(w) \/ WorkerNamesModel(w)
  \/ WorkerEnded(w) \/ WorkerSignalled(w) \/ WorkerFinalizes(w) \/ RecordUsage(w)
  \/ WorkerExits(w)

RunNext ==
  \/ Ps \/ PsRead \/ PsProbe
  \/ \E c \in Clis :
       \/ RunDetach(c) \/ RunForeground(c) \/ StopRun(c) \/ RestartActive(c) \/ RestartEnded(c)
       \/ Inspect(c) \/ Remove(c) \/ Interrupt(c) \/ CommandStep(c)
  \/ \E w \in Workers :
       \/ WorkerStep(w) \/ WorkerPolls(w) \/ WorkerTimesOut(w) \/ WorkerCrashes(w) \/ WorkerKilled(w)
       \/ AgentReports(w) \/ AgentExits(w) \/ ContainerMoves(w)

\* Commands and workers run on, and the user keeps listing the runs.  Nothing
\* makes an agent end.
RunSpec ==
  /\ RunInit
  /\ [][RunNext]_runVars
  /\ WF_runVars(Ps) /\ WF_runVars(PsProbe)
  /\ \A c \in Clis : WF_runVars(CommandStep(c))
  /\ \A w \in Workers : WF_runVars(WorkerStep(w))

(***************************************************************************)
(* Properties                                                              *)
(***************************************************************************)

\* When stop reports a process run stopped, whoever settled its record (the
\* command, the worker's own handler, a listing, or a worker that wrote "running"
\* over "stopping"), the process group it signalled is gone: killProcessGroup
\* has escalated before settleRun looks at the record.
StopLeavesNoProcess ==
  \A c \in Clis :
    cli[c].pc = "stopped" /\ cli[c].r.sandbox # "container" /\ cli[c].pid # NoWorkerPid
      => ~ processGroupAlive(cli[c].pid)

\* Workers of one run id share one usage file.  As long as no restart began while a
\* worker was alive or another command was about to spawn one, a sample is put into
\* the usage store at most once, even when a worker was killed after it recorded the
\* file and before it removed it: restartRun removes the file with the logs it is
\* named after.
UsageCountedOnce == overlap = "no" => \A w \in Workers : counted[w] <= 1

Quiet == /\ \A c \in Clis : cli[c].pc = "idle"
         /\ \A w \in Workers : worker[w].pc \notin {"boot", "input", "polling", "ending"}

\* Once a run has ended and no command is under way and no worker starting, only a
\* restart makes it active again: neither a listing that read the record while it
\* was active nor what a worker reads and writes from then on brings it back.  (A
\* worker that has read the record for its poller or for the model's name, and has
\* not written it yet, does bring an ended run back, until it writes the final one.)
EndedStaysEnded ==
  [][rec # NoRun /\ ~ runIsActive(rec) /\ Quiet => ~ runIsActive(rec')]_runVars

Lifeless == \A w \in Workers : ~ processGroupAlive(w) /\ ctr[w] # "running"

\* A record that says active while nothing of the run is alive (its worker or the
\* command that started it was killed, its final record was overwritten by the one
\* with the pid, a stop was interrupted) is settled by the listings that follow.
RunSettles == (runIsActive(rec) /\ Lifeless) ~> (~ runIsActive(rec) \/ ~ Lifeless)

================================================================================
