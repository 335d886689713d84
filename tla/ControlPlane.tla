------------------------------ MODULE ControlPlane ------------------------------
(***************************************************************************)
(* The local control plane of the CLI: the dashboard daemon, its state     *)
(* file, its lock directory, the startup unit, and the commands that       *)
(* start, stop and restart it (cli/src/lib/control-plane.ts and            *)
(* commands/dashboard, ui, daemon).                                        *)
(*                                                                         *)
(* Processes are pids, handed out in turn; a pid is used again after the   *)
(* others.  A stamp (ps -o lstart=) tells the processes of one pid apart.  *)
(*                                                                         *)
(* Abstractions.  Ports are left out: a daemon's server is reached through *)
(* the daemon.  The check of a pid's start stamp and the signal that       *)
(* follows are one step, and so is the removal of the lock directory.  The *)
(* lock is a directory with an owner file: making it and writing the file  *)
(* are two steps, looking at the owner and removing the directory too.     *)
(* A spawned daemon gets to its first file within the 45 seconds its       *)
(* starter waits.                                                          *)
(*                                                                         *)
(* On Windows no start stamp is compared, SIGTERM ends a process at once   *)
(* without its handler, and there is no startup unit.                      *)
(***************************************************************************)
EXTENDS Integers, FiniteSets

CONSTANTS
  MaxPid,     \* pids (a bound of the model)
  MaxBirths,  \* processes ever started (a bound of the model)
  MaxFaults   \* kills, failed servers, stop timeouts, upgrades, units removed (a bound)

ASSUME ConstantsAssumption ==
  /\ MaxPid \in Nat \ {0}
  /\ MaxBirths \in Nat
  /\ MaxFaults \in Nat

Pids == 1 .. MaxPid
NoPid == 0

VARIABLES
  proc,     \* the processes
  lastPid,  \* the pid handed out last
  births,   \* processes so far
  st,       \* the state file
  lock,     \* the lock directory
  unit,     \* the product version in the launchd or systemd unit, 0: no unit
  version,  \* the installed product version
  faults,   \* faults so far
  robbed,   \* "yes" once the lock of a process that goes on was removed as a dead owner's
  platform  \* process.platform: "win32" or any other, "posix"

files == <<st, lock>>
table == <<proc, lastPid, births>>
world == <<unit, version, faults, robbed, platform>>
vars == <<table, files, world>>

NoProc == [kind |-> "none", pc |-> "none", stamp |-> 0, target |-> NoPid, next |-> "none",
           tries |-> 0, version |-> 0, by |-> "none", sig |-> "none"]
NoState == [pid |-> NoPid, stamp |-> 0, version |-> 0, health |-> "absent"]
NoLock == [dir |-> "absent", owner |-> NoPid]

isProcessAlive(p) == p # NoPid /\ proc[p] # NoProc

\* identityMatches: the pid is alive and, but for Windows, its start stamp is the recorded one.
identityMatches(s) ==
  /\ s # NoState /\ isProcessAlive(s.pid)
  /\ platform = "win32" \/ proc[s.pid].stamp = s.stamp

daemonNeedsRestart(s) == s.version # version

\* waitForHealth: the server of daemon p answers /api/local/v1/health.
Serving(p) == isProcessAlive(p) /\ proc[p].kind = "daemon" /\ proc[p].pc \in {"listen", "ready"}

\* Processes that go on as the holder of the lock; a starter that has spawned its daemon has
\* handed it on.
Holds(p) ==
  \/ proc[p].kind = "starter" /\ proc[p].pc \in {"own", "held", "select"}
  \/ proc[p].kind = "starter" /\ proc[p].pc \in {"stop", "stopwait"} /\ proc[p].next = "select"
  \/ proc[p].kind = "daemon" /\ proc[p].pc \in {"boot", "own", "state", "serve", "listen", "ready"}

\* Daemons that have announced themselves in the state file.
Daemons == {p \in Pids : proc[p].kind = "daemon" /\ proc[p].pc \in {"serve", "listen", "ready"}}

Init ==
  /\ proc = [p \in Pids |-> NoProc]
  /\ lastPid = NoPid
  /\ births = 0
  /\ st = NoState
  /\ lock = NoLock
  /\ unit = 0
  /\ version = 1
  /\ faults = 0
  /\ robbed = "no"
  /\ platform \in {"posix", "win32"}

Born(kind, pc, by) ==
  [NoProc EXCEPT !.kind = kind, !.pc = pc, !.stamp = births + 1, !.by = by]

\* A new process gets the first free pid after the one handed out last.
Free(p) == proc[p] = NoProc
Turn(p) == IF p > lastPid THEN p - lastPid ELSE p + MaxPid - lastPid
Birth(p) ==
  /\ births < MaxBirths
  /\ Free(p) /\ \A q \in Pids : Free(q) => Turn(p) <= Turn(q)
  /\ births' = births + 1
  /\ lastPid' = p

Fault == faults < MaxFaults /\ faults' = faults + 1

\* A step of a process, starting and ending none but itself.
Step(f) == proc' = f /\ UNCHANGED <<lastPid, births>>
At(p, pc) == [proc EXCEPT ![p].pc = pc]
Exit(p) == [proc EXCEPT ![p] = NoProc]

--------------------------------------------------------------------------------

\* dashboard start and open, and the bare command: ensureDaemon.
Start(p) ==
  /\ Birth(p)
  /\ proc' = [proc EXCEPT ![p] = Born("starter", "ensure", "command")]
  /\ UNCHANGED <<files, world>>

\* dashboard stop and restart: stopDaemon, and ensureDaemon after it for restart.
Stop(p) ==
  /\ Birth(p)
  /\ \E next \in {"exit", "ensure"} :
       proc' = [proc EXCEPT ![p] = [Born("starter", "stop", "command") EXCEPT !.next = next]]
  /\ UNCHANGED <<files, world>>

\* dashboard autostart on: the unit is written with the version of this moment.
AutostartEnable ==
  /\ platform # "win32"
  /\ unit = 0 /\ births < MaxBirths
  /\ unit' = version
  /\ UNCHANGED <<table, files, version, faults, robbed, platform>>

\* dashboard autostart off: the unit's daemon gets SIGTERM, the unit is removed.
AutostartDisable ==
  /\ unit # 0 /\ Fault
  /\ unit' = 0
  /\ Step([p \in Pids |-> IF proc[p].by = "unit" THEN [proc[p] EXCEPT !.sig = "term"] ELSE proc[p]])
  /\ UNCHANGED <<files, version, robbed, platform>>

\* launchd (KeepAlive) and systemd (Restart=always) run the daemon, with no lock handed over.
UnitStarts(p) ==
  /\ unit # 0
  /\ \A q \in Pids : proc[q].by # "unit"
  /\ Birth(p)
  /\ proc' = [proc EXCEPT ![p] = [Born("daemon", "lock", "unit") EXCEPT !.version = unit]]
  /\ UNCHANGED <<files, world>>

\* Some other process of the machine; one that matters gets a pid used before.
Stranger(p) ==
  /\ births >= MaxPid
  /\ Birth(p)
  /\ proc' = [proc EXCEPT ![p] = Born("stranger", "runs", "none")]
  /\ UNCHANGED <<files, world>>

--------------------------------------------------------------------------------

\* The first part of ensureDaemon: a daemon to replace, one to ask, or none.
EnsureExisting(p) ==
  /\ proc[p].kind = "starter" /\ proc[p].pc = "ensure"
  /\ Step(IF ~ identityMatches(st) THEN At(p, "lock")
          ELSE IF daemonNeedsRestart(st) THEN [proc EXCEPT ![p].pc = "stop", ![p].next = "lock"]
          ELSE [proc EXCEPT ![p].pc = "probe", ![p].target = st.pid])
  /\ UNCHANGED <<files, world>>

\* The daemon answers and is used; or it does not, and its state goes if it is dead.
EnsureProbe(p) ==
  /\ proc[p].pc = "probe"
  /\ LET d == proc[p].target IN
     /\ Step(IF Serving(d) THEN Exit(p) ELSE [proc EXCEPT ![p].pc = "lock", ![p].target = NoPid])
     /\ st' = IF isProcessAlive(d) THEN st ELSE NoState
  /\ UNCHANGED <<lock, world>>

(***************************************************************************)
(* acquireLock, by a starter or by a daemon that was handed no lock        *)
(***************************************************************************)

\* What the caller does when acquireLock returns false: the starter watches for the
\* rival's daemon until it answers or 45 seconds are over, and ends; the daemon clears
\* the state and exits.
LockRefused(p) ==
  /\ Step(Exit(p))
  /\ st' = IF proc[p].kind = "starter" THEN st ELSE NoState

LockMkdir(p) ==
  /\ proc[p].pc = "lock"
  /\ IF lock.dir = "absent"
     THEN /\ lock' = [dir |-> "there", owner |-> NoPid]
          /\ Step(At(p, "own"))
     ELSE /\ Step(At(p, "look"))
          /\ UNCHANGED lock
  /\ UNCHANGED <<st, world>>

\* The owner file is written, or the directory is gone again and the write throws.
LockOwn(p) ==
  /\ proc[p].pc = "own"
  /\ IF lock.dir = "there"
     THEN /\ lock' = [lock EXCEPT !.owner = p]
          /\ Step([proc EXCEPT ![p].pc = IF proc[p].kind = "starter" THEN "held" ELSE "state",
                               ![p].tries = 0])
     ELSE /\ Step(At(p, "look"))
          /\ UNCHANGED lock
  /\ UNCHANGED <<st, world>>

LockLook(p) ==
  /\ proc[p].pc = "look"
  /\ IF isProcessAlive(lock.owner)
     THEN LockRefused(p)
     ELSE Step(At(p, "rm")) /\ UNCHANGED st
  /\ UNCHANGED <<lock, world>>

\* A lock in use is taken for a stale one: its owner file is not written yet, names a
\* starter that died before its daemon took over, or was written after the look.
Robs(p) == lock # NoLock /\ \E q \in Pids \ {p} : Holds(q)

\* The directory is removed as a stale one; there is one more attempt.
LockRemoveStale(p) ==
  /\ proc[p].pc = "rm"
  /\ lock' = NoLock
  /\ robbed' = IF Robs(p) THEN "yes" ELSE robbed
  /\ IF proc[p].tries = 0
     THEN Step([proc EXCEPT ![p].pc = "lock", ![p].tries = 1]) /\ UNCHANGED st
     ELSE LockRefused(p)
  /\ UNCHANGED <<unit, version, faults, platform>>

\* Mutant: whoever releases the lock removes the directory.
RemoveAnyLock(p) == lock' = NoLock

\* releaseLock: only one's own lock, or one whose owner is dead.
releaseLock(p) ==
  lock' = IF lock.owner = p \/ (lock.owner # NoPid /\ ~ isProcessAlive(lock.owner))
          THEN NoLock ELSE lock

(***************************************************************************)
(* ensureDaemon with the lock                                              *)
(***************************************************************************)

\* With the lock held the state is read again: a good daemon is used, another stopped.
EnsureAgain(p) ==
  /\ proc[p].pc = "held"
  /\ IF identityMatches(st) /\ ~ daemonNeedsRestart(st) /\ Serving(st.pid)
     THEN Step(Exit(p)) /\ releaseLock(p)
     ELSE /\ Step(IF identityMatches(st) THEN [proc EXCEPT ![p].pc = "stop", ![p].next = "select"]
                  ELSE At(p, "select"))
          /\ UNCHANGED lock
  /\ UNCHANGED <<st, world>>

\* selectPort, rotateLogs, spawnDaemon: the daemon is told that it is locked.
SpawnDaemon(p) ==
  /\ proc[p].pc = "select"
  /\ \E d \in Pids :
       /\ Birth(d)
       /\ proc' = [proc EXCEPT ![p].pc = "waiting", ![p].target = d, ![p].next = "none",
                               ![d] = [Born("daemon", "boot", "starter") EXCEPT !.version = version]]
  /\ UNCHANGED <<files, world>>

\* The daemon is healthy and has reported, or the time is over: finally, releaseLock.
WaitForHealth(p) ==
  /\ proc[p].pc = "waiting"
  /\ ~ (proc[proc[p].target].kind = "daemon" /\ proc[proc[p].target].pc = "boot")
  /\ releaseLock(p)
  /\ robbed' = IF lock.owner # p /\ ~ isProcessAlive(lock.owner) /\ lock' # lock /\ Robs(p)
               THEN "yes" ELSE robbed
  /\ Step(Exit(p))
  /\ UNCHANGED <<st, unit, version, faults, platform>>

(***************************************************************************)
(* stopDaemon                                                              *)
(***************************************************************************)

\* Back from stopDaemon, with the state it leaves: stop ends, restart goes on to
\* ensureDaemon, which itself clears the state and goes for the lock, or holds it already.
Resume(p, left) ==
  /\ st' = IF proc[p].next = "lock" THEN NoState ELSE left
  /\ Step(IF proc[p].next = "exit" THEN Exit(p)
          ELSE [proc EXCEPT ![p].pc = proc[p].next, ![p].next = "none", ![p].target = NoPid])

Terminate(p) ==
  /\ Step([proc EXCEPT ![st.pid].sig = "term", ![p].pc = "stopwait", ![p].target = st.pid])
  /\ UNCHANGED st

\* Mutant: any live process with the recorded pid is signalled.
SignalPid(p) ==
  /\ proc[p].pc = "stop"
  /\ IF isProcessAlive(st.pid) THEN Terminate(p) ELSE Resume(p, NoState)
  /\ UNCHANGED <<lock, world>>

\* SIGTERM for the daemon of the state; a state whose process is another one is cleared.
StopSignal(p) ==
  /\ proc[p].pc = "stop"
  /\ IF identityMatches(st) THEN Terminate(p) ELSE Resume(p, NoState)
  /\ UNCHANGED <<lock, world>>

StopDone(p) ==
  /\ proc[p].pc = "stopwait"
  /\ ~ isProcessAlive(proc[p].target)
  /\ Resume(p, st)
  /\ UNCHANGED <<lock, world>>

\* CONTROL_STOP_TIMEOUT_MS is over: stop and restart fail, ensureDaemon goes on.
StopFailed(p) ==
  /\ proc[p].pc = "stopwait"
  /\ isProcessAlive(proc[p].target)
  /\ Fault
  /\ IF proc[p].next \in {"exit", "ensure"} THEN Step(Exit(p)) /\ UNCHANGED st ELSE Resume(p, st)
  /\ UNCHANGED <<lock, unit, version, robbed, platform>>

(***************************************************************************)
(* runDaemon                                                               *)
(***************************************************************************)

\* OPENAGENTHUB_DAEMON_LOCKED=1: the starter's lock becomes the daemon's.
DaemonTakesLock(p) ==
  /\ proc[p].kind = "daemon" /\ proc[p].pc = "boot"
  /\ lock' = [dir |-> "there", owner |-> p]
  /\ Step(At(p, "state"))
  /\ UNCHANGED <<st, world>>

WriteState(p, health) ==
  st' = [pid |-> p, stamp |-> proc[p].stamp, version |-> proc[p].version, health |-> health]

\* The first state, and the handlers of SIGTERM and SIGINT.
DaemonStarts(p) ==
  /\ proc[p].kind = "daemon" /\ proc[p].pc = "state"
  /\ WriteState(p, "starting")
  /\ Step(At(p, "serve"))
  /\ UNCHANGED <<lock, world>>

\* The dashboard server is imported and listens.
DaemonListens(p) ==
  /\ proc[p].pc = "serve"
  /\ Step(At(p, "listen"))
  /\ UNCHANGED <<files, world>>

DaemonReady(p) ==
  /\ proc[p].pc = "listen"
  /\ WriteState(p, "ready")
  /\ Step(At(p, "ready"))
  /\ UNCHANGED <<lock, world>>

\* Mutant: shutdown leaves the lock to whoever comes next.
EndsWithoutRelease(p) ==
  /\ WriteState(p, "stopped")
  /\ Step(Exit(p))
  /\ UNCHANGED lock

\* shutdown, and the end of a daemon whose server failed.
DaemonEnds(p) ==
  /\ WriteState(p, "stopped")
  /\ releaseLock(p)
  /\ Step(Exit(p))

DaemonFails(p) ==
  /\ proc[p].pc = "serve"
  /\ Fault
  /\ DaemonEnds(p)
  /\ UNCHANGED <<unit, version, robbed, platform>>

\* SIGTERM: shutdown once a daemon's handler is installed, death before.  Windows has no
\* handlers: process.kill ends whatever process it is.
Termed(p) ==
  /\ proc[p].sig = "term"
  /\ IF platform # "win32" /\ p \in Daemons
     THEN DaemonEnds(p) ELSE Step(Exit(p)) /\ UNCHANGED files
  /\ UNCHANGED world

--------------------------------------------------------------------------------

\* A command or a daemon is killed.
Killed(p) ==
  /\ proc[p].kind \in {"starter", "daemon"}
  /\ Fault
  /\ Step(Exit(p))
  /\ UNCHANGED <<files, unit, version, robbed, platform>>

\* npm installs another version.
Upgrade ==
  /\ version = 1
  /\ Fault
  /\ version' = 2
  /\ UNCHANGED <<table, files, unit, robbed, platform>>

ProcessStep(p) ==
  \/ EnsureExisting(p) \/ EnsureProbe(p)
  \/ LockMkdir(p) \/ LockOwn(p) \/ LockLook(p) \/ LockRemoveStale(p)
  \/ EnsureAgain(p) \/ SpawnDaemon(p) \/ WaitForHealth(p)
  \/ StopSignal(p) \/ StopDone(p)
  \/ DaemonTakesLock(p) \/ DaemonStarts(p) \/ DaemonListens(p) \/ DaemonReady(p) \/ Termed(p)

Next ==
  \/ \E p \in Pids :
       \/ Start(p) \/ Stop(p) \/ UnitStarts(p) \/ Stranger(p)
       \/ ProcessStep(p) \/ StopFailed(p) \/ DaemonFails(p) \/ Killed(p)
  \/ AutostartEnable \/ AutostartDisable \/ Upgrade

\* A process that can go on does; births, faults and commands need not come.
Spec == Init /\ [][Next]_vars /\ \A p \in Pids : WF_vars(ProcessStep(p))

--------------------------------------------------------------------------------

\* The lock is handed from starter to daemon without a gap: unless acquireLock or a starter's
\* last releaseLock removed a lock in use for want of a live owner file (the gap between
\* mkdir and the owner file, between the look and the removal, or a starter killed before
\* its daemon took over), at most one daemon runs, whatever commands, kills, units and
\* reused pids come together.
SoleDaemon == robbed = "no" => Cardinality(Daemons) <= 1

\* SIGTERM reaches daemons only: a pid in an old state file that now belongs to some
\* other process is told apart by its start stamp (identityMatches).  Windows is the
\* exception: line 148 compares nothing there, and stop, restart and a start that finds a
\* server that does not answer end whatever process has the pid.
SignalsOnlyDaemons ==
  \A p \in Pids : proc[p].sig = "term" => proc[p].kind = "daemon" \/ platform = "win32"

\* With nothing killed, failed, timed out, upgraded or removed, a lock never stays behind:
\* in the end it is gone or the process it names lives, so no later start has to judge
\* it stale.  (On Windows every stop kills the daemon and leaves its lock.)
LockSettles == platform # "win32" /\ [](faults = 0) => <>[](lock = NoLock \/ isProcessAlive(lock.owner))

================================================================================
