--------------------------- MODULE AgentSandboxProofs ---------------------------
(***************************************************************************)
(* The safety of AgentSandbox for any number of commands, secrets and      *)
(* failures: the vault stays readable, agents start with their             *)
(* dependencies, and env-files do not outlive their run.                   *)
(***************************************************************************)
EXTENDS AgentSandbox, TLAPS

Places == {"idle", "opening", "making", "open", "merging", "writing", "launch", "prepare",
           "install", "installing", "localInstall", "ready", "started", "running"}
Operations == {"none", "set", "delete", "show", "run", "uninstall"}
Contents == {"none", "empty", "partial", "full"}

\* Names of secrets, as commands hand them over, and what an environment can hold.
Secrets == Names \cup {"none"}
Variables == Secrets \cup {"AGENT_NAME", "AGENT_API_KEY", "AGENT_MODEL_KEY_MISSING", "AGENT_TRUST"}

Process == [pc: Places, op: Operations, name: Secrets, pass: {"yes", "no"}, key: Nat,
            given: SUBSET Secrets, read: SUBSET Secrets, mode: {"none", "container", "process"},
            net: {"yes", "no"}, env: SUBSET Variables, got: SUBSET Variables, sees: Contents]

SharedTypes ==
    /\ master \in Nat /\ made \in Nat /\ passUsed \in {"yes", "no"}
    /\ file \in [key: Nat, vals: SUBSET Secrets]
    /\ volume \in Contents /\ local \in Contents
    /\ containers \subseteq Procs /\ envFiles \subseteq Procs /\ wiped \subseteq Procs

Types == proc \in [Procs -> Process] /\ SharedTypes

\* Commands that are past opening hold a key; while one key was made at most and
\* no passphrase given, it is the one on disk, and so is the key of the file.
HoldsKey(r) == r.pc \in {"open", "merging", "writing"} => r.key # 0
OneKey ==
    /\ master = made
    /\ \A p \in Procs : HoldsKey(proc[p])
    /\ passUsed = "no" /\ made <= 1 =>
         /\ \A p \in Procs : proc[p].key # 0 => proc[p].key = master
         /\ file # NoFile => file.key = master /\ master # 0

\* The sandbox of a run, by where the run is.
Mode(r) ==
    /\ r.pc \in {"install", "installing", "started"} => r.mode = "container"
    /\ r.pc = "localInstall" => r.mode = "process"

\* A run that is ready finds its dependencies, unless a cleanup removed them.
Ready(p, r) ==
    r.pc \in {"ready", "started"} =>
        /\ r.mode = "container" /\ InstallKind \in agent.deps => volume = "full" \/ p \in wiped
        /\ r.mode = "process" /\ LocalDeps => local = "full"

\* A run that is running saw them: DepsComplete of one process.
Complete(p, r) ==
    /\ r.pc = "running" /\ InstallKind \in agent.deps
    /\ r.mode = "container" \/ agent.lang = "node"
    => r.sees = "full" \/ p \in wiped

Ran == \A p \in Procs : Mode(proc[p]) /\ Ready(p, proc[p]) /\ Complete(p, proc[p])

IInv == Types /\ OneKey /\ Ran /\ EnvFileRemoved

--------------------------------------------------------------------------------
(* A step of one process *)

\* A process that is not given a command.
LEMMA IdleProcess == Idle \in Process
  BY DEF Idle, Process, Places, Operations, Contents, Secrets

\* What a step of process p does to the other processes.
LEMMA Moved ==
  ASSUME NEW p \in Procs, NEW r \in Process, Types, proc' = [proc EXCEPT ![p] = r]
  PROVE  /\ proc' \in [Procs -> Process]
         /\ proc'[p] = r
         /\ \A q \in Procs : q # p => proc'[q] = proc[q]
  BY DEF Types

\* A command that keeps its key, drops it or takes the one on disk disturbs no key.
LEMMA KeysKept ==
  ASSUME NEW p \in Procs, NEW r \in Process, IInv, proc' = [proc EXCEPT ![p] = r],
         UNCHANGED <<master, made, file, passUsed>>,
         HoldsKey(r), r.key \in {0, proc[p].key, master}
  PROVE  OneKey'
<1>1. \A q \in Procs : HoldsKey(proc'[q])
  BY Moved DEF IInv, OneKey
<1>2. ASSUME passUsed = "no", made <= 1, NEW q \in Procs, proc'[q].key # 0
      PROVE  proc'[q].key = master
  <2>1. CASE q = p
    BY <1>2, <2>1, Moved DEF IInv, OneKey
  <2>2. CASE q # p
    BY <1>2, <2>2, Moved DEF IInv, OneKey
  <2>. QED
    BY <2>1, <2>2
<1>. QED
  BY <1>1, <1>2 DEF IInv, OneKey, HoldsKey

\* What a process finds installed, and the env-files, are disturbed by its own
\* step only: dependencies that are complete stay so.
LEMMA StepKeeps ==
  ASSUME NEW p \in Procs, NEW r \in Process, IInv, proc' = [proc EXCEPT ![p] = r],
         SharedTypes', OneKey', agent' = agent,
         volume = "full" => volume' = "full",
         local = "full" => local' = "full",
         \A q \in wiped : q # p => q \in wiped',
         \A q \in envFiles' : q # p => q \in envFiles,
         Mode(r), Ready(p, r)', Complete(p, r)',
         p \in envFiles' => r.pc \in {"started", "running"} /\ r.mode = "container"
  PROVE  IInv'
<1>1. Types'
  BY Moved DEF IInv, Types
<1>2. ASSUME NEW q \in Procs
      PROVE  Mode(proc'[q]) /\ Ready(q, proc[q])' /\ Complete(q, proc[q])'
  <2>1. CASE q = p
    BY <2>1, Moved DEF IInv, Mode, Ready, Complete, InstallKind, LocalDeps
  <2>2. CASE q # p
    <3>1. proc'[q] = proc[q]
      BY <2>2, Moved DEF IInv
    <3>2. Mode(proc[q]) /\ Ready(q, proc[q]) /\ Complete(q, proc[q])
      BY DEF IInv, Ran
    <3>. QED
      BY <2>2, <3>1, <3>2 DEF Ready, Complete, InstallKind, LocalDeps
  <2>. QED
    BY <2>1, <2>2
<1>3. Ran'
  BY <1>2 DEF Ran, Mode
<1>4. EnvFileRemoved'
  <2>. SUFFICES ASSUME NEW q \in envFiles'
                PROVE  proc'[q].pc \in {"started", "running"} /\ proc'[q].mode = "container"
    BY DEF EnvFileRemoved
  <2>1. CASE q = p
    BY <2>1, Moved DEF IInv
  <2>2. CASE q # p
    BY <2>2, Moved DEF IInv, EnvFileRemoved, Types, SharedTypes
  <2>. QED
    BY <2>1, <2>2
<1>. QED
  BY <1>1, <1>3, <1>4 DEF IInv

\* A process that ends, whatever its shared resources become meanwhile.
LEMMA EndKeeps ==
  ASSUME NEW p \in Procs, IInv, End(p),
         SharedTypes', agent' = agent, UNCHANGED <<master, made, file, passUsed>>,
         volume = "full" => volume' = "full",
         local = "full" => local' = "full",
         \A q \in wiped : q # p => q \in wiped',
         \A q \in envFiles' : q # p => q \in envFiles,
         p \notin envFiles'
  PROVE  IInv'
<1>1. proc' = [proc EXCEPT ![p] = Idle]
  BY DEF End
<1>2. Idle.pc = "idle" /\ Idle.key = 0
  BY DEF Idle
<1>3. OneKey'
  BY <1>1, <1>2, KeysKept, IdleProcess DEF HoldsKey
<1>4. Mode(Idle) /\ Ready(p, Idle)' /\ Complete(p, Idle)'
  BY <1>2 DEF Mode, Ready, Complete, InstallKind, LocalDeps, Idle
<1>. QED
  BY <1>1, <1>3, <1>4, StepKeeps, IdleProcess

\* A process that moves on, with what it noted in r, and leaves the rest alone.
LEMMA MoveKeeps ==
  ASSUME NEW p \in Procs, NEW r \in Process, IInv, proc' = [proc EXCEPT ![p] = r],
         UNCHANGED <<agent, secrets, docker, local, files>>,
         HoldsKey(r), r.key \in {0, proc[p].key, master},
         Mode(r), Ready(p, r), Complete(p, r), p \notin envFiles
  PROVE  IInv'
<1>1. SharedTypes'
  BY DEF IInv, Types, SharedTypes, secrets, docker, files
<1>2. OneKey'
  BY KeysKept DEF secrets
<1>3. Ready(p, r)' /\ Complete(p, r)'
  BY DEF Ready, Complete, InstallKind, LocalDeps, docker
<1>. QED
  BY <1>1, <1>2, <1>3, StepKeeps DEF docker, files

\* Only processes that are starting or running have an env-file.
LEMMA NoEnvFile ==
  ASSUME NEW p \in Procs, IInv, proc[p].pc \notin {"started", "running"}
  PROVE  p \notin envFiles
  BY DEF IInv, EnvFileRemoved

\* The record of a process that only goes to another place.
LEMMA GoneTo ==
  ASSUME NEW p \in Procs, IInv, NEW pc \in Places, Goto(p, pc)
  PROVE  \E r \in Process : /\ proc' = [proc EXCEPT ![p] = r]
                            /\ r.pc = pc /\ r.key = proc[p].key /\ r.mode = proc[p].mode
<1>. DEFINE r == [proc[p] EXCEPT !.pc = pc]
<1>1. r \in Process
  BY DEF IInv, Types, Process
<1>2. proc' = [proc EXCEPT ![p] = r]
  BY DEF IInv, Types, Goto
<1>3. r.pc = pc /\ r.key = proc[p].key /\ r.mode = proc[p].mode
  BY DEF IInv, Types, Process
<1>. QED
  BY <1>1, <1>2, <1>3

\* The record of a command that has got its key.
LEMMA Opened ==
  ASSUME NEW p \in Procs, IInv, NEW k \in Nat,
         proc' = [proc EXCEPT ![p].pc = "open", ![p].key = k]
  PROVE  \E r \in Process : /\ proc' = [proc EXCEPT ![p] = r]
                            /\ r.pc = "open" /\ r.key = k
<1>. DEFINE r == [proc[p] EXCEPT !.pc = "open", !.key = k]
<1>1. r \in Process
  BY DEF IInv, Types, Process, Places
<1>2. proc' = [proc EXCEPT ![p] = r]
  BY DEF IInv, Types
<1>3. r.pc = "open" /\ r.key = k
  BY DEF IInv, Types, Process
<1>. QED
  BY <1>1, <1>2, <1>3

--------------------------------------------------------------------------------
(* The actions *)

\* Commands that meet an unreadable vault end.
LEMMA VaultCorruptKeeps ==
  ASSUME NEW p \in Procs, IInv, VaultCorrupt(p)
  PROVE  IInv'
<1>1. p \notin envFiles
  BY NoEnvFile DEF VaultCorrupt
<1>2. SharedTypes'
  BY DEF IInv, Types, SharedTypes, VaultCorrupt, secrets, docker, files
<1>. QED
  BY <1>1, <1>2, EndKeeps DEF VaultCorrupt, secrets, docker, files

\* Showing secrets changes nothing.
LEMMA EnvShowKeeps ==
  ASSUME NEW p \in Procs, IInv, EnvShow(p)
  PROVE  IInv'
<1>1. p \notin envFiles
  BY NoEnvFile DEF EnvShow
<1>2. SharedTypes'
  BY DEF IInv, Types, SharedTypes, EnvShow, secrets, docker, files
<1>. QED
  BY <1>1, <1>2, EndKeeps DEF EnvShow, secrets, docker, files

\* A run that finds no docker ends.
LEMMA DockerMissingKeeps ==
  ASSUME NEW p \in Procs, IInv, DockerMissing(p)
  PROVE  IInv'
<1>1. p \notin envFiles
  BY NoEnvFile DEF DockerMissing
<1>2. SharedTypes'
  BY DEF IInv, Types, SharedTypes, DockerMissing, secrets, docker, files
<1>. QED
  BY <1>1, <1>2, EndKeeps DEF DockerMissing, secrets, docker, files

\* A failed pull ends the run and starts a cleanup.
LEMMA PullFailsKeeps ==
  ASSUME NEW p \in Procs, IInv, PullFails(p)
  PROVE  IInv'
<1>1. p \notin envFiles
  BY NoEnvFile DEF PullFails
<1>2. SharedTypes'
  BY DEF IInv, Types, SharedTypes, PullFails, secrets, docker, files, cleanup
<1>. QED
  BY <1>1, <1>2, EndKeeps DEF PullFails, secrets, docker, files, cleanup

\* A failed installation leaves a volume that was full as it is.
LEMMA InstallFailsKeeps ==
  ASSUME NEW p \in Procs, IInv, InstallFails(p)
  PROVE  IInv'
<1>1. p \notin envFiles
  BY NoEnvFile DEF InstallFails
<1>2. SharedTypes'
  BY DEF IInv, Types, SharedTypes, InstallFails, secrets, files, Contents
<1>. QED
  BY <1>1, <1>2, EndKeeps DEF InstallFails, secrets, files, cleanup

\* The end of the agent removes its env-file.
LEMMA AgentEndsKeeps ==
  ASSUME NEW p \in Procs, IInv, AgentEnds(p)
  PROVE  IInv'
<1>1. SharedTypes'
  BY DEF IInv, Types, SharedTypes, AgentEnds, Ended, secrets
<1>. QED
  BY <1>1, EndKeeps DEF AgentEnds, Ended, secrets

\* So does a timeout.
LEMMA TimeoutKeeps ==
  ASSUME NEW p \in Procs, IInv, Timeout(p)
  PROVE  IInv'
<1>1. SharedTypes'
  BY DEF IInv, Types, SharedTypes, Timeout, Ended, Detached, secrets
<1>. QED
  BY <1>1, EndKeeps DEF Timeout, Ended, secrets

\* What a killed command leaves is no longer its own.
LEMMA KilledKeeps ==
  ASSUME NEW p \in Procs, IInv, Killed(p)
  PROVE  IInv'
<1>1. SharedTypes'
  BY DEF IInv, Types, SharedTypes, Killed, Ended, Detached, secrets
<1>. QED
  BY <1>1, EndKeeps DEF Killed, Ended, secrets

\* What a failed write of the env-file leaves is nobody's.
LEMMA EnvFileFailsKeeps ==
  ASSUME NEW p \in Procs, IInv, EnvFileFails(p)
  PROVE  IInv'
<1>1. p \notin envFiles
  BY NoEnvFile DEF EnvFileFails
<1>2. SharedTypes'
  BY DEF IInv, Types, SharedTypes, EnvFileFails, secrets
<1>. QED
  BY <1>1, <1>2, EndKeeps DEF EnvFileFails, secrets

\* The same of a failed removal.
LEMMA RemoveFailsKeeps ==
  ASSUME NEW p \in Procs, IInv, RemoveFails(p)
  PROVE  IInv'
<1>1. SharedTypes'
  BY DEF IInv, Types, SharedTypes, RemoveFails, Ended, secrets
<1>. QED
  BY <1>1, EndKeeps DEF RemoveFails, Ended, secrets

\* A command that stores secrets keeps the key it opened the vault with.
LEMMA EnvSetKeeps ==
  ASSUME NEW p \in Procs, IInv, EnvSet(p)
  PROVE  IInv'
<1>. DEFINE r == [proc[p] EXCEPT !.pc = "merging", !.given = {proc[p].name}]
<1>0. proc[p] \in Process /\ file.vals \subseteq Secrets
  BY DEF IInv, Types, SharedTypes
<1>1. r \in Process
  BY <1>0 DEF Process, Places
<1>2. proc' = [proc EXCEPT ![p] = r]
  BY DEF IInv, Types, EnvSet
<1>3. HoldsKey(r) /\ r.key \in {0, proc[p].key, master}
  BY <1>1 DEF IInv, Types, Process, OneKey, HoldsKey, EnvSet
<1>4. Mode(r) /\ Ready(p, r) /\ Complete(p, r)
  BY DEF IInv, Types, Process, Mode, Ready, Complete, InstallKind, LocalDeps
<1>5. p \notin envFiles
  BY NoEnvFile DEF EnvSet
<1>. QED
  BY <1>1, <1>2, <1>3, <1>4, <1>5, MoveKeeps DEF EnvSet

\* So does its read of the stored values.
LEMMA SetReadKeeps ==
  ASSUME NEW p \in Procs, IInv, SetRead(p)
  PROVE  IInv'
<1>. DEFINE r == [proc[p] EXCEPT !.pc = "writing", !.read = file.vals]
<1>0. proc[p] \in Process /\ file.vals \subseteq Secrets
  BY DEF IInv, Types, SharedTypes
<1>1. r \in Process
  BY <1>0 DEF Process, Places
<1>2. proc' = [proc EXCEPT ![p] = r]
  BY DEF IInv, Types, SetRead
<1>3. HoldsKey(r) /\ r.key \in {0, proc[p].key, master}
  BY <1>1 DEF IInv, Types, Process, OneKey, HoldsKey, SetRead
<1>4. Mode(r) /\ Ready(p, r) /\ Complete(p, r)
  BY DEF IInv, Types, Process, Mode, Ready, Complete, InstallKind, LocalDeps
<1>5. p \notin envFiles
  BY NoEnvFile DEF SetRead
<1>. QED
  BY <1>1, <1>2, <1>3, <1>4, <1>5, MoveKeeps DEF SetRead

\* A run that has read its secrets needs its key no longer.
LEMMA RunContextKeeps ==
  ASSUME NEW p \in Procs, IInv, RunContext(p)
  PROVE  IInv'
<1>. DEFINE r == [proc[p] EXCEPT !.pc = "launch"]
<1>0. proc[p] \in Process /\ file.vals \subseteq Secrets
  BY DEF IInv, Types, SharedTypes
<1>1. r \in Process
  BY <1>0 DEF Process, Places
<1>2. proc' = [proc EXCEPT ![p] = r]
  BY DEF IInv, Types, RunContext, Goto
<1>3. HoldsKey(r) /\ r.key \in {0, proc[p].key, master}
  BY <1>1 DEF IInv, Types, Process, OneKey, HoldsKey, RunContext
<1>4. Mode(r) /\ Ready(p, r) /\ Complete(p, r)
  BY DEF IInv, Types, Process, Mode, Ready, Complete, InstallKind, LocalDeps
<1>5. p \notin envFiles
  BY NoEnvFile DEF RunContext
<1>. QED
  BY <1>1, <1>2, <1>3, <1>4, <1>5, MoveKeeps DEF RunContext

\* A command that begins holds no key yet.
LEMMA BeginKeeps ==
  ASSUME NEW p \in Procs, IInv, NEW op \in Operations, NEW name \in Secrets,
         NEW pass \in {"yes", "no"}, Begin(p, op, name, pass)
  PROVE  IInv'
<1>. DEFINE r == [Idle EXCEPT !.pc = "opening", !.op = op, !.name = name, !.pass = pass]
<1>1. r \in Process /\ r.pc = "opening" /\ r.key = 0
  BY DEF Idle, Process, Places, Contents, Secrets
<1>2. proc' = [proc EXCEPT ![p] = r]
  BY DEF Begin
<1>3. HoldsKey(r) /\ Mode(r) /\ Ready(p, r) /\ Complete(p, r)
  BY <1>1 DEF HoldsKey, Mode, Ready, Complete, InstallKind, LocalDeps
<1>4. p \notin envFiles
  BY NoEnvFile DEF Begin, Idle
<1>. QED
  BY <1>1, <1>2, <1>3, <1>4, MoveKeeps DEF Begin

\* The key of the passphrase, the one on disk, or none yet.
LEMMA openKeeps ==
  ASSUME NEW p \in Procs, IInv, open(p)
  PROVE  IInv'
<1>1. p \notin envFiles
  BY NoEnvFile DEF open
<1>2. proc[p] \in Process /\ master \in Nat
  BY DEF IInv, Types, SharedTypes
<1>3. CASE proc[p].pass = "yes"
  <2>1. PICK k \in Nat : k = Passphrase /\ k # 0
    BY DEF Passphrase
  <2>2. PICK r \in Process : /\ proc' = [proc EXCEPT ![p] = r]
                             /\ r.pc = "open" /\ r.key = k
    BY <1>3, <2>1, Opened DEF open
  <2>3. SharedTypes'
    BY <1>3 DEF IInv, Types, SharedTypes, open, docker, files
  <2>4. \A q \in Procs : HoldsKey(proc'[q])
    BY <2>1, <2>2, Moved DEF IInv, OneKey, HoldsKey
  <2>5. passUsed' = "yes" /\ master' = master /\ made' = made
    BY <1>3 DEF open
  <2>6. OneKey'
    BY <2>4, <2>5 DEF IInv, OneKey, HoldsKey
  <2>7. Mode(r) /\ Ready(p, r)' /\ Complete(p, r)'
    BY <2>2 DEF Mode, Ready, Complete, InstallKind, LocalDeps
  <2>. QED
    BY <1>1, <2>1, <2>2, <2>3, <2>6, <2>7, StepKeeps DEF open, docker, files
<1>4. CASE proc[p].pass # "yes" /\ master # 0
  <2>. DEFINE r == [proc[p] EXCEPT !.pc = "open", !.key = master]
  <2>1. r \in Process /\ r.pc = "open" /\ r.key = master
    BY <1>2 DEF Process, Places
  <2>2. proc' = [proc EXCEPT ![p] = r]
    BY <1>4 DEF IInv, Types, open
  <2>3. HoldsKey(r) /\ Mode(r) /\ Ready(p, r) /\ Complete(p, r)
    BY <1>4, <2>1 DEF HoldsKey, Mode, Ready, Complete, InstallKind, LocalDeps
  <2>. QED
    BY <1>1, <1>4, <2>1, <2>2, <2>3, MoveKeeps DEF open, secrets
<1>5. CASE proc[p].pass # "yes" /\ master = 0
  <2>. DEFINE r == [proc[p] EXCEPT !.pc = "making"]
  <2>1. r \in Process /\ r.pc = "making" /\ r.key = proc[p].key
    BY <1>2 DEF Process, Places
  <2>2. proc' = [proc EXCEPT ![p] = r]
    BY <1>5 DEF IInv, Types, open, Goto
  <2>3. HoldsKey(r) /\ Mode(r) /\ Ready(p, r) /\ Complete(p, r)
    BY <2>1 DEF HoldsKey, Mode, Ready, Complete, InstallKind, LocalDeps
  <2>. QED
    BY <1>1, <1>5, <2>1, <2>2, <2>3, MoveKeeps DEF open, secrets
<1>. QED
  BY <1>3, <1>4, <1>5

\* The first key of all: nobody holds another one, and nothing is encrypted yet.
LEMMA MakeKeyKeeps ==
  ASSUME NEW p \in Procs, IInv, MakeKey(p)
  PROVE  IInv'
<1>1. p \notin envFiles
  BY NoEnvFile DEF MakeKey
<1>2. proc[p] \in Process /\ made \in Nat
  BY DEF IInv, Types, SharedTypes
<1>3. PICK k \in Nat : k = made + 1 /\ k # 0
  BY <1>2
<1>4. PICK r \in Process : proc' = [proc EXCEPT ![p] = r] /\ r.pc = "open" /\ r.key = k
  <2>1. proc' = [proc EXCEPT ![p].pc = "open", ![p].key = k]
    BY <1>3 DEF MakeKey
  <2>. QED
    BY <2>1, Opened
<1>5. SharedTypes'
  BY DEF IInv, Types, SharedTypes, MakeKey, docker, files
<1>6. \A q \in Procs : HoldsKey(proc'[q])
  BY <1>2, <1>3, <1>4, Moved DEF IInv, OneKey, HoldsKey
<1>7. ASSUME passUsed' = "no", made' <= 1
      PROVE  /\ \A q \in Procs : proc'[q].key # 0 => proc'[q].key = master'
             /\ file' # NoFile => file'.key = master' /\ master' # 0
  <2>1. passUsed = "no" /\ made = 0 /\ master = 0
    BY <1>2, <1>7 DEF MakeKey, IInv, OneKey
  <2>2. file' = NoFile /\ \A q \in Procs : proc[q].key = 0
    BY <1>2, <2>1 DEF MakeKey, IInv, OneKey
  <2>3. proc'[p].key = master' /\ \A q \in Procs : q # p => proc'[q].key = 0
    BY <1>3, <1>4, <2>2, Moved DEF MakeKey, IInv
  <2>. QED
    BY <2>2, <2>3
<1>8. OneKey'
  BY <1>6, <1>7 DEF OneKey, HoldsKey, MakeKey
<1>9. Mode(r) /\ Ready(p, r)' /\ Complete(p, r)'
  BY <1>4 DEF Mode, Ready, Complete, InstallKind, LocalDeps
<1>. QED
  BY <1>1, <1>3, <1>4, <1>5, <1>8, <1>9, StepKeeps DEF MakeKey, docker, files

\* A deletion hands the other values to set, or ends.
LEMMA EnvDeleteKeeps ==
  ASSUME NEW p \in Procs, IInv, EnvDelete(p)
  PROVE  IInv'
<1>1. p \notin envFiles
  BY NoEnvFile DEF EnvDelete
<1>2. CASE proc[p].name \in file.vals
  <2>. DEFINE r == [proc[p] EXCEPT !.pc = "merging", !.given = file.vals \ {proc[p].name}]
  <2>1. proc[p] \in Process /\ file.vals \ {proc[p].name} \in SUBSET Secrets
    BY DEF IInv, Types, SharedTypes
  <2>2. r \in Process /\ r.pc = "merging" /\ r.key = proc[p].key
    BY <2>1 DEF Process, Places
  <2>3. proc' = [proc EXCEPT ![p] = r]
    BY <1>2 DEF IInv, Types, EnvDelete
  <2>4. HoldsKey(r) /\ Mode(r) /\ Ready(p, r) /\ Complete(p, r)
    BY <2>2 DEF EnvDelete, IInv, OneKey, HoldsKey, Mode, Ready, Complete, InstallKind, LocalDeps
  <2>. QED
    BY <1>1, <2>2, <2>3, <2>4, MoveKeeps DEF EnvDelete
<1>3. CASE proc[p].name \notin file.vals
  <2>1. SharedTypes'
    BY DEF IInv, Types, SharedTypes, EnvDelete, secrets, docker, files
  <2>. QED
    BY <1>1, <1>3, <2>1, EndKeeps DEF EnvDelete, secrets, docker, files
<1>. QED
  BY <1>2, <1>3

\* The file is written with the key of its writer, which is the one on disk.
LEMMA SetWriteKeeps ==
  ASSUME NEW p \in Procs, IInv, SetWrite(p)
  PROVE  IInv'
<1>1. p \notin envFiles
  BY NoEnvFile DEF SetWrite
<1>2. proc[p] \in Process
  BY DEF IInv, Types
<1>3. file' = [key |-> proc[p].key, vals |-> proc[p].read \cup proc[p].given]
  BY DEF SetWrite, encrypt
<1>4. file' \in [key: Nat, vals: SUBSET Secrets] /\ file'.key = proc[p].key
  BY <1>2, <1>3 DEF Process
<1>5. SharedTypes'
  BY <1>4 DEF IInv, Types, SharedTypes, SetWrite, docker, files
<1>6. proc' = [proc EXCEPT ![p] = Idle] /\ Idle.pc = "idle" /\ Idle.key = 0
  BY DEF SetWrite, End, Idle
<1>7. \A q \in Procs : HoldsKey(proc'[q]) /\ proc'[q].key \in {0, proc[q].key}
  BY <1>6, Moved, IdleProcess DEF IInv, OneKey, HoldsKey
<1>8. UNCHANGED <<master, made, passUsed>> /\ proc[p].key # 0
  BY DEF SetWrite, IInv, OneKey, HoldsKey
<1>9. OneKey'
  BY <1>4, <1>7, <1>8 DEF IInv, OneKey, HoldsKey
<1>10. Mode(Idle) /\ Ready(p, Idle)' /\ Complete(p, Idle)'
  BY <1>6 DEF Mode, Ready, Complete, InstallKind, LocalDeps
<1>. QED
  BY <1>1, <1>5, <1>6, <1>9, <1>10, StepKeeps, IdleProcess DEF SetWrite, docker, files

\* Without a file there is no key to agree with.
LEMMA VaultDeleteKeeps ==
  ASSUME NEW p \in Procs, IInv, VaultDelete(p)
  PROVE  IInv'
<1>1. p \notin envFiles
  BY NoEnvFile DEF VaultDelete
<1>2. SharedTypes'
  BY DEF IInv, Types, SharedTypes, VaultDelete, NoFile, docker, files
<1>3. proc' = [proc EXCEPT ![p] = Idle] /\ Idle.pc = "idle" /\ Idle.key = 0
  BY DEF VaultDelete, End, Idle
<1>4. \A q \in Procs : HoldsKey(proc'[q]) /\ proc'[q].key \in {0, proc[q].key}
  BY <1>3, Moved, IdleProcess DEF IInv, OneKey, HoldsKey
<1>5. UNCHANGED <<master, made, passUsed>> /\ file' = NoFile
  BY DEF VaultDelete
<1>6. OneKey'
  BY <1>4, <1>5 DEF IInv, OneKey, HoldsKey, NoFile
<1>7. Mode(Idle) /\ Ready(p, Idle)' /\ Complete(p, Idle)'
  BY <1>3 DEF Mode, Ready, Complete, InstallKind, LocalDeps
<1>. QED
  BY <1>1, <1>2, <1>3, <1>6, <1>7, StepKeeps, IdleProcess DEF VaultDelete, docker, files

\* The environment: the key of a provider is in it only when it is stored.
LEMMA executeAgentRunKeeps ==
  ASSUME NEW p \in Procs, IInv, NEW mode \in {"container", "process"}, NEW net \in {"yes", "no"},
         NEW requested, executeAgentRun(p, mode, net, requested)
  PROVE  IInv'
<1>. DEFINE provider == pickModel(file.vals, requested)
            env == AgentEnv(file.vals, provider)
            r == [proc[p] EXCEPT !.pc = "prepare", !.mode = mode, !.net = net, !.env = env]
<1>1. p \notin envFiles
  BY NoEnvFile DEF executeAgentRun
<1>2. CASE provider = "error"
  <2>1. SharedTypes'
    BY DEF IInv, Types, SharedTypes, executeAgentRun, secrets, docker, files
  <2>. QED
    BY <1>1, <1>2, <2>1, EndKeeps DEF executeAgentRun, secrets, docker, files
<1>3. CASE provider # "error"
  <2>. HIDE DEF provider
  <2>1. file.vals \subseteq Secrets /\ proc[p] \in Process
    BY DEF IInv, Types, SharedTypes
  <2>2. env \in SUBSET Variables
    BY <2>1 DEF AgentEnv, buildAgentEnv, HasKey, Variables
  <2>. HIDE DEF env
  <2>3. r \in Process /\ r.pc = "prepare" /\ r.key = proc[p].key
    BY <2>1, <2>2 DEF Process, Places
  <2>4. proc' = [proc EXCEPT ![p] = r]
    BY <1>3 DEF IInv, Types, executeAgentRun, env, provider
  <2>5. HoldsKey(r) /\ Mode(r) /\ Ready(p, r) /\ Complete(p, r)
    BY <2>3 DEF HoldsKey, Mode, Ready, Complete, InstallKind, LocalDeps
  <2>. HIDE DEF r
  <2>. QED
    BY <1>1, <2>3, <2>4, <2>5, MoveKeeps DEF executeAgentRun
<1>. QED
  BY <1>2, <1>3

\* A volume that exists may be partial: it is filled again before the run is ready.
LEMMA PrepareContainerKeeps ==
  ASSUME NEW p \in Procs, IInv, PrepareContainer(p)
  PROVE  IInv'
<1>1. p \notin envFiles /\ p \notin envFiles'
  BY NoEnvFile DEF PrepareContainer, files
<1>2. SharedTypes'
  BY DEF IInv, Types, SharedTypes, PrepareContainer, Contents, Created, secrets, docker, files
<1>3. /\ UNCHANGED <<agent, master, made, file, passUsed, wiped, envFiles>>
      /\ volume = "full" => volume' = "full"
      /\ local = "full" => local' = "full"
  BY DEF PrepareContainer, Created, secrets, docker, files
<1>4. CASE agent.deps = {}
  <2>1. Goto(p, "ready") /\ "ready" \in Places
    BY <1>4 DEF PrepareContainer, Places
  <2>2. PICK r \in Process : /\ proc' = [proc EXCEPT ![p] = r]
                             /\ r.pc = "ready" /\ r.key = proc[p].key
    BY <2>1, GoneTo
  <2>3. OneKey'
    BY <1>3, <2>2, KeysKept DEF HoldsKey
  <2>4. Mode(r) /\ Ready(p, r)' /\ Complete(p, r)'
    BY <1>3, <1>4, <2>2 DEF Mode, Ready, Complete, InstallKind, LocalDeps
  <2>. QED
    BY <1>1, <1>2, <1>3, <2>2, <2>3, <2>4, StepKeeps
<1>5. CASE agent.deps # {} /\ proc[p].net = "no"
  BY <1>1, <1>2, <1>3, <1>5, EndKeeps DEF PrepareContainer
<1>6. CASE End(p)
  BY <1>1, <1>2, <1>3, <1>6, EndKeeps
<1>7. CASE Goto(p, "install")
  <2>1. Goto(p, "install") /\ "install" \in Places
    BY <1>7 DEF Places
  <2>2. PICK r \in Process : /\ proc' = [proc EXCEPT ![p] = r] /\ r.pc = "install"
                             /\ r.key = proc[p].key /\ r.mode = proc[p].mode
    BY <2>1, GoneTo
  <2>3. OneKey'
    BY <1>3, <2>2, KeysKept DEF HoldsKey
  <2>4. Mode(r) /\ Ready(p, r)' /\ Complete(p, r)'
    BY <2>2 DEF Mode, Ready, Complete, InstallKind, LocalDeps, PrepareContainer
  <2>. QED
    BY <1>1, <1>2, <1>3, <2>2, <2>3, <2>4, StepKeeps
<1>. QED
  BY <1>4, <1>5, <1>6, <1>7 DEF PrepareContainer

\* The same in the directory of the agent.
LEMMA PrepareProcessKeeps ==
  ASSUME NEW p \in Procs, IInv, PrepareProcess(p)
  PROVE  IInv'
<1>1. p \notin envFiles /\ p \notin envFiles'
  BY NoEnvFile DEF PrepareProcess, files
<1>2. SharedTypes'
  BY DEF IInv, Types, SharedTypes, PrepareProcess, Contents, Created, secrets, docker, files
<1>3. /\ UNCHANGED <<agent, master, made, file, passUsed, wiped, envFiles>>
      /\ volume = "full" => volume' = "full"
      /\ local = "full" => local' = "full"
  BY DEF PrepareProcess, Created, secrets, docker, files
<1>4. CASE ~LocalDeps
  <2>1. Goto(p, "ready") /\ "ready" \in Places
    BY <1>4 DEF PrepareProcess, Places
  <2>2. PICK r \in Process : /\ proc' = [proc EXCEPT ![p] = r]
                             /\ r.pc = "ready" /\ r.key = proc[p].key /\ r.mode = "process"
    BY <2>1, GoneTo DEF PrepareProcess
  <2>3. OneKey'
    BY <1>3, <2>2, KeysKept DEF HoldsKey
  <2>4. Mode(r) /\ Ready(p, r)' /\ Complete(p, r)'
    BY <1>3, <1>4, <2>2 DEF Mode, Ready, Complete, InstallKind, LocalDeps
  <2>. QED
    BY <1>1, <1>2, <1>3, <2>2, <2>3, <2>4, StepKeeps
<1>5. CASE LocalDeps /\ proc[p].net = "no"
  BY <1>1, <1>2, <1>3, <1>5, EndKeeps DEF PrepareProcess
<1>6. CASE LocalDeps /\ proc[p].net # "no"
  <2>1. Goto(p, "localInstall") /\ "localInstall" \in Places
    BY <1>6 DEF PrepareProcess, Places
  <2>2. PICK r \in Process : /\ proc' = [proc EXCEPT ![p] = r] /\ r.pc = "localInstall"
                             /\ r.key = proc[p].key /\ r.mode = proc[p].mode
    BY <2>1, GoneTo
  <2>3. OneKey'
    BY <1>3, <2>2, KeysKept DEF HoldsKey
  <2>4. Mode(r) /\ Ready(p, r)' /\ Complete(p, r)'
    BY <2>2 DEF Mode, Ready, Complete, InstallKind, LocalDeps, PrepareProcess
  <2>. QED
    BY <1>1, <1>2, <1>3, <2>2, <2>3, <2>4, StepKeeps
<1>. QED
  BY <1>4, <1>5, <1>6

\* The installation runs in a container with the volume.
LEMMA InstallDepsKeeps ==
  ASSUME NEW p \in Procs, IInv, InstallDeps(p)
  PROVE  IInv'
<1>1. p \notin envFiles /\ p \notin envFiles'
  BY NoEnvFile DEF InstallDeps, files
<1>2. PICK r \in Process : /\ proc' = [proc EXCEPT ![p] = r] /\ r.pc = "installing"
                           /\ r.key = proc[p].key /\ r.mode = proc[p].mode
  <2>1. Goto(p, "installing") /\ "installing" \in Places
    BY DEF InstallDeps, Places
  <2>. QED
    BY <2>1, GoneTo
<1>3. SharedTypes'
  BY DEF IInv, Types, SharedTypes, InstallDeps, Contents, Created, secrets, files
<1>4. /\ UNCHANGED <<agent, master, made, file, passUsed, local, wiped, envFiles>>
      /\ volume = "full" => volume' = "full"
  BY DEF InstallDeps, Created, secrets, files
<1>5. OneKey'
  BY <1>2, <1>4, KeysKept DEF HoldsKey
<1>6. proc[p].mode = "container"
  BY DEF IInv, Ran, Mode, InstallDeps
<1>7. Mode(r) /\ Ready(p, r)' /\ Complete(p, r)'
  BY <1>2, <1>6 DEF Mode, Ready, Complete, InstallKind, LocalDeps, InstallDeps
<1>. QED
  BY <1>1, <1>2, <1>3, <1>4, <1>5, <1>7, StepKeeps

\* The run becomes ready with the volume full.
LEMMA InstallDoneKeeps ==
  ASSUME NEW p \in Procs, IInv, InstallDone(p)
  PROVE  IInv'
<1>1. p \notin envFiles /\ p \notin envFiles'
  BY NoEnvFile DEF InstallDone, files
<1>2. PICK r \in Process : /\ proc' = [proc EXCEPT ![p] = r] /\ r.pc = "ready"
                           /\ r.key = proc[p].key /\ r.mode = proc[p].mode
  <2>1. Goto(p, "ready") /\ "ready" \in Places
    BY DEF InstallDone, Places
  <2>. QED
    BY <2>1, GoneTo
<1>3. SharedTypes'
  BY DEF IInv, Types, SharedTypes, InstallDone, Contents, Created, secrets, files
<1>4. /\ UNCHANGED <<agent, master, made, file, passUsed, local, wiped, envFiles>>
      /\ volume = "full" => volume' = "full"
  BY DEF InstallDone, Created, secrets, files
<1>5. OneKey'
  BY <1>2, <1>4, KeysKept DEF HoldsKey
<1>6. proc[p].mode = "container"
  BY DEF IInv, Ran, Mode, InstallDone
<1>7. Mode(r) /\ Ready(p, r)' /\ Complete(p, r)'
  BY <1>2, <1>6 DEF Mode, Ready, Complete, InstallKind, LocalDeps, InstallDone
<1>. QED
  BY <1>1, <1>2, <1>3, <1>4, <1>5, <1>7, StepKeeps

\* The run becomes ready with its directory full, or ends.
LEMMA LocalInstallKeeps ==
  ASSUME NEW p \in Procs, IInv, LocalInstall(p)
  PROVE  IInv'
<1>1. p \notin envFiles /\ p \notin envFiles'
  BY NoEnvFile DEF LocalInstall, files
<1>2. SharedTypes'
  BY DEF IInv, Types, SharedTypes, LocalInstall, Contents, secrets, docker, files
<1>3. /\ UNCHANGED <<agent, master, made, file, passUsed, volume, wiped, envFiles>>
      /\ local = "full" => local' = "full"
  BY DEF LocalInstall, secrets, docker, files
<1>4. CASE local' = "full" /\ Goto(p, "ready")
  <2>1. PICK r \in Process : /\ proc' = [proc EXCEPT ![p] = r] /\ r.pc = "ready"
                             /\ r.key = proc[p].key /\ r.mode = proc[p].mode
    <3>1. Goto(p, "ready") /\ "ready" \in Places
      BY <1>4 DEF Places
    <3>. QED
      BY <3>1, GoneTo
  <2>2. OneKey'
    BY <1>3, <2>1, KeysKept DEF HoldsKey
  <2>3. proc[p].mode = "process"
    BY DEF IInv, Ran, Mode, LocalInstall
  <2>4. Mode(r) /\ Ready(p, r)' /\ Complete(p, r)'
    BY <1>4, <2>1, <2>3 DEF Mode, Ready, Complete, InstallKind, LocalDeps
  <2>. QED
    BY <1>1, <1>2, <1>3, <2>1, <2>2, <2>4, StepKeeps
<1>5. CASE End(p)
  BY <1>1, <1>2, <1>3, <1>5, EndKeeps
<1>. QED
  BY <1>4, <1>5 DEF LocalInstall

\* The one action that writes an env-file: its run is in a container and has started.
LEMMA writeEnvFileKeeps ==
  ASSUME NEW p \in Procs, IInv, writeEnvFile(p)
  PROVE  IInv'
<1>1. PICK r \in Process : /\ proc' = [proc EXCEPT ![p] = r] /\ r.pc = "started"
                           /\ r.key = proc[p].key /\ r.mode = "container"
  <2>1. Goto(p, "started") /\ "started" \in Places /\ proc[p].mode = "container"
    BY DEF writeEnvFile, Places
  <2>. QED
    BY <2>1, GoneTo
<1>2. envFiles' \subseteq envFiles \cup {p}
  BY DEF writeEnvFile
<1>3. SharedTypes'
  BY <1>2 DEF IInv, Types, SharedTypes, writeEnvFile, secrets, docker
<1>4. UNCHANGED <<agent, master, made, file, passUsed, volume, local, wiped>>
  BY DEF writeEnvFile, secrets, docker
<1>5. OneKey'
  BY <1>1, <1>4, KeysKept DEF HoldsKey
<1>6. Mode(r) /\ Ready(p, r)' /\ Complete(p, r)'
  BY <1>1, <1>4 DEF Mode, Ready, Complete, InstallKind, LocalDeps, IInv, Ran, writeEnvFile
<1>. QED
  BY <1>1, <1>2, <1>3, <1>4, <1>5, <1>6, StepKeeps

\* What a run is given in its container is the volume it was ready with.
LEMMA StartContainerKeeps ==
  ASSUME NEW p \in Procs, IInv, StartContainer(p)
  PROVE  IInv'
<1>. DEFINE got == buildRunArgs(p)
            sees == Created(volume)
            s == [proc[p] EXCEPT !.pc = "running", !.got = got, !.sees = sees]
<1>1. proc[p] \in Process /\ proc[p].mode = "container"
  BY DEF IInv, Types, Ran, Mode, StartContainer
<1>2. got \in SUBSET Variables /\ sees \in Contents
  BY <1>1 DEF IInv, Types, SharedTypes, buildRunArgs, Process, Created, Contents
<1>3. proc' = [proc EXCEPT ![p] = s]
  BY DEF IInv, Types, StartContainer
<1>4. volume = "full" => sees = "full" /\ volume' = "full"
  BY DEF StartContainer, Created
<1>. HIDE DEF got, sees
<1>5. /\ s \in Process /\ s.pc = "running" /\ s.sees = sees
      /\ s.key = proc[p].key /\ s.mode = "container"
  BY <1>1, <1>2 DEF Process, Places
<1>6. PICK r \in Process : /\ proc' = [proc EXCEPT ![p] = r] /\ r.pc = "running"
                            /\ r.sees = sees /\ r.key = proc[p].key /\ r.mode = "container"
  BY <1>3, <1>5
<1>7. SharedTypes'
  BY DEF IInv, Types, SharedTypes, StartContainer, Created, Contents, secrets, files
<1>8. UNCHANGED <<agent, master, made, file, passUsed, local, wiped, envFiles>>
  BY DEF StartContainer, secrets, files
<1>9. OneKey'
  BY <1>6, <1>8, KeysKept DEF HoldsKey
<1>10. Mode(r) /\ Ready(p, r)' /\ Complete(p, r)'
  BY <1>1, <1>4, <1>6, <1>8 DEF Mode, Ready, Complete, InstallKind, LocalDeps, IInv, Ran, StartContainer
<1>. QED
  BY <1>4, <1>7, <1>8, <1>9, <1>10, <1>6, StepKeeps

\* A Node agent sees the directory it was ready with.
LEMMA StartProcessKeeps ==
  ASSUME NEW p \in Procs, IInv, StartProcess(p)
  PROVE  IInv'
<1>1. p \notin envFiles
  BY NoEnvFile DEF StartProcess
<1>2. CASE splitCommand = "error"
  <2>1. SharedTypes'
    BY DEF IInv, Types, SharedTypes, StartProcess, secrets, docker, files
  <2>. QED
    BY <1>1, <1>2, <2>1, EndKeeps DEF StartProcess, secrets, docker, files
<1>3. CASE splitCommand # "error"
  <2>. DEFINE sees == IF agent.lang = "node" THEN local ELSE "none"
              r == [proc[p] EXCEPT !.pc = "running", !.got = proc[p].env, !.sees = sees]
  <2>1. proc[p] \in Process /\ sees \in Contents
    BY DEF IInv, Types, SharedTypes, Contents
  <2>2. proc' = [proc EXCEPT ![p] = r]
    BY <1>3 DEF IInv, Types, StartProcess
  <2>3. agent.lang = "node" => sees = local
    OBVIOUS
  <2>. HIDE DEF sees
  <2>4. /\ r \in Process /\ r.pc = "running" /\ r.sees = sees
        /\ r.key = proc[p].key /\ r.mode = proc[p].mode
    BY <2>1 DEF Process, Places
  <2>. HIDE DEF r
  <2>5. HoldsKey(r) /\ Mode(r) /\ Ready(p, r) /\ Complete(p, r)
    BY <2>3, <2>4 DEF HoldsKey, Mode, Ready, Complete, InstallKind, LocalDeps, IInv, Ran, StartProcess
  <2>. QED
    BY <1>1, <2>2, <2>4, <2>5, MoveKeeps DEF StartProcess
<1>. QED
  BY <1>2, <1>3

\* A removed volume is noted for every run that was ready with it.
LEMMA VolumeRmKeeps ==
  ASSUME IInv, VolumeRm
  PROVE  IInv'
<1>1. Types'
  BY DEF IInv, Types, SharedTypes, VolumeRm, Contents, secrets, files
<1>2. OneKey'
  BY DEF IInv, OneKey, HoldsKey, VolumeRm, secrets
<1>3. Ran'
  <2>. SUFFICES ASSUME NEW q \in Procs
                PROVE  (Mode(proc[q]) /\ Ready(q, proc[q]) /\ Complete(q, proc[q]))'
    BY DEF Ran
  <2>1. Mode(proc[q]) /\ Ready(q, proc[q]) /\ Complete(q, proc[q])
    BY DEF IInv, Ran
  <2>2. UNCHANGED <<agent, proc, local>> /\ wiped \subseteq wiped'
    BY DEF VolumeRm
  <2>3. volume' = volume \/ (proc[q].pc \in {"ready", "started"} => q \in wiped')
    BY DEF VolumeRm
  <2>. QED
    BY <2>1, <2>2, <2>3 DEF Mode, Ready, Complete, InstallKind, LocalDeps
<1>4. EnvFileRemoved'
  BY DEF IInv, EnvFileRemoved, VolumeRm, files
<1>. QED
  BY <1>1, <1>2, <1>3, <1>4 DEF IInv

\* Steps that touch nothing the invariant speaks of.
LEMMA StutterKeeps ==
  ASSUME IInv, UNCHANGED <<agent, secrets, volume, wiped, containers, local, files, proc>>
  PROVE  IInv'
<1>1. Types'
  BY DEF IInv, Types, SharedTypes, secrets, files
<1>2. OneKey'
  BY DEF IInv, OneKey, HoldsKey, secrets
<1>3. Ran'
  BY DEF IInv, Ran, Mode, Ready, Complete, InstallKind, LocalDeps
<1>4. EnvFileRemoved'
  BY DEF IInv, EnvFileRemoved, files
<1>. QED
  BY <1>1, <1>2, <1>3, <1>4 DEF IInv

--------------------------------------------------------------------------------
(* The theorems *)

\* In the initial state nobody works, nothing is stored and nothing is installed.
LEMMA InitEstablishes == Init => IInv
<1>. SUFFICES ASSUME Init PROVE IInv
  OBVIOUS
<1>1. \A p \in Procs : proc[p] = Idle /\ proc[p].pc = "idle" /\ proc[p].key = 0
  BY DEF Init, Idle
<1>2. Types
  BY <1>1, IdleProcess DEF Init, Types, SharedTypes, NoFile, Contents
<1>3. OneKey
  BY <1>1 DEF Init, OneKey, HoldsKey
<1>4. Ran
  BY <1>1 DEF Ran, Mode, Ready, Complete, InstallKind, LocalDeps
<1>5. EnvFileRemoved
  BY DEF Init, EnvFileRemoved
<1>. QED
  BY <1>2, <1>3, <1>4, <1>5 DEF IInv

\* Every step keeps the invariant: one lemma for each action.
LEMMA NextKeeps == IInv /\ [Next]_vars => IInv'
<1>. SUFFICES ASSUME IInv, [Next]_vars PROVE IInv'
  OBVIOUS
<1>1. ASSUME NEW p \in Procs, Step(p) PROVE IInv'
  <2>1. CASE open(p) \/ MakeKey(p) \/ VaultCorrupt(p)
    BY <2>1, openKeeps, MakeKeyKeeps, VaultCorruptKeeps
  <2>2. CASE EnvSet(p) \/ EnvDelete(p) \/ EnvShow(p)
    BY <2>2, EnvSetKeeps, EnvDeleteKeeps, EnvShowKeeps
  <2>3. CASE SetRead(p) \/ SetWrite(p) \/ VaultDelete(p) \/ RunContext(p)
    BY <2>3, SetReadKeeps, SetWriteKeeps, VaultDeleteKeeps, RunContextKeeps
  <2>4. CASE \E mode \in {"container", "process"}, net \in {"yes", "no"}, r \in Requests :
               executeAgentRun(p, mode, net, r)
    BY <2>4, executeAgentRunKeeps
  <2>5. CASE PrepareContainer(p) \/ InstallDeps(p) \/ InstallDone(p)
    BY <2>5, PrepareContainerKeeps, InstallDepsKeeps, InstallDoneKeeps
  <2>6. CASE writeEnvFile(p) \/ StartContainer(p)
    BY <2>6, writeEnvFileKeeps, StartContainerKeeps
  <2>7. CASE PrepareProcess(p) \/ LocalInstall(p) \/ StartProcess(p) \/ AgentEnds(p)
    BY <2>7, PrepareProcessKeeps, LocalInstallKeeps, StartProcessKeeps, AgentEndsKeeps
  <2>. QED
    BY <1>1, <2>1, <2>2, <2>3, <2>4, <2>5, <2>6, <2>7 DEF Step
<1>2. ASSUME NEW p \in Procs, NEW n \in Names, NEW pass \in {"yes", "no"},
             Begin(p, "set", n, pass) \/ Begin(p, "delete", n, pass)
      PROVE  IInv'
  BY <1>2, BeginKeeps DEF Operations, Secrets
<1>3. ASSUME NEW p \in Procs, NEW pass \in {"yes", "no"},
             \/ Begin(p, "show", "none", pass)
             \/ Begin(p, "run", "none", pass)
             \/ Begin(p, "uninstall", "none", pass)
      PROVE  IInv'
  BY <1>3, BeginKeeps DEF Operations, Secrets
<1>4. ASSUME NEW p \in Procs,
             \/ DockerMissing(p) \/ PullFails(p) \/ InstallFails(p) \/ EnvFileFails(p)
             \/ Timeout(p) \/ RemoveFails(p) \/ Killed(p)
      PROVE  IInv'
  BY <1>4, DockerMissingKeeps, PullFailsKeeps, InstallFailsKeeps, EnvFileFailsKeeps,
     TimeoutKeeps, RemoveFailsKeeps, KilledKeeps
<1>5. CASE VolumeRm
  BY <1>5, VolumeRmKeeps
<1>6. CASE OrphanExits
  BY <1>6, StutterKeeps DEF OrphanExits
<1>7. CASE UNCHANGED vars
  BY <1>7, StutterKeeps DEF vars, docker
<1>. QED
  BY <1>1, <1>2, <1>3, <1>4, <1>5, <1>6, <1>7 DEF Next

\* The inductive invariant holds of every reachable state, for any number of
\* commands, names and failures.
THEOREM SandboxInvariance == Spec => []IInv
<1>. QED
  BY InitEstablishes, NextKeeps, PTL DEF Spec

\* As long as one key was made and no passphrase given, the secret file can be
\* read with the key on disk, wherever commands were killed (secrets.ts).
THEOREM VaultStaysReadable == Spec => []VaultReadable
<1>1. IInv => VaultReadable
  BY DEF IInv, OneKey, VaultReadable
<1>. QED
  BY <1>1, SandboxInvariance, PTL

\* No agent starts with dependencies of its language's kind missing, except after
\* the cleanup of another run took the volume between its prepare and its start
\* and, in a process, where nothing is installed for it or used (sandbox/container.ts,
\* sandbox/process.ts).
THEOREM AgentsStartComplete == Spec => []DepsComplete
<1>1. IInv => DepsComplete
  BY DEF IInv, Ran, Complete, DepsComplete, InstallKind
<1>. QED
  BY <1>1, SandboxInvariance, PTL

\* The env-file of a run is its own until it ends, and is removed then: at its own
\* end and by a timeout (sandbox/container.ts).
THEOREM EnvFilesGo == Spec => []EnvFileRemoved
<1>1. IInv => EnvFileRemoved
  BY DEF IInv
<1>. QED
  BY <1>1, SandboxInvariance, PTL

================================================================================
