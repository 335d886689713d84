----------------------------- MODULE AgentSandbox -----------------------------
(***************************************************************************)
(* The secrets of one installed agent and its sandboxes: the vault with    *)
(* its master key (runtime/src/secrets.ts), the environment made from it   *)
(* (models.ts, runtime.ts), and the preparation, start and end of the      *)
(* agent in a container or in a process (sandbox/container.ts,             *)
(* sandbox/process.ts).                                                    *)
(*                                                                         *)
(* The processes are CLI commands: run, env and the end of uninstall.      *)
(* They share the master key, the agent's secret file, the docker volume   *)
(* with its dependencies and its directory, and run side by side.  Which   *)
(* sandbox a run gets is decided elsewhere (AgentStore) and left open.     *)
(* Environment variables are their names; of the plain ones that models.ts *)
(* and runtime.ts set, AGENT_NAME and AGENT_TRUST stand for all.           *)
(***************************************************************************)
EXTENDS Naturals, Sequences, FiniteSets, SequencesExt

CONSTANTS Procs,
          Names,        \* names of secrets users store
          SecretLike,   \* those with SECRET, TOKEN, KEY or PASSWORD in them
          Supported,    \* the manifest's model providers, in order
          KeyEnv,       \* the name of each provider's API key, or "none"
          MaxCommands,  \* bound: commands given
          MaxFaults     \* bound: failed tools, timeouts and kills

ASSUME NamesAssumption == SecretLike \subseteq Names /\ Supported # <<>>

VARIABLES agent,     \* the manifest: kinds of dependencies it lists, language, command
          master,    \* the key in MASTER_KEY_PATH, 0 without the file
          made,      \* keys made so far
          file,      \* the agent's secret file: the key it is encrypted with, the names
          passUsed,  \* a command was given a passphrase
          volume,    \* the dependency volume
          removing,  \* `docker volume rm` processes under way
          containers, orphans,  \* containers of live processes, and others
          local,     \* dependencies in the agent's directory
          envFiles,  \* processes whose env-file is on disk
          left,      \* env-files left behind by kills and by failed writes or removals
          wiped,     \* ghost: whose dependencies were removed before the start
          proc, commands, faults

secrets == <<master, made, file, passUsed>>
docker  == <<volume, removing, containers, orphans, wiped>>
files   == <<envFiles, left>>
vars    == <<agent, secrets, docker, local, files, proc, commands, faults>>

Fault == faults < MaxFaults /\ faults' = faults + 1

NoFile == [key |-> 0, vals |-> {}]
Passphrase == 100   \* the key deriveKey makes of a passphrase, on this machine
Idle == [pc |-> "idle", op |-> "none", name |-> "none", pass |-> "no", key |-> 0,
         given |-> {}, read |-> {}, mode |-> "none", net |-> "no", env |-> {},
         got |-> {}, sees |-> "none"]

Goto(p, pc) == proc' = [proc EXCEPT ![p].pc = pc]
End(p) == proc' = [proc EXCEPT ![p] = Idle]

-----------------------------------------------------------------------------
(* SecretsVault *)

\* A command is given; the first thing it does here is to open the vault.
Begin(p, op, name, pass) ==
    /\ proc[p] = Idle /\ commands < MaxCommands /\ commands' = commands + 1
    /\ proc' = [proc EXCEPT ![p] = [Idle EXCEPT !.pc = "opening", !.op = op,
                                                !.name = name, !.pass = pass]]
    /\ UNCHANGED <<agent, secrets, docker, local, files, faults>>

\* open: the passphrase's key, or the one on disk; without it one is made.
open(p) ==
    /\ proc[p].pc = "opening"
    /\ IF proc[p].pass = "yes"
       THEN proc' = [proc EXCEPT ![p].pc = "open", ![p].key = Passphrase]
       ELSE IF master # 0 THEN proc' = [proc EXCEPT ![p].pc = "open", ![p].key = master]
       ELSE Goto(p, "making")
    /\ passUsed' = IF proc[p].pass = "yes" THEN "yes" ELSE passUsed
    /\ UNCHANGED <<agent, master, made, file, docker, local, files, commands, faults>>

\* Mutant: the temporary file is never renamed.
KeyNotKept(p) ==
    /\ proc[p].pc = "making"
    /\ made' = made + 1 /\ master' = master
    /\ proc' = [proc EXCEPT ![p].pc = "open", ![p].key = made + 1]
    /\ UNCHANGED <<agent, file, passUsed, docker, local, files, commands, faults>>
MakeKey(p) ==
    /\ proc[p].pc = "making"
    /\ made' = made + 1 /\ master' = made + 1
    /\ proc' = [proc EXCEPT ![p].pc = "open", ![p].key = made + 1]
    /\ UNCHANGED <<agent, file, passUsed, docker, local, files, commands, faults>>

\* decrypt needs the key the file was encrypted with; get makes do without a file.
decrypt(blob, key) == blob.key = key
Readable(p) == file = NoFile \/ decrypt(file, proc[p].key)

\* VaultCorruptError ends every command that meets it.
VaultCorrupt(p) ==
    /\ proc[p].pc \in {"open", "merging", "launch"} /\ proc[p].op # "uninstall"
    /\ ~Readable(p)
    /\ End(p)
    /\ UNCHANGED <<agent, secrets, docker, local, files, commands, faults>>

\* env KEY=VALUE, and env --delete of a name that is there: what is handed to set.
EnvSet(p) ==
    /\ proc[p].pc = "open" /\ proc[p].op = "set"
    /\ proc' = [proc EXCEPT ![p].pc = "merging", ![p].given = {proc[p].name}]
    /\ UNCHANGED <<agent, secrets, docker, local, files, commands, faults>>

EnvDelete(p) ==
    /\ proc[p].pc = "open" /\ proc[p].op = "delete" /\ Readable(p)
    /\ IF proc[p].name \in file.vals
       THEN proc' = [proc EXCEPT ![p].pc = "merging", ![p].given = file.vals \ {proc[p].name}]
       ELSE End(p)
    /\ UNCHANGED <<agent, secrets, docker, local, files, commands, faults>>

\* env, env --reveal.
EnvShow(p) ==
    /\ proc[p].pc = "open" /\ proc[p].op = "show" /\ Readable(p)
    /\ End(p)
    /\ UNCHANGED <<agent, secrets, docker, local, files, commands, faults>>

\* set: the stored values are read, merged with those given, encrypted and
\* written with a rename.
SetRead(p) ==
    /\ proc[p].pc = "merging" /\ Readable(p)
    /\ proc' = [proc EXCEPT ![p].pc = "writing", ![p].read = file.vals]
    /\ UNCHANGED <<agent, secrets, docker, local, files, commands, faults>>

encrypt(vals, key) == [key |-> key, vals |-> vals]

SetWrite(p) ==
    /\ proc[p].pc = "writing"
    /\ file' = encrypt(proc[p].read \cup proc[p].given, proc[p].key)
    /\ End(p)
    /\ UNCHANGED <<agent, master, made, passUsed, docker, local, files, commands, faults>>

\* delete, at the end of uninstall.
VaultDelete(p) ==
    /\ proc[p].pc = "open" /\ proc[p].op = "uninstall"
    /\ file' = NoFile
    /\ End(p)
    /\ UNCHANGED <<agent, master, made, passUsed, docker, local, files, commands, faults>>

-----------------------------------------------------------------------------
(* run: the model and the environment *)

\* prepareRunContext has read the secrets.
RunContext(p) ==
    /\ proc[p].pc = "open" /\ proc[p].op = "run" /\ Readable(p)
    /\ Goto(p, "launch")
    /\ UNCHANGED <<agent, secrets, docker, local, files, commands, faults>>

HasKey(stored, provider) == KeyEnv[provider] = "none" \/ KeyEnv[provider] \in stored

\* pickModel: the provider asked for, which must be supported and have its key;
\* else the first supported one that needs none or has it, else the first.
pickModel(stored, requested) ==
    IF requested # "none"
    THEN IF Contains(Supported, requested) /\ HasKey(stored, requested) THEN requested ELSE "error"
    ELSE LET i == SelectInSeq(Supported, LAMBDA v : HasKey(stored, v))
         IN  Supported[IF i = 0 THEN 1 ELSE i]

buildAgentEnv(stored, provider) ==
    {"AGENT_NAME"} \cup
    (IF KeyEnv[provider] = "none" THEN {}
     ELSE IF HasKey(stored, provider) THEN {"AGENT_API_KEY", KeyEnv[provider]}
     ELSE {"AGENT_MODEL_KEY_MISSING"})

\* runAgent: every stored secret goes into the environment.
AgentEnv(stored, provider) ==
    buildAgentEnv(stored, provider) \cup stored \cup {"AGENT_TRUST"}

\* The context goes to runAgent, which reads the vault once more.
executeAgentRun(p, mode, net, requested) ==
    /\ proc[p].pc = "launch" /\ Readable(p)
    /\ LET provider == pickModel(file.vals, requested)
       IN  IF provider = "error" THEN End(p)
           ELSE proc' = [proc EXCEPT ![p].pc = "prepare", ![p].mode = mode, ![p].net = net,
                                       ![p].env = AgentEnv(file.vals, provider)]
    /\ UNCHANGED <<agent, secrets, docker, local, files, commands, faults>>

\* Docker must answer for a container, or the run ends.
DockerMissing(p) ==
    /\ proc[p].pc = "launch" /\ Fault
    /\ End(p)
    /\ UNCHANGED <<agent, secrets, docker, local, files, commands>>

-----------------------------------------------------------------------------
(* ContainerSandbox *)

Created(v) == IF v = "none" THEN "empty" ELSE v

\* What the install command of the container installs, by the language.
InstallKind == IF agent.lang = "python" THEN "pip" ELSE "npm"

\* prepare: the image is there or pulled; dependencies of any kind need the
\* network, but those of the language's kind alone are installed.  When the
\* manifest lists none of these, it throws on a list that is missing (after the
\* volume was made), or runs the command with an empty one.
\* Mutant: a volume that exists is taken to be complete.
ReuseVolume(p) ==
    /\ proc[p].pc = "prepare" /\ proc[p].mode = "container"
    /\ IF agent.deps = {} \/ volume # "none" THEN Goto(p, "ready") /\ UNCHANGED volume
       ELSE IF proc[p].net = "no" THEN End(p) /\ UNCHANGED volume
       ELSE /\ volume' = Created(volume)
            /\ Goto(p, "install") \/ (InstallKind \notin agent.deps /\ End(p))
    /\ UNCHANGED <<agent, secrets, removing, containers, orphans, wiped, local, files, commands, faults>>
PrepareContainer(p) ==
    /\ proc[p].pc = "prepare" /\ proc[p].mode = "container"
    /\ IF agent.deps = {} THEN Goto(p, "ready") /\ UNCHANGED volume
       ELSE IF proc[p].net = "no" THEN End(p) /\ UNCHANGED volume
       ELSE /\ volume' = Created(volume)
            /\ Goto(p, "install") \/ (InstallKind \notin agent.deps /\ End(p))
    /\ UNCHANGED <<agent, secrets, removing, containers, orphans, wiped, local, files, commands, faults>>

\* cleanup starts `docker volume rm` and does not wait for it.
cleanup(p) == removing' = removing + 1 /\ End(p)

PullFails(p) ==
    /\ proc[p].pc = "prepare" /\ proc[p].mode = "container" /\ Fault
    /\ cleanup(p)
    /\ UNCHANGED <<agent, secrets, volume, containers, orphans, wiped, local, files, commands>>

\* The container that installs the dependencies; docker makes a missing volume.
InstallDeps(p) ==
    /\ proc[p].pc = "install"
    /\ volume' = Created(volume) /\ containers' = containers \cup {p}
    /\ Goto(p, "installing")
    /\ UNCHANGED <<agent, secrets, removing, orphans, wiped, local, files, commands, faults>>

\* The volume has all of the language's kind; pip fails without a requirement.
InstallDone(p) ==
    /\ proc[p].pc = "installing" /\ (InstallKind = "pip" => "pip" \in agent.deps)
    /\ volume' = "full" /\ containers' = containers \ {p}
    /\ Goto(p, "ready")
    /\ UNCHANGED <<agent, secrets, removing, orphans, wiped, local, files, commands, faults>>

InstallFails(p) ==
    /\ proc[p].pc = "installing"
    /\ Fault \/ (InstallKind = "pip" /\ "pip" \notin agent.deps /\ UNCHANGED faults)
    /\ volume' = IF volume = "full" THEN "full" ELSE "partial"
    /\ containers' = containers \ {p}
    /\ cleanup(p)
    /\ UNCHANGED <<agent, secrets, orphans, wiped, local, files, commands>>

\* Docker removes the volume unless a container uses it.
VolumeRm ==
    /\ removing > 0 /\ removing' = removing - 1
    /\ IF containers = {} /\ orphans = 0
       THEN /\ volume' = "none"
            /\ wiped' = wiped \cup {p \in Procs : proc[p].pc \in {"ready", "started"}}
       ELSE UNCHANGED <<volume, wiped>>
    /\ UNCHANGED <<agent, secrets, containers, orphans, local, files, proc, commands, faults>>

\* The pattern of writeEnvFile.
SecretName(n) == n \in SecretLike \cup {"AGENT_API_KEY", "AGENT_MODEL_KEY_MISSING"}

writeEnvFile(p) ==
    /\ proc[p].pc = "ready" /\ proc[p].mode = "container"
    /\ envFiles' = IF \E n \in proc[p].env : SecretName(n) THEN envFiles \cup {p} ELSE envFiles
    /\ Goto(p, "started")
    /\ UNCHANGED <<agent, secrets, docker, local, left, commands, faults>>

\* A write that fails comes before the try block: what is on disk stays.
EnvFileFails(p) ==
    /\ proc[p].pc = "ready" /\ proc[p].mode = "container" /\ Fault
    /\ \E n \in proc[p].env : SecretName(n)
    /\ left' = left + 1 /\ wiped' = wiped \ {p} /\ End(p)
    /\ UNCHANGED <<agent, secrets, volume, removing, containers, orphans, local, envFiles, commands>>

\* buildRunArgs: the env-file, or else a flag for every variable.
buildRunArgs(p) ==
    IF p \in envFiles THEN {n \in proc[p].env : SecretName(n)} ELSE proc[p].env

StartContainer(p) ==
    /\ proc[p].pc = "started"
    /\ volume' = Created(volume) /\ containers' = containers \cup {p}
    /\ proc' = [proc EXCEPT ![p].pc = "running", ![p].got = buildRunArgs(p),
                            ![p].sees = Created(volume)]
    /\ UNCHANGED <<agent, secrets, removing, orphans, wiped, local, files, commands, faults>>

-----------------------------------------------------------------------------
(* ProcessSandbox *)

\* prepare: a virtual environment or node_modules in the agent's directory.
\* Dependencies of another kind are passed over, and so is every one of an agent
\* in another language.
LocalDeps ==
    \/ agent.lang = "python" /\ "pip" \in agent.deps
    \/ agent.lang = "node" /\ "npm" \in agent.deps

PrepareProcess(p) ==
    /\ proc[p].pc = "prepare" /\ proc[p].mode = "process"
    /\ IF ~LocalDeps THEN Goto(p, "ready") /\ UNCHANGED local
       ELSE IF proc[p].net = "no" THEN End(p) /\ UNCHANGED local
       ELSE Goto(p, "localInstall") /\ local' = IF local = "none" THEN "partial" ELSE local
    /\ UNCHANGED <<agent, secrets, docker, files, commands, faults>>

LocalInstall(p) ==
    /\ proc[p].pc = "localInstall"
    /\ \/ local' = "full" /\ Goto(p, "ready") /\ UNCHANGED faults
       \/ Fault /\ End(p) /\ UNCHANGED local
    /\ UNCHANGED <<agent, secrets, docker, files, commands>>

\* Shell characters in the command are refused.
splitCommand == IF agent.command = "shell" THEN "error" ELSE "ok"

\* A Python agent runs with the python3 of the caller's path, not with the one
\* of the virtual environment.
StartProcess(p) ==
    /\ proc[p].pc = "ready" /\ proc[p].mode = "process"
    /\ IF splitCommand = "error" THEN End(p)
       ELSE proc' = [proc EXCEPT ![p].pc = "running", ![p].got = proc[p].env,
                                 ![p].sees = IF agent.lang = "node" THEN local ELSE "none"]
    /\ UNCHANGED <<agent, secrets, docker, local, files, commands, faults>>

-----------------------------------------------------------------------------
(* The end of a run *)

\* removeEnvFile in the finally block; the ghost of the run goes with it.
Ended(p) == envFiles' = envFiles \ {p} /\ wiped' = wiped \ {p} /\ End(p)

AgentEnds(p) ==
    /\ proc[p].pc = "running"
    /\ containers' = containers \ {p} /\ Ended(p)
    /\ UNCHANGED <<agent, secrets, volume, removing, orphans, local, left, commands, faults>>

\* The timer kills the child: an agent process, or the docker client, whose
\* container goes on.
Detached(p) ==
    /\ orphans' = IF p \in containers THEN orphans + 1 ELSE orphans
    /\ containers' = containers \ {p}
\* Mutant: the env-file is removed on a normal end only.
TimeoutKeepsFile(p) ==
    /\ proc[p].pc = "running" /\ Fault
    /\ Detached(p) /\ wiped' = wiped \ {p} /\ End(p)
    /\ UNCHANGED <<agent, secrets, volume, removing, local, files, commands>>
Timeout(p) ==
    /\ proc[p].pc = "running" /\ Fault
    /\ Detached(p) /\ Ended(p)
    /\ UNCHANGED <<agent, secrets, volume, removing, local, left, commands>>

\* removeEnvFile swallows an error of its own.
RemoveFails(p) ==
    /\ proc[p].pc = "running" /\ p \in envFiles /\ Fault
    /\ left' = left + 1
    /\ containers' = containers \ {p} /\ Ended(p)
    /\ UNCHANGED <<agent, secrets, volume, removing, orphans, local, commands>>

\* The command is killed: no finally block runs, and its env-file stays.
Killed(p) ==
    /\ proc[p].pc # "idle" /\ Fault
    /\ left' = IF p \in envFiles THEN left + 1 ELSE left
    /\ Detached(p) /\ Ended(p)
    /\ UNCHANGED <<agent, secrets, volume, removing, local, commands>>

OrphanExits ==
    /\ orphans > 0 /\ orphans' = orphans - 1
    /\ UNCHANGED <<agent, secrets, volume, removing, containers, wiped, local, files, proc, commands, faults>>

-----------------------------------------------------------------------------

Init ==
    /\ agent \in [deps: SUBSET {"pip", "npm"}, lang: {"python", "node", "other"},
                  command: {"plain", "shell"}]
    /\ master = 0 /\ made = 0 /\ file = NoFile /\ passUsed = "no"
    /\ volume = "none" /\ removing = 0 /\ containers = {} /\ orphans = 0
    /\ local = "none" /\ envFiles = {} /\ left = 0 /\ wiped = {}
    /\ proc = [p \in Procs |-> Idle]
    /\ commands = 0 /\ faults = 0

Requests == {"none"} \cup {Supported[i] : i \in DOMAIN Supported}

Step(p) ==
    \/ open(p) \/ MakeKey(p) \/ VaultCorrupt(p)
    \/ EnvSet(p) \/ EnvDelete(p) \/ EnvShow(p) \/ SetRead(p) \/ SetWrite(p) \/ VaultDelete(p)
    \/ RunContext(p)
    \/ \E mode \in {"container", "process"}, net \in {"yes", "no"}, r \in Requests :
           executeAgentRun(p, mode, net, r)
    \/ PrepareContainer(p) \/ InstallDeps(p) \/ InstallDone(p)
    \/ writeEnvFile(p) \/ StartContainer(p)
    \/ PrepareProcess(p) \/ LocalInstall(p) \/ StartProcess(p)
    \/ AgentEnds(p)

Next ==
    \/ \E p \in Procs :
        \/ Step(p)
        \/ \E n \in Names, pass \in {"yes", "no"} :
               Begin(p, "set", n, pass) \/ Begin(p, "delete", n, pass)
        \/ \E pass \in {"yes", "no"} : Begin(p, "show", "none", pass)
        \/ Begin(p, "run", "none", "no") \/ Begin(p, "uninstall", "none", "no")
        \/ DockerMissing(p) \/ PullFails(p) \/ InstallFails(p) \/ EnvFileFails(p)
        \/ Timeout(p) \/ RemoveFails(p) \/ Killed(p)
    \/ VolumeRm
    \/ OrphanExits

Spec == Init /\ [][Next]_vars

-----------------------------------------------------------------------------
(* Properties *)

\* The vault can be read: while nobody uses a passphrase and no two commands
\* found the key missing, the secret file is encrypted with the key on disk,
\* wherever a command was killed.
VaultReadable ==
    passUsed = "no" /\ made <= 1 => (file # NoFile => file.key = master)

\* An agent that lists dependencies of its language's kind starts with all of
\* these installed, after failed, killed and concurrent installations too; in a
\* container that goes for every language.  The exceptions: a volume that another
\* run's cleanup removed between this run's prepare and its start; in a process,
\* Python agents, which do not use what prepare installs, and agents in other
\* languages, for which it installs nothing.  Nothing is promised for a list of
\* the other kind: no sandbox installs it.
DepsComplete ==
    \A p \in Procs :
        /\ proc[p].pc = "running" /\ InstallKind \in agent.deps
        /\ proc[p].mode = "container" \/ agent.lang = "node"
        => proc[p].sees = "full" \/ p \in wiped

\* The env-file with the secrets exists only while the run that wrote it is
\* starting or running: a timeout and an error remove it as a normal end does.
\* Only a killed command and a failed write or removal leave one (left).
EnvFileRemoved ==
    \A p \in envFiles : proc[p].pc \in {"started", "running"} /\ proc[p].mode = "container"

\* "At runtime the agent receives model configuration via environment variables":
\* what reaches the agent is the environment that runAgent built.
EnvReachesAgent == \A p \in Procs : proc[p].pc = "running" => proc[p].got = proc[p].env

=============================================================================
