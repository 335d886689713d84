------------------------------- MODULE AgentStore -------------------------------
(***************************************************************************)
(* Installed agents on one machine: the agent directories, the config file *)
(* with install records, permission and secret grants and sandbox          *)
(* overrides, and the vault; the commands install, update, uninstall, env, *)
(* sandbox set, reset and show, and run up to the start of the agent       *)
(* (cli/src/lib/installer.ts, revocation.ts, resolve.ts, run-agent.ts,     *)
(* runtime/src/permissions.ts, secrets.ts, runtime.ts, sandbox/policy.ts). *)
(*                                                                         *)
(* Keys are the versions of one agent.  Every command is a process with    *)
(* its own copy of the config file, which it saves whole; commands run     *)
(* side by side and may be killed between two steps.  A command is cut     *)
(* into steps where it awaits something or writes a second file.           *)
(*                                                                         *)
(* Packages that can be installed under a key: "registry" (signed, from a  *)
(* trusted publisher), "archive" (an unsigned file) and "project" (a local *)
(* directory).  Clocks are reduced to whether an hour has passed, and the  *)
(* review statuses that block to "revoked".                                *)
(***************************************************************************)
EXTENDS Integers, FiniteSets, FiniteSetsExt

CONSTANTS
  Keys,         \* versions of the agent, numbers
  Cmds,         \* command slots: how many commands run side by side
  Names,        \* secret names
  Requested,    \* the secrets the manifests name
  MaxCommands,  \* commands ever given (a bound of the model)
  MaxFaults     \* kills, failed requests and failed extractions (a bound of the model)

ASSUME ConstantsAssumption ==
  /\ Keys \subseteq Nat /\ IsFiniteSet(Keys) /\ IsFiniteSet(Cmds)
  /\ Requested \subseteq Names
  /\ MaxCommands \in Nat /\ MaxFaults \in Nat

Packages == {"registry", "archive", "project"}

\* The trust of what is installed: the publisher's, unknown for a file, local for a directory.
Trust(pkg) == CASE pkg = "registry" -> "trusted" [] pkg = "archive" -> "unknown" [] OTHER -> "local"

\* archiveDigest: the SHA-256 of the archive; a directory has none.
Digest(pkg) == IF pkg = "project" THEN "none" ELSE pkg

\* The permission a package asks for; grants absent from the manifest are refused.
Requests(pkg) == IF pkg = "registry" THEN {} ELSE {"network"}

VARIABLES
  config,    \* the config file: an entry for every key
  dir,       \* the agent directories
  vault,     \* the secrets stored for every key
  registry,  \* for every version: its review, whether its last scan flagged it, and since when it
             \* is revoked ("recent" or "old")
  cmd,       \* the running commands
  given,     \* commands so far
  faults,    \* requests and extractions that failed so far
  kills      \* commands killed so far

disk == <<config, dir, vault>>
trouble == <<faults, kills>>
bounds == <<given, trouble>>
vars == <<disk, registry, cmd, bounds>>

NoOverride == [mode |-> "none", digest |-> "none"]
NoEntry == [pkg |-> "none", review |-> "none", checked |-> "never", perms |-> {}, secrets |-> {},
            override |-> NoOverride]

NoCmd == [kind |-> "none", pc |-> "idle", key |-> 0, copy |-> [k \in Keys |-> NoEntry],
          found |-> NoEntry, check |-> "none", late |-> "no", mode |-> "none", files |-> "none",
          exposed |-> {}]

Init ==
  /\ config = [k \in Keys |-> NoEntry]
  /\ dir = [k \in Keys |-> "none"]
  /\ vault = [k \in Keys |-> {}]
  /\ registry \in [Keys -> [review : {"pending", "verified"}, flagged : {"no"}, revoked : {"no"}]]
  /\ cmd = [c \in Cmds |-> NoCmd]
  /\ given = 0 /\ faults = 0 /\ kills = 0

Installed(cfg, k) == cfg[k].pkg # "none"

\* resolveInstalledOrThrow: the version asked for, or the highest one installed.
Resolves(cfg, k, exact) == Installed(cfg, k) /\ (exact = "no" => k = Max({j \in Keys : Installed(cfg, j)}))

Fault == faults + kills < MaxFaults /\ faults' = faults + 1 /\ UNCHANGED kills
Kill == faults + kills < MaxFaults /\ kills' = kills + 1 /\ UNCHANGED faults
Given == given < MaxCommands /\ given' = given + 1

\* A command is given: it loads the config (loadConfig).
Begin(c, kind, pc, k, pkg, files) ==
  /\ cmd[c] = NoCmd /\ Given
  /\ cmd' = [cmd EXCEPT ![c] = [NoCmd EXCEPT !.kind = kind, !.pc = pc, !.key = k, !.copy = config,
                                             !.found.pkg = pkg, !.files = files]]

Goto(c, pc) == cmd' = [cmd EXCEPT ![c].pc = pc]
Ends(c) == cmd' = [cmd EXCEPT ![c] = NoCmd]

\* saveConfig of the command's copy.
SaveCopy(c, copy, pc) ==
  /\ config' = copy
  /\ cmd' = IF pc = "idle" THEN [cmd EXCEPT ![c] = NoCmd] ELSE [cmd EXCEPT ![c].copy = copy, ![c].pc = pc]

--------------------------------------------------------------------------------
(***************************************************************************)
(* install, update: installAgent                                           *)
(***************************************************************************)

\* install; a package that is there already is refused without --force.
Install(c, k, pkg, force) ==
  /\ force = "yes" \/ ~ Installed(config, k)
  /\ Begin(c, "install", "resolve", k, pkg, "none")
  /\ UNCHANGED <<disk, registry, trouble>>

\* update: whatever version the registry calls the latest is installed, there or not.
Update(c, k) == Install(c, k, "registry", "yes")

\* blocked_versions: what the revocation feed names, and the registry does not hand out.
Blocked(k) == registry[k].review = "revoked" \/ registry[k].flagged = "yes"

\* resolveFromRegistry, resolveFromFile, resolveFromDir, and the permission prompts.  A
\* rejected or revoked version is not installed, a flagged one cannot be downloaded.
InstallResolve(c) ==
  /\ cmd[c].pc = "resolve"
  /\ LET k == cmd[c].key
         pkg == cmd[c].found.pkg
         r == registry[k].review IN
     IF pkg = "registry" /\ Blocked(k) THEN Ends(c)
     ELSE \E granted \in {{}, Requests(pkg)} :
            cmd' = [cmd EXCEPT ![c].pc = "clear", ![c].found.perms = granted,
                               ![c].found.review = IF pkg = "registry" THEN r ELSE "none",
                               ![c].found.checked = IF pkg = "registry" THEN "fresh" ELSE "never"]
  /\ UNCHANGED <<disk, registry, bounds>>

\* The old directory is removed before the new files come.
InstallClear(c) ==
  /\ cmd[c].pc = "clear"
  /\ dir' = [dir EXCEPT ![cmd[c].key] = "empty"]
  /\ Goto(c, "unpack")
  /\ UNCHANGED <<config, vault, registry, bounds>>

\* unpackAgent into the directory, or the copy of the project's files.
InstallUnpack(c) ==
  /\ cmd[c].pc = "unpack"
  /\ dir' = [dir EXCEPT ![cmd[c].key] = cmd[c].found.pkg]
  /\ Goto(c, "record")
  /\ UNCHANGED <<config, vault, registry, bounds>>

\* recordInstall: the copy loaded at the beginning, with the new record.
InstallRecord(c) ==
  /\ cmd[c].pc = "record"
  /\ LET f == cmd[c].found IN
     SaveCopy(c, [cmd[c].copy EXCEPT ![cmd[c].key].pkg = f.pkg, ![cmd[c].key].review = f.review,
                                     ![cmd[c].key].checked = f.checked], "grants")
  /\ UNCHANGED <<dir, vault, registry, bounds>>

\* saveGrantedPermissions.
InstallGrants(c) ==
  /\ cmd[c].pc = "grants"
  /\ SaveCopy(c, [cmd[c].copy EXCEPT ![cmd[c].key].perms = cmd[c].found.perms], "idle")
  /\ UNCHANGED <<dir, vault, registry, bounds>>

(***************************************************************************)
(* uninstall, env, sandbox set and reset                                   *)
(***************************************************************************)

\* Mutant: the files stay.
FilesStay(c, k) ==
  /\ Installed(config, k)
  /\ Begin(c, "uninstall", "unrecord", k, "none", "none")
  /\ UNCHANGED <<disk, registry, trouble>>

\* The directory goes first.
Uninstall(c, k) ==
  /\ Installed(config, k)
  /\ Begin(c, "uninstall", "unrecord", k, "none", "none")
  /\ dir' = [dir EXCEPT ![k] = "none"]
  /\ UNCHANGED <<config, vault, registry, trouble>>

\* The record and the permissions go; secret grants and override stay.
UninstallRecord(c) ==
  /\ cmd[c].pc = "unrecord"
  /\ LET k == cmd[c].key IN
     SaveCopy(c, [cmd[c].copy EXCEPT ![k].pkg = "none", ![k].review = "none", ![k].checked = "never",
                                     ![k].perms = {}], "vault")
  /\ UNCHANGED <<dir, vault, registry, bounds>>

UninstallVault(c) ==
  /\ cmd[c].pc = "vault"
  /\ vault' = [vault EXCEPT ![cmd[c].key] = {}]
  /\ Ends(c)
  /\ UNCHANGED <<config, dir, registry, bounds>>

\* SecretsVault.set merges the values given into the stored ones.
VaultSet(k, values) == vault' = [vault EXCEPT ![k] = @ \cup values]

EnvSet(k, n) ==
  /\ Given /\ Installed(config, k)
  /\ VaultSet(k, {n})
  /\ UNCHANGED <<config, dir, registry, cmd, trouble>>

\* env --delete: the stored secrets without the name are handed to set.
EnvDelete(k, n) ==
  /\ Given /\ Installed(config, k)
  /\ n \in vault[k]
  /\ VaultSet(k, vault[k] \ {n})
  /\ UNCHANGED <<config, dir, registry, cmd, trouble>>

\* sandbox set: process for trusted and local agents only; bound to the archive that lies
\* in the directory, to "local" for a local agent without one.
SandboxSet(k, mode) ==
  /\ Given /\ Installed(config, k)
  /\ mode = "process" => Trust(config[k].pkg) \in {"trusted", "local"}
  /\ dir[k] = "registry" \/ config[k].pkg = "project"
  /\ config' = [config EXCEPT ![k].override =
                  [mode |-> mode, digest |-> IF dir[k] = "registry" THEN "registry" ELSE "local"]]
  /\ UNCHANGED <<dir, vault, registry, cmd, trouble>>

SandboxReset(k) ==
  /\ Given /\ Installed(config, k)
  /\ config[k].override # NoOverride
  /\ config' = [config EXCEPT ![k].override = NoOverride]
  /\ UNCHANGED <<dir, vault, registry, cmd, trouble>>

(***************************************************************************)
(* run and sandbox show: prepareRunContext, checkRevocationBeforeRun       *)
(***************************************************************************)

\* The record, and the manifest of the directory, which must be there.
Run(c, k, kind, exact) ==
  /\ Resolves(config, k, exact)
  /\ dir[k] \notin {"none", "empty"}
  /\ Begin(c, kind, "check", k, "none", dir[k])
  /\ UNCHANGED <<disk, registry, trouble>>

\* What follows the check: sandbox show only prints.
Checked(c, check) ==
  cmd' = IF cmd[c].kind = "show" THEN [cmd EXCEPT ![c] = NoCmd]
         ELSE [cmd EXCEPT ![c].pc = "secrets", ![c].check = check,
                          ![c].late = IF registry[cmd[c].key].revoked = "old" THEN "yes" ELSE "no"]

\* recordStatusRefresh on the config loaded now, if the record is still there.
recordStatusRefresh(k, review) ==
  config' = IF Installed(config, k) THEN [config EXCEPT ![k].review = review, ![k].checked = "fresh"] ELSE config

\* A status checked within the hour is taken as it is.
CheckFresh(c) ==
  /\ cmd[c].pc = "check"
  /\ cmd[c].copy[cmd[c].key].checked = "fresh"
  /\ Checked(c, "fresh")
  /\ UNCHANGED <<disk, registry, bounds>>

\* The revocation feed names the version: the run is blocked, and the feed's review status is
\* recorded as fresh.  For a version that is only flagged that is no blocking status.
CheckBlocked(c) ==
  /\ cmd[c].pc = "check"
  /\ cmd[c].copy[cmd[c].key].checked # "fresh"
  /\ Blocked(cmd[c].key)
  /\ recordStatusRefresh(cmd[c].key, registry[cmd[c].key].review)
  /\ Ends(c)
  /\ UNCHANGED <<dir, vault, registry, bounds>>

\* The feed does not name it: the status of the record loaded before is recorded as fresh.
CheckConfirmed(c) ==
  /\ cmd[c].pc = "check"
  /\ cmd[c].copy[cmd[c].key].checked # "fresh"
  /\ ~ Blocked(cmd[c].key)
  /\ recordStatusRefresh(cmd[c].key, cmd[c].copy[cmd[c].key].review)
  /\ Checked(c, "confirmed")
  /\ UNCHANGED <<dir, vault, registry, bounds>>

\* Mutant: an unreachable registry counts as a refresh.
OfflineRefreshes(c) ==
  /\ cmd[c].pc = "check" /\ Fault
  /\ cmd[c].copy[cmd[c].key].checked # "fresh"
  /\ recordStatusRefresh(cmd[c].key, cmd[c].copy[cmd[c].key].review)
  /\ Checked(c, "offline")
  /\ UNCHANGED <<dir, vault, registry, given>>

\* The registry cannot be reached: a warning, and the run goes on with the last known status.
CheckOffline(c) ==
  /\ cmd[c].pc = "check" /\ Fault
  /\ cmd[c].copy[cmd[c].key].checked # "fresh"
  /\ Checked(c, "offline")
  /\ UNCHANGED <<disk, registry, given>>

\* Requested secrets that are stored and not granted yet: --allow-secrets and the prompts
\* save the grant, with the copy loaded before the check.
ToAsk(c) == (Requested \cap vault[cmd[c].key]) \ cmd[c].copy[cmd[c].key].secrets

GrantSecrets(c) ==
  /\ cmd[c].pc = "secrets"
  /\ \E granted \in (SUBSET ToAsk(c)) \ {{}} :
       SaveCopy(c, [cmd[c].copy EXCEPT ![cmd[c].key].secrets = @ \cup granted], "exec")
  /\ UNCHANGED <<dir, vault, registry, bounds>>

\* Nothing to ask, a refusal, or no terminal: nothing is saved.
KeepSecrets(c) ==
  /\ cmd[c].pc = "secrets"
  /\ Goto(c, "exec")
  /\ UNCHANGED <<disk, registry, bounds>>

(***************************************************************************)
(* AgentRuntime.runAgent                                                   *)
(***************************************************************************)

\* effectiveSandbox, for the record e, a fresh status or not, and what the manifest asks for.
effectiveSandbox(e, fresh, wants) ==
  IF e.review = "revoked" THEN "blocked"
  ELSE IF Trust(e.pkg) \notin {"trusted", "local"} THEN "container"
  ELSE IF e.review \notin {"none", "verified"} /\ ~ fresh THEN "container"
  ELSE IF e.override # NoOverride
       THEN IF Digest(e.pkg) # "none" /\ e.override.digest # Digest(e.pkg) THEN "container"
            ELSE e.override.mode
  ELSE wants

\* The agent starts in the sandbox decided, with the files now in the directory and the secrets
\* of the vault; or the policy, a grant the manifest read before does not ask for, or a
\* directory that is gone ends the run.
Execute(c) ==
  /\ cmd[c].pc = "exec"
  /\ LET k == cmd[c].key
         e == cmd[c].copy[k] IN
     \E wants \in {"process", "container"} :
       LET mode == effectiveSandbox(e, cmd[c].check # "offline", wants) IN
       IF mode = "blocked" \/ dir[k] \in {"none", "empty"} \/ ~ (e.perms \subseteq Requests(cmd[c].files))
       THEN Ends(c)
       ELSE cmd' = [cmd EXCEPT ![c].pc = "running", ![c].mode = mode, ![c].files = dir[k],
                               ![c].exposed = vault[k]]
  /\ UNCHANGED <<disk, registry, bounds>>

AgentEnds(c) ==
  /\ cmd[c].pc = "running"
  /\ Ends(c)
  /\ UNCHANGED <<disk, registry, bounds>>

--------------------------------------------------------------------------------

\* What an unpacking that does not end leaves: nothing, or some of the files.
Torn == {"empty", "partial"}
Leaves(c) ==
  IF cmd[c].pc = "unpack" THEN \E left \in Torn : dir' = [dir EXCEPT ![cmd[c].key] = left]
  ELSE UNCHANGED dir

\* The registry or the signature refuses the package, or unpackAgent throws: install ends with
\* an error, the directory is not put back and the record of an earlier install stays.
InstallThrows(c) ==
  /\ cmd[c].pc \in {"resolve", "unpack"}
  /\ Fault
  /\ Leaves(c)
  /\ Ends(c)
  /\ UNCHANGED <<config, vault, registry, given>>

\* A command is killed between two steps, or while it unpacks.
Killed(c) ==
  /\ cmd[c].pc # "idle"
  /\ Kill
  /\ Leaves(c)
  /\ Ends(c)
  /\ UNCHANGED <<config, vault, registry, given>>

\* The registry revokes a version.
Revoke(k) ==
  /\ registry[k].review # "revoked"
  /\ registry' = [registry EXCEPT ![k].review = "revoked", ![k].revoked = "recent"]
  /\ UNCHANGED <<disk, cmd, bounds>>

\* A scan of the version ends with another result than the last one.
Rescan(k) ==
  /\ registry' = [registry EXCEPT ![k].flagged = IF @ = "no" THEN "yes" ELSE "no"]
  /\ UNCHANGED <<disk, cmd, bounds>>

\* STATUS_FRESH_MS pass: no timestamp, on disk or in a process, is fresh any more.
Aged(e) == [e EXCEPT !.checked = IF @ = "fresh" THEN "stale" ELSE @]
HourPasses ==
  /\ config' = [k \in Keys |-> Aged(config[k])]
  /\ cmd' = [c \in Cmds |-> [cmd[c] EXCEPT !.copy = [k \in Keys |-> Aged(@[k])], !.found = Aged(@)]]
  /\ registry' = [k \in Keys |-> [registry[k] EXCEPT !.revoked = IF @ = "recent" THEN "old" ELSE @]]
  /\ UNCHANGED <<dir, vault, bounds>>

CommandStep(c) ==
  \/ InstallResolve(c) \/ InstallClear(c) \/ InstallUnpack(c) \/ InstallRecord(c) \/ InstallGrants(c)
  \/ UninstallRecord(c) \/ UninstallVault(c)
  \/ CheckFresh(c) \/ CheckBlocked(c) \/ CheckConfirmed(c) \/ CheckOffline(c)
  \/ GrantSecrets(c) \/ KeepSecrets(c) \/ Execute(c) \/ AgentEnds(c)

Next ==
  \/ \E c \in Cmds :
       \/ CommandStep(c) \/ InstallThrows(c) \/ Killed(c)
       \/ \E k \in Keys :
            \/ \E pkg \in Packages, force \in {"no", "yes"} : Install(c, k, pkg, force)
            \/ Update(c, k) \/ Uninstall(c, k)
            \/ \E kind \in {"run", "show"}, exact \in {"no", "yes"} : Run(c, k, kind, exact)
  \/ \E k \in Keys :
       \/ \E n \in Names : EnvSet(k, n) \/ EnvDelete(k, n)
       \/ \E mode \in {"process", "container"} : SandboxSet(k, mode)
       \/ SandboxReset(k) \/ Revoke(k) \/ Rescan(k)
  \/ HourPasses

Spec == Init /\ [][Next]_vars

--------------------------------------------------------------------------------

\* The cache of checkRevocationBeforeRun is bounded for revocations, whatever commands
\* overwrite each other's config: a record that calls itself fresh and is not revoked, on disk
\* or in a command that will save it, is at most an hour behind the registry; and an agent
\* revoked more than an hour before its check starts only when the registry could not be
\* reached.  Nothing of the kind holds for a version that is only flagged: the run that asks
\* the feed is refused, but it records a status that blocks nothing as fresh (line 58), and
\* the runs of the next hour start.
Bounded(k, e) == e.checked = "fresh" /\ e.review # "revoked" => registry[k].revoked # "old"
RevocationBounded ==
  /\ \A k \in Keys : Bounded(k, config[k])
  /\ \A c \in Cmds : \A k \in Keys : Bounded(k, cmd[c].copy[k])
  /\ \A c \in Cmds : cmd[c].pc = "running" /\ cmd[c].late = "yes" => cmd[c].check = "offline"

\* Commands given one after the other, none of them killed, keep records and files together
\* also when requests and extractions fail: when nothing runs, every recorded package is the
\* one in its directory, or the directory is what an extraction that threw has left there,
\* under the record of the earlier install (installer.ts:176-181).
Solo == kills = 0 /\ Cardinality({c \in Cmds : cmd[c] # NoCmd}) <= 1
InStep(k) == config[k].pkg = dir[k] \/ dir[k] \in Torn
Consistent == (\A c \in Cmds : cmd[c] = NoCmd) => \A k \in Keys : InStep(k)
SoloConsistent == []Solo => []Consistent

================================================================================
