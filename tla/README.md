# A verification project for OpenAgentHub

OpenAgentHub is a registry of AI agents (a FastAPI service over PostgreSQL and an
archive store, `src/registry`), a command line client that installs, authorises and
supervises agents (`src/cli`, `src/runtime`, `src/sdk`), and web front ends (`src/web`).
This directory holds TLA+ models of the parts of it in which concurrent requests,
processes, workers, crashes and deadlines meet, the TLC configurations that check them
on small instances, and TLAPS proofs, for instances of any size, of every safety property
the models are checked for.

    tlc -config MCOutboxQueue.cfg MCOutboxQueue
    tlapm OutboxQueueProofs.tla

Contents: [Inventory](#inventory), [What is modelled](#what-is-modelled),
[Runs](#runs), [Findings](#findings), [Observations](#observations),
[Proofs](#proofs), [Not modelled](#not-modelled), [Plan](#plan). `PROJECT.json` has the
same in machine-readable form, with the source lines behind every definition and the
list of hazards.

## Inventory

The registry is a set of processes over one database. API processes serve requests,
each request in one database session that the route commits; every API process also
runs an outbox dispatcher and a download-count buffer. Worker processes poll the
`queue_jobs` table. The database runs at READ COMMITTED; almost nothing takes an
explicit row lock, so what a session loaded may be stale when it writes. The archive
store is a directory outside of the database.

| Component | State | Operations | Hard behaviour | Correct when |
|---|---|---|---|---|
| Outbox and dispatcher (`outbox/`) | `outbox_events`, the batch of a dispatch | add_event, dispatch_once, run_forever/stop | one dispatcher per API process; a crash between enqueue, mark and commit | every committed event gets a job; nothing is handled that was not committed |
| Durable queue and workers (`outbox/queue.py`, `worker.py`, `workers/`) | `queue_jobs` | enqueue, claim (SELECT, UPDATE), complete, fail, two reapers | claim races, stale attempts, crash in a handler, backoff | a job runs in one worker at a time, is retried a bounded number of times, is never stranded |
| Publishing, versions, archive store (`registry/`, `store.py`) | `agent_versions`, archive files | publish, review, yank | file written before the commit; two publishes of a version; cancellation | a version is immutable and backed by its archive |
| Security scanning (`security_review/`, `workers/scan.py`) | `security_status` | scan at publish, scan job, rescan | verdict of a file read earlier | nothing unscanned or flagged at publish is served |
| Catalog and cache (`registry/catalog.py`, `cache.py`) | `catalog_meta`, cache entries, locks | watermark, get_or_put, stale answer | load beside commits, TTL, database error | an entry is as fresh as its watermark says |
| Downloads, signed URLs | — | check, read, record | row checked before the file is read | the bytes are those of the checked digest |
| Billing (`billing/`, `workers/billing.py`) | `organization_subscriptions`, webhook events, deadline jobs | webhook, manual transition, change_plan, reconcile | stale rows, duplicate webhooks, deadlines from a timestamp that moves, reconciles that raise halfway | legal transitions only, every timed status ends, events apply once |
| Download metering, quotas | counters in memory, `org_monthly_usage` | record, flush, stop, enforce_* | records during a flush, cancelled flush, check-then-act | nothing is lost or counted twice; limits hold |
| Organizations, teams, invitations, grants | memberships, invitations, grants | invite, accept, change role, transfer, leave, remove, delete account | write skew between owners, single-use invitations | an organization has an owner; a removed member has no access |
| Identity | users, sessions, tokens, device logins, keys | login, rotate, revoke, approve/poll, suspend, delete | poll races, rotation grace, account states | one credential per approval; a deleted account stays deleted |
| Rate limiting, semver, catalog paging | windows; — ; — | check; compare; page | non-atomic check; two orders of versions; filter after limit | limits hold; orders agree; every item is reachable |
| CLI supervisor (`cli/src/lib/supervisor.ts`, `supervisor-run`) | run records (files), processes, containers, usage files | start, worker, stop, restart, ps/reconcile, remove | whole-record writes by several processes without a lock, kills, escalation | a stopped run leaves no process; a finished run stays finished; usage counts once |
| CLI control plane (`control-plane.ts`) | lock directory, state file, startup unit | ensureDaemon, acquireLock, runDaemon, stop, restart | stale-lock removal, kills, reused pids | one daemon; signals reach daemons only; no lock is left |
| Agent store (`installer.ts`, `revocation.ts`, `run-agent.ts`, `permissions.ts`) | config file, agent directories, vault, cached revocation status | install, update, uninstall, env, sandbox set/reset, run | each command saves a whole config of its own; kills between two files | a revoked agent stops running; record and files agree |
| Vault and sandboxes (`secrets.ts`, `models.ts`, `sandbox/`) | master key, secret file, dependency volume, env-files | store, load, prepare, start, timeout, end | first opens side by side, failed installs, shared volume | secrets stay readable; agents start complete; env-files go |
| Usage collection (`usage/*.ts`) | source files, cursors, totals, rows, limits, settings | collect, enable, disable, set limit | half-written lines, source growing while read, kills between statements | every token counted once; disable forgets |
| Usage history (`usage.ts`, `supervisor.ts`) | run records, their rows, token rows, settings | migrate, write a record and mirror it, prune, remove, settings | first openers, record and row written by several processes, prune beside running agents | prune spares active runs; history mirrors the records |
| Packages (`sdk/src/package.ts`, `crypto.ts`, `manifest.ts`) | archives, signature files, an extraction | pack, sign, verify, unpack | events of parser and writes in any order; first one settles the promise | only signed archives pass; limits hold; result is complete |
| Sessions on the client (`login.ts`, `credentials.ts`, `sdk/src/registry.ts`, web account and device pages) | stored credentials, signing key files, sessions, device transactions | login, logout, auth, publish, sign-in, revoke sessions and keys, delete account | every request a step; failures between them; half-written key files | credentials stay with their registry; a login ends |

Interactions: a publish writes its version, scan result, audit entry, catalog bump and
outbox event in one transaction; the dispatcher turns the event into a `scan.run` job;
the scan worker runs it through the queue. Billing enqueues its deadline jobs
straight into the queue, inside its own transactions. Downloads read the tables and
the store and feed the metering buffer, which quotas consult. The CLI sees the
registry through its HTTP API, in particular the revocation feed. On the user's
machine nothing is a server but the dashboard daemon: every command is a process, and
they meet in files that each reads and replaces whole, in one SQLite database and in
docker. `run` authorises with the agent store, starts a supervised worker, which opens
the vault, prepares a sandbox, and mirrors its record and usage into the database.

## What is modelled

| Module | Models | Source |
|---|---|---|
| `EventDelivery` | abstract: a requested event is accepted, then delivered or abandoned | — |
| `OutboxQueue` | outbox, dispatchers, queue, workers, maintenance; implements `EventDelivery` | `registry/app/outbox`, `workers/maintenance.py` |
| `VersionLifecycle` | publish, archive store, scan, review, yank, key revocation, catalog cache, download | `registry/app/registry`, `store.py`, `security_review` |
| `BillingLifecycle` | subscription of one organization, its webhooks and deadline jobs | `registry/app/billing`, `workers/billing.py` |
| `RunSupervisor` | one run id: record, workers, agents, containers, commands, listings | `cli/src/lib/supervisor.ts`, `commands/supervisor-run.ts`, run, stop, restart, ps, inspect, remove |
| `ControlPlane` | the dashboard daemon, its lock, state file and startup unit | `cli/src/lib/control-plane.ts`, `commands/dashboard` |
| `AgentStore` | installed agents: directories, config file, grants, overrides, revocation cache, run authorisation | `cli/src/lib/installer.ts`, `revocation.ts`, `run-agent.ts`, `runtime/src/permissions.ts`, `sandbox/policy.ts` |
| `AgentSandbox` | vault, environment, dependencies, start and end in container or process | `runtime/src/secrets.ts`, `models.ts`, `sandbox/` |
| `UsageCollect` | one provider's source, its cursor, rows and limits | `runtime/src/usage/*.ts` |
| `UsageHistory` | usage database: migrations, run records and their mirror, prune, remove, retention | `runtime/src/usage.ts`, `cli/src/lib/supervisor.ts`, `commands/supervisor-run.ts`, prune, remove, restart |
| `PackageArchive` | pack, sign, download, verify, event-driven unpacking | `sdk/src/package.ts`, `crypto.ts`, `manifest.ts` |
| `RegistrySession` | CLI login, logout, auth, publish; web sign-in, account and device pages; the registry's sessions | `cli/src/commands`, `credentials.ts`, `sdk/src/registry.ts`, `web/src` |
| `OutboxQueueProofs`, `VersionLifecycleProofs`, `BillingLifecycleProofs`, `AgentSandboxProofs`, `RegistrySessionProofs` | theorems about the module each is named after | — |
| `CliProcessProofs` | theorems about `ControlPlane` and `RunSupervisor` | — |
| `InstallProofs` | theorems about `AgentStore` and `PackageArchive` | — |
| `UsageProofs` | theorems about `UsageHistory` and `UsageCollect` | — |
| `MC*` | constants for the runs | — |

**OutboxQueue.** A dispatcher's transaction is cut where another process can step in: its
read of the batch, one step per event (the flush of earlier marks, the SELECT of `enqueue`,
the INSERT, the mark), the commit. `jobs[j].tx` names the transaction that inserted a row,
so that others do not see it, and a rollback removes it. A worker's transaction is cut at
`claim`'s SELECT, at its UPDATE, and at the commit after `complete` or `fail`; the claim,
the handler's writes and the acknowledgement share one transaction, so the values of the
UPDATE stay invisible and are applied by `Complete` or `Fail`. `seen` is the attempts of
the row object that the session loaded in the SELECT, which `fail` compares with
`max_attempts`. A handler succeeds, raises before or after it wrote something (both are
committed: the worker does not roll back before `fail`), or breaks the session. Timestamps
become what is asked of them: due or later, lease none, held or expired. `MaintenanceSweep`
is both reapers of the maintenance worker.

**VersionLifecycle.** One package. A publish is check, INSERT (which holds the unique
key until the transaction ends), hand-over of the write to an executor thread, the
write, and the commit with the scan verdict of the uploaded bytes and the bump of the
watermark. A crash rolls back and may leave a torn file; a cancellation rolls back
and leaves the write running (`late`). Reviews, yanks and scans load the row and write
back the column they changed. A catalog request reads the watermark, takes the key's
lock, answers from the entry or loads and stores a page. Checks that only refuse a
request are left out. An archive stands for its bytes and their sha256.

**BillingLifecycle.** Requests and workers are sessions with the row they loaded. A
commit writes the columns that differ from the loaded ones, as the ORM does, and
renews `updated_at`. Jobs are their deadlines, which are also their dedupe keys; that
a due job runs in one worker at a time is what `OutboxQueue` shows. A reconcile that raises
goes through `queue.fail` (`ReconcileFails`): what it had written is committed with the
failure, the job stays queued and is tried again (`attempts`), and after `max_attempts` it
is dead-lettered, which `lost` notes until the status moves again. A timestamp is a day and
the instant it was taken at, ordered by the day first: a day is longer than all requests on
it, and instants tell two timestamps of one day apart, as the microseconds of the code do.

**RunSupervisor.** The record of a run is a file every process reads and replaces whole,
without a lock. The worker's reads and writes are steps of their own, in its poller, when it
notes the model and for the final record (`worker[w].copy` is what it read), and so are
those of commands and listings around an await, a spawn, a kill or a docker call
(`cli[c].r`, `lister`; `cli[c].last` is what `settleRun` read beside the record its stop
began with). `overlap` notes a restart given while a worker of the run is alive or another
command is about to spawn one. `worker`, `agent` and `ctr` are what is really alive, and
stop's escalation (TERM to the group, a wait, KILL; `docker stop` for a container) acts on
those. Docker that cannot be asked answers that there is no container. A fault is a kill
from outside, an interrupted command or a listing that others step into.

**ControlPlane.** Processes are pids handed out in turn and used again; a stamp tells
two processes of one pid apart. Making the lock directory and writing its owner file are
two steps, and so are looking at the owner and removing the directory; starter, daemon,
stop, restart, the startup unit and an upgrade all step between them. `platform` is Windows
or any other: on Windows no stamp is compared, a SIGTERM ends a process at once without its
handler, and there is no startup unit. `robbed` records
that a lock still in use was removed as stale, the one way to two daemons: by the
`acquireLock` of another starter, or by the last `releaseLock` of a slow one, which finds
the killed starter of a booting daemon in the owner file.

**AgentStore.** Every command is a process with its own copy of the config file, saved
whole. A command is cut where it awaits or writes a second file: an install is download,
removal of the old directory, unpacking, save; an uninstall is the directory, then the
config. `run` is check of the revocation cache, refresh, save, grants, policy, start. The
registry revokes a version or its rescan flags it; the feed lists both, and the CLI records
the review status that came with it, which blocks later runs only when it is "revoked"
("rejected" is treated alike). A request or an extraction that fails (`faults`) is told from
a killed command (`kills`): the first is handled, and what it leaves behind is part of the
model. Packages are of three origins, which fix trust, digest and requested permissions.
Clocks are reduced to whether an hour has passed since a check or a revocation.

**AgentSandbox.** Opening the vault is reading the key file, making a key, writing
it; a store is a read and a later write of the secret file. The environment is a set of
names, built from the model choice and the vault; a container with secrets gets it
through an env-file, the write and the removal of which may fail. The manifest lists pip
requirements, npm packages, both or none, and names Python, Node or another language:
whether anything is to be installed depends on the lists, what is installed on the language.
Preparing dependencies is making the volume, the docker command and its end; a timeout,
a failure and a kill end a run at any of these. Another run's cleanup of the volume is a
process of its own (`removing`).

**UsageCollect.** A JSONL source is a sequence of cells, a line being some cells and a
newline, so that a collection may meet half a line; an OpenCode source is a sequence of
rows. Lines and rows have times (`Time`), which they may share; a Codex line may have none,
and an OpenCode table may lack the column (`timed`), in which case it is read as a whole.
A Codex line without an id is keyed by its time and its number, counted from where the
reading began. `Lines` and `RowsAfter` are what lies between the cursor and the end of the
source, `Read` and `ReadRows` go over it line by line or row by row, and `collectClaude`,
`collectCodex`, `collectOpencode` are the adapters around them; recording is one statement
at a time. `forgotten` is what a disable deleted, so that `CountsExactly` can account for
it. OpenCode rows are taken to have an id, and Claude lines a time (the adapter would take
the time of the collection).

**UsageHistory.** Opening the database is one step per migration, so two first openers
interleave. `writeRun` renames the record file and then mirrors it into the row, two steps
between which every other process may come: the commands that start, restart and stop, the
worker, and the listings that settle a run (`writer`). A restart asks for an inactive record
only, so the old worker may still be writing. Removing a run and pruning delete the file and
then the row, from a list made before. Which ended runs a prune considers too many or too
old is any choice of their number, since a restart renews the creation time. The ghosts say
what went wrong: `torn` that a mirror write failed or crossed another process's write of a
different state, `raced` that a run became active on the list of a removal or was listed
before its row said so, `early` that it was removed while a process was at work on it.

**PackageArchive.** An archive is the sequence of its entries and is its own digest. An
extraction is driven by the parser's entry, write-finished, write-failed, stream-error
and end events, in every order Node may deliver them; a directory that cannot be made fails
an entry (`EntryFails`); `ex.settled` is the promise, and
`ex.early` that it was settled before the parser's end. Limits are counted when an entry
is taken up; `Bytes` is the size of what is really written.

**RegistrySession.** Each request is a step, and its failure another. A CLI command keeps
the credential it resolved when it started: the session stored for the registry's origin,
or the token an older version left in the config, which goes to any registry. The registry
is modelled as those requests see it: the sessions, login transactions and signing keys of
one account per registry. A key may be revoked; registering it again answers as if it were
registered, and a publish signed with it is refused. The two files of the signing key are
written one after the other, and a crash may leave either of them torn. The account page
has the list of sessions it fetched last.

## Runs

| Run | Checks | Bounds |
|---|---|---|
| `outbox_delivery` | TypeOK, NoLostEvent, ExclusiveClaim, AckedOrExhausted, RetriesBounded, ImplementsDelivery, EventuallySettled | 2 dispatchers, 2 workers, 2 events (one without a job mapping), 3 job ids, 2 attempts, 1 fault |
| `version_lifecycle` | ArchiveBacked, ServedIsVetted, CatalogFresh, VersionImmutable | 2 publishes, 1 scanner, reviewer, catalog reader, download, 2 archives, 2 bumps, 1 fault |
| `billing_lifecycle` | DeadlineCovered, EventAppliedOnce | 2 sessions, 1 provider event, 2 plans, 2 attempts of a job, 4 days, 12 instants |
| `run_supervisor` | StopLeavesNoProcess, UsageCountedOnce, EndedStaysEnded, RunSettles | 1 terminal, 2 commands besides listings, 2 workers (1 in a container), 1 fault |
| `control_plane` | SoleDaemon, SignalsOnlyDaemons, LockSettles | 3 pids, 4 processes, 1 fault, Windows or not |
| `agent_store` | RevocationBounded, SoloConsistent | 1 version, 2 commands at a time, 3 in all, 1 secret, 1 failure or kill |
| `agent_sandbox` | VaultReadable, DepsComplete, EnvFileRemoved | 2 commands at a time, 3 in all, 2 secret names, 2 faults, every language and mix of lists |
| `usage_collect` | CountsExactly, DisableForgets | 2 commands at a time, 3 in all, 1 change of the file time, 1 fault, every provider: lines and rows with and without id, with the same time, with none |
| `usage_history` | StoreReady, PruneSparesActive, HistoryMirrors | 2 runs, 2 writers and 2 removals at a time, 2 commands after the starts, keep 0 or 1, 1 fault |
| `package_archive` | VerifiedIsSigned, LimitsHold, UnpackComplete, UnpackSettles | 2 keys, 2 versions, 2 archives made, limits 3 files / 3 units / 2 units a file, 1 fault |
| `registry_session` | CredentialsStayHome, KeyHalvesMatch, LoginEnds | 2 CLIs, 1 browser, 2 registries, 2 commands, 1 fault |
| `container_env` | EnvReachesAgent is violated | as `agent_sandbox` |

Why the bounds are enough. The races of the outbox are between two processes over one row:
two dispatchers and two workers show them all, and a third job id lets both dispatchers
insert a job for one event and one of them roll back. Two attempts are the least that tell a
retry from a dead letter, in the queue and in billing. Two publishes and one fault let a
failed publish precede, overlap and follow a successful one; two bumps let a review or yank
follow the publish a page was loaded beside. In billing, trial, grace and past-due periods
take 2, 1 and 1 days, so that four days run through a whole lifecycle, and two sessions give
every race of two requests on one row.

On the client, the races are between two processes over one file, and one of them is often a
listing or a worker that needs no command: one terminal with two commands gives a start and
a stop, restart or remove beside its worker and every listing; the second worker is the one
of the restart. Four births over three pids give a starter, its daemon, a competitor and a
process that reuses a pid. Three commands on two slots let a third one meet what two that
overlapped, or one that was killed, left behind. Two runs and `keep` 1 make a prune choose,
and two writers let the two writes of one cross those of the other; the archives of the
package run are below, at and above each limit. Two faults in the sandbox let a failed
installation be followed by a kill.

**Fairness.** `outbox_delivery`: weak fairness of each dispatcher's and each worker's
steps and of time: both loops are `while True` around a sleep, catch every exception
and are restarted with their process. Nothing is assumed of the handlers (they may
fail until the attempts are used up), of crashes (finitely many) or of maintenance.
`run_supervisor`: each command and each worker goes on as long as it lives, and listings
are given again and again (`ps`, and the daemon's own reconcile). `control_plane`: each
process goes on as long as it lives; none has to be started. `package_archive`: Node
delivers the events of a stream that has started. `registry_session`: a command goes
on and time passes, since the CLI polls until its own deadline; nobody has to
approve, and any request may fail. The runs that check liveness use no symmetry;
publishers, billing sessions and process slots are symmetric in `version_lifecycle`,
`billing_lifecycle`, `usage_collect` and `usage_history`.

**Deadlock** is checked in `outbox_delivery` and `version_lifecycle`. In the others the
system may stop: no further command has to be given, and the bounds on commands,
births, days and instants end a behaviour.

Every property of a passing run has a mutant: a definition next to the modelled one
with a plausible bug (a dropped lock, an early write, an entry tagged too late, a
skipped escalation, a cursor moved too far) under which TLC finds the property violated.
The type invariant of `OutboxQueue` is kept because its proofs rest on it.

## Findings

* `container_env`: `src/README.md:259` says "At runtime the agent receives model
  configuration via environment variables", and the process sandbox does so. A
  container gets its variables with `--env-file` when there is a secret and with `--env`
  when there is none, never both, and the file holds the secrets only: as soon as one
  variable has a name like a secret (KEY, TOKEN, ...), the plain variables do not reach the
  agent (`src/runtime/src/sandbox/container.ts`).

## Observations

What the models show of the code beside the properties that hold. Most properties are
stated with the exception they need, and the exception is one of these.

* Outbox: `fail` decides with the attempts loaded before the claim's UPDATE waited for
  another worker, so a job can be tried more often than `max_attempts`
  (`queue.py:101`); `RetriesBounded` shows by how much: one try per further worker.
  `enqueue` is check-then-insert without a unique constraint (`queue.py:35`): delivery
  is at least once.
* Versions: a publish cancelled inside the store write leaves a thread that overwrites
  the archive of the version committed after it (`store.py:33`); `ArchiveBacked`
  shows that this is the only way. Rescans and key revocations change catalog pages
  without a bump (`application.py:563`); `CatalogFresh` is about the changes that bump.
* Billing: transitions are checked against the loaded status and committed over a newer
  one (`billing/application.py:231`). A reconcile that raises keeps what it had written, and
  after `max_attempts` tries its job is a dead letter (`queue.py:101`): a timed status then
  has no job, and stays until the billing page is read or something else moves it;
  `DeadlineCovered` names this as the one exception.
* Supervisor: the worker reads the record and writes it back without a lock
  (`supervisor-run.ts:147`), so an ended record that falls in between is active again until
  the worker writes the final one; `EndedStaysEnded` excludes that gap and no other. When
  docker cannot be asked, `ps` takes a container that runs for gone and settles the run
  (`supervisor.ts:301`). The container of a timed-out run goes on and is not always reported as an
  orphan (`container.ts:208`, `supervisor.ts:369`; `plans/m3-agent-supervisor.md:78`
  promises the report). `StopLeavesNoProcess` is therefore about process runs. Two
  restarts, or a restart beside a start, that have both removed the old files and not yet
  spawned give two live workers over one usage file, each of which records it
  (`supervisor.ts:477`); this takes two terminals, more than the run has, and came up in
  the proof of `UsageCountedOnce`, whose exception names it.
* Control plane: two starters that both find a stale lock can each remove it, the second
  one the first one's new lock (`control-plane.ts:196`), and a starter that waited for its
  daemon removes the lock of a later daemon that still boots when the process that
  started that one was killed (`control-plane.ts:205`; this takes more processes than the
  run has, and came up in the proof); `SoleDaemon` shows that nothing else leads to two
  daemons. On Windows `identityMatches` compares nothing (`control-plane.ts:148`), although
  `docs/cli/README.md:82` says that a reused PID is never signalled: stop, restart and a
  start that meets a server that does not answer end whatever process has the pid, and every
  stop leaves the lock behind. `SignalsOnlyDaemons` is about the other platforms. The systemd
  unit gets `Environment=` twice on each
  line (`control-plane.ts:544`, `573`).
* Agent store: a reinstall overwrites the directory before the record is saved, so a crash
  leaves new files under the old record's trust (`installer.ts:176`). A forced install whose
  extraction throws does not need a crash: the old record stays over a torn directory
  (`installer.ts:176-181`); `SoloConsistent`, which is about commands that are not killed,
  shows that this is all a failure leaves. `docs/cli/commands.md:86` says that a flagged
  version refuses to run. The run that asks the feed is refused, but records the review
  status of the version, which a flag does not change, as fresh (`revocation.ts:58`): the
  runs of the next hour start. `RevocationBounded` is about revoked versions. All stored
  secrets go to the agent, whatever was granted (`run-agent.ts:99`). `env --delete` saves
  through a merge and deletes nothing (`env.ts:61`, `secrets.ts:128`); `clearIntegrationKey`
  likewise.
* Sandbox: dependencies of the other kind than the language's are never installed, although
  they make a container install (`container.ts:145-155`), in a process nothing is installed
  for a language other than Python and Node (`process.ts:40-60`), and in a container an
  agent that lists the other kind only ends in a TypeError after its volume was made;
  `DepsComplete` says for which agents the promise holds. An env-file whose write fails, or
  whose removal fails, stays (`container.ts:270`, `279`). Two first commands can each make a
  master key, and the file of one is then unreadable (`VaultReadable` says `made <= 1`).
  `env --passphrase` stores what no run can read, since `run` gives no passphrase
  (`env.ts:41`, `run-agent.ts:85`). `docs/architecture/secrets.md` says a corrupt vault
  reads as empty; the code throws (`secrets.ts:117`). The dependency installation has the
  secrets on its command line (`container.ts:159`). A Python agent in a process does not use
  the `.venv` that `prepare` makes (`process.ts:44`, `70`).
* Usage: the cursor moves before the rows are recorded (`claude.ts:168`), so a kill in
  between loses them, and two collections at once may count twice: `CountsExactly` is about
  orderly ones. `DisableForgets` needs no such care: the proof showed that kills and
  rewrites of the source do not matter to it, only overlapping commands do. OpenCode rows
  of the millisecond the cursor ends in are lost (`opencode.ts:186`), and so are Codex lines
  without an id that have no time, or the same one, and the same number in the part read
  (`codex.ts:282`): with shared times `CountsExactly` promises no more than that nothing is
  counted twice. An OpenCode table without a time column is read as a whole each time, so
  the rows a disable deleted come back with the next enable. The dashboard's POST
  that withdraws consent does not clear the rows, as the command does
  (`integrations/route.ts:52`).
* History: the rename of the record and its mirror are two writes (`supervisor.ts:129-130`).
  When those of two processes cross, the row keeps the older state for good, and a prune
  that believes it removes a run that is active; so does one that lists a restarted run
  between the two. `PruneSparesActive` and `HistoryMirrors` show that nothing else does.
* Packages: a finished write settles the extraction whenever no other write is pending,
  also when the parser has not ended; entries after it are written, or refused, without
  anybody being told (`package.ts:283`; the comment at `package.ts:209` says errors are
  propagated reliably). `UnpackComplete` is about extractions settled after the parser's
  end; `LimitsHold` covers all.
* Sessions: `DELETE /sessions/me` meets the route `/sessions/{session_id:int}` first and
  is answered 422 (`identity/routes.py:400`), so logout leaves the session at the
  registry; `logout --all` revokes the newest session first, and once that was
  its own it has no credential for the older ones (`logout.ts:26`). Every 400 is taken for "pending"
  (`registry.ts:453`), so an expired or denied login polls until its own deadline. Two
  first publishes at once leave key halves that do not match. A revoked key is registered
  again with success (`identity/application.py:415`) and every publish with it refused
  (`registry/application.py:358`), and a public half torn by a crash makes every later
  publish throw (`publish.ts:72`): in neither case is a new pair made. The old
  `config.token` is used for any registry (`credentials.ts:60`). The account page counts
  expired sessions and those of an old list when it says that the only active web session
  cannot be revoked (`account.tsx:101`).

## Proofs

A proof module extends one model or two that belong together, and for each model defines an
inductive invariant (`IInv`, and for the second model of a module `RunInv`, `ArchiveInv`,
`CollectInv` and `CountInv`; the parts are named and commented), proves that the initial
states satisfy it and that every step keeps it, with a lemma for each action, and derives
the theorems from that. TLC has checked every one of these invariants as an invariant of
the model's run, with bounded quantifiers where the definition ranges over all numbers. The
theorems hold for every value of the constants that satisfies the named assumptions of the
model: any number of processes, sessions, versions, registries or browsers, and any values
of the bounds, so that the bounds of the runs are no limits of what is proved.

| Module | Theorem | States |
|---|---|---|
| `OutboxQueueProofs` | `TypeCorrect` | `Spec => []TypeOK` |
| | `EventsSurvive` | `Spec => []NoLostEvent` |
| | `ClaimsExclude` | `Spec => []ExclusiveClaim` |
| | `SettledHonestly` | `Spec => []AckedOrExhausted` |
| | `RetriesStayBounded` | `Spec => []RetriesBounded` |
| | `Refinement` | `Spec => ImplementsDelivery` |
| `VersionLifecycleProofs` | `StoreBacksTable` | `Spec => []ArchiveBacked` |
| | `VersionsAreImmutable` | `Spec => VersionImmutable` (of steps) |
| | `DownloadsAreVetted` | `Spec => []ServedIsVetted` |
| | `CacheIsFresh` | `Spec => []CatalogFresh` |
| `BillingLifecycleProofs` | `DeadlinesAreCovered` | `Spec => []DeadlineCovered` |
| | `EventsApplyOnce` | `Spec => []EventAppliedOnce` |
| `CliProcessProofs` | `SignalsReachDaemons` | `Spec => []SignalsOnlyDaemons` |
| | `OneDaemon` | `Spec => []SoleDaemon` |
| | `StopEndsTheGroup` | `RunSpec => []StopLeavesNoProcess` |
| | `SamplesOnce` | `RunSpec => []UsageCountedOnce` |
| | `EndedIsFinal` | `RunSpec => EndedStaysEnded` (of steps) |
| `InstallProofs` | `RevocationsArrive` | `Spec => []RevocationBounded` |
| | `RecordsMatchFiles` | `Spec => SoloConsistent` |
| | `OnlySignedIsVerified` | `ArchiveSpec => []VerifiedIsSigned` |
| | `LimitsAreKept` | `ArchiveSpec => []LimitsHold` |
| | `UnpackTellsTheTruth` | `ArchiveSpec => []UnpackComplete` |
| `AgentSandboxProofs` | `VaultStaysReadable` | `Spec => []VaultReadable` |
| | `AgentsStartComplete` | `Spec => []DepsComplete` |
| | `EnvFilesGo` | `Spec => []EnvFileRemoved` |
| `UsageProofs` | `OpenersFindTables` | `Spec => []StoreReady` |
| | `PrunesAreSafe` | `Spec => []PruneSparesActive` |
| | `HistoryIsMirror` | `Spec => []HistoryMirrors` |
| | `DisabledKeepsNothing` | `CollectSpec => []DisableForgets` |
| | `EveryEventOnce` | `CollectSpec => []CountsExactly` |
| `RegistrySessionProofs` | `CredentialsAreHome` | `Spec => []CredentialsStayHome` |
| | `KeysMatch` | `Spec => []KeyHalvesMatch` |

**OutboxQueue.** The invariant is the conjunction of: the type invariant; what every row
satisfies (a committed row is neither running nor leased, its key is a mapped event,
success implies a durable effect, a dead letter implies `max_attempts` tries); what a
running worker knows of its job (it is committed and queued, and it counts no more
attempts than its commit will record); exclusive claims; which events a dispatcher may
hold (only requested ones, which stay requested); what its marks pledge (an event it has
marked is covered by a committed row, by a row of its own transaction or by a durable
outcome); and `NoLostEvent`. The pledge is what makes `NoLostEvent` inductive: the
dispatcher's commit publishes its marks and its rows together, so the pledge turns into
coverage. The worker's knowledge is needed because nothing but the row lock keeps a second
worker from finishing the job under it. `RetriesBounded` needs a potential argument: a
job can pass `max_attempts` only through sessions that loaded its row before, so its
attempts and the workers that may still claim it with an old count are bounded together.
Every step of a worker either leaves both alone or spends one such session. This is why
the workers are assumed to be finitely many.

**VersionLifecycle.** A publish past its INSERT holds the row of its version, with its
own archive, and after the write the store holds that archive too (`PublishOK`); a row that
is not committed belongs to such a publish, and no rescan clears a hostile archive
(`RowOK`); every write left behind by a cancellation is noted as `stray`. So the commit
finds file and row in agreement, and nobody else can write that file. A scan, a review or a
download in progress is about a committed version, whose digest does not change. For the
catalog, `Fresh` is asked of the cache entry and of every reader that has loaded a page:
a tag is at most the watermark, and a page with the current tag is the current page up to
what does not bump. That a catalog page exists at all needs the committed versions to have
a latest one (`Latest`), for infinitely many version numbers too.

**BillingLifecycle.** `DeadlineCovered` is not inductive: the job that covers the status may
be claimed by a session that loaded the row before it got that status, whose commit removes
the job and does nothing else. The invariant asks for a covering job that nobody claims, or
only sessions whose row is current; those replace the job by a later one or move the row on.
A claimed job is queued and claimed once, so a reconcile that raises puts its own job back,
due before anything its partial writes scheduled. All this holds while no job was
dead-lettered (`Kept`); a commit that moves the status starts it anew. A job enqueued by a
commit is claimed by nobody and is no duplicate of one that succeeded, because it is due
later than now or carries an instant that nothing stored carries yet (`Unseen`); this is
where the timestamps matter. An event's count is whether it is recorded.

**ControlPlane.** Signals, where stamps are compared: the state file names a daemon or a
process that is gone, and whoever gets its pid later was born later (stamps). One daemon:
the holders are the processes that go on as owners of the lock, from the mkdir to the end of
the daemon. As long as no lock was robbed there is one holder at most, the directory is
there, and the owner file names the holder, or is not written yet, or still names whoever
started the daemon that boots. The proof failed first at `releaseLock` of a starter that
waits, for the reason given under Observations, and the model's account of a robbed lock was
completed there.

**RunSupervisor.** Records travel: the one on disk is read by commands, workers and
listings, changed, and written back over whatever came in between. The invariant says of
every copy that the pid in it was once given to a worker; such pids are not used again and
their process groups only ever go, since an agent is started by a worker that is alive. So a
group that `killProcessGroup` saw gone is gone when stop reports, whoever settled the
record. For the samples, while no restart overlapped: one worker at most is alive or about
to be spawned, and while a sample that was counted is still in the file the only worker
alive is at the step that removes the file. `EndedStaysEnded` is a property of steps, proved
action by action: a worker that is neither starting nor between the read and the write of
its poller or of the model's name writes its final record only, which the invariant says is
an ended one, and what a listing writes over the record is "exited" or "orphaned", whatever
it read.

**AgentStore.** `RevocationBounded` holds of the config on disk and of every command's
copy, since any copy may be saved; a run that checked a version revoked long before was
offline or carries the revocation in its copy and will be blocked (`LateOK`).
`SoloConsistent` is proved with a second invariant under its own hypothesis, that one
command runs at a time and none was killed: the copy then equals the file where the
command has not changed it, the one package out of step is that of an install or uninstall
before its save, and an extraction that threw has left the directory empty or partial.

**PackageArchive.** Every entry that the parser handed over is open, written, refused or a
directory (`Placed`). As long as the promise is not settled nothing was refused and the
pending count is that of the writes under way (`Awaits`), so `finish` sees zero only when
none is; together they make a promise resolved after the parser's end truthful. The
counters are at least what is written (`Within`): they are raised before the write, and
never lowered. The bytes written are a sum over positions.

**AgentSandbox.** `OneKey`: a command past opening the vault holds a key, and while at most
one was made and no passphrase given every held key is the one on disk; without it a command
could write the file with a key of its own. `Ran`: a run that is ready has the dependencies
of its language's kind in the volume or the directory, or is noted as wiped; it turns into
`DepsComplete` when the run starts. `EnvFileRemoved` is inductive with the types.

**UsageHistory.** Whoever migrates has seen a version below the last, and the version never
goes back. For a run whose mirror writes neither failed nor crossed, everything that is still
to be mirrored is what the record says, by however many processes, and with nothing to be
mirrored the row says it too (`MirrorOK`): the last mirror write then makes the row right
whichever comes last. Nobody is past the first write of a run that is gone, unless it was
removed early (`GoneOK`), so its usage stays deleted. An active run on the list of a removal
was noticed when it became active or when it was listed, or its row was wrong (`ListedOK`).

**UsageCollect.** `DisableForgets`: while commands come one after the other, a collection
under way sees an enabled integration from its first step to its last, and a disable has
deleted everything before it writes the setting. `CountsExactly` needs the full account of
a collection (`CountInv`): while commands are orderly and the source only grows, the cursor
stands behind some event k, the Codex total is the largest among the first k events, and the
rows in the table followed by those the command under way has still to record hold at most
what the first k events are worth, no event twice, and exactly that unless times are shared.
Of a database that is read as a whole they hold every one of the first k events under its
id, and the keys of the table differ. Its steps rest on three groups of lemmas. The
layout of a source: line k ends at `End(k)`, and whatever has been half written,
`completeEnd` is the end of the last complete line and `Parsed` between the ends of lines a
and b gives the events a + 1 to b. The sums: what one more row or one more event adds. The
reading: after each line the rows found so far, added to the table, are again what is due.
Appending to a file while it is read leaves all of it true, because the cursor is set from
what was read and not from the size that was seen.

**RegistrySession.** Nothing done to a session changes its registry or audience, so a
credential that was right stays right. While no two first publishes overlapped, a command
between the two key files is alone, the private half it wrote is the one on disk, whole, and
there is no public half yet; so a public half, whole or torn, is always beside its own
private half.

Assumptions. Besides the types and subset relations of the constants: the workers, the
process slots of the agent store, its keys, the runs of the history and the browsers are
finite sets; a project that is packed has finitely many files; the account's registry is one
of the registries; the trial, grace and
past-due periods are at least a day (the settings `billing_*_days`); the null values are no
identifiers.

Induction. The library's induction theorems take an operator as a parameter, which the
provers cannot instantiate. Where a proof needs induction (`Bytes` in `InstallProofs`;
`Tokens`, `Read` and `ReadRows` in `UsageProofs`) it is stated for a set: a set of numbers
that has 0 and with n also n + 1 has them all, which follows from the well-foundedness of
`<` on the numbers. This is why these operators are recursive functions over numbers and not
folds, whose definitions hold an operator parameter too.

Checked by TLC only: liveness under fairness (`EventuallySettled`, `RunSettles`,
`LockSettles`, `UnpackSettles`, `LoginEnds`), which is beyond the prover. Every other
property of a passing run, 28 invariants and 4 properties of steps, behaviours or
refinements, is stated by a theorem.

## Not modelled

The dashboard, catalog and marketing pages, the publisher console and the CLI's listing
and scaffolding commands show what other components keep. The audit log and telemetry
are append-only and written in the transactions of others; startup and migrations of the
registry are wiring. The manifest schema, the cryptography, the price table, the docker
hardening flags and the probes of installed tools are abstracted to their outcome. Live
limits and `deleteAll` of the usage store have no caller. The usage statistics are a query
over the history; their cache is keyed by the store object, and as every route opens a store
of its own it never answers. Of modelled components, these
are left out: log rotation and following, the http interface of a managed run, the port
and token of the daemon, API tokens, session
rotation and suspension, catalog filters and cursors. The rest of the inventory is
planned below.

## Plan

1. Done: the registry's core (`OutboxQueue`, `VersionLifecycle`, `BillingLifecycle`),
   the client (`RunSupervisor`, `ControlPlane`, `AgentStore`, `AgentSandbox`,
   `UsageCollect`, `UsageHistory`, `PackageArchive`, `RegistrySession`), and the proofs of
   every safety property of them all.
2. `DownloadMetering`: buffer, flush beside downloads, cancelled flush at shutdown,
   the bandwidth quota; abstract specification: every served download is counted
   exactly once.
3. `OrgMembership`: members, ownership transfer, leaving, invitations, teams, package
   grants and visibility, member quotas; an organization keeps an owner, access ends
   with membership.
4. The rest of identity: API tokens, rotation, account states.
5. Semantic versions, catalog paging and rate limits as operators checked against
   reference definitions over bounded inputs.
