------------------------------ MODULE InstallProofs ------------------------------
(***************************************************************************)
(* Proofs about what an install brings in: first the store (AgentStore),   *)
(* then the archive it comes from (PackageArchive).                        *)
(*                                                                         *)
(* AgentStore: the bound on the revocation cache, and records and files in *)
(* step while commands come one after the other, for any number of         *)
(* versions, of commands running side by side, of failures and of kills.   *)
(*                                                                         *)
(* PackageArchive: only what was signed is verified, the limits bound what *)
(* is written, and a promise resolved after the parser's end tells the     *)
(* truth, for any archive and limits.  The invariant says where every      *)
(* entry is that the parser handed over; that as long as the promise is    *)
(* not settled nothing was refused and the pending count is that of the    *)
(* writes under way, so that finish sees zero only when none is; and that  *)
(* the counters are at least what is written.  The bytes written are a sum *)
(* over positions, given by a recursive function: that it exists, and what *)
(* one more position does to it, is shown by induction, stated for sets of *)
(* numbers.                                                                *)
(***************************************************************************)
EXTENDS AgentStore, PackageArchive, FiniteSetTheorems, WellFoundedInduction, TLAPS

(***************************************************************************)
(* AgentStore                                                              *)
(***************************************************************************)

Reviews == {"none", "pending", "verified", "revoked"}
Override == [mode: {"none", "process", "container"}, digest: {"none", "registry", "local"}]
Contents == {"none", "empty", "partial"} \cup Packages

Entry == [pkg: Packages \cup {"none"}, review: Reviews, checked: {"never", "fresh", "stale"},
          perms: SUBSET {"network"}, secrets: SUBSET Names, override: Override]

Places == {"idle", "resolve", "clear", "unpack", "record", "grants", "unrecord", "vault", "check",
           "secrets", "exec", "running"}
Command == [kind: {"none", "install", "uninstall", "run", "show"}, pc: Places, key: Keys \cup {0},
            copy: [Keys -> Entry], found: Entry, check: {"none", "fresh", "confirmed", "offline"},
            late: {"no", "yes"}, mode: {"none", "process", "container"}, files: Contents,
            exposed: SUBSET Names]

Types ==
  /\ dir \in [Keys -> Contents]
  /\ vault \in [Keys -> SUBSET Names]
  /\ cmd \in [Cmds -> Command]
  /\ registry \in [Keys -> [review: Reviews, flagged: {"no", "yes"}, revoked: {"no", "recent", "old"}]]
  /\ \A k \in Keys : registry[k].revoked # "no" <=> registry[k].review = "revoked"

\* A config, on disk or in a command, whose fresh records are an hour old at most.
ConfigOK(cfg) == cfg \in [Keys -> Entry] /\ \A k \in Keys : Bounded(k, cfg[k])

\* A run that checked a version revoked long before was offline, or carries the
\* revocation in its copy of the record and will be blocked.
LateOK(r) ==
  r.pc \in {"secrets", "exec", "running"} /\ r.late = "yes" =>
    r.check = "offline" \/ (r.pc # "running" /\ r.copy[r.key].review = "revoked")

CommandOK(r) ==
  /\ r.pc # "idle" => r.key \in Keys /\ Bounded(r.key, r.found)
  /\ ConfigOK(r.copy)
  /\ LateOK(r)

IInv == Types /\ ConfigOK(config) /\ \A c \in Cmds : CommandOK(cmd[c])

--------------------------------------------------------------------------------
(* Steps of one command *)

\* Nothing recorded, no override and no command are values of their types.
LEMMA Blanks ==
  /\ NoOverride \in Override
  /\ NoEntry \in Entry /\ NoEntry.checked = "never" /\ NoEntry.pkg = "none"
  /\ NoCmd \in Command /\ NoCmd.pc = "idle" /\ NoCmd.key = 0 /\ NoCmd.found = NoEntry
  /\ NoCmd.copy = [k \in Keys |-> NoEntry] /\ NoCmd.late = "no"
<1>1. NoOverride \in Override
  BY DEF NoOverride, Override
<1>2. NoEntry \in Entry /\ NoEntry.checked = "never" /\ NoEntry.pkg = "none"
  BY <1>1 DEF NoEntry, Entry, Reviews
<1> QED
  BY <1>1, <1>2 DEF NoCmd, Command, Places, Contents

\* A slot without a command satisfies what is asked of commands.
LEMMA IdleOK == CommandOK(NoCmd)
<1>1. ConfigOK([k \in Keys |-> NoEntry])
  BY Blanks DEF ConfigOK, Bounded
<1> QED BY <1>1, Blanks DEF CommandOK, Bounded, LateOK

\* An edit of one record that leaves it bounded leaves the config bounded.
LEMMA ConfigEdit ==
  ASSUME NEW cfg, ConfigOK(cfg), NEW k \in Keys, NEW e \in Entry, Bounded(k, e)
  PROVE  ConfigOK([cfg EXCEPT ![k] = e])
  BY DEF ConfigOK

\* A step of command c to r, with a bounded config, keeps the invariant.
LEMMA CommandMoves ==
  ASSUME IInv, NEW c \in Cmds, NEW r \in Command, cmd' = [cmd EXCEPT ![c] = r],
         registry' = registry, CommandOK(r), ConfigOK(config'),
         dir' \in [Keys -> Contents], vault' \in [Keys -> SUBSET Names]
  PROVE  IInv'
<1>1. /\ cmd' \in [Cmds -> Command] /\ cmd'[c] = r
      /\ \A o \in Cmds : o # c => cmd'[o] = cmd[o]
  BY DEF IInv, Types
<1>2. \A o \in Cmds : CommandOK(cmd'[o])
  BY <1>1 DEF IInv
<1>3. ASSUME NEW o \in Cmds PROVE CommandOK(cmd[o])'
  BY <1>2 DEF CommandOK, ConfigOK, Bounded, LateOK
<1>4. ConfigOK(config)'
  BY DEF ConfigOK, Bounded
<1> QED BY <1>1, <1>3, <1>4 DEF IInv, Types

\* A command that ends, killed or not.
LEMMA CommandEnds ==
  ASSUME IInv, NEW c \in Cmds, Ends(c), registry' = registry, ConfigOK(config'),
         dir' \in [Keys -> Contents], vault' \in [Keys -> SUBSET Names]
  PROVE  IInv'
  BY Blanks, IdleOK, CommandMoves DEF Ends

\* The types of what a command finds on disk.
LEMMA Found ==
  ASSUME IInv, NEW c \in Cmds
  PROVE  /\ cmd[c] \in Command /\ CommandOK(cmd[c]) /\ ConfigOK(config)
         /\ dir \in [Keys -> Contents] /\ vault \in [Keys -> SUBSET Names]
  BY DEF IInv, Types

\* A command that is given starts with the config on disk.
LEMMA CommandBegins ==
  ASSUME IInv, NEW c \in Cmds, NEW kind \in {"install", "uninstall", "run", "show"},
         NEW pc \in {"resolve", "unrecord", "check"}, NEW k \in Keys,
         NEW pkg \in Packages \cup {"none"}, NEW files \in Contents,
         Begin(c, kind, pc, k, pkg, files), registry' = registry, ConfigOK(config'),
         dir' \in [Keys -> Contents], vault' \in [Keys -> SUBSET Names]
  PROVE  IInv'
<1>1. PICK f \in Entry : f = [NoEntry EXCEPT !.pkg = pkg]
  BY Blanks DEF Entry
<1>2. f.checked = "never"
  BY <1>1, Blanks DEF Entry
<1>3. config \in [Keys -> Entry] /\ ConfigOK(config)
  BY DEF IInv, ConfigOK
<1>4. PICK r \in Command :
        r = [NoCmd EXCEPT !.kind = kind, !.pc = pc, !.key = k, !.copy = config, !.found = f,
                          !.files = files]
  BY <1>1, <1>3, Blanks DEF Command, Places
<1>5. r.pc = pc /\ r.key = k /\ r.copy = config /\ r.found = f
  BY <1>4, Blanks DEF Command
<1>6. cmd' = [cmd EXCEPT ![c] = r]
  <2>1. f = [NoCmd.found EXCEPT !.pkg = pkg]
    BY <1>1, Blanks
  <2> QED BY <1>4, <2>1 DEF Begin
<1>7. CommandOK(r)
  BY <1>2, <1>3, <1>5 DEF CommandOK, Bounded, LateOK
<1> QED BY <1>6, <1>7, CommandMoves

\* The step to another place with everything else as it was.
LEMMA CommandGoes ==
  ASSUME IInv, NEW c \in Cmds, NEW pc \in Places, Goto(c, pc),
         pc \in {"unpack", "record"} \/ (pc = "exec" /\ cmd[c].pc = "secrets"),
         cmd[c].pc # "idle",
         UNCHANGED <<registry, config>>, dir' \in [Keys -> Contents],
         vault' \in [Keys -> SUBSET Names]
  PROVE  IInv'
<1>1. cmd[c] \in Command /\ CommandOK(cmd[c]) /\ ConfigOK(config)
  BY Found
<1>2. PICK r \in Command : r = [cmd[c] EXCEPT !.pc = pc]
  BY <1>1 DEF Command
<1>3. /\ r.pc = pc /\ r.key = cmd[c].key /\ r.copy = cmd[c].copy /\ r.found = cmd[c].found
      /\ r.late = cmd[c].late /\ r.check = cmd[c].check
  BY <1>1, <1>2 DEF Command
<1>4. cmd' = [cmd EXCEPT ![c] = r]
  BY <1>2 DEF Goto, IInv, Types
<1>5. CommandOK(r)
  BY <1>1, <1>3 DEF CommandOK, LateOK
<1> QED BY <1>1, <1>4, <1>5, CommandMoves

\* saveConfig of a bounded copy, by a command that holds no revoked run.
LEMMA CommandSaves ==
  ASSUME IInv, NEW c \in Cmds, NEW copy, NEW pc \in {"grants", "vault", "exec", "idle"},
         SaveCopy(c, copy, pc), ConfigOK(copy), cmd[c].pc # "idle",
         pc = "exec" => /\ cmd[c].pc = "secrets"
                        /\ copy[cmd[c].key].review = cmd[c].copy[cmd[c].key].review,
         registry' = registry, dir' = dir, vault' = vault
  PROVE  IInv'
<1>1. /\ cmd[c] \in Command /\ CommandOK(cmd[c])
      /\ dir' \in [Keys -> Contents] /\ vault' \in [Keys -> SUBSET Names]
  BY Found
<1>2. config' = copy /\ ConfigOK(config')
  BY DEF SaveCopy
<1>3. CASE pc = "idle"
  BY <1>1, <1>2, <1>3, CommandEnds DEF SaveCopy, Ends
<1>4. CASE pc # "idle"
  <2>1. copy \in [Keys -> Entry]
    BY DEF ConfigOK
  <2>2. PICK r \in Command : r = [cmd[c] EXCEPT !.copy = copy, !.pc = pc]
    BY <1>1, <2>1 DEF Command, Places
  <2>3. /\ r.pc = pc /\ r.key = cmd[c].key /\ r.copy = copy /\ r.found = cmd[c].found
        /\ r.late = cmd[c].late /\ r.check = cmd[c].check
    BY <1>1, <2>2 DEF Command
  <2>4. cmd' = [cmd EXCEPT ![c] = r]
    BY <1>4, <2>2 DEF SaveCopy, IInv, Types
  <2>5. CommandOK(r)
    BY <1>1, <1>4, <2>3 DEF CommandOK, LateOK
  <2> QED BY <1>1, <1>2, <2>4, <2>5, CommandMoves
<1> QED BY <1>3, <1>4

--------------------------------------------------------------------------------
(* install, update *)

\* What an install knows once it has resolved its package: it ends, or goes on with a record of
\* that package whose status, if the registry gave it, is the one just read.
LEMMA Resolved ==
  ASSUME IInv, NEW c \in Cmds, InstallResolve(c), ~Ends(c)
  PROVE  \E r \in Command : /\ r.pc = "clear" /\ r.key = cmd[c].key /\ r.copy = cmd[c].copy
                            /\ Bounded(r.key, r.found)
                            /\ cmd' = [cmd EXCEPT ![c] = r]
<1>1. cmd[c] \in Command /\ CommandOK(cmd[c])
  BY Found DEF InstallResolve
<1>2. PICK k \in Keys : k = cmd[c].key
  BY <1>1, Found DEF InstallResolve, CommandOK
<1> DEFINE pkg == cmd[c].found.pkg
           review == IF pkg = "registry" THEN registry[k].review ELSE "none"
           checked == IF pkg = "registry" THEN "fresh" ELSE "never"
<1>3. ~(pkg = "registry" /\ registry[k].review = "revoked")
  BY <1>2 DEF InstallResolve, Blocked
<1>4. PICK granted \in {{}, Requests(pkg)} :
        cmd' = [cmd EXCEPT ![c].pc = "clear", ![c].found.perms = granted,
                           ![c].found.review = review, ![c].found.checked = checked]
  BY <1>2, <1>3 DEF InstallResolve
<1>5. granted \in SUBSET {"network"}
  BY DEF Requests
<1>6. review \in Reviews /\ checked \in {"never", "fresh"}
  BY DEF IInv, Types, Reviews
<1>7. PICK f \in Entry : f = [cmd[c].found EXCEPT !.perms = granted, !.review = review,
                                                  !.checked = checked]
  BY <1>1, <1>5, <1>6 DEF Command, Entry
<1>8. f.checked = checked
  BY <1>1, <1>7 DEF Command, Entry
<1>9. Bounded(k, f)
  BY <1>3, <1>8 DEF Bounded, IInv, Types
<1> HIDE DEF review, checked
<1>10. PICK r \in Command : r = [cmd[c] EXCEPT !.pc = "clear", !.found = f]
  BY <1>1 DEF Command, Places
<1>11. r.pc = "clear" /\ r.key = k /\ r.copy = cmd[c].copy /\ r.found = f
  BY <1>1, <1>2, <1>10 DEF Command
<1>12. [cmd[c] EXCEPT !.pc = "clear", !.found.perms = granted, !.found.review = review,
                      !.found.checked = checked] = r
  BY <1>1, <1>7, <1>10 DEF Command, Entry
<1>13. cmd' = [cmd EXCEPT ![c] = [cmd[c] EXCEPT !.pc = "clear", !.found.perms = granted,
                                                !.found.review = review,
                                                !.found.checked = checked]]
  BY <1>4 DEF IInv, Types
<1>14. cmd' = [cmd EXCEPT ![c] = r]
  BY <1>12, <1>13
<1> QED BY <1>2, <1>9, <1>11, <1>14

\* The status is resolved.
LEMMA StepInstallResolve ==
  ASSUME IInv, NEW c \in Cmds, InstallResolve(c)
  PROVE  IInv'
<1>1. /\ cmd[c] \in Command /\ CommandOK(cmd[c]) /\ ConfigOK(config')
      /\ dir' \in [Keys -> Contents] /\ vault' \in [Keys -> SUBSET Names] /\ registry' = registry
      /\ cmd[c].pc = "resolve"
  BY Found DEF InstallResolve, disk
<1>2. CASE Ends(c)
  BY <1>1, <1>2, CommandEnds
<1>3. CASE ~Ends(c)
  <2>1. PICK r \in Command : /\ r.pc = "clear" /\ r.key = cmd[c].key /\ r.copy = cmd[c].copy
                             /\ Bounded(r.key, r.found)
                             /\ cmd' = [cmd EXCEPT ![c] = r]
    BY <1>3, Resolved
  <2>2. CommandOK(r)
    BY <1>1, <2>1 DEF CommandOK, LateOK
  <2> QED BY <1>1, <2>1, <2>2, CommandMoves
<1> QED BY <1>2, <1>3

\* The files of the old package go, the new ones come.
LEMMA StepInstallFiles ==
  ASSUME IInv, NEW c \in Cmds, InstallClear(c) \/ InstallUnpack(c)
  PROVE  IInv'
<1>1. /\ cmd[c] \in Command /\ CommandOK(cmd[c]) /\ dir \in [Keys -> Contents]
      /\ vault' \in [Keys -> SUBSET Names] /\ UNCHANGED <<registry, config>>
  BY Found DEF InstallClear, InstallUnpack
<1>2. CASE InstallClear(c)
  <2>1. dir' \in [Keys -> Contents]
    BY <1>1, <1>2 DEF InstallClear, Contents
  <2> QED BY <1>1, <1>2, <2>1, CommandGoes DEF InstallClear, Places
<1>3. CASE InstallUnpack(c)
  <2>1. dir' \in [Keys -> Contents]
    BY <1>1, <1>3 DEF InstallUnpack, Contents, Command, Entry
  <2> QED BY <1>1, <1>3, <2>1, CommandGoes DEF InstallUnpack, Places
<1> QED BY <1>2, <1>3

\* recordInstall and saveGrantedPermissions save the copy with the record found.
LEMMA StepInstallSaves ==
  ASSUME IInv, NEW c \in Cmds, InstallRecord(c) \/ InstallGrants(c)
  PROVE  IInv'
<1>1. /\ cmd[c] \in Command /\ CommandOK(cmd[c])
      /\ UNCHANGED <<registry, dir, vault>> /\ cmd[c].pc # "idle"
  BY Found DEF InstallRecord, InstallGrants
<1>2. PICK k \in Keys : k = cmd[c].key
  BY <1>1 DEF CommandOK
<1>3. PICK f \in Entry : f = cmd[c].found
  BY <1>1 DEF Command
<1>4. PICK copy \in [Keys -> Entry] : copy = cmd[c].copy
  BY <1>1 DEF Command
<1>5. ConfigOK(copy) /\ Bounded(k, f) /\ copy[k] \in Entry /\ Bounded(k, copy[k])
  BY <1>1, <1>2, <1>3, <1>4 DEF CommandOK, ConfigOK
<1>6. CASE InstallRecord(c)
  <2>1. PICK e \in Entry :
          e = [copy[k] EXCEPT !.pkg = f.pkg, !.review = f.review, !.checked = f.checked]
    BY <1>5 DEF Entry
  <2>2. e.review = f.review /\ e.checked = f.checked
    BY <1>5, <2>1 DEF Entry
  <2>3. Bounded(k, e)
    BY <1>5, <2>2 DEF Bounded
  <2>4. ConfigOK([copy EXCEPT ![k] = e])
    BY <1>5, <2>3, ConfigEdit
  <2>5. SaveCopy(c, [copy EXCEPT ![k] = e], "grants")
    <3>1. [copy EXCEPT ![k].pkg = f.pkg, ![k].review = f.review, ![k].checked = f.checked]
            = [copy EXCEPT ![k] = e]
      BY <1>5, <2>1 DEF Entry
    <3> QED BY <1>2, <1>3, <1>4, <1>6, <3>1 DEF InstallRecord
  <2> QED BY <1>1, <2>4, <2>5, CommandSaves
<1>7. CASE InstallGrants(c)
  <2>1. PICK e \in Entry : e = [copy[k] EXCEPT !.perms = f.perms]
    BY <1>5 DEF Entry
  <2>2. Bounded(k, e)
    BY <1>5, <2>1 DEF Bounded, Entry
  <2>3. ConfigOK([copy EXCEPT ![k] = e])
    BY <1>5, <2>2, ConfigEdit
  <2>4. SaveCopy(c, [copy EXCEPT ![k] = e], "idle")
    BY <1>2, <1>3, <1>4, <1>7, <2>1 DEF InstallGrants
  <2> QED BY <1>1, <2>3, <2>4, CommandSaves
<1> QED BY <1>6, <1>7

--------------------------------------------------------------------------------
(* run *)

\* The record kept by recordStatusRefresh is the registry's word of now.
LEMMA Refreshed ==
  ASSUME IInv, NEW k \in Keys, NEW review \in Reviews, recordStatusRefresh(k, review),
         review = "revoked" \/ registry[k].revoked # "old"
  PROVE  ConfigOK(config')
<1>1. ConfigOK(config) /\ config[k] \in Entry /\ config \in [Keys -> Entry]
  BY DEF IInv, ConfigOK
<1>2. CASE config' = config
  BY <1>1, <1>2
<1>3. CASE config' # config
  <2>1. PICK e \in Entry : e = [config[k] EXCEPT !.review = review, !.checked = "fresh"]
    BY <1>1 DEF Entry
  <2>2. e.review = review
    BY <1>1, <2>1 DEF Entry
  <2>3. Bounded(k, e)
    BY <2>2 DEF Bounded
  <2>4. config' = [config EXCEPT ![k] = e]
    BY <1>1, <1>3, <2>1 DEF recordStatusRefresh
  <2> QED BY <1>1, <2>3, <2>4, ConfigEdit
<1> QED BY <1>2, <1>3

\* What follows a check that was offline, or that knows of an old revocation.
LEMMA StepChecked ==
  ASSUME IInv, NEW c \in Cmds, NEW check \in {"fresh", "confirmed", "offline"},
         Checked(c, check), cmd[c].pc = "check", registry' = registry, ConfigOK(config'),
         UNCHANGED <<dir, vault>>,
         registry[cmd[c].key].revoked = "old" /\ check # "offline" =>
           cmd[c].copy[cmd[c].key].review = "revoked"
  PROVE  IInv'
<1>1. /\ cmd[c] \in Command /\ CommandOK(cmd[c])
      /\ dir' \in [Keys -> Contents] /\ vault' \in [Keys -> SUBSET Names]
  BY Found
<1>2. CASE cmd[c].kind = "show"
  BY <1>1, <1>2, CommandEnds DEF Checked, Ends
<1>3. CASE cmd[c].kind # "show"
  <2> DEFINE late == IF registry[cmd[c].key].revoked = "old" THEN "yes" ELSE "no"
  <2>1. PICK r \in Command : r = [cmd[c] EXCEPT !.pc = "secrets", !.check = check, !.late = late]
    BY <1>1 DEF Command, Places
  <2>2. /\ r.pc = "secrets" /\ r.key = cmd[c].key /\ r.copy = cmd[c].copy
        /\ r.found = cmd[c].found /\ r.check = check
        /\ r.late = "yes" => registry[cmd[c].key].revoked = "old"
    BY <1>1, <2>1 DEF Command
  <2>3. cmd' = [cmd EXCEPT ![c] = r]
    BY <1>3, <2>1 DEF Checked, IInv, Types
  <2>4. CommandOK(r)
    BY <1>1, <2>2 DEF CommandOK, LateOK
  <2> QED BY <1>1, <2>3, <2>4, CommandMoves
<1> QED BY <1>2, <1>3

\* checkRevocationBeforeRun, whichever way it goes.
LEMMA StepCheck ==
  ASSUME IInv, NEW c \in Cmds,
         CheckFresh(c) \/ CheckBlocked(c) \/ CheckConfirmed(c) \/ CheckOffline(c)
  PROVE  IInv'
<1>1. /\ cmd[c] \in Command /\ CommandOK(cmd[c]) /\ ConfigOK(config)
      /\ UNCHANGED <<registry, dir, vault>> /\ cmd[c].pc = "check"
      /\ dir' \in [Keys -> Contents] /\ vault' \in [Keys -> SUBSET Names]
  BY Found DEF CheckFresh, CheckBlocked, CheckConfirmed, CheckOffline, disk
<1>2. PICK k \in Keys : k = cmd[c].key
  BY <1>1 DEF CommandOK
<1>3. Bounded(k, cmd[c].copy[k]) /\ cmd[c].copy[k].review \in Reviews
  BY <1>1, <1>2 DEF CommandOK, ConfigOK, Entry
<1>4. registry[k].revoked = "old" => registry[k].review = "revoked"
  BY DEF IInv, Types
<1>5. CASE CheckFresh(c)
  <2>1. Checked(c, "fresh") /\ ConfigOK(config') /\ cmd[c].copy[k].checked = "fresh"
    BY <1>1, <1>2, <1>5 DEF CheckFresh, disk
  <2>2. registry[k].revoked = "old" => cmd[c].copy[k].review = "revoked"
    BY <1>3, <2>1 DEF Bounded
  <2> QED BY <1>1, <1>2, <2>1, <2>2, StepChecked
<1>6. CASE CheckBlocked(c)
  <2>1. registry[k].review \in Reviews
    BY DEF IInv, Types
  <2>2. ConfigOK(config')
    BY <1>2, <1>4, <1>6, <2>1, Refreshed DEF CheckBlocked
  <2> QED BY <1>1, <1>6, <2>2, CommandEnds DEF CheckBlocked
<1>7. CASE CheckConfirmed(c)
  <2>1. registry[k].revoked # "old"
    BY <1>2, <1>4, <1>7 DEF CheckConfirmed, Blocked
  <2>2. ConfigOK(config')
    BY <1>2, <1>3, <1>7, <2>1, Refreshed DEF CheckConfirmed
  <2>3. Checked(c, "confirmed")
    BY <1>7 DEF CheckConfirmed
  <2> QED BY <1>1, <1>2, <2>1, <2>2, <2>3, StepChecked
<1>8. CASE CheckOffline(c)
  <2>1. Checked(c, "offline") /\ ConfigOK(config')
    BY <1>1, <1>8 DEF CheckOffline, disk
  <2> QED BY <1>1, <2>1, StepChecked
<1> QED BY <1>5, <1>6, <1>7, <1>8

\* Secret grants are saved with the copy loaded before the check, status and all.
LEMMA StepSecrets ==
  ASSUME IInv, NEW c \in Cmds, GrantSecrets(c) \/ KeepSecrets(c)
  PROVE  IInv'
<1>1. /\ cmd[c] \in Command /\ CommandOK(cmd[c]) /\ cmd[c].pc = "secrets"
      /\ UNCHANGED <<registry, dir, vault>>
      /\ dir' \in [Keys -> Contents] /\ vault' \in [Keys -> SUBSET Names]
  BY Found DEF GrantSecrets, KeepSecrets, disk
<1>2. CASE KeepSecrets(c)
  BY <1>1, <1>2, CommandGoes DEF KeepSecrets, Places, disk
<1>3. CASE GrantSecrets(c)
  <2>1. PICK k \in Keys : k = cmd[c].key
    BY <1>1 DEF CommandOK
  <2>2. PICK copy \in [Keys -> Entry] : copy = cmd[c].copy
    BY <1>1 DEF Command
  <2>3. PICK granted \in SUBSET ToAsk(c) :
          SaveCopy(c, [cmd[c].copy EXCEPT ![cmd[c].key].secrets = @ \cup granted], "exec")
    BY <1>3 DEF GrantSecrets
  <2>4. granted \subseteq Names
    BY <2>3, ConstantsAssumption DEF ToAsk
  <2>5. ConfigOK(copy) /\ copy[k] \in Entry /\ Bounded(k, copy[k])
    BY <1>1, <2>2 DEF CommandOK, ConfigOK
  <2>6. PICK e \in Entry : e = [copy[k] EXCEPT !.secrets = @ \cup granted]
    BY <2>4, <2>5 DEF Entry
  <2>7. e.review = copy[k].review /\ e.checked = copy[k].checked
    BY <2>5, <2>6 DEF Entry
  <2>8. ConfigOK([copy EXCEPT ![k] = e])
    BY <2>5, <2>7, ConfigEdit DEF Bounded
  <2>9. SaveCopy(c, [copy EXCEPT ![k] = e], "exec")
    BY <2>1, <2>2, <2>3, <2>6
  <2>10. [copy EXCEPT ![k] = e][k].review = cmd[c].copy[k].review
    BY <2>2, <2>7
  <2> QED BY <1>1, <2>1, <2>8, <2>9, <2>10, CommandSaves
<1> QED BY <1>2, <1>3

\* A run whose copy says revoked is blocked by the sandbox policy.
LEMMA StepExecute ==
  ASSUME IInv, NEW c \in Cmds, Execute(c)
  PROVE  IInv'
<1>1. /\ cmd[c] \in Command /\ CommandOK(cmd[c]) /\ cmd[c].pc = "exec" /\ ConfigOK(config')
      /\ registry' = registry /\ dir \in [Keys -> Contents] /\ vault \in [Keys -> SUBSET Names]
      /\ dir' \in [Keys -> Contents] /\ vault' \in [Keys -> SUBSET Names]
  BY Found DEF Execute, disk
<1>2. PICK k \in Keys : k = cmd[c].key
  BY <1>1 DEF CommandOK
<1>3. PICK wants \in {"process", "container"} :
        LET mode == effectiveSandbox(cmd[c].copy[k], cmd[c].check # "offline", wants) IN
        \/ Ends(c)
        \/ /\ mode # "blocked"
           /\ cmd' = [cmd EXCEPT ![c].pc = "running", ![c].mode = mode, ![c].files = dir[k],
                                 ![c].exposed = vault[k]]
  BY <1>2 DEF Execute
<1>4. CASE Ends(c)
  BY <1>1, <1>4, CommandEnds
<1>5. CASE ~Ends(c)
  <2> DEFINE mode == effectiveSandbox(cmd[c].copy[k], cmd[c].check # "offline", wants)
  <2>1. /\ mode # "blocked"
        /\ cmd' = [cmd EXCEPT ![c].pc = "running", ![c].mode = mode, ![c].files = dir[k],
                              ![c].exposed = vault[k]]
    BY <1>3, <1>5
  <2>2. cmd[c].copy[k] \in Entry /\ cmd[c].copy[k].override \in Override
    BY <1>1 DEF Command, Entry
  <2>3. mode \in {"none", "process", "container", "blocked"}
    BY <2>2 DEF effectiveSandbox, Override
  <2>4. cmd[c].copy[k].review # "revoked"
    BY <2>1 DEF effectiveSandbox
  <2> HIDE DEF mode
  <2>5. PICK r \in Command : r = [cmd[c] EXCEPT !.pc = "running", !.mode = mode,
                                                !.files = dir[k], !.exposed = vault[k]]
    BY <1>1, <2>1, <2>3 DEF Command, Places
  <2>6. /\ r.pc = "running" /\ r.key = k /\ r.copy = cmd[c].copy /\ r.found = cmd[c].found
        /\ r.late = cmd[c].late /\ r.check = cmd[c].check
    BY <1>1, <1>2, <2>5 DEF Command
  <2>7. cmd' = [cmd EXCEPT ![c] = r]
    BY <2>1, <2>5 DEF IInv, Types
  <2>8. CommandOK(r)
    BY <1>1, <1>2, <2>4, <2>6 DEF CommandOK, LateOK
  <2> QED BY <1>1, <2>7, <2>8, CommandMoves
<1> QED BY <1>4, <1>5

--------------------------------------------------------------------------------
(* Commands of one step, the registry and the clock *)

\* A record edited on disk, by a command that is over at once.
LEMMA ConfigWritten ==
  ASSUME IInv, NEW k \in Keys, NEW e \in Entry, config' = [config EXCEPT ![k] = e],
         Bounded(k, e), UNCHANGED <<dir, vault, registry, cmd>>
  PROVE  IInv'
<1>1. ConfigOK(config')
  BY ConfigEdit DEF IInv
<1>2. Types'
  BY DEF IInv, Types
<1>3. ConfigOK(config)'
  BY <1>1 DEF ConfigOK, Bounded
<1>4. \A c \in Cmds : CommandOK(cmd[c])'
  BY DEF IInv, CommandOK, ConfigOK, Bounded, LateOK
<1> QED BY <1>2, <1>3, <1>4 DEF IInv

\* uninstall removes the directory.
LEMMA StepUninstall ==
  ASSUME IInv, NEW c \in Cmds, NEW k \in Keys, Uninstall(c, k)
  PROVE  IInv'
<1>1. /\ dir' \in [Keys -> Contents] /\ vault' \in [Keys -> SUBSET Names] /\ registry' = registry
      /\ ConfigOK(config')
  BY DEF Uninstall, IInv, Types, Contents
<1>2. Begin(c, "uninstall", "unrecord", k, "none", "none")
  BY DEF Uninstall
<1> QED BY <1>1, <1>2, CommandBegins DEF Contents

\* The copy saved by uninstall: its entry of the key is gone.
LEMMA Unrecorded ==
  ASSUME IInv, NEW c \in Cmds, UninstallRecord(c)
  PROVE  \E e \in Entry : /\ e.pkg = "none" /\ e.checked = "never"
                          /\ SaveCopy(c, [cmd[c].copy EXCEPT ![cmd[c].key] = e], "vault")
<1>1. cmd[c] \in Command /\ CommandOK(cmd[c]) /\ cmd[c].pc = "unrecord"
  BY Found DEF UninstallRecord
<1>2. PICK k \in Keys : k = cmd[c].key
  BY <1>1 DEF CommandOK
<1>3. PICK copy \in [Keys -> Entry] : copy = cmd[c].copy
  BY <1>1 DEF Command
<1>4. PICK e \in Entry : e = [copy[k] EXCEPT !.pkg = "none", !.review = "none",
                                             !.checked = "never", !.perms = {}]
  <2>1. PICK x \in Entry : x = copy[k]
    BY <1>3
  <2>2. [x EXCEPT !.pkg = "none", !.review = "none", !.checked = "never", !.perms = {}] \in Entry
    BY DEF Entry, Reviews
  <2> QED BY <2>1, <2>2
<1>5. e.pkg = "none" /\ e.checked = "never"
  BY <1>3, <1>4 DEF Entry
<1>6. [copy EXCEPT ![k].pkg = "none", ![k].review = "none", ![k].checked = "never", ![k].perms = {}]
        = [copy EXCEPT ![k] = e]
  BY <1>3, <1>4 DEF Entry
<1> QED BY <1>2, <1>3, <1>5, <1>6 DEF UninstallRecord

\* The record goes from the copy loaded before.
LEMMA StepUninstallRecord ==
  ASSUME IInv, NEW c \in Cmds, UninstallRecord(c)
  PROVE  IInv'
<1>1. /\ cmd[c] \in Command /\ CommandOK(cmd[c]) /\ cmd[c].pc = "unrecord"
      /\ UNCHANGED <<registry, dir, vault>>
  BY Found DEF UninstallRecord
<1>2. PICK e \in Entry : /\ e.checked = "never"
                        /\ SaveCopy(c, [cmd[c].copy EXCEPT ![cmd[c].key] = e], "vault")
  BY Unrecorded
<1>3. ConfigOK([cmd[c].copy EXCEPT ![cmd[c].key] = e])
  BY <1>1, <1>2, ConfigEdit DEF CommandOK, Bounded
<1> QED BY <1>1, <1>2, <1>3, CommandSaves

\* sandbox set and sandbox reset write the override only.
LEMMA SandboxWrites ==
  ASSUME NEW k \in Keys,
         SandboxReset(k) \/ \E mode \in {"process", "container"} : SandboxSet(k, mode)
  PROVE  \E o \in Override : config' = [config EXCEPT ![k].override = o]
<1>1. CASE SandboxReset(k)
  BY <1>1, Blanks DEF SandboxReset
<1>2. ASSUME NEW mode \in {"process", "container"}, SandboxSet(k, mode)
      PROVE  \E o \in Override : config' = [config EXCEPT ![k].override = o]
  <2> DEFINE o == [mode |-> mode, digest |-> IF dir[k] = "registry" THEN "registry" ELSE "local"]
  <2>1. o \in Override
    BY DEF Override
  <2> QED BY <1>2, <2>1 DEF SandboxSet
<1> QED BY <1>1, <1>2

\* They disturb no status.
LEMMA StepSandbox ==
  ASSUME IInv, NEW k \in Keys,
         SandboxReset(k) \/ \E mode \in {"process", "container"} : SandboxSet(k, mode)
  PROVE  IInv'
<1>1. config[k] \in Entry /\ config \in [Keys -> Entry] /\ Bounded(k, config[k])
  BY DEF IInv, ConfigOK
<1>2. PICK o \in Override : config' = [config EXCEPT ![k].override = o]
  BY SandboxWrites
<1>3. PICK e \in Entry : e = [config[k] EXCEPT !.override = o]
  BY <1>1 DEF Entry
<1>4. Bounded(k, e)
  BY <1>1, <1>3 DEF Bounded, Entry
<1>5. config' = [config EXCEPT ![k] = e]
  BY <1>1, <1>2, <1>3
<1> QED BY <1>4, <1>5, ConfigWritten DEF SandboxReset, SandboxSet

\* env --set and env --delete write the vault only.
LEMMA StepEnv ==
  ASSUME IInv, NEW k \in Keys, NEW n \in Names, EnvSet(k, n) \/ EnvDelete(k, n)
  PROVE  IInv'
<1>1. UNCHANGED <<config, dir, registry, cmd>> /\ vault' \in [Keys -> SUBSET Names]
  BY DEF EnvSet, EnvDelete, VaultSet, IInv, Types
<1> QED BY <1>1 DEF IInv, Types, CommandOK, ConfigOK, Bounded, LateOK

\* A revocation of now is not an old one, and a scan revokes nothing.
LEMMA StepRegistry ==
  ASSUME IInv, NEW k \in Keys, Revoke(k) \/ Rescan(k)
  PROVE  IInv'
<1>1. UNCHANGED <<config, dir, vault, cmd>> /\ registry' = [registry EXCEPT ![k] = registry'[k]]
  BY DEF Revoke, Rescan, disk, IInv, Types
<1>2. registry[k] \in [review: Reviews, flagged: {"no", "yes"}, revoked: {"no", "recent", "old"}]
  BY DEF IInv, Types
<1>3. /\ registry'[k] \in [review: Reviews, flagged: {"no", "yes"}, revoked: {"no", "recent", "old"}]
      /\ registry'[k].revoked # "no" <=> registry'[k].review = "revoked"
      /\ registry'[k].revoked = "old" => registry[k].revoked = "old"
  <2>1. CASE Revoke(k)
    <3>1. registry'[k] = [registry[k] EXCEPT !.review = "revoked", !.revoked = "recent"]
      BY <2>1 DEF Revoke, IInv, Types
    <3> QED BY <1>2, <3>1 DEF Reviews
  <2>2. CASE Rescan(k)
    <3>1. registry'[k] = [registry[k] EXCEPT !.flagged = IF @ = "no" THEN "yes" ELSE "no"]
      BY <2>2 DEF Rescan, IInv, Types
    <3> QED BY <1>2, <3>1 DEF IInv, Types
  <2> QED BY <2>1, <2>2
<1>4. Types'
  BY <1>1, <1>3 DEF IInv, Types
<1>5. \A j \in Keys : registry'[j].revoked = "old" => registry[j].revoked = "old"
  BY <1>1, <1>3 DEF IInv, Types
<1>6. ConfigOK(config)'
  BY <1>1, <1>5 DEF IInv, ConfigOK, Bounded
<1>7. ASSUME NEW c \in Cmds PROVE CommandOK(cmd[c])'
  <2>1. CommandOK(cmd[c]) /\ cmd[c] \in Command
    BY DEF IInv, Types
  <2>2. ConfigOK(cmd[c].copy)' /\ LateOK(cmd[c])'
    BY <1>1, <1>5, <2>1 DEF CommandOK, ConfigOK, Bounded, LateOK
  <2>3. cmd[c].pc # "idle" => Bounded(cmd[c].key, cmd[c].found)'
    BY <1>1, <1>5, <2>1 DEF CommandOK, Bounded
  <2> QED BY <1>1, <2>1, <2>2, <2>3 DEF CommandOK
<1> QED BY <1>4, <1>6, <1>7 DEF IInv

\* A record an hour later is not fresh, and says what it said.
LEMMA AgedEntry ==
  ASSUME NEW e \in Entry
  PROVE  Aged(e) \in Entry /\ Aged(e).checked # "fresh" /\ Aged(e).review = e.review
  BY DEF Aged, Entry

\* Records age in the hour in which revocations do.
LEMMA StepHour ==
  ASSUME IInv, HourPasses
  PROVE  IInv'
<1>1. /\ UNCHANGED <<dir, vault>>
      /\ config' = [k \in Keys |-> Aged(config[k])]
      /\ cmd' = [c \in Cmds |-> [cmd[c] EXCEPT !.copy = [k \in Keys |-> Aged(@[k])],
                                               !.found = Aged(@)]]
      /\ registry' = [k \in Keys |-> [registry[k] EXCEPT
                                        !.revoked = IF @ = "recent" THEN "old" ELSE @]]
  BY DEF HourPasses
<1>2. /\ registry' \in [Keys -> [review: Reviews, flagged: {"no", "yes"},
                                 revoked: {"no", "recent", "old"}]]
      /\ \A k \in Keys : registry'[k].revoked # "no" <=> registry'[k].review = "revoked"
  BY <1>1 DEF IInv, Types
<1>3. ConfigOK(config)'
  BY <1>1, AgedEntry DEF IInv, ConfigOK, Bounded
<1>4. ASSUME NEW c \in Cmds PROVE cmd'[c] \in Command /\ CommandOK(cmd[c])'
  <2>1. CommandOK(cmd[c]) /\ cmd[c] \in Command
    BY DEF IInv, Types
  <2>2. PICK copy \in [Keys -> Entry] : copy = [k \in Keys |-> Aged(cmd[c].copy[k])]
    BY <2>1, AgedEntry DEF Command
  <2>3. PICK found \in Entry : found = Aged(cmd[c].found)
    BY <2>1, AgedEntry DEF Command
  <2>4. /\ \A k \in Keys : /\ copy[k].checked # "fresh"
                           /\ copy[k].review = cmd[c].copy[k].review
        /\ found.checked # "fresh"
    BY <2>1, <2>2, <2>3, AgedEntry DEF Command
  <2>5. PICK r \in Command : r = [cmd[c] EXCEPT !.copy = copy, !.found = found]
    BY <2>1 DEF Command
  <2>6. cmd'[c] = r
    BY <1>1, <2>1, <2>2, <2>3, <2>5 DEF Command
  <2>7. /\ r.pc = cmd[c].pc /\ r.key = cmd[c].key /\ r.copy = copy /\ r.found = found
        /\ r.late = cmd[c].late /\ r.check = cmd[c].check
    BY <2>1, <2>5 DEF Command
  <2>8. ConfigOK(r.copy)' /\ Bounded(r.key, r.found)'
    BY <2>4, <2>7 DEF ConfigOK, Bounded
  <2>9. LateOK(r)
    BY <2>1, <2>4, <2>7 DEF CommandOK, LateOK
  <2> QED BY <2>1, <2>6, <2>7, <2>8, <2>9 DEF CommandOK, LateOK, ConfigOK, Bounded
<1>5. Types'
  BY <1>1, <1>2, <1>4 DEF IInv, Types
<1> QED BY <1>3, <1>4, <1>5 DEF IInv

--------------------------------------------------------------------------------
(* The revocation cache *)

\* Nothing installed, no command.
LEMMA InvInit == Init => IInv
<1> SUFFICES ASSUME Init PROVE IInv
  OBVIOUS
<1>1. ConfigOK(config)
  BY Blanks DEF Init, ConfigOK, Bounded
<1>2. Types
  BY Blanks DEF Init, Types, Contents, Reviews
<1>3. \A c \in Cmds : cmd[c] = NoCmd
  BY DEF Init
<1> QED BY <1>1, <1>2, <1>3, IdleOK DEF IInv

\* What an unpacking that does not end leaves is a content of a directory.
LEMMA LeftBehind ==
  ASSUME IInv, NEW c \in Cmds, Leaves(c)
  PROVE  dir' \in [Keys -> Contents]
BY DEF Leaves, IInv, Types, Torn, Contents

\* The steps of a command that is given.
LEMMA StepCommand ==
  ASSUME IInv, NEW c \in Cmds, CommandStep(c) \/ InstallThrows(c) \/ Killed(c)
  PROVE  IInv'
<1>1. ConfigOK(config) /\ dir \in [Keys -> Contents] /\ vault \in [Keys -> SUBSET Names]
  BY Found
<1>2. ASSUME UninstallVault(c) \/ AgentEnds(c) PROVE IInv'
  <2>1. Ends(c) /\ UNCHANGED <<config, dir, registry>> /\ vault' \in [Keys -> SUBSET Names]
    BY <1>1, <1>2 DEF UninstallVault, AgentEnds, disk
  <2> QED BY <1>1, <2>1, CommandEnds
<1>3. ASSUME InstallThrows(c) \/ Killed(c) PROVE IInv'
  <2>1. Ends(c) /\ UNCHANGED <<config, vault, registry>> /\ Leaves(c)
    BY <1>3 DEF InstallThrows, Killed
  <2> QED BY <1>1, <2>1, LeftBehind, CommandEnds
<1> QED BY <1>2, <1>3, StepInstallResolve, StepInstallFiles, StepInstallSaves, StepUninstallRecord,
           StepCheck, StepSecrets, StepExecute DEF CommandStep

\* Commands that are given.
LEMMA StepGiven ==
  ASSUME IInv, NEW c \in Cmds, NEW k \in Keys,
         \/ \E pkg \in Packages, force \in {"no", "yes"} : Install(c, k, pkg, force)
         \/ Update(c, k)
         \/ \E kind \in {"run", "show"}, exact \in {"no", "yes"} : Run(c, k, kind, exact)
  PROVE  IInv'
<1>1. ConfigOK(config) /\ dir \in [Keys -> Contents] /\ vault \in [Keys -> SUBSET Names]
  BY Found
<1>2. UNCHANGED <<config, dir, vault, registry>>
  BY DEF Install, Update, Run, disk
<1>3. ASSUME NEW pkg \in Packages, NEW force \in {"no", "yes"}, Install(c, k, pkg, force)
      PROVE  IInv'
  <2>1. Begin(c, "install", "resolve", k, pkg, "none")
    BY <1>3 DEF Install
  <2> QED BY <1>1, <1>2, <2>1, CommandBegins DEF Contents
<1>4. ASSUME NEW kind \in {"run", "show"}, NEW exact \in {"no", "yes"}, Run(c, k, kind, exact)
      PROVE  IInv'
  <2>1. Begin(c, kind, "check", k, "none", dir[k]) /\ dir[k] \in Contents
    BY <1>1, <1>4 DEF Run
  <2> QED BY <1>1, <1>2, <2>1, CommandBegins
<1> QED BY <1>3, <1>4 DEF Update, Packages

\* Every step keeps the invariant.
LEMMA InvStep == IInv /\ [Next]_vars => IInv'
<1> SUFFICES ASSUME IInv, [Next]_vars PROVE IInv'
  OBVIOUS
<1>1. ASSUME UNCHANGED vars PROVE IInv'
  BY <1>1 DEF vars, disk, IInv, Types, CommandOK, ConfigOK, Bounded, LateOK
<1> QED BY <1>1, StepCommand, StepGiven, StepUninstall, StepSandbox, StepEnv, StepRegistry, StepHour
        DEF Next

\* The inductive invariant holds in every reachable state.
THEOREM Invariance == Spec => []IInv
  BY InvInit, InvStep, PTL DEF Spec

\* A record that calls itself fresh is at most an hour behind the registry, and
\* an agent revoked for longer starts only while the registry is unreachable.
THEOREM RevocationsArrive == Spec => []RevocationBounded
<1>1. IInv => RevocationBounded
  BY DEF IInv, ConfigOK, CommandOK, LateOK, RevocationBounded
<1> QED BY <1>1, Invariance, PTL

--------------------------------------------------------------------------------
(* Commands given one after the other *)

\* Records and files agree, or an unpacking left the directory torn, except for the package
\* that an install has put there or an uninstall removed and not recorded yet; the copy of
\* a command has the packages of the config it will overwrite.
SoloInv ==
  /\ \A k \in Keys : \/ InStep(k)
                     \/ \E c \in Cmds : cmd[c].pc \in {"record", "unrecord"} /\ cmd[c].key = k
  /\ \A c \in Cmds : cmd[c].pc \notin {"idle", "vault"} =>
       \A k \in Keys : cmd[c].copy[k].pkg = config[k].pkg
  /\ \A c \in Cmds : cmd[c].pc = "record" => dir[cmd[c].key] = cmd[c].found.pkg
  /\ \A c \in Cmds : cmd[c].pc = "unrecord" => dir[cmd[c].key] = "none"

\* A set of at most one element.
LEMMA AtMostOne ==
  ASSUME NEW S \in SUBSET Cmds, Cardinality(S) <= 1, NEW a \in S, NEW b \in S
  PROVE  a = b
<1>1. IsFiniteSet(S)
  BY FS_Subset, ConstantsAssumption
<1>2. Cardinality(S) \in Nat /\ Cardinality(S) # 0
  BY <1>1, FS_CardinalityType, FS_EmptySet
<1>3. Cardinality(S) = 1
  BY <1>2
<1>4. PICK x : S = {x}
  BY <1>1, <1>3, FS_Singleton
<1> QED BY <1>4

\* At most one command runs, before a step and after it.
LEMMA OneCommand ==
  ASSUME NEW a \in Cmds, NEW b \in Cmds
  PROVE  /\ Solo /\ cmd[a] # NoCmd /\ cmd[b] # NoCmd => a = b
         /\ Solo' /\ cmd'[a] # NoCmd /\ cmd'[b] # NoCmd => a = b
<1>1. ASSUME Solo, cmd[a] # NoCmd, cmd[b] # NoCmd PROVE a = b
  <2> DEFINE S == {c \in Cmds : cmd[c] # NoCmd}
  <2>1. S \in SUBSET Cmds /\ Cardinality(S) <= 1 /\ a \in S /\ b \in S
    BY <1>1 DEF Solo
  <2> HIDE DEF S
  <2> QED BY <2>1, AtMostOne
<1>2. ASSUME Solo', cmd'[a] # NoCmd, cmd'[b] # NoCmd PROVE a = b
  <2> DEFINE S == {c \in Cmds : cmd'[c] # NoCmd}
  <2>1. S \in SUBSET Cmds /\ Cardinality(S) <= 1 /\ a \in S /\ b \in S
    BY <1>2 DEF Solo
  <2> HIDE DEF S
  <2> QED BY <2>1, AtMostOne
<1> QED BY <1>1, <1>2

\* While command c runs, no other slot is taken, before and after its step.
LEMMA SoloMoves ==
  ASSUME IInv, SoloInv, Solo, Solo', NEW c \in Cmds,
         \A o \in Cmds : o # c => cmd'[o] = cmd[o],
         cmd[c] # NoCmd \/ cmd'[c] # NoCmd,
         \A k \in Keys : InStep(k)'
                         \/ (cmd'[c].pc \in {"record", "unrecord"} /\ cmd'[c].key = k),
         cmd'[c].pc \notin {"idle", "vault"} =>
           \A k \in Keys : cmd'[c].copy[k].pkg = config'[k].pkg,
         cmd'[c].pc = "record" => dir'[cmd'[c].key] = cmd'[c].found.pkg,
         cmd'[c].pc = "unrecord" => dir'[cmd'[c].key] = "none"
  PROVE  SoloInv'
<1>1. \A o \in Cmds : o # c => cmd'[o] = NoCmd
  BY OneCommand
<1>2. \A o \in Cmds : o # c => cmd'[o].pc = "idle"
  BY <1>1, Blanks
<1> QED BY <1>2 DEF SoloInv

\* What a running command can rely on.
LEMMA SoloFacts ==
  ASSUME IInv, SoloInv, Solo, NEW c \in Cmds, cmd[c].pc # "idle"
  PROVE  /\ cmd[c] # NoCmd /\ cmd[c] \in Command /\ cmd[c].key \in Keys
         /\ \A k \in Keys : InStep(k)
                            \/ (cmd[c].pc \in {"record", "unrecord"} /\ cmd[c].key = k)
         /\ cmd[c].pc # "vault" => \A k \in Keys : cmd[c].copy[k].pkg = config[k].pkg
         /\ cmd[c].pc = "record" => dir[cmd[c].key] = cmd[c].found.pkg
         /\ cmd[c].pc = "unrecord" => dir[cmd[c].key] = "none"
         /\ cmd \in [Cmds -> Command] /\ config \in [Keys -> Entry] /\ dir \in [Keys -> Contents]
<1>1. cmd[c] # NoCmd
  BY Blanks
<1>2. \A o \in Cmds : cmd[o].pc # "idle" => o = c
  BY <1>1, Blanks, OneCommand
<1>3. \A k \in Keys : InStep(k)
                      \/ (cmd[c].pc \in {"record", "unrecord"} /\ cmd[c].key = k)
  BY <1>2 DEF SoloInv
<1> QED BY <1>1, <1>3 DEF SoloInv, IInv, Types, CommandOK, ConfigOK

\* A command that ends without writing a package leaves records and files in step, also when
\* it leaves a directory torn.
LEMMA SoloEnds ==
  ASSUME IInv, SoloInv, Solo, Solo', NEW c \in Cmds, Ends(c),
         cmd[c].pc \notin {"idle", "record", "unrecord"},
         \A k \in Keys : dir'[k] = dir[k] \/ dir'[k] \in Torn,
         \A k \in Keys : config'[k].pkg = config[k].pkg
  PROVE  SoloInv'
<1>1. /\ cmd[c] # NoCmd /\ cmd \in [Cmds -> Command]
      /\ \A k \in Keys : InStep(k)
  BY SoloFacts
<1>2. cmd'[c] = NoCmd /\ \A o \in Cmds : o # c => cmd'[o] = cmd[o]
  BY <1>1 DEF Ends
<1>3. \A k \in Keys : InStep(k)'
  BY <1>1 DEF InStep
<1> QED BY <1>1, <1>2, <1>3, SoloMoves, Blanks

\* An install that throws, alone.
LEMMA SoloThrows ==
  ASSUME IInv, SoloInv, Solo, Solo', NEW c \in Cmds, InstallThrows(c)
  PROVE  SoloInv'
<1>1. dir \in [Keys -> Contents]
  BY Found
<1>2. \A k \in Keys : dir'[k] = dir[k] \/ dir'[k] \in Torn
  BY <1>1 DEF InstallThrows, Leaves
<1>3. /\ Ends(c) /\ config' = config
      /\ cmd[c].pc \notin {"idle", "record", "unrecord"}
  BY DEF InstallThrows
<1> QED BY <1>2, <1>3, SoloEnds

\* The steps of an install, alone.
LEMMA SoloInstall ==
  ASSUME IInv, IInv', SoloInv, Solo, Solo', NEW c \in Cmds,
         \/ InstallResolve(c) \/ InstallClear(c) \/ InstallUnpack(c) \/ InstallRecord(c)
         \/ InstallGrants(c)
  PROVE  SoloInv'
<1>1. cmd[c].pc \notin {"idle", "vault"}
  BY DEF InstallResolve, InstallClear, InstallUnpack, InstallRecord, InstallGrants
<1>2. /\ cmd[c] # NoCmd /\ cmd[c] \in Command /\ cmd[c].key \in Keys
      /\ \A k \in Keys : InStep(k)
                         \/ (cmd[c].pc \in {"record", "unrecord"} /\ cmd[c].key = k)
      /\ \A k \in Keys : cmd[c].copy[k].pkg = config[k].pkg
      /\ cmd[c].pc = "record" => dir[cmd[c].key] = cmd[c].found.pkg
      /\ cmd \in [Cmds -> Command] /\ config \in [Keys -> Entry] /\ dir \in [Keys -> Contents]
  BY <1>1, SoloFacts
<1>3. cmd[c].copy \in [Keys -> Entry] /\ cmd[c].found \in Entry
  BY <1>2 DEF Command
<1>4. CASE InstallResolve(c)
  <2>1. UNCHANGED <<config, dir>> /\ cmd[c].pc = "resolve"
    BY <1>4 DEF InstallResolve, disk
  <2>2. CASE Ends(c)
    BY <2>1, <2>2, SoloEnds
  <2>3. CASE ~Ends(c)
    <3>1. PICK r \in Command : /\ r.pc = "clear" /\ r.copy = cmd[c].copy
                               /\ cmd' = [cmd EXCEPT ![c] = r]
      BY <1>4, <2>3, Resolved
    <3>2. cmd'[c] = r /\ \A o \in Cmds : o # c => cmd'[o] = cmd[o]
      BY <1>2, <3>1
    <3>3. \A k \in Keys : InStep(k)'
      BY <1>2, <2>1 DEF InStep
    <3> QED BY <1>2, <2>1, <3>1, <3>2, <3>3, SoloMoves
  <2> QED BY <2>2, <2>3
<1>5. CASE InstallClear(c)
  <2>1. /\ \A o \in Cmds : o # c => cmd'[o] = cmd[o]
        /\ cmd'[c].pc = "unpack" /\ cmd'[c].copy = cmd[c].copy /\ cmd'[c].key = cmd[c].key
    BY <1>2, <1>5 DEF InstallClear, Goto, Command
  <2>2. /\ config' = config /\ cmd[c].pc = "clear" /\ dir'[cmd[c].key] = "empty"
        /\ \A k \in Keys : k # cmd[c].key => dir'[k] = dir[k]
    BY <1>2, <1>5 DEF InstallClear
  <2>3. \A k \in Keys : InStep(k)'
    BY <1>2, <2>2 DEF InStep, Torn
  <2> QED BY <1>2, <2>1, <2>2, <2>3, SoloMoves
<1>6. CASE InstallUnpack(c)
  <2>1. /\ \A o \in Cmds : o # c => cmd'[o] = cmd[o]
        /\ cmd'[c].pc = "record" /\ cmd'[c].copy = cmd[c].copy /\ cmd'[c].key = cmd[c].key
        /\ cmd'[c].found = cmd[c].found
    BY <1>2, <1>6 DEF InstallUnpack, Goto, Command
  <2>2. /\ config' = config /\ cmd[c].pc = "unpack" /\ dir'[cmd[c].key] = cmd[c].found.pkg
        /\ \A k \in Keys : k # cmd[c].key => dir'[k] = dir[k]
    BY <1>2, <1>6 DEF InstallUnpack
  <2>3. \A k \in Keys : k # cmd[c].key => InStep(k)'
    BY <1>2, <2>2 DEF InStep
  <2> QED BY <1>2, <2>1, <2>2, <2>3, SoloMoves
<1>7. CASE InstallRecord(c)
  <2>1. /\ \A o \in Cmds : o # c => cmd'[o] = cmd[o]
        /\ cmd'[c].pc = "grants" /\ cmd'[c].copy = config'
    BY <1>2, <1>7 DEF InstallRecord, SaveCopy, Command
  <2>2. dir' = dir /\ cmd[c].pc = "record"
    BY <1>7 DEF InstallRecord
  <2>3. /\ config'[cmd[c].key].pkg = cmd[c].found.pkg
        /\ \A k \in Keys : k # cmd[c].key => config'[k] = cmd[c].copy[k]
    BY <1>2, <1>3, <1>7 DEF InstallRecord, SaveCopy, Entry
  <2>4. \A k \in Keys : InStep(k)'
    BY <1>2, <2>2, <2>3 DEF InStep
  <2> QED BY <1>2, <2>1, <2>2, <2>4, SoloMoves
<1>8. CASE InstallGrants(c)
  <2>1. Ends(c) /\ dir' = dir /\ cmd[c].pc = "grants"
    BY <1>8 DEF InstallGrants, SaveCopy, Ends
  <2>2. \A k \in Keys : config'[k].pkg = cmd[c].copy[k].pkg
    BY <1>2, <1>3, <1>8 DEF InstallGrants, SaveCopy, Entry
  <2> QED BY <1>2, <2>1, <2>2, SoloEnds
<1> QED BY <1>4, <1>5, <1>6, <1>7, <1>8

\* A status check writes the status of a record, never its package.
LEMMA RefreshKeepsPackage ==
  ASSUME IInv, NEW k \in Keys, NEW review, recordStatusRefresh(k, review)
  PROVE  \A j \in Keys : config'[j].pkg = config[j].pkg
<1>1. config \in [Keys -> Entry]
  BY DEF IInv, ConfigOK
<1> QED BY <1>1 DEF recordStatusRefresh, Entry

\* The steps of a run and of an uninstall, alone.
LEMMA SoloRun ==
  ASSUME IInv, IInv', SoloInv, Solo, Solo', NEW c \in Cmds,
         \/ CheckFresh(c) \/ CheckBlocked(c) \/ CheckConfirmed(c)
         \/ CheckOffline(c)
         \/ GrantSecrets(c) \/ KeepSecrets(c) \/ Execute(c) \/ AgentEnds(c) \/ UninstallVault(c)
  PROVE  SoloInv'
<1>1. /\ cmd[c].pc \notin {"idle", "record", "unrecord"} /\ dir' = dir
      /\ cmd[c].pc = "vault" => UninstallVault(c)
  BY DEF CheckFresh, CheckBlocked, CheckConfirmed, CheckOffline, GrantSecrets, KeepSecrets, Execute, AgentEnds,
         UninstallVault, disk
<1>2. /\ cmd[c] # NoCmd /\ cmd[c] \in Command /\ cmd[c].key \in Keys
      /\ \A k \in Keys : InStep(k)
      /\ cmd[c].pc # "vault" => \A k \in Keys : cmd[c].copy[k].pkg = config[k].pkg
      /\ cmd \in [Cmds -> Command]
  BY <1>1, SoloFacts
<1>3. cmd[c].copy \in [Keys -> Entry]
  BY <1>2 DEF Command
<1>4. \A k \in Keys : config'[k].pkg = config[k].pkg
  <2>1. CASE CheckBlocked(c) \/ CheckConfirmed(c)
    BY <1>2, <2>1, RefreshKeepsPackage DEF CheckBlocked, CheckConfirmed
  <2>2. CASE GrantSecrets(c)
    <3>1. PICK granted : SaveCopy(c, [cmd[c].copy EXCEPT ![cmd[c].key].secrets = @ \cup granted],
                                  "exec")
      BY <2>2 DEF GrantSecrets
    <3>2. \A k \in Keys : config'[k].pkg = cmd[c].copy[k].pkg
      BY <1>2, <1>3, <3>1 DEF SaveCopy, Entry
    <3> QED BY <1>2, <2>2, <3>2 DEF GrantSecrets
  <2>3. CASE config' = config
    BY <2>3
  <2> QED BY <2>1, <2>2, <2>3
       DEF CheckFresh, CheckOffline, KeepSecrets, Execute, AgentEnds, UninstallVault, disk
<1>5. CASE Ends(c)
  BY <1>1, <1>4, <1>5, SoloEnds
<1>6. CASE ~Ends(c)
  <2>1. /\ \A o \in Cmds : o # c => cmd'[o] = cmd[o]
        /\ cmd'[c].pc \in {"secrets", "exec", "running"}
        /\ cmd'[c].copy = cmd[c].copy \/ cmd'[c].copy = config'
        /\ cmd[c].pc # "vault"
    <3>1. CASE CheckFresh(c) \/ CheckConfirmed(c) \/ CheckOffline(c)
      BY <1>2, <1>6, <3>1 DEF CheckFresh, CheckConfirmed, CheckOffline, Checked, Ends, Command
    <3>2. CASE GrantSecrets(c)
      <4>1. PICK copy : SaveCopy(c, copy, "exec") /\ cmd[c].pc = "secrets"
        BY <3>2 DEF GrantSecrets
      <4> QED BY <1>2, <4>1 DEF SaveCopy, Command
    <3>3. CASE KeepSecrets(c)
      BY <1>2, <3>3 DEF KeepSecrets, Goto, Command
    <3>4. CASE Execute(c)
      BY <1>2, <1>6, <3>4 DEF Execute, Command
    <3> QED BY <1>6, <3>1, <3>2, <3>3, <3>4 DEF CheckBlocked, AgentEnds, UninstallVault
  <2>2. \A k \in Keys : InStep(k)'
    BY <1>1, <1>2, <1>4 DEF InStep
  <2> QED BY <1>1, <1>2, <1>4, <2>1, <2>2, SoloMoves
<1> QED BY <1>5, <1>6

\* The record of an uninstall goes, alone.
LEMMA SoloUnrecords ==
  ASSUME IInv, SoloInv, Solo, Solo', NEW c \in Cmds, UninstallRecord(c)
  PROVE  SoloInv'
<1>1. cmd[c].pc = "unrecord" /\ dir' = dir
  BY DEF UninstallRecord
<1>2. /\ cmd[c] # NoCmd /\ cmd[c] \in Command /\ cmd[c].key \in Keys
      /\ \A k \in Keys : InStep(k) \/ cmd[c].key = k
      /\ \A k \in Keys : cmd[c].copy[k].pkg = config[k].pkg
      /\ dir[cmd[c].key] = "none" /\ cmd \in [Cmds -> Command]
  BY <1>1, SoloFacts
<1>3. PICK e \in Entry : /\ e.pkg = "none"
                        /\ SaveCopy(c, [cmd[c].copy EXCEPT ![cmd[c].key] = e], "vault")
  BY Unrecorded
<1>4. cmd[c].copy \in [Keys -> Entry]
  BY <1>2 DEF Command
<1>5. /\ config'[cmd[c].key].pkg = "none"
      /\ \A k \in Keys : k # cmd[c].key => config'[k].pkg = config[k].pkg
  BY <1>2, <1>3, <1>4 DEF SaveCopy
<1>6. \A k \in Keys : InStep(k)'
  BY <1>1, <1>2, <1>5 DEF InStep
<1>7. cmd'[c].pc = "vault" /\ \A o \in Cmds : o # c => cmd'[o] = cmd[o]
  BY <1>2, <1>3 DEF SaveCopy, Command
<1> QED BY <1>2, <1>6, <1>7, SoloMoves

\* A command that is given, alone.
LEMMA SoloBegins ==
  ASSUME IInv, SoloInv, Solo, Solo', NEW c \in Cmds, NEW k \in Keys,
         NEW kind, NEW pc \in {"resolve", "unrecord", "check"}, NEW pkg, NEW files,
         Begin(c, kind, pc, k, pkg, files),
         IF pc = "unrecord" THEN Uninstall(c, k) ELSE UNCHANGED <<config, dir>>
  PROVE  SoloInv'
<1>1. cmd \in [Cmds -> Command] /\ config \in [Keys -> Entry] /\ dir \in [Keys -> Contents]
  BY DEF IInv, Types, ConfigOK
<1>2. /\ cmd[c] = NoCmd
      /\ \A o \in Cmds : o # c => cmd'[o] = cmd[o]
      /\ cmd'[c].pc = pc /\ cmd'[c].copy = config /\ cmd'[c].key = k
  BY <1>1, Blanks DEF Begin, Command
<1>3. cmd'[c] # NoCmd
  BY <1>2, Blanks
<1>4. \A o \in Cmds : cmd[o] = NoCmd
  BY <1>2, <1>3, OneCommand
<1>5. \A j \in Keys : InStep(j)
  BY <1>4, Blanks DEF SoloInv
<1>6. CASE pc = "unrecord"
  <2>1. config' = config /\ dir'[k] = "none" /\ \A j \in Keys : j # k => dir'[j] = dir[j]
    BY <1>1, <1>6 DEF Uninstall
  <2>2. \A j \in Keys : j # k => InStep(j)'
    BY <1>5, <2>1 DEF InStep
  <2> QED BY <1>2, <1>3, <1>6, <2>1, <2>2, SoloMoves
<1>7. CASE pc # "unrecord"
  <2>1. \A j \in Keys : InStep(j)'
    BY <1>5, <1>7 DEF InStep
  <2> QED BY <1>2, <1>3, <1>7, <2>1, SoloMoves
<1> QED BY <1>6, <1>7

\* install, update, uninstall, run and sandbox show, alone.
LEMMA SoloGiven ==
  ASSUME IInv, SoloInv, Solo, Solo', NEW c \in Cmds, NEW k \in Keys,
         \/ \E pkg \in Packages, force \in {"no", "yes"} : Install(c, k, pkg, force)
         \/ Update(c, k) \/ Uninstall(c, k)
         \/ \E kind \in {"run", "show"}, exact \in {"no", "yes"} : Run(c, k, kind, exact)
  PROVE  SoloInv'
<1>1. ASSUME NEW pkg \in Packages, NEW force \in {"no", "yes"}, Install(c, k, pkg, force)
      PROVE  SoloInv'
  <2>1. Begin(c, "install", "resolve", k, pkg, "none") /\ UNCHANGED <<config, dir>>
    BY <1>1 DEF Install, disk
  <2> QED BY <2>1, SoloBegins
<1>2. CASE Uninstall(c, k)
  <2>1. Begin(c, "uninstall", "unrecord", k, "none", "none")
    BY <1>2 DEF Uninstall
  <2> QED BY <1>2, <2>1, SoloBegins
<1>3. ASSUME NEW kind \in {"run", "show"}, NEW exact \in {"no", "yes"}, Run(c, k, kind, exact)
      PROVE  SoloInv'
  <2>1. PICK files : Begin(c, kind, "check", k, "none", files) /\ UNCHANGED <<config, dir>>
    BY <1>3 DEF Run, disk
  <2> QED BY <2>1, SoloBegins
<1> QED BY <1>1, <1>2, <1>3 DEF Update, Packages

\* Every other step leaves the packages of records, copies and directories alone.
LEMMA SoloOthers ==
  ASSUME IInv, IInv', SoloInv,
         \/ \E k \in Keys : \/ \E n \in Names : EnvSet(k, n) \/ EnvDelete(k, n)
                            \/ \E mode \in {"process", "container"} : SandboxSet(k, mode)
                            \/ SandboxReset(k) \/ Revoke(k) \/ Rescan(k)
         \/ HourPasses \/ UNCHANGED vars
  PROVE  SoloInv'
<1>1. /\ cmd \in [Cmds -> Command] /\ config \in [Keys -> Entry]
      /\ \A c \in Cmds : cmd[c].copy \in [Keys -> Entry] /\ cmd[c].found \in Entry
  BY DEF IInv, Types, ConfigOK, Command
<1>2. dir' = dir
  BY DEF EnvSet, EnvDelete, SandboxSet, SandboxReset, Revoke, Rescan, HourPasses, vars, disk
<1>3. \A e \in Entry : Aged(e).pkg = e.pkg
  BY DEF Aged, Entry
<1>4. \A k \in Keys : config'[k].pkg = config[k].pkg
  <2>1. CASE HourPasses
    BY <1>1, <1>3, <2>1 DEF HourPasses
  <2>2. ASSUME NEW k \in Keys,
               SandboxReset(k) \/ \E mode \in {"process", "container"} : SandboxSet(k, mode)
        PROVE  \A j \in Keys : config'[j].pkg = config[j].pkg
    <3>1. PICK o \in Override : config' = [config EXCEPT ![k].override = o]
      BY <2>2, SandboxWrites
    <3> QED BY <1>1, <3>1 DEF Entry
  <2>3. CASE config' = config
    BY <2>3
  <2> QED BY <2>1, <2>2, <2>3 DEF EnvSet, EnvDelete, Revoke, Rescan, vars, disk
<1>5. \A c \in Cmds : /\ cmd'[c].pc = cmd[c].pc /\ cmd'[c].key = cmd[c].key
                      /\ cmd'[c].found.pkg = cmd[c].found.pkg
                      /\ \A k \in Keys : cmd'[c].copy[k].pkg = cmd[c].copy[k].pkg
  <2>1. CASE HourPasses
    <3>1. SUFFICES ASSUME NEW c \in Cmds
                   PROVE  /\ cmd'[c].pc = cmd[c].pc /\ cmd'[c].key = cmd[c].key
                          /\ cmd'[c].found.pkg = cmd[c].found.pkg
                          /\ \A k \in Keys : cmd'[c].copy[k].pkg = cmd[c].copy[k].pkg
      OBVIOUS
    <3>2. PICK copy, found : /\ copy = [k \in Keys |-> Aged(cmd[c].copy[k])]
                             /\ found = Aged(cmd[c].found)
      OBVIOUS
    <3>3. cmd'[c] = [cmd[c] EXCEPT !.copy = copy, !.found = found]
      BY <2>1, <3>2 DEF HourPasses
    <3>4. /\ cmd'[c].pc = cmd[c].pc /\ cmd'[c].key = cmd[c].key
          /\ cmd'[c].copy = copy /\ cmd'[c].found = found
      BY <1>1, <3>3 DEF Command
    <3> QED BY <1>1, <1>3, <3>2, <3>4
  <2>2. CASE cmd' = cmd
    BY <2>2
  <2> QED BY <2>1, <2>2 DEF EnvSet, EnvDelete, SandboxSet, SandboxReset, Revoke, Rescan, vars
<1> QED BY <1>2, <1>4, <1>5 DEF SoloInv, InStep

\* While commands come one after the other and none is killed, every step keeps
\* records and files in step.
LEMMA SoloStep == IInv /\ SoloInv /\ Solo /\ Solo' /\ [Next]_vars => SoloInv'
<1> SUFFICES ASSUME IInv, SoloInv, Solo, Solo', [Next]_vars PROVE SoloInv'
  OBVIOUS
<1>1. IInv'
  BY InvStep
<1>2. ASSUME NEW c \in Cmds PROVE ~Killed(c)
  <2>1. kills = 0 /\ kills' = 0
    BY DEF Solo
  <2> QED BY <2>1 DEF Killed, Kill
<1>3. ASSUME NEW c \in Cmds, CommandStep(c) PROVE SoloInv'
  BY <1>1, <1>3, SoloInstall, SoloRun, SoloUnrecords DEF CommandStep
<1> QED BY <1>1, <1>2, <1>3, SoloThrows, SoloGiven, SoloOthers DEF Next

\* Commands given one after the other, none killed, leave every recorded package the one in
\* its directory, but where an extraction threw: there they leave a torn directory under the
\* record of the earlier install.
THEOREM RecordsMatchFiles == Spec => SoloConsistent
<1>1. Init => SoloInv
  BY Blanks DEF Init, SoloInv, InStep
<1>2. SoloInv => Consistent
  BY Blanks DEF SoloInv, Consistent
<1> QED BY <1>1, <1>2, SoloStep, Invariance, PTL DEF Spec, SoloConsistent

(***************************************************************************)
(* PackageArchive                                                          *)
(***************************************************************************)

\* A signature file.
SignatureOK(s) ==
  s = [scheme |-> s.scheme, publicKey |-> s.publicKey, publicKeyId |-> s.publicKeyId,
       sha256 |-> s.sha256, version |-> s.version, signature |-> s.signature]

\* A publication: its signature is one that a holder of the key made.
PublicationOK(p, made) ==
  /\ p.entries \in Seq(ArchiveEntry)
  /\ SignatureOK(p.sig)
  /\ p.sig.signature \in made

\* A download: what was verified passed the check, and nothing else is unpacked.
DownloadOK ==
  /\ got = [state |-> got.state, entries |-> got.entries, sig |-> got.sig]
  /\ got.entries \in Seq(ArchiveEntry)
  /\ got.state \in {"downloaded", "verified"} => got.sig.signature \in signed
  /\ got.state = "verified" => verifySignatureFileStrict(got.sig, got.entries)
  /\ got.state # "verified" => ex = NoExtraction /\ kept.verdict = "none"
  /\ kept = [sig |-> kept.sig, archive |-> kept.archive, verdict |-> kept.verdict]

\* An extraction: its fields, and the ones whose type the proof needs.
Extraction(x) ==
  /\ x = [parser |-> x.parser, next |-> x.next, open |-> x.open, done |-> x.done,
          refused |-> x.refused, files |-> x.files, total |-> x.total, pending |-> x.pending,
          candidates |-> x.candidates, settled |-> x.settled, early |-> x.early, listed |-> x.listed]
  /\ x.files \in Nat /\ x.total \in Nat /\ x.candidates \in Seq(Paths)

\* Every entry the parser handed over is in one place, unless it is a directory.
Placed(x, E) ==
  /\ x.next \in 1 .. Len(E) + 1
  /\ x.open \cup x.done \cup x.refused \subseteq 1 .. x.next - 1
  /\ x.open \cap x.done = {}
  /\ \A i \in 1 .. x.next - 1 : i \notin x.open \cup x.done \cup x.refused => E[i].type = "Directory"
  /\ \A i \in x.open \cup x.done : E[i].type = "File" /\ E[i].size <= MaxSingleFileBytes
  /\ x.parser = "ended" => x.next = Len(E) + 1
  /\ x.candidates = <<>> => \A i \in x.done : ~ IsManifest(E[i].path)

\* The counters are at least what is written, and what is written is within the limits.
Within(x, E) ==
  LET written == x.done \cup x.open
  IN  /\ Cardinality(written) <= x.files /\ Cardinality(written) <= MaxFiles
      /\ Bytes(E, written) <= x.total /\ Bytes(E, written) <= MaxTotalBytes

\* As long as the promise is not settled nothing was refused and the pending count
\* is that of the writes under way.
Awaits(x) ==
  x.settled = "no" => x.refused = {} /\ x.pending = Cardinality(x.open) /\ x.early = "no"

\* A promise resolved after the parser's end.
Truthful(x, E) ==
  x.early = "no" /\ x.settled \in {"ok", "missing", "invalid"} =>
    /\ x.parser = "ended" /\ x.open = {} /\ x.refused = {}
    /\ x.settled = "ok" => x.listed = listProjectFiles({E[i].path : i \in x.done})
    /\ x.settled = "missing" => x.candidates = <<>>

ExtractionOK(x, E) == Extraction(x) /\ Placed(x, E) /\ Within(x, E) /\ Awaits(x) /\ Truthful(x, E)

ArchiveInv ==
  /\ \A p \in packed : PublicationOK(p, signed)
  /\ DownloadOK
  /\ ExtractionOK(ex, got.entries)

--------------------------------------------------------------------------------
(* Sums over positions *)

\* Arithmetic.
LEMMA NumberFacts ==
  /\ \A a, b \in Nat : a + b \in Nat
  /\ \A a, b, c, d \in Nat : (a + b) + c = (a + c) + b
  /\ \A a, b \in Nat : a + 1 # b => (a + 1 < b <=> a < b)
  /\ \A a, b \in Nat : ~ (a < b) => b <= a
OBVIOUS

\* A set of numbers that is not empty has a least element.
LEMMA LeastNumber ==
  ASSUME NEW S \in SUBSET Nat, S # {}
  PROVE  \E n \in S : \A m \in S : n <= m
<1> DEFINE R == OpToRel(<, Nat)
<1>1. IsWellFoundedOn(R, Nat)
  BY NatLessThanWellFounded
<1>2. \A p, q \in Nat : p < q => <<p, q>> \in R
  BY DEF OpToRel
<1>3. PICK n \in S : \A m \in S : ~ (<<m, n>> \in R)
  <2> HIDE DEF R
  <2> QED BY <1>1, WFMin
<1> QED
  <2> HIDE DEF R
  <2> QED BY <1>2, <1>3, NumberFacts, Zenon

\* Induction, for the numbers in a set.
LEMMA InductionInSet ==
  ASSUME NEW S, 0 \in S, \A n \in Nat : n \in S => n + 1 \in S
  PROVE  \A n \in Nat : n \in S
<1> SUFFICES ASSUME ~ (Nat \subseteq S) PROVE FALSE
  OBVIOUS
<1>1. PICK n \in Nat \ S : \A m \in Nat \ S : n <= m
  BY LeastNumber
<1>2. n # 0
  OBVIOUS
<1>3. n - 1 \in Nat /\ n - 1 \in S
  BY <1>1, <1>2
<1>4. n \in S
  BY <1>3
<1> QED BY <1>1, <1>4

\* The running totals of a sequence of numbers up to some place.
Totals(d, N, f) == f \in [0 .. N -> Nat] /\ f[0] = 0 /\ \A n \in 0 .. N - 1 : f[n + 1] = f[n] + d[n + 1]

\* They exist up to every place ...
LEMMA TotalsUpTo ==
  ASSUME NEW d \in [Nat -> Nat]
  PROVE  \A N \in Nat : \E f : Totals(d, N, f)
<1> DEFINE S == {N \in Nat : \E f : Totals(d, N, f)}
<1>1. 0 \in S
  <2>1. Totals(d, 0, [n \in 0 .. 0 |-> 0])
    BY DEF Totals
  <2> QED BY <2>1
<1>2. ASSUME NEW N \in Nat, N \in S PROVE N + 1 \in S
  <2>1. PICK f : Totals(d, N, f)
    BY <1>2
  <2>2. PICK g : g = [n \in 0 .. N + 1 |-> IF n = N + 1 THEN f[N] + d[N + 1] ELSE f[n]]
    OBVIOUS
  <2>3. f[N] \in Nat /\ d[N + 1] \in Nat
    BY <2>1 DEF Totals
  <2>7. \A n \in 0 .. N + 1 : n = N + 1 \/ n \in 0 .. N
    OBVIOUS
  <2>8. \A n \in 0 .. N : f[n] \in Nat
    BY <2>1 DEF Totals
  <2>9. ASSUME NEW n \in 0 .. N + 1 PROVE g[n] \in Nat
    <3>1. g[n] = IF n = N + 1 THEN f[N] + d[N + 1] ELSE f[n]
      BY <2>2
    <3>2. f[N] + d[N + 1] \in Nat
      BY <2>3
    <3> QED BY <2>7, <2>8, <3>1, <3>2
  <2>4. g \in [0 .. N + 1 -> Nat] /\ g[0] = 0
    <3>1. 0 \in 0 .. N + 1 /\ 0 # N + 1
      OBVIOUS
    <3>2. g[0] = 0
      BY <2>1, <2>2, <3>1 DEF Totals
    <3> QED BY <2>2, <2>9, <3>2
  <2>5. ASSUME NEW n \in 0 .. N PROVE g[n + 1] = g[n] + d[n + 1]
    <3>1. CASE n = N
      BY <2>2, <3>1
    <3>2. CASE n # N
      BY <2>1, <2>2, <3>2 DEF Totals
    <3> QED BY <3>1, <3>2
  <2>6. Totals(d, N + 1, g)
    BY <2>4, <2>5 DEF Totals
  <2> QED BY <2>6
<1> HIDE DEF S
<1>3. \A N \in Nat : N \in S
  BY <1>1, <1>2, InductionInSet
<1> QED BY <1>3 DEF S

\* ... are unique ...
LEMMA TotalsAgree ==
  ASSUME NEW d \in [Nat -> Nat], NEW N \in Nat, NEW M \in Nat, NEW f, NEW g,
         Totals(d, N, f), Totals(d, M, g)
  PROVE  \A n \in Nat : n <= N /\ n <= M => f[n] = g[n]
<1> DEFINE S == {n \in Nat : n <= N /\ n <= M => f[n] = g[n]}
<1>1. 0 \in S
  BY DEF Totals
<1>2. ASSUME NEW n \in Nat, n \in S PROVE n + 1 \in S
  BY <1>2 DEF Totals
<1> HIDE DEF S
<1>3. \A n \in Nat : n \in S
  BY <1>1, <1>2, InductionInSet
<1> QED BY <1>3 DEF S

\* ... and so exist for all places at once.
LEMMA RunningTotals ==
  ASSUME NEW d \in [Nat -> Nat]
  PROVE  \E F \in [Nat -> Nat] : F[0] = 0 /\ \A n \in Nat : F[n + 1] = F[n] + d[n + 1]
<1> DEFINE U(N) == CHOOSE f : Totals(d, N, f)
<1>1. \A N \in Nat : Totals(d, N, U(N))
  BY TotalsUpTo
<1> HIDE DEF U
<1>2. PICK F : F = [n \in Nat |-> U(n)[n]]
  OBVIOUS
<1>3. F \in [Nat -> Nat] /\ F[0] = 0
  BY <1>1, <1>2 DEF Totals
<1>4. ASSUME NEW n \in Nat PROVE F[n + 1] = F[n] + d[n + 1]
  <2>1. Totals(d, n, U(n)) /\ Totals(d, n + 1, U(n + 1))
    BY <1>1
  <2>2. U(n)[n] = U(n + 1)[n]
    BY <2>1, TotalsAgree
  <2>3. U(n + 1)[n + 1] = U(n + 1)[n] + d[n + 1]
    BY <2>1 DEF Totals
  <2> QED BY <1>2, <2>2, <2>3
<1> QED BY <1>3, <1>4

\* The entries of an archive.
LEMMA EntryAt ==
  ASSUME NEW E \in Seq(ArchiveEntry), NEW n \in 1 .. Len(E)
  PROVE  /\ E[n] \in ArchiveEntry /\ E[n].size \in Nat /\ E[n].path \in Paths
         /\ E[n].type \in {"File", "Directory", "Link"}
<1>1. E[n] \in ArchiveEntry
  OBVIOUS
<1> QED
  BY <1>1 DEF ArchiveEntry

\* What the entry at a position adds.
SizeAt(entries, positions, n) == IF n \in positions THEN entries[n].size ELSE 0

\* What Bytes computes.
LEMMA BytesTotals ==
  ASSUME NEW E \in Seq(ArchiveEntry), NEW S, S \subseteq 1 .. Len(E)
  PROVE  \E F \in [Nat -> Nat] : /\ F[0] = 0
                                 /\ \A n \in Nat : F[n + 1] = F[n] + SizeAt(E, S, n + 1)
                                 /\ Bytes(E, S) = F[Len(E)]
<1> DEFINE Rec(f) == f = [n \in Nat |-> IF n = 0 THEN 0
                                        ELSE f[n - 1] + (IF n \in S THEN E[n].size ELSE 0)]
<1>1. PICK d : d = [n \in Nat |-> SizeAt(E, S, n)]
  OBVIOUS
<1>2. d \in [Nat -> Nat]
  <2>1. \A n \in Nat : SizeAt(E, S, n) \in Nat
    BY EntryAt DEF SizeAt
  <2> QED BY <1>1, <2>1
<1>3. PICK F \in [Nat -> Nat] : F[0] = 0 /\ \A n \in Nat : F[n + 1] = F[n] + d[n + 1]
  BY <1>2, RunningTotals
<1>4. Rec(F)
  <2>1. ASSUME NEW n \in Nat PROVE F[n] = IF n = 0 THEN 0 ELSE F[n - 1] + (IF n \in S THEN E[n].size ELSE 0)
    <3>1. CASE n = 0
      BY <1>3, <3>1
    <3>2. CASE n # 0
      <4>1. n - 1 \in Nat /\ (n - 1) + 1 = n
        BY <3>2
      <4>2. F[n] = F[n - 1] + d[n]
        BY <1>3, <4>1
      <4> QED BY <1>1, <3>2, <4>2 DEF SizeAt
    <3> QED BY <3>1, <3>2
  <2> QED BY <2>1
<1>5. PICK G : G = CHOOSE f : Rec(f)
  OBVIOUS
<1>6. Rec(G)
  BY <1>4, <1>5
<1>7. Bytes(E, S) = G[Len(E)]
  BY <1>5 DEF Bytes
<1>8. G[0] = 0 /\ \A n \in Nat : G[n + 1] = G[n] + SizeAt(E, S, n + 1)
  <2>1. G[0] = 0
    BY <1>6
  <2>2. ASSUME NEW n \in Nat PROVE G[n + 1] = G[n] + SizeAt(E, S, n + 1)
    <3>1. n + 1 \in Nat /\ n + 1 # 0 /\ (n + 1) - 1 = n
      OBVIOUS
    <3>2. G[n + 1] = G[(n + 1) - 1] + (IF n + 1 \in S THEN E[n + 1].size ELSE 0)
      BY <1>6, <3>1
    <3> QED BY <3>1, <3>2 DEF SizeAt
  <2> QED BY <2>1, <2>2
<1>9. G \in [Nat -> Nat]
  <2> DEFINE T == {n \in Nat : G[n] \in Nat}
  <2>1. 0 \in T
    BY <1>8
  <2>2. ASSUME NEW n \in Nat, n \in T PROVE n + 1 \in T
    <3>1. SizeAt(E, S, n + 1) \in Nat
      BY EntryAt DEF SizeAt
    <3>2. G[n + 1] = G[n] + SizeAt(E, S, n + 1) /\ G[n] \in Nat
      BY <1>8, <2>2
    <3>3. PICK a \in Nat, b \in Nat : a = G[n] /\ b = SizeAt(E, S, n + 1)
      BY <3>1, <3>2
    <3>4. a + b \in Nat
      BY NumberFacts
    <3>5. G[n + 1] = a + b
      BY <3>2, <3>3, Zenon
    <3>6. G[n + 1] \in Nat
      BY <3>4, <3>5, Zenon
    <3> QED BY <3>6
  <2> HIDE DEF T
  <2>3. \A n \in Nat : n \in T
    BY <2>1, <2>2, InductionInSet
  <2>4. \A n \in Nat : G[n] \in Nat
    BY <2>3 DEF T
  <2>5. G = [n \in Nat |-> G[n]]
    BY <1>6
  <2> QED BY <2>4, <2>5
<1> QED BY <1>7, <1>8, <1>9

\* Nothing weighs nothing.
LEMMA BytesOfNone ==
  ASSUME NEW E \in Seq(ArchiveEntry)
  PROVE  Bytes(E, {}) = 0
<1>1. PICK F \in [Nat -> Nat] : /\ F[0] = 0
                                /\ \A n \in Nat : F[n + 1] = F[n] + SizeAt(E, {}, n + 1)
                                /\ Bytes(E, {}) = F[Len(E)]
  BY BytesTotals
<1> DEFINE T == {n \in Nat : F[n] = 0}
<1>2. 0 \in T
  BY <1>1
<1>3. ASSUME NEW n \in Nat, n \in T PROVE n + 1 \in T
  BY <1>1, <1>3 DEF SizeAt
<1> HIDE DEF T
<1>4. \A n \in Nat : n \in T
  BY <1>2, <1>3, InductionInSet
<1> QED BY <1>1, <1>4 DEF T

\* One more position adds its size.
LEMMA BytesAdd ==
  ASSUME NEW E \in Seq(ArchiveEntry), NEW S, S \subseteq 1 .. Len(E), NEW i \in 1 .. Len(E), i \notin S
  PROVE  /\ Bytes(E, S) \in Nat /\ E[i].size \in Nat
         /\ Bytes(E, S \cup {i}) = Bytes(E, S) + E[i].size
<1>1. PICK F \in [Nat -> Nat] : /\ F[0] = 0
                                /\ \A n \in Nat : F[n + 1] = F[n] + SizeAt(E, S, n + 1)
                                /\ Bytes(E, S) = F[Len(E)]
  BY BytesTotals
<1>2. PICK G \in [Nat -> Nat] : /\ G[0] = 0
                                /\ \A n \in Nat : G[n + 1] = G[n] + SizeAt(E, S \cup {i}, n + 1)
                                /\ Bytes(E, S \cup {i}) = G[Len(E)]
  BY BytesTotals
<1>3. E[i].size \in Nat
  BY EntryAt
<1>9. i \in Nat /\ i >= 1
  OBVIOUS
<1> DEFINE T == {n \in Nat : G[n] = F[n] + (IF n < i THEN 0 ELSE E[i].size)}
<1>4. 0 \in T
  BY <1>1, <1>2
<1>5. ASSUME NEW n \in Nat, n \in T PROVE n + 1 \in T
  <2>1. CASE n + 1 = i
    <3>1. SizeAt(E, S, n + 1) = 0 /\ SizeAt(E, S \cup {i}, n + 1) = E[i].size
      BY <2>1 DEF SizeAt
    <3> QED BY <1>1, <1>2, <1>3, <1>5, <2>1, <3>1
  <2>2. CASE n + 1 # i
    <3>1. SizeAt(E, S, n + 1) = SizeAt(E, S \cup {i}, n + 1) /\ SizeAt(E, S, n + 1) \in Nat
      BY <2>2, EntryAt DEF SizeAt
    <3>2. PICK u \in Nat : u = SizeAt(E, S, n + 1)
      BY <3>1
    <3>3. F[n + 1] = F[n] + u /\ G[n + 1] = G[n] + u /\ F[n] \in Nat
      BY <1>1, <1>2, <3>1, <3>2
    <3>4. n + 1 < i <=> n < i
      BY <1>9, <2>2, NumberFacts, Zenon
    <3>5. G[n] = F[n] + (IF n < i THEN 0 ELSE E[i].size)
      BY <1>5
    <3>6. G[n + 1] = F[n + 1] + (IF n + 1 < i THEN 0 ELSE E[i].size)
      <4>1. PICK z \in Nat : z = IF n < i THEN 0 ELSE E[i].size
        BY <1>3
      <4>2. G[n + 1] = (F[n] + z) + u
        BY <3>3, <3>5, <4>1, Zenon
      <4>3. (F[n] + z) + u = (F[n] + u) + z
        BY <3>3, NumberFacts, Zenon
      <4> QED BY <3>3, <3>4, <4>1, <4>2, <4>3, Zenon
    <3> QED BY <3>6
  <2> QED BY <2>1, <2>2
<1> HIDE DEF T
<1>6. \A n \in Nat : n \in T
  BY <1>4, <1>5, InductionInSet
<1>7. Len(E) \in Nat /\ Len(E) >= i
  OBVIOUS
<1>8. G[Len(E)] = F[Len(E)] + E[i].size
  BY <1>6, <1>7 DEF T
<1> QED BY <1>1, <1>2, <1>3, <1>8

--------------------------------------------------------------------------------
(* The callbacks *)

\* Positions of an archive are finitely many.
LEMMA PositionsFinite ==
  ASSUME NEW n \in Nat, NEW S, S \subseteq 1 .. n - 1
  PROVE  IsFiniteSet(S) /\ Cardinality(S) \in Nat
<1>1. 1 \in Int /\ n - 1 \in Int
  OBVIOUS
<1>2. IsFiniteSet(1 .. n - 1)
  BY <1>1, FS_Interval
<1>3. IsFiniteSet(S)
  BY <1>2, FS_Subset
<1> QED BY <1>3, FS_CardinalityType

\* The same extraction but for the promise.
SameWork(x, y) ==
  /\ x.parser = y.parser /\ x.next = y.next /\ x.open = y.open /\ x.done = y.done
  /\ x.refused = y.refused /\ x.files = y.files /\ x.total = y.total /\ x.pending = y.pending
  /\ x.candidates = y.candidates

\* Where the entries are, and the limits, do not depend on the promise.
LEMMA SameWorkKeeps ==
  ASSUME NEW x, NEW y, NEW E, SameWork(x, y)
  PROVE  (Placed(y, E) => Placed(x, E)) /\ (Within(y, E) => Within(x, E))
<1>1. Placed(y, E) => Placed(x, E)
  BY DEF SameWork, Placed
<1>2. Within(y, E) => Within(x, E)
  BY DEF SameWork, Within
<1> QED BY <1>1, <1>2

\* fail settles the promise with an error unless it is settled.
LEMMA FailFacts ==
  ASSUME NEW x, Extraction(x)
  PROVE  /\ Extraction(fail(x)) /\ SameWork(fail(x), x)
         /\ fail(x).settled = IF x.settled = "no" THEN "error" ELSE x.settled
         /\ fail(x).early = x.early /\ fail(x).listed = x.listed
<1>1. CASE x.settled # "no"
  BY <1>1 DEF fail, SameWork
<1>2. CASE x.settled = "no"
  <2>1. PICK y : y = [x EXCEPT !.settled = "error"]
    OBVIOUS
  <2>2. fail(x) = y
    BY <1>2, <2>1 DEF fail
  <2>3. /\ SameWork(y, x) /\ y.settled = "error" /\ y.early = x.early /\ y.listed = x.listed
    BY <2>1 DEF Extraction, SameWork
  <2>4. Extraction(y)
    BY <2>1, <2>3 DEF Extraction, SameWork
  <2> QED BY <1>2, <2>2, <2>3, <2>4
<1> QED BY <1>1, <1>2

\* fail keeps the invariant, whatever the pending count is.
LEMMA FailKeeps ==
  ASSUME NEW x, NEW E, Extraction(x), Placed(x, E), Within(x, E), Truthful(x, E)
  PROVE  ExtractionOK(fail(x), E)
<1>1. PICK y : y = fail(x)
  OBVIOUS
<1>2. /\ Extraction(y) /\ SameWork(y, x) /\ y.early = x.early /\ y.listed = x.listed
      /\ y.settled = IF x.settled = "no" THEN "error" ELSE x.settled
  BY <1>1, FailFacts
<1>3. Placed(y, E) /\ Within(y, E)
  BY <1>2, SameWorkKeeps
<1>4. Awaits(y)
  BY <1>2 DEF Awaits
<1>5. Truthful(y, E)
  BY <1>2 DEF Truthful, SameWork
<1> QED BY <1>1, <1>2, <1>3, <1>4, <1>5 DEF ExtractionOK

\* What unpackAgent makes of the promise that finish resolves.
LEMMA FinishFacts ==
  ASSUME NEW x, Extraction(x), x.settled = "no", x.pending = 0
  PROVE  LET y == finish(x)
         IN  /\ Extraction(y) /\ SameWork(y, x)
             /\ y.early = IF x.parser = "ended" THEN "no" ELSE "yes"
             /\ y.settled \in {"missing", "invalid", "ok"}
             /\ y.settled = "missing" => x.candidates = <<>>
             /\ y.settled = "ok" => y.listed = listProjectFiles({got.entries[i].path : i \in x.done})
<1>1. PICK u : u = [x EXCEPT !.early = IF x.parser = "ended" THEN "no" ELSE "yes"]
  OBVIOUS
<1>2. /\ SameWork(u, x) /\ u.settled = "no" /\ u.listed = x.listed
      /\ u.early = IF x.parser = "ended" THEN "no" ELSE "yes"
  BY <1>1 DEF Extraction, SameWork
<1>3. Extraction(u)
  BY <1>1, <1>2 DEF Extraction, SameWork
<1>4. PICK y : y = finish(x) /\ y = Unpacked(u)
  BY <1>1 DEF finish
<1> DEFINE files == listProjectFiles({got.entries[i].path : i \in u.done})
<1>5. \/ u.candidates = <<>> /\ y = [u EXCEPT !.settled = "missing"]
      \/ y = [u EXCEPT !.settled = "invalid"]
      \/ y = [u EXCEPT !.settled = "ok", !.listed = files]
  BY <1>4, Zenon DEF Unpacked
<1> HIDE DEF files
<1>6. ASSUME NEW s, y = [u EXCEPT !.settled = s]
      PROVE  Extraction(y) /\ SameWork(y, u) /\ y.early = u.early /\ y.settled = s
  <2>1. SameWork(y, u) /\ y.early = u.early /\ y.settled = s
    BY <1>3, <1>6 DEF Extraction, SameWork
  <2>2. Extraction(y)
    BY <1>3, <1>6, <2>1 DEF Extraction, SameWork
  <2> QED BY <2>1, <2>2
<1>7. ASSUME y = [u EXCEPT !.settled = "ok", !.listed = files]
      PROVE  Extraction(y) /\ SameWork(y, u) /\ y.early = u.early /\ y.settled = "ok" /\ y.listed = files
  <2>1. SameWork(y, u) /\ y.early = u.early /\ y.settled = "ok" /\ y.listed = files
    BY <1>3, <1>7 DEF Extraction, SameWork
  <2>2. Extraction(y)
    BY <1>3, <1>7, <2>1 DEF Extraction, SameWork
  <2> QED BY <2>1, <2>2
<1>8. u.done = x.done /\ u.candidates = x.candidates
  BY <1>2 DEF SameWork
<1>9. SameWork(y, u) => SameWork(y, x)
  BY <1>2 DEF SameWork
<1>10. CASE u.candidates = <<>> /\ y = [u EXCEPT !.settled = "missing"]
  BY <1>2, <1>4, <1>6, <1>8, <1>9, <1>10
<1>11. CASE y = [u EXCEPT !.settled = "invalid"]
  BY <1>2, <1>4, <1>6, <1>9, <1>11
<1>12. CASE y = [u EXCEPT !.settled = "ok", !.listed = files]
  <2>1. files = listProjectFiles({got.entries[i].path : i \in x.done})
    BY <1>8 DEF files
  <2> QED BY <1>2, <1>4, <1>7, <1>9, <1>12, <2>1
<1> QED BY <1>5, <1>10, <1>11, <1>12

\* finish keeps the invariant: with nothing pending no write is under way.
LEMMA FinishKeeps ==
  ASSUME NEW x, ExtractionOK(x, got.entries)
  PROVE  ExtractionOK(finish(x), got.entries)
<1>1. CASE x.settled # "no" \/ x.pending # 0
  BY <1>1 DEF finish
<1>2. CASE x.settled = "no" /\ x.pending = 0
  <2>1. PICK y : y = finish(x)
    OBVIOUS
  <2>2. /\ Extraction(y) /\ SameWork(y, x)
        /\ y.early = IF x.parser = "ended" THEN "no" ELSE "yes"
        /\ y.settled \in {"missing", "invalid", "ok"}
        /\ y.settled = "missing" => x.candidates = <<>>
        /\ y.settled = "ok" => y.listed = listProjectFiles({got.entries[i].path : i \in x.done})
    BY <1>2, <2>1, FinishFacts DEF ExtractionOK
  <2>3. Placed(y, got.entries) /\ Within(y, got.entries)
    BY <2>2, SameWorkKeeps DEF ExtractionOK
  <2>4. Awaits(y)
    BY <2>2 DEF Awaits
  <2>5. x.refused = {} /\ Cardinality(x.open) = 0 /\ x.open \subseteq 1 .. x.next - 1 /\ x.next \in Nat
    BY <1>2 DEF ExtractionOK, Awaits, Placed
  <2>6. IsFiniteSet(x.open)
    BY <2>5, PositionsFinite
  <2>7. x.open = {}
    BY <2>5, <2>6, FS_EmptySet
  <2>8. Truthful(y, got.entries)
    <3>1. y.done = x.done /\ y.candidates = x.candidates /\ y.open = x.open /\ y.refused = x.refused /\ y.parser = x.parser
      BY <2>2 DEF SameWork
    <3> QED BY <2>2, <2>5, <2>7, <3>1 DEF Truthful
  <2> QED BY <2>1, <2>2, <2>3, <2>4, <2>8 DEF ExtractionOK
<1> QED BY <1>1, <1>2

\* The checks of one entry.
LEMMA AdmitFacts ==
  ASSUME NEW x, Extraction(x), NEW e \in ArchiveEntry
  PROVE  LET r == Admit(x, e)
         IN  /\ Extraction(r.x)
             /\ r.x.parser = x.parser /\ r.x.next = x.next /\ r.x.open = x.open /\ r.x.done = x.done
             /\ r.x.refused = x.refused /\ r.x.pending = x.pending /\ r.x.candidates = x.candidates
             /\ r.x.settled = x.settled /\ r.x.early = x.early /\ r.x.listed = x.listed
             /\ r.x.files >= x.files /\ r.x.total >= x.total
             /\ r.ok \in {"no", "dir", "yes"}
             /\ r.ok = "dir" => e.type = "Directory"
             /\ r.ok = "yes" => /\ e.type = "File" /\ e.size <= MaxSingleFileBytes
                                /\ r.x.files = x.files + 1 /\ r.x.files <= MaxFiles
                                /\ r.x.total = x.total + e.size /\ r.x.total <= MaxTotalBytes
<1>0. e.type \in {"File", "Directory", "Link"} /\ e.size \in Nat /\ x.files \in Nat /\ x.total \in Nat
  BY DEF ArchiveEntry, Extraction
<1>1. PICK y : y = [x EXCEPT !.files = @ + 1]
  OBVIOUS
<1>2. /\ y.parser = x.parser /\ y.next = x.next /\ y.open = x.open /\ y.done = x.done
      /\ y.refused = x.refused /\ y.pending = x.pending /\ y.candidates = x.candidates
      /\ y.settled = x.settled /\ y.early = x.early /\ y.listed = x.listed
      /\ y.files = x.files + 1 /\ y.total = x.total
  BY <1>1 DEF Extraction
<1>3. Extraction(y)
  BY <1>0, <1>1, <1>2 DEF Extraction
<1>4. PICK z : z = [y EXCEPT !.total = @ + e.size]
  OBVIOUS
<1>5. /\ z.parser = y.parser /\ z.next = y.next /\ z.open = y.open /\ z.done = y.done
      /\ z.refused = y.refused /\ z.pending = y.pending /\ z.candidates = y.candidates
      /\ z.settled = y.settled /\ z.early = y.early /\ z.listed = y.listed
      /\ z.files = y.files /\ z.total = y.total + e.size
  BY <1>3, <1>4 DEF Extraction
<1>6. Extraction(z)
  BY <1>0, <1>2, <1>3, <1>4, <1>5 DEF Extraction
<1>7. PICK r : r = Admit(x, e)
  OBVIOUS
<1>8. \/ r = [ok |-> "no", x |-> x]
      \/ e.type = "Directory" /\ r = [ok |-> "dir", x |-> x]
      \/ r = [ok |-> "no", x |-> y]
      \/ /\ e.type \notin {"Link", "Directory"} /\ ~ (y.files > MaxFiles \/ e.size > MaxSingleFileBytes)
         /\ r = [ok |-> IF z.total > MaxTotalBytes THEN "no" ELSE "yes", x |-> z]
  BY <1>1, <1>4, <1>7, Zenon DEF Admit
<1>9. \/ r.ok = "no" /\ r.x = x
      \/ e.type = "Directory" /\ r.ok = "dir" /\ r.x = x
      \/ r.ok = "no" /\ r.x = y
      \/ /\ e.type \notin {"Link", "Directory"} /\ ~ (y.files > MaxFiles \/ e.size > MaxSingleFileBytes)
         /\ r.ok = (IF z.total > MaxTotalBytes THEN "no" ELSE "yes") /\ r.x = z
  BY <1>8
<1>10. CASE r.x = x /\ r.ok \in {"no", "dir"} /\ (r.ok = "dir" => e.type = "Directory")
  BY <1>0, <1>7, <1>10
<1>11. CASE r.x = y /\ r.ok = "no"
  BY <1>0, <1>2, <1>3, <1>7, <1>11
<1>12. CASE /\ e.type \notin {"Link", "Directory"} /\ ~ (y.files > MaxFiles \/ e.size > MaxSingleFileBytes)
            /\ r.ok = (IF z.total > MaxTotalBytes THEN "no" ELSE "yes") /\ r.x = z
  BY <1>0, <1>2, <1>5, <1>6, <1>7, <1>12, LimitsAssumption
<1> QED BY <1>9, <1>10, <1>11, <1>12

--------------------------------------------------------------------------------
(* The steps *)

\* A step of the extraction.
LEMMA ExtractionSteps ==
  ASSUME ArchiveInv, UNCHANGED <<packed, signed, got, kept>>, ex # NoExtraction,
         ExtractionOK(ex', got.entries)
  PROVE  ArchiveInv'
BY DEF ArchiveInv, DownloadOK

\* The parser hands over an entry, also one whose directory cannot be made.
LEMMA StepEntryEvent ==
  ASSUME ArchiveInv, EntryEvent \/ EntryFails
  PROVE  ArchiveInv'
<1> DEFINE E == got.entries
<1>0. /\ E \in Seq(ArchiveEntry) /\ Len(E) \in Nat /\ Extraction(ex) /\ Placed(ex, E) /\ Within(ex, E)
      /\ Awaits(ex) /\ Truthful(ex, E)
  BY DEF ArchiveInv, DownloadOK, ExtractionOK
<1>1. PICK n \in 1 .. Len(E) : n = ex.next /\ ex.parser = "open"
  BY <1>0 DEF EntryEvent, EntryFails, Placed
<1>2. PICK e \in ArchiveEntry : e = E[n]
  BY <1>0, EntryAt
<1>3. PICK r : r = Admit(ex, e)
  OBVIOUS
<1>4. /\ Extraction(r.x)
      /\ r.x.parser = ex.parser /\ r.x.next = ex.next /\ r.x.open = ex.open /\ r.x.done = ex.done
      /\ r.x.refused = ex.refused /\ r.x.pending = ex.pending /\ r.x.candidates = ex.candidates
      /\ r.x.settled = ex.settled /\ r.x.early = ex.early /\ r.x.listed = ex.listed
      /\ r.x.files >= ex.files /\ r.x.total >= ex.total
      /\ r.ok \in {"no", "dir", "yes"}
      /\ r.ok = "dir" => e.type = "Directory"
      /\ r.ok = "yes" => /\ e.type = "File" /\ e.size <= MaxSingleFileBytes
                         /\ r.x.files = ex.files + 1 /\ r.x.files <= MaxFiles
                         /\ r.x.total = ex.total + e.size /\ r.x.total <= MaxTotalBytes
  BY <1>0, <1>3, AdmitFacts
<1>5. PICK x : x = [r.x EXCEPT !.next = @ + 1]
  OBVIOUS
<1>6. /\ x.parser = "open" /\ x.next = n + 1 /\ x.open = ex.open /\ x.done = ex.done
      /\ x.refused = ex.refused /\ x.pending = ex.pending /\ x.candidates = ex.candidates
      /\ x.settled = ex.settled /\ x.early = ex.early /\ x.listed = ex.listed
      /\ x.files = r.x.files /\ x.total = r.x.total
  BY <1>1, <1>4, <1>5 DEF Extraction
<1>7. Extraction(x)
  BY <1>4, <1>5, <1>6 DEF Extraction
<1>8. Truthful(x, E)
  BY <1>0, <1>1, <1>6 DEF Truthful
<1>9. Awaits(x)
  BY <1>0, <1>6 DEF Awaits
<1>10. /\ n \notin ex.open \cup ex.done \cup ex.refused
       /\ ex.open \cup ex.done \cup ex.refused \subseteq 1 .. n - 1
       /\ ex.open \cup ex.done \cup ex.refused \subseteq 1 .. (n + 1) - 1
       /\ \A i \in 1 .. (n + 1) - 1 : i = n \/ i \in 1 .. n - 1
       /\ n + 1 \in 1 .. Len(E) + 1 /\ n \in 1 .. (n + 1) - 1
  BY <1>0, <1>1 DEF Placed
<1>11. Within(x, E)
  <2>1. ex.done \cup ex.open \subseteq 1 .. n - 1 /\ n \in Nat
    BY <1>10
  <2>2. Cardinality(ex.done \cup ex.open) \in Nat
    BY <2>1, PositionsFinite
  <2>3. Bytes(E, ex.done \cup ex.open) \in Nat
    <3>1. ex.done \cup ex.open \subseteq 1 .. Len(E) /\ n \notin ex.done \cup ex.open
      BY <1>1, <1>10
    <3> QED BY <1>0, <3>1, BytesAdd
  <2> QED BY <1>0, <1>4, <1>6, <1>7, <2>2, <2>3 DEF Within, Extraction
<1>15. ex # NoExtraction
  BY <1>1 DEF NoExtraction
<1>12. CASE EntryEvent /\ r.ok = "dir"
  <2>1. ex' = x
    BY <1>1, <1>2, <1>3, <1>5, <1>12 DEF EntryEvent
  <2>2. Placed(x, E)
    BY <1>0, <1>1, <1>2, <1>4, <1>6, <1>10, <1>12 DEF Placed
  <2>3. ExtractionOK(ex', E)
    BY <1>7, <1>8, <1>9, <1>11, <2>1, <2>2 DEF ExtractionOK
  <2> QED BY <1>12, <1>15, <2>3, ExtractionSteps DEF EntryEvent
<1>13. CASE EntryEvent /\ r.ok = "yes"
  <2>1. PICK y : y = [x EXCEPT !.pending = @ + 1, !.open = @ \cup {n}]
    OBVIOUS
  <2>2. ex' = y
    BY <1>1, <1>2, <1>3, <1>5, <1>13, <2>1 DEF EntryEvent
  <2>3. /\ y.parser = "open" /\ y.next = n + 1 /\ y.open = ex.open \cup {n} /\ y.done = ex.done
        /\ y.refused = ex.refused /\ y.pending = ex.pending + 1 /\ y.candidates = ex.candidates
        /\ y.settled = ex.settled /\ y.early = ex.early /\ y.listed = ex.listed
        /\ y.files = x.files /\ y.total = x.total
    BY <1>6, <1>7, <2>1 DEF Extraction
  <2>4. Extraction(y)
    <3>1. y = [parser |-> y.parser, next |-> y.next, open |-> y.open, done |-> y.done,
               refused |-> y.refused, files |-> y.files, total |-> y.total, pending |-> y.pending,
               candidates |-> y.candidates, settled |-> y.settled, early |-> y.early, listed |-> y.listed]
      BY <1>7, <2>1 DEF Extraction
    <3> QED BY <1>6, <1>7, <2>3, <3>1 DEF Extraction
  <2>5. Placed(y, E)
    BY <1>0, <1>1, <1>2, <1>4, <1>10, <1>13, <2>3 DEF Placed
  <2>6. Truthful(y, E)
    BY <1>0, <1>1, <2>3 DEF Truthful
  <2>7. /\ IsFiniteSet(ex.open) /\ IsFiniteSet(ex.done \cup ex.open)
        /\ Cardinality(ex.done \cup ex.open) \in Nat
    <3>1. n \in Nat /\ ex.open \subseteq 1 .. n - 1 /\ ex.done \cup ex.open \subseteq 1 .. n - 1
      BY <1>10
    <3> QED BY <3>1, PositionsFinite
  <2>8. /\ Cardinality(ex.open \cup {n}) = Cardinality(ex.open) + 1
        /\ Cardinality((ex.done \cup ex.open) \cup {n}) = Cardinality(ex.done \cup ex.open) + 1
    BY <1>10, <2>7, FS_AddElement
  <2>9. Awaits(y)
    BY <1>0, <2>3, <2>8 DEF Awaits
  <2>10. /\ Bytes(E, ex.done \cup ex.open) \in Nat /\ e.size \in Nat
         /\ Bytes(E, (ex.done \cup ex.open) \cup {n}) = Bytes(E, ex.done \cup ex.open) + e.size
    <3>1. ex.done \cup ex.open \subseteq 1 .. Len(E) /\ n \notin ex.done \cup ex.open
      BY <1>1, <1>10
    <3> QED BY <1>0, <1>2, <3>1, BytesAdd
  <2>11. Within(y, E)
    <3>1. y.done \cup y.open = (ex.done \cup ex.open) \cup {n}
      BY <2>3
    <3>2. y.files = ex.files + 1 /\ y.files <= MaxFiles /\ y.total = ex.total + e.size /\ y.total <= MaxTotalBytes
      BY <1>4, <1>6, <1>13, <2>3
    <3>3. ex.files \in Nat /\ ex.total \in Nat
      BY <1>0 DEF Extraction
    <3>4. Cardinality(ex.done \cup ex.open) <= ex.files /\ Bytes(E, ex.done \cup ex.open) <= ex.total
      BY <1>0 DEF Within
    <3>5. Cardinality(y.done \cup y.open) <= y.files /\ Cardinality(y.done \cup y.open) <= MaxFiles
      <4>1. PICK a \in Nat, b \in Nat : a = Cardinality(ex.done \cup ex.open) /\ b = ex.files
        BY <2>7, <3>3
      <4>2. a <= b => a + 1 <= b + 1
        OBVIOUS
      <4>3. a <= b /\ Cardinality(y.done \cup y.open) = a + 1 /\ y.files = b + 1
        BY <2>8, <3>1, <3>2, <3>4, <4>1
      <4>4. a + 1 <= MaxFiles
        BY <3>2, <4>2, <4>3, LimitsAssumption
      <4> QED BY <4>2, <4>3, <4>4, Zenon
    <3>6. Bytes(E, y.done \cup y.open) <= y.total /\ Bytes(E, y.done \cup y.open) <= MaxTotalBytes
      <4>1. PICK a \in Nat, b \in Nat, s \in Nat :
              a = Bytes(E, ex.done \cup ex.open) /\ b = ex.total /\ s = e.size
        BY <2>10, <3>3
      <4>2. a <= b => a + s <= b + s
        OBVIOUS
      <4>3. a <= b /\ Bytes(E, y.done \cup y.open) = a + s /\ y.total = b + s
        BY <2>10, <3>1, <3>2, <3>4, <4>1
      <4>4. a + s <= MaxTotalBytes
        BY <3>2, <4>2, <4>3, LimitsAssumption
      <4> QED BY <4>2, <4>3, <4>4, Zenon
    <3> QED BY <3>5, <3>6 DEF Within
  <2>12. ExtractionOK(ex', E)
    BY <2>2, <2>4, <2>5, <2>6, <2>9, <2>11 DEF ExtractionOK
  <2> QED BY <1>13, <1>15, <2>12, ExtractionSteps DEF EntryEvent
<1>14. CASE EntryFails \/ r.ok = "no"
  <2>1. PICK y : y = [x EXCEPT !.refused = @ \cup {n},
                               !.parser = IF e.size = 0 THEN "open" ELSE "stalled"]
    OBVIOUS
  <2>2. ex' = fail(y)
    BY <1>1, <1>2, <1>3, <1>5, <1>14, <2>1 DEF EntryEvent, EntryFails, Refuse
  <2>3. /\ y.parser \in {"open", "stalled"} /\ y.next = n + 1 /\ y.open = ex.open /\ y.done = ex.done
        /\ y.refused = ex.refused \cup {n} /\ y.pending = ex.pending /\ y.candidates = ex.candidates
        /\ y.settled = ex.settled /\ y.early = ex.early /\ y.listed = ex.listed
        /\ y.files = x.files /\ y.total = x.total
    BY <1>6, <1>7, <2>1 DEF Extraction
  <2>4. Extraction(y)
    <3>1. y = [parser |-> y.parser, next |-> y.next, open |-> y.open, done |-> y.done,
               refused |-> y.refused, files |-> y.files, total |-> y.total, pending |-> y.pending,
               candidates |-> y.candidates, settled |-> y.settled, early |-> y.early, listed |-> y.listed]
      BY <1>7, <2>1 DEF Extraction
    <3> QED BY <1>6, <1>7, <2>3, <3>1 DEF Extraction
  <2>5. Placed(y, E)
    BY <1>0, <1>1, <1>10, <2>3 DEF Placed
  <2>6. Truthful(y, E)
    BY <1>0, <1>1, <2>3 DEF Truthful
  <2>7. Within(y, E)
    BY <1>6, <1>11, <2>3 DEF Within
  <2>8. ExtractionOK(ex', E)
    BY <2>2, <2>4, <2>5, <2>6, <2>7, FailKeeps
  <2> QED BY <1>15, <2>8, ExtractionSteps DEF EntryEvent, EntryFails
<1> QED BY <1>4, <1>12, <1>13, <1>14

\* A write leaves the open ones.
LEMMA LeavesOpen ==
  ASSUME NEW E \in Seq(ArchiveEntry), NEW x, Extraction(x), Placed(x, E), NEW i \in x.open
  PROVE  /\ i \in 1 .. Len(E) /\ i \notin x.done
         /\ x.done \cup x.open \subseteq 1 .. Len(E)
         /\ IsFiniteSet(x.open) /\ IsFiniteSet(x.done \cup x.open)
         /\ Cardinality(x.open \ {i}) = Cardinality(x.open) - 1
<1>1. x.next \in Nat /\ x.next - 1 <= Len(E) /\ x.done \cup x.open \subseteq 1 .. x.next - 1 /\ x.open \subseteq 1 .. x.next - 1
  BY DEF Placed
<1>2. IsFiniteSet(x.open) /\ IsFiniteSet(x.done \cup x.open) /\ Cardinality(x.open) \in Nat
  BY <1>1, PositionsFinite
<1>3. Cardinality(x.open \ {i}) = Cardinality(x.open) - 1
  BY <1>2, FS_RemoveElement
<1>4. i \notin x.done
  BY DEF Placed
<1>5. x.done \cup x.open \subseteq 1 .. Len(E)
  BY <1>1
<1> QED BY <1>2, <1>3, <1>4, <1>5

\* A write finishes.
LEMMA StepWriteFinished ==
  ASSUME ArchiveInv, NEW i \in ex.open, WriteFinished(i)
  PROVE  ArchiveInv'
<1> DEFINE E == got.entries
<1>0. /\ E \in Seq(ArchiveEntry) /\ Extraction(ex) /\ Placed(ex, E) /\ Within(ex, E)
      /\ Awaits(ex) /\ Truthful(ex, E)
  BY DEF ArchiveInv, DownloadOK, ExtractionOK
<1>1. PICK p \in Paths : p = E[i].path /\ i \in 1 .. Len(E)
  BY <1>0, LeavesOpen, EntryAt
<1>2. PICK c : c = IF IsManifest(p) THEN Append(ex.candidates, p) ELSE ex.candidates
  OBVIOUS
<1>3. c \in Seq(Paths) /\ (c = <<>> => ex.candidates = <<>> /\ ~ IsManifest(p))
  <2>1. ex.candidates \in Seq(Paths)
    BY <1>0 DEF Extraction
  <2>2. Append(ex.candidates, p) \in Seq(Paths) /\ Append(ex.candidates, p) # <<>>
    BY <2>1
  <2> QED BY <1>2, <2>1, <2>2
<1>4. PICK y : y = [ex EXCEPT !.open = @ \ {i}, !.done = @ \cup {i}, !.pending = @ - 1, !.candidates = c]
  OBVIOUS
<1>5. ex' = finish(y)
  BY <1>1, <1>2, <1>4 DEF WriteFinished
<1>6. /\ y.parser = ex.parser /\ y.next = ex.next /\ y.open = ex.open \ {i} /\ y.done = ex.done \cup {i}
      /\ y.refused = ex.refused /\ y.pending = ex.pending - 1 /\ y.candidates = c
      /\ y.settled = ex.settled /\ y.early = ex.early /\ y.listed = ex.listed
      /\ y.files = ex.files /\ y.total = ex.total
  BY <1>0, <1>4 DEF Extraction
<1>7. Extraction(y)
  <2>1. y = [parser |-> y.parser, next |-> y.next, open |-> y.open, done |-> y.done,
             refused |-> y.refused, files |-> y.files, total |-> y.total, pending |-> y.pending,
             candidates |-> y.candidates, settled |-> y.settled, early |-> y.early, listed |-> y.listed]
    BY <1>0, <1>4 DEF Extraction
  <2> QED BY <1>0, <1>3, <1>6, <2>1 DEF Extraction
<1>8. Placed(y, E)
  BY <1>0, <1>1, <1>3, <1>6 DEF Placed
<1>9. Within(y, E)
  <2>1. y.done \cup y.open = ex.done \cup ex.open
    BY <1>6
  <2> QED BY <1>0, <1>6, <2>1 DEF Within
<1>10. Awaits(y)
  BY <1>0, <1>6, LeavesOpen DEF Awaits
<1>11. Truthful(y, E)
  BY <1>0, <1>6 DEF Truthful
<1>12. ExtractionOK(ex', E)
  BY <1>5, <1>7, <1>8, <1>9, <1>10, <1>11, FinishKeeps DEF ExtractionOK
<1>13. ex # NoExtraction
  BY DEF NoExtraction
<1> QED BY <1>12, <1>13, ExtractionSteps DEF WriteFinished

\* A write fails.
LEMMA StepWriteFailed ==
  ASSUME ArchiveInv, NEW i \in ex.open, WriteFailed(i)
  PROVE  ArchiveInv'
<1> DEFINE E == got.entries
<1>0. /\ E \in Seq(ArchiveEntry) /\ Extraction(ex) /\ Placed(ex, E) /\ Within(ex, E) /\ Truthful(ex, E)
  BY DEF ArchiveInv, DownloadOK, ExtractionOK
<1>1. PICK q : /\ q \in {ex.parser, "stalled"}
               /\ ex' = fail([ex EXCEPT !.open = @ \ {i}, !.refused = @ \cup {i}, !.parser = q])
  BY Zenon DEF WriteFailed
<1>2. PICK y : y = [ex EXCEPT !.open = @ \ {i}, !.refused = @ \cup {i}, !.parser = q]
  OBVIOUS
<1>3. /\ y.parser = q /\ y.next = ex.next /\ y.open = ex.open \ {i} /\ y.done = ex.done
      /\ y.refused = ex.refused \cup {i} /\ y.pending = ex.pending /\ y.candidates = ex.candidates
      /\ y.settled = ex.settled /\ y.early = ex.early /\ y.listed = ex.listed
      /\ y.files = ex.files /\ y.total = ex.total
  BY <1>0, <1>2 DEF Extraction
<1>4. Extraction(y)
  <2>1. y = [parser |-> y.parser, next |-> y.next, open |-> y.open, done |-> y.done,
             refused |-> y.refused, files |-> y.files, total |-> y.total, pending |-> y.pending,
             candidates |-> y.candidates, settled |-> y.settled, early |-> y.early, listed |-> y.listed]
    BY <1>0, <1>2 DEF Extraction
  <2> QED BY <1>0, <1>3, <2>1 DEF Extraction
<1>5. Placed(y, E)
  BY <1>0, <1>1, <1>3 DEF Placed
<1>6. Truthful(y, E)
  BY <1>0, <1>3 DEF Truthful
<1>7. Within(y, E)
  <2>1. PICK S, T : S = ex.done \cup ex.open /\ T = y.done \cup y.open
    OBVIOUS
  <2>2. S = T \cup {i} /\ i \notin T /\ T \subseteq 1 .. Len(E) /\ i \in 1 .. Len(E) /\ IsFiniteSet(T)
    <3>1. /\ i \in 1 .. Len(E) /\ i \notin ex.done /\ ex.done \cup ex.open \subseteq 1 .. Len(E)
          /\ IsFiniteSet(ex.done \cup ex.open)
      BY <1>0, LeavesOpen
    <3>2. S = T \cup {i} /\ i \notin T /\ T \subseteq S
      BY <1>3, <2>1, <3>1
    <3> QED BY <2>1, <3>1, <3>2, FS_Subset
  <2>3. Cardinality(T) \in Nat /\ Cardinality(S) = Cardinality(T) + 1
    BY <2>2, FS_AddElement, FS_CardinalityType
  <2>4. Bytes(E, T) \in Nat /\ E[i].size \in Nat /\ Bytes(E, S) = Bytes(E, T) + E[i].size
    BY <1>0, <2>2, BytesAdd
  <2>5. PICK a \in Nat, b \in Nat, z \in Nat : a = Cardinality(T) /\ b = Bytes(E, T) /\ z = E[i].size
    BY <2>3, <2>4
  <2>6. a + 1 <= ex.files /\ a + 1 <= MaxFiles /\ b + z <= ex.total /\ b + z <= MaxTotalBytes
    BY <1>0, <2>1, <2>3, <2>4, <2>5 DEF Within
  <2>7. ex.files \in Nat /\ ex.total \in Nat
    BY <1>0 DEF Extraction
  <2>8. a <= ex.files /\ a <= MaxFiles /\ b <= ex.total /\ b <= MaxTotalBytes
    BY <2>6, <2>7, LimitsAssumption
  <2> QED BY <1>3, <2>1, <2>5, <2>8 DEF Within
<1>8. ExtractionOK(ex', E)
  BY <1>1, <1>2, <1>4, <1>5, <1>6, <1>7, FailKeeps
<1>9. ex # NoExtraction
  BY DEF NoExtraction
<1> QED BY <1>8, <1>9, ExtractionSteps DEF WriteFailed

\* The parser ends, or a stream breaks.
LEMMA StepParser ==
  ASSUME ArchiveInv, ParserEnd \/ StreamError
  PROVE  ArchiveInv'
<1> DEFINE E == got.entries
<1>0. /\ E \in Seq(ArchiveEntry) /\ Len(E) \in Nat /\ Extraction(ex) /\ Placed(ex, E) /\ Within(ex, E)
      /\ Awaits(ex) /\ Truthful(ex, E)
  BY DEF ArchiveInv, DownloadOK, ExtractionOK
<1>1. ex.parser = "open" /\ ex # NoExtraction
  BY DEF ParserEnd, StreamError, NoExtraction
<1>2. ASSUME NEW q, NEW y, y = [ex EXCEPT !.parser = q], q = "ended" => ex.next = Len(E) + 1
      PROVE  ExtractionOK(y, E) /\ Extraction(y) /\ Placed(y, E) /\ Within(y, E) /\ Truthful(y, E)
  <2>1. /\ y.parser = q /\ y.next = ex.next /\ y.open = ex.open /\ y.done = ex.done
        /\ y.refused = ex.refused /\ y.pending = ex.pending /\ y.candidates = ex.candidates
        /\ y.settled = ex.settled /\ y.early = ex.early /\ y.listed = ex.listed
        /\ y.files = ex.files /\ y.total = ex.total
    BY <1>0, <1>2 DEF Extraction
  <2>2. Extraction(y)
    BY <1>0, <1>2, <2>1 DEF Extraction
  <2>3. Placed(y, E)
    BY <1>0, <1>2, <2>1 DEF Placed
  <2>4. Within(y, E)
    BY <1>0, <2>1 DEF Within
  <2>5. Awaits(y)
    BY <1>0, <2>1 DEF Awaits
  <2>6. Truthful(y, E)
    BY <1>0, <1>1, <2>1 DEF Truthful
  <2> QED BY <2>2, <2>3, <2>4, <2>5, <2>6 DEF ExtractionOK
<1>3. CASE ParserEnd
  <2>1. PICK y : y = [ex EXCEPT !.parser = "ended"]
    OBVIOUS
  <2>2. ex.next = Len(E) + 1
    BY <1>0, <1>3 DEF ParserEnd, Placed
  <2>3. ExtractionOK(y, E)
    BY <1>2, <2>1, <2>2
  <2>4. ExtractionOK(ex', E)
    BY <1>3, <2>1, <2>3, FinishKeeps DEF ParserEnd
  <2> QED BY <1>1, <1>3, <2>4, ExtractionSteps DEF ParserEnd
<1>4. CASE StreamError
  <2>1. PICK y : y = [ex EXCEPT !.parser = "broken"]
    OBVIOUS
  <2>2. Extraction(y) /\ Placed(y, E) /\ Within(y, E) /\ Truthful(y, E)
    BY <1>2, <2>1
  <2>3. ExtractionOK(ex', E)
    BY <1>4, <2>1, <2>2, FailKeeps DEF StreamError
  <2> QED BY <1>1, <1>4, <2>3, ExtractionSteps DEF StreamError
<1> QED BY <1>3, <1>4

\* An extraction that has not begun, or has just begun.
LEMMA NothingExtracted ==
  ASSUME NEW E \in Seq(ArchiveEntry), NEW q \in {"none", "open"}
  PROVE  ExtractionOK([parser |-> q, next |-> 1, open |-> {}, done |-> {},
                       refused |-> {}, files |-> 0, total |-> 0, pending |-> 0,
                       candidates |-> <<>>, settled |-> "no", early |-> "no", listed |-> {}], E)
<1>1. PICK y : y = [parser |-> q, next |-> 1, open |-> {}, done |-> {},
                    refused |-> {}, files |-> 0, total |-> 0, pending |-> 0,
                    candidates |-> <<>>, settled |-> "no", early |-> "no", listed |-> {}]
  OBVIOUS
<1>2. /\ y.parser = q /\ y.next = 1 /\ y.open = {} /\ y.done = {} /\ y.refused = {} /\ y.files = 0
      /\ y.total = 0 /\ y.pending = 0 /\ y.candidates = <<>> /\ y.settled = "no" /\ y.early = "no"
  BY <1>1
<1>3. Extraction(y)
  BY <1>1, <1>2 DEF Extraction
<1>4. Placed(y, E)
  BY <1>2 DEF Placed
<1>5. Cardinality({}) = 0 /\ Bytes(E, {}) = 0
  BY FS_EmptySet, BytesOfNone
<1>6. Within(y, E)
  <2>1. y.done \cup y.open = {}
    BY <1>2
  <2> QED BY <1>2, <1>5, <2>1, LimitsAssumption DEF Within
<1>7. Awaits(y) /\ Truthful(y, E)
  BY <1>2, <1>5 DEF Awaits, Truthful
<1> QED BY <1>1, <1>3, <1>4, <1>6, <1>7 DEF ExtractionOK

\* Publishing: what is signed goes into `signed` with it.
LEMMA StepSign ==
  ASSUME ArchiveInv, NEW E \in Seq(ArchiveEntry), NEW v, NEW k, Sign(E, v, k)
  PROVE  ArchiveInv'
<1>1. PICK m : m = signPayload(signaturePayload(v, E), k)
  OBVIOUS
<1>2. PICK q : q = [entries |-> E, sig |-> SignatureFile(v, E, k)]
  OBVIOUS
<1>3. /\ packed' = packed \cup {q} /\ signed' = signed \cup {m}
      /\ UNCHANGED <<got, ex, kept>>
  BY <1>1, <1>2 DEF Sign
<1>4. PublicationOK(q, signed')
  BY <1>1, <1>2, <1>3 DEF PublicationOK, SignatureOK, SignatureFile
<1>5. \A p \in packed : PublicationOK(p, signed')
  BY <1>3 DEF ArchiveInv, PublicationOK
<1>6. DownloadOK'
  BY <1>3 DEF ArchiveInv, DownloadOK
<1> QED BY <1>3, <1>4, <1>5, <1>6 DEF ArchiveInv

\* packAgent: its files are finitely many and become a sequence of entries.
LEMMA StepPackAgent ==
  ASSUME ArchiveInv, NEW project \in Projects, NEW v, NEW k, packAgent(project, v, k)
  PROVE  ArchiveInv'
<1>1. PICK order \in SetToSeqs(listProjectFiles(project)) :
        Sign([i \in DOMAIN order |-> FileEntry(order[i])], v, k)
  BY DEF packAgent
<1>2. listProjectFiles(project) \subseteq Paths /\ IsFiniteSet(listProjectFiles(project))
  <2>1. project \subseteq Paths /\ IsFiniteSet(project) /\ listProjectFiles(project) \subseteq project
    BY InputsAssumption DEF listProjectFiles
  <2> QED BY <2>1, FS_Subset
<1>3. PICK n \in Nat : n = Cardinality(listProjectFiles(project))
  BY <1>2, FS_CardinalityType
<1>4. order \in [1 .. n -> Paths]
  BY <1>1, <1>2, <1>3 DEF SetToSeqs
<1>5. \A p \in Paths : FileEntry(p) \in ArchiveEntry
  BY InputsAssumption DEF FileEntry, ArchiveEntry
<1>6. PICK E : E = [i \in DOMAIN order |-> FileEntry(order[i])]
  OBVIOUS
<1>7. E \in [1 .. n -> ArchiveEntry]
  BY <1>4, <1>5, <1>6
<1>8. E \in Seq(ArchiveEntry)
  BY <1>7
<1> QED BY <1>1, <1>6, <1>8, StepSign

\* Downloading and verifying.
LEMMA StepDownload ==
  ASSUME ArchiveInv, (\E a, s \in packed, v \in Versions : Download(a, s, v)) \/ DownloadFails \/ VerifyDownload
  PROVE  ArchiveInv'
<1>0. \A E \in Seq(ArchiveEntry) : ExtractionOK(NoExtraction, E)
  BY NothingExtracted DEF NoExtraction
<1>1. CASE \E a, s \in packed, v \in Versions : Download(a, s, v)
  <2>1. PICK a \in packed, s \in packed, v \in Versions : Download(a, s, v)
    BY <1>1
  <2>2. PublicationOK(a, signed) /\ PublicationOK(s, signed)
    BY DEF ArchiveInv
  <2>3. PICK t : t = [s.sig EXCEPT !.version = v]
    OBVIOUS
  <2>4. t.signature \in signed
    BY <2>2, <2>3 DEF PublicationOK, SignatureOK
  <2>5. got' = [state |-> "downloaded", entries |-> a.entries, sig |-> t]
    BY <2>1, <2>3 DEF Download
  <2>6. got'.state = "downloaded" /\ got'.entries = a.entries /\ got'.sig = t
    BY <2>5
  <2>7. ex = NoExtraction /\ kept.verdict = "none" /\ UNCHANGED <<packed, signed, ex, kept>>
    BY <2>1 DEF Download, ArchiveInv, DownloadOK
  <2>8. a.entries \in Seq(ArchiveEntry)
    BY <2>2 DEF PublicationOK
  <2>9. DownloadOK'
    BY <2>4, <2>5, <2>6, <2>7, <2>8 DEF DownloadOK, ArchiveInv
  <2> QED BY <1>0, <2>6, <2>7, <2>8, <2>9 DEF ArchiveInv
<1>2. CASE DownloadFails \/ VerifyDownload
  <2>1. PICK s \in {"failed", "verified", "refused"} :
          /\ got' = [got EXCEPT !.state = s]
          /\ s = "verified" => got.state = "downloaded" /\ verifySignatureFileStrict(got.sig, got.entries)
    BY <1>2 DEF DownloadFails, VerifyDownload
  <2>2. got' = [state |-> s, entries |-> got.entries, sig |-> got.sig]
    BY <2>1 DEF ArchiveInv, DownloadOK
  <2>3. got'.state = s /\ got'.entries = got.entries /\ got'.sig = got.sig
    BY <2>2
  <2>4. ex = NoExtraction /\ kept.verdict = "none" /\ UNCHANGED <<packed, signed, ex, kept>>
    BY <1>2 DEF DownloadFails, VerifyDownload, ArchiveInv, DownloadOK
  <2>5. DownloadOK'
    BY <2>1, <2>2, <2>3, <2>4 DEF DownloadOK, ArchiveInv
  <2> QED BY <2>3, <2>4, <2>5 DEF ArchiveInv
<1> QED BY <1>1, <1>2

\* The extraction starts.
LEMMA StepUnpackAgent ==
  ASSUME ArchiveInv, unpackAgent
  PROVE  ArchiveInv'
<1>1. PICK y : y = [NoExtraction EXCEPT !.parser = "open"]
  OBVIOUS
<1>2. y = [parser |-> "open", next |-> 1, open |-> {}, done |-> {},
           refused |-> {}, files |-> 0, total |-> 0, pending |-> 0,
           candidates |-> <<>>, settled |-> "no", early |-> "no", listed |-> {}]
  BY <1>1 DEF NoExtraction
<1>3. ExtractionOK(y, got.entries)
  BY <1>2, NothingExtracted DEF ArchiveInv, DownloadOK
<1>4. ex' = y /\ UNCHANGED <<packed, signed, got, kept>> /\ got.state = "verified"
  BY <1>1 DEF unpackAgent
<1> QED BY <1>3, <1>4 DEF ArchiveInv, DownloadOK

\* What is kept, and the verify command.
LEMMA StepKept ==
  ASSUME ArchiveInv, KeepSignature \/ KeepArchive \/ Verify
  PROVE  ArchiveInv'
<1>1. UNCHANGED <<packed, signed, got, ex>>
  BY DEF KeepSignature, KeepArchive, Verify
<1>2. kept = [sig |-> kept.sig, archive |-> kept.archive, verdict |-> kept.verdict]
  BY DEF ArchiveInv, DownloadOK
<1>3. kept' = [sig |-> kept'.sig, archive |-> kept'.archive, verdict |-> kept'.verdict]
  BY <1>2 DEF KeepSignature, KeepArchive, Verify
<1>4. kept'.verdict = kept.verdict \/ ex.settled = "ok"
  BY <1>2 DEF KeepSignature, KeepArchive, Verify
<1>5. ex.settled = "ok" => ex # NoExtraction
  BY DEF NoExtraction
<1> QED BY <1>1, <1>3, <1>4, <1>5 DEF ArchiveInv, DownloadOK

--------------------------------------------------------------------------------

\* The initial state.
LEMMA ArchiveInvInit == ArchiveInit => ArchiveInv
<1> SUFFICES ASSUME ArchiveInit PROVE ArchiveInv
  OBVIOUS
<1>1. got.state = "none" /\ got.entries = <<>> /\ <<>> \in Seq(ArchiveEntry)
  BY DEF ArchiveInit
<1>2. DownloadOK
  BY <1>1 DEF DownloadOK, ArchiveInit
<1>3. ExtractionOK(ex, got.entries)
  BY <1>1, NothingExtracted DEF ArchiveInit, NoExtraction
<1> QED BY <1>2, <1>3 DEF ArchiveInv, ArchiveInit

\* Every step.
LEMMA ArchiveInvStep == ArchiveInv /\ [ArchiveNext]_archiveVars => ArchiveInv'
<1> SUFFICES ASSUME ArchiveInv, [ArchiveNext]_archiveVars PROVE ArchiveInv'
  OBVIOUS
<1>1. ASSUME NEW a \in OtherArchives, NEW v, NEW k, PackedElsewhere(a, v, k) PROVE ArchiveInv'
  <2>1. a \in Seq(ArchiveEntry)
    BY InputsAssumption
  <2> QED BY <1>1, <2>1, StepSign DEF PackedElsewhere
<1>2. CASE UNCHANGED archiveVars
  BY <1>2 DEF archiveVars, ArchiveInv, DownloadOK
<1> QED
  BY <1>1, <1>2, StepPackAgent, StepDownload, StepUnpackAgent, StepEntryEvent, StepWriteFinished,
     StepWriteFailed, StepParser, StepKept DEF ArchiveNext

\* The inductive invariant of packing, verifying and unpacking.
THEOREM ArchiveInvariance == ArchiveSpec => []ArchiveInv
BY ArchiveInvInit, ArchiveInvStep, PTL DEF ArchiveSpec

\* What verifySignatureFileStrict lets through was signed for that version, for any
\* number of publications, keys and versions.
THEOREM OnlySignedIsVerified == ArchiveSpec => []VerifiedIsSigned
<1>1. ArchiveInv => VerifiedIsSigned
  <2> SUFFICES ASSUME ArchiveInv, got.state = "verified" \/ kept.verdict = "valid"
               PROVE  signPayload(signaturePayload(got.sig.version, got.entries), got.sig.publicKey) \in signed
    BY DEF VerifiedIsSigned
  <2>1. got.state = "verified"
    BY DEF ArchiveInv, DownloadOK
  <2> QED BY <2>1 DEF ArchiveInv, DownloadOK, verifySignatureFileStrict, verifyPayload
<1> QED BY <1>1, ArchiveInvariance, PTL

\* The limits of unpackAgent bound what is written, whatever archive, sizes and limits.
THEOREM LimitsAreKept == ArchiveSpec => []LimitsHold
<1>1. ArchiveInv => LimitsHold
  BY DEF ArchiveInv, ExtractionOK, Within, Placed, LimitsHold
<1> QED BY <1>1, ArchiveInvariance, PTL

\* A promise resolved after the parser's end tells the truth, whatever archive and
\* order of events.
THEOREM UnpackTellsTheTruth == ArchiveSpec => []UnpackComplete
<1>1. ArchiveInv => UnpackComplete
  <2> SUFFICES ASSUME ArchiveInv, ex.early = "no" PROVE UnpackComplete
    BY DEF UnpackComplete
  <2> DEFINE E == got.entries
             files == {i \in DOMAIN got.entries : got.entries[i].type = "File"}
             names == {got.entries[i].path : i \in files}
  <2>1. Placed(ex, E) /\ Truthful(ex, E) /\ E \in Seq(ArchiveEntry)
    BY DEF ArchiveInv, ExtractionOK, DownloadOK
  <2>2. ASSUME ex.settled \in {"ok", "missing"}
        PROVE  ex.refused = {} /\ ex.done = files
    <3>1. ex.open = {} /\ ex.refused = {} /\ ex.next = Len(E) + 1
      BY <2>1, <2>2 DEF Truthful, Placed
    <3>2. DOMAIN E = 1 .. Len(E) /\ (Len(E) + 1) - 1 = Len(E)
      BY <2>1
    <3>3. ex.done \subseteq files
      BY <2>1, <3>1, <3>2 DEF Placed
    <3>4. files \subseteq ex.done
      BY <2>1, <3>1, <3>2 DEF Placed
    <3> QED BY <3>1, <3>3, <3>4
  <2>3. ex.settled = "ok" => ex.listed = listProjectFiles(names)
    BY <2>1, <2>2 DEF Truthful
  <2>4. ex.settled = "missing" => \A p \in names : ~ IsManifest(p)
    BY <2>1, <2>2 DEF Truthful, Placed
  <2> HIDE DEF files, names
  <2>5. /\ ex.settled = "ok" => ex.refused = {} /\ ex.done = files /\ ex.listed = listProjectFiles(names)
        /\ ex.settled = "missing" => \A p \in names : ~ IsManifest(p)
    BY <2>2, <2>3, <2>4
  <2> QED BY <2>5 DEF UnpackComplete, files, names
<1> QED BY <1>1, ArchiveInvariance, PTL

==================================================================================
