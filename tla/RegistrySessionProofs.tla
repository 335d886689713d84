------------------------- MODULE RegistrySessionProofs -------------------------
(***************************************************************************)
(* Proofs about RegistrySession: credentials stay with the registry that   *)
(* issued them, and the halves of the signing key match.                   *)
(*                                                                         *)
(* What is done to a session never changes its registry, so a credential   *)
(* that was right stays right.  While no two first publishes overlapped, a *)
(* command that writes the key files is alone and finds no public half;    *)
(* the private half it wrote is the one on disk until its public half is   *)
(* there, and after a crash before that the next command makes a new pair. *)
(***************************************************************************)
EXTENDS RegistrySession, FunctionTheorems, FiniteSetTheorems, SequenceTheorems, TLAPS

Session == [reg: Registries, audience: {"web", "cli"}, state: {"active", "expired", "revoked"}]

\* A credential that may be presented to a registry.
CredOK(cred, r) ==
    /\ cred.kind \in {"none", "session", "github", "config"}
    /\ cred.kind = "session" => cred.id \in DOMAIN sessions /\ sessions[cred.id].reg = r

StoresOK ==
    /\ sessions \in Seq(Session)
    /\ config \in [registryUrl: Registries, token: {NoCred, ConfigToken}]
    /\ vault = [r \in Registries |-> vault[r]] /\ \A r \in Registries : CredOK(vault[r], r)

\* Steps of a publish that has its key, and those that write it.
KeyPcs == {"half_key", "packed", "uploading", "publishing"}
WritePcs == {"no_key", "half_key"}
PublishPcs == KeyPcs \cup WritePcs
CliPcs == PublishPcs \cup {"idle", "waiting", "asleep", "issuing", "answered", "stored", "naming",
                           "leaving", "listing", "revoking", "clearing", "asking", "revoking_one"}

\* A CLI process.
ProcessOK(p) ==
    /\ p \in [pc: CliPcs, reg: Registries, cred: {p.cred}, todo: {p.todo}, key: Nat, pub: Nat]
    /\ CredOK(p.cred, p.reg)

CliOK == cli = [c \in Clis |-> cli[c]] /\ \A c \in Clis : ProcessOK(cli[c])

KeyRecord == [priv: Nat, pub: Nat, made: Nat, torn: SUBSET {"priv", "pub"},
              registered: SUBSET (Registries \X Nat), revoked: SUBSET (Registries \X Nat),
              overlap: {"no", "yes"}, refused: {"no", "yes"}]

\* A publish under way has both halves of one pair, and its public half where it
\* says so; the one that writes the files is alone.
PublishOK(c) ==
    /\ cli[c].pc \in KeyPcs => cli[c].key = cli[c].pub
    /\ cli[c].pc = "publishing" => <<cli[c].reg, cli[c].pub>> \in keys.registered
    /\ cli[c].pc = "half_key" => keys.priv = cli[c].pub /\ "priv" \notin keys.torn
    /\ cli[c].pc \in WritePcs => /\ keys.pub = 0
                                 /\ \A d \in Clis : d # c => cli[d].pc \notin WritePcs

\* The files on disk: a public half is there with its private one.
PairOK == /\ keys.refused = "no"
          /\ keys.pub # 0 => keys.priv = keys.pub /\ "priv" \notin keys.torn

KeysOK ==
    /\ keys \in KeyRecord
    /\ keys.overlap = "no" => PairOK /\ \A c \in Clis : PublishOK(c)

IInv == StoresOK /\ CliOK /\ KeysOK

-----------------------------------------------------------------------------
(* Sessions: what requests do to them.                                     *)

\* No session loses its registry.
Grows ==
    /\ sessions' \in Seq(Session)
    /\ \A i \in DOMAIN sessions : i \in DOMAIN sessions' /\ sessions'[i].reg = sessions[i].reg

\* The sessions are numbered, and a session has its fields.
LEMMA SessionFacts ==
  ASSUME StoresOK
  PROVE  /\ Len(sessions) \in Nat /\ DOMAIN sessions = 1 .. Len(sessions)
         /\ sessions = [i \in DOMAIN sessions |-> sessions[i]]
         /\ \A i \in DOMAIN sessions : sessions[i] \in Session
BY DEF StoresOK

\* A step that leaves the sessions alone.
LEMMA SessionsKept ==
  ASSUME StoresOK, sessions' = sessions
  PROVE  Grows
BY DEF StoresOK, Grows

\* A session is issued.
LEMMA SessionIssued ==
  ASSUME StoresOK, NEW r \in Registries, NEW a \in {"web", "cli"},
         sessions' = Append(sessions, NewSession(r, a))
  PROVE  /\ Grows
         /\ Len(sessions) + 1 \in DOMAIN sessions'
         /\ sessions'[Len(sessions) + 1] = NewSession(r, a)
<1>1. NewSession(r, a) \in Session
  BY DEF NewSession, Session
<1>2. /\ sessions' \in Seq(Session) /\ Len(sessions') = Len(sessions) + 1
      /\ \A i \in 1 .. Len(sessions) : sessions'[i] = sessions[i]
      /\ sessions'[Len(sessions) + 1] = NewSession(r, a)
  BY <1>1, AppendProperties DEF StoresOK
<1>3. DOMAIN sessions = 1 .. Len(sessions) /\ DOMAIN sessions' = 1 .. Len(sessions) + 1
      /\ Len(sessions) \in Nat
  BY <1>2, SessionFacts
<1> QED BY <1>2, <1>3 DEF Grows

\* A step that changes nothing of the sessions but their states.
LEMMA StatesChanged ==
  ASSUME StoresOK, NEW f, sessions' = [i \in DOMAIN sessions |-> f[i]],
         \A i \in DOMAIN sessions : f[i] \in Session /\ f[i].reg = sessions[i].reg
  PROVE  Grows /\ \A i \in DOMAIN sessions : sessions'[i] = f[i]
<1>1. Len(sessions) \in Nat /\ DOMAIN sessions = 1 .. Len(sessions)
  BY SessionFacts
<1>2. sessions' \in [1 .. Len(sessions) -> Session]
  BY <1>1
<1>3. sessions' \in Seq(Session)
  BY <1>1, <1>2, SeqDef
<1> QED BY <1>3 DEF Grows

\* Revoking some sessions.
LEMMA SessionsRevoked ==
  ASSUME StoresOK, NEW ids, sessions' = Revoked(ids)
  PROVE  Grows
<1> DEFINE f == [i \in DOMAIN sessions |->
                   IF i \in ids THEN [sessions[i] EXCEPT !.state = "revoked"] ELSE sessions[i]]
<1>1. sessions' = [i \in DOMAIN sessions |-> f[i]]
  BY DEF Revoked
<1>2. ASSUME NEW i \in DOMAIN sessions
      PROVE  f[i] \in Session /\ f[i].reg = sessions[i].reg
  BY SessionFacts DEF Session
<1> HIDE DEF f
<1> QED BY <1>1, <1>2, StatesChanged

\* A session expires.
LEMMA SessionExpired ==
  ASSUME StoresOK, NEW k \in DOMAIN sessions, sessions' = [sessions EXCEPT ![k].state = "expired"]
  PROVE  Grows
<1> DEFINE f == [i \in DOMAIN sessions |->
                   IF i = k THEN [sessions[i] EXCEPT !.state = "expired"] ELSE sessions[i]]
<1>1. sessions' = [i \in DOMAIN sessions |-> f[i]]
  BY SessionFacts
<1>2. ASSUME NEW i \in DOMAIN sessions
      PROVE  f[i] \in Session /\ f[i].reg = sessions[i].reg
  BY SessionFacts DEF Session
<1> HIDE DEF f
<1> QED BY <1>1, <1>2, StatesChanged

\* A credential that was right stays right.
LEMMA CredKept ==
  ASSUME Grows, NEW cred, NEW r, CredOK(cred, r)
  PROVE  CredOK(cred, r)'
BY DEF Grows, CredOK

-----------------------------------------------------------------------------
(* Frames: what a step that changes one thing keeps of the others.         *)

\* The stores, when they are left alone.
LEMMA StoresKept ==
  ASSUME StoresOK, Grows, config' = config, vault' = vault
  PROVE  StoresOK'
BY CredKept DEF StoresOK, Grows

\* A credential is stored for a registry, or removed.
LEMMA CredStored ==
  ASSUME StoresOK, sessions' = sessions, NEW r \in Registries, NEW cred, CredOK(cred, r),
         config' \in [registryUrl: Registries, token: {NoCred, ConfigToken}],
         vault' = [vault EXCEPT ![r] = cred]
  PROVE  StoresOK'
<1>1. \A o \in Registries : CredOK(vault'[o], o)
  BY DEF StoresOK
<1>2. vault' = [o \in Registries |-> vault'[o]]
  BY DEF StoresOK
<1> QED BY <1>1, <1>2 DEF StoresOK, CredOK

\* The processes, when they are left alone.
LEMMA CliKept ==
  ASSUME CliOK, Grows, cli' = cli
  PROVE  CliOK'
BY CredKept DEF CliOK, ProcessOK

\* One process moves, to a state that is in order.
LEMMA CliMoved ==
  ASSUME CliOK, Grows, NEW c \in Clis, NEW p, ProcessOK(p)', cli' = [cli EXCEPT ![c] = p]
  PROVE  CliOK'
<1>1. ASSUME NEW d \in Clis PROVE ProcessOK(cli[d])'
  <2>1. CASE d = c
    <3>1. cli'[d] = p
      BY <2>1 DEF CliOK
    <3> QED BY <3>1 DEF ProcessOK
  <2>2. CASE d # c
    <3>1. cli'[d] = cli[d] /\ ProcessOK(cli[d])
      BY <2>2 DEF CliOK
    <3>2. CredOK(cli[d].cred, cli[d].reg)'
      BY <3>1, CredKept DEF ProcessOK, CredOK
    <3> QED BY <3>1, <3>2 DEF ProcessOK
  <2> QED BY <2>1, <2>2
<1>2. cli' = [d \in Clis |-> cli'[d]]
  BY DEF CliOK
<1> QED BY <1>1, <1>2 DEF CliOK

\* The keys, when nothing moves.
LEMMA KeysKept ==
  ASSUME KeysOK, keys' = keys, cli' = cli
  PROVE  KeysOK'
BY DEF KeysOK, PairOK, PublishOK

\* A process leaves its publish, or goes on with the pair it has.
LEMMA KeysMoved ==
  ASSUME KeysOK, CliOK, NEW c \in Clis, NEW p, cli' = [cli EXCEPT ![c] = p], keys' = keys,
         \/ p.pc \notin PublishPcs
         \/ /\ cli[c].pc \in KeyPcs /\ p.pc \in {"packed", "uploading"}
            /\ p.key = cli[c].key /\ p.pub = cli[c].pub
  PROVE  KeysOK'
<1> SUFFICES ASSUME keys.overlap = "no", NEW d \in Clis PROVE PublishOK(d)'
  BY DEF KeysOK, PairOK
<1>1. cli'[c] = p /\ \A e \in Clis : e # c => cli'[e] = cli[e]
  BY DEF CliOK
<1>2. p.pc \notin WritePcs /\ p.pc # "half_key" /\ p.pc # "publishing"
  BY DEF PublishPcs, KeyPcs, WritePcs
<1>3. PublishOK(c) /\ PublishOK(d)
  BY DEF KeysOK
<1>4. CASE d = c
  BY <1>1, <1>2, <1>3, <1>4 DEF PublishOK, PublishPcs
<1>5. CASE d # c
  BY <1>1, <1>2, <1>3, <1>5 DEF PublishOK
<1> QED BY <1>4, <1>5

\* A key is revoked: the invariant does not speak of revocation.
LEMMA KeysRevoked ==
  ASSUME KeysOK, NEW new \in SUBSET (Registries \X Nat),
         keys' = [keys EXCEPT !.revoked = @ \cup new], cli' = cli
  PROVE  KeysOK'
<1>1. keys \in KeyRecord
  BY DEF KeysOK
<1>2. keys' \in KeyRecord
  BY <1>1 DEF KeyRecord
<1>3. /\ keys'.priv = keys.priv /\ keys'.pub = keys.pub /\ keys'.torn = keys.torn
      /\ keys'.registered = keys.registered /\ keys'.overlap = keys.overlap
      /\ keys'.refused = keys.refused
  BY <1>1 DEF KeyRecord
<1> QED BY <1>2, <1>3 DEF KeysOK, PairOK, PublishOK

-----------------------------------------------------------------------------
(* The CLI.                                                                *)

\* A process that goes on from one step to another keeps all else.
LEMMA Going ==
  ASSUME CliOK, NEW c \in Clis, NEW pc \in CliPcs
  PROVE  \E p : /\ p = [cli[c] EXCEPT !.pc = pc] /\ ProcessOK(p) /\ p.pc = pc
                /\ p.reg = cli[c].reg /\ p.cred = cli[c].cred
                /\ p.key = cli[c].key /\ p.pub = cli[c].pub
<1>1. ProcessOK(cli[c])
  BY DEF CliOK
<1>2. PICK p : p = [cli[c] EXCEPT !.pc = pc]
  OBVIOUS
<1>3. /\ p.pc = pc /\ p.reg = cli[c].reg /\ p.cred = cli[c].cred
      /\ p.key = cli[c].key /\ p.pub = cli[c].pub
  BY <1>1, <1>2 DEF ProcessOK
<1>4. p \in [pc: CliPcs, reg: Registries, cred: {p.cred}, todo: {p.todo}, key: Nat, pub: Nat]
  BY <1>1, <1>2 DEF ProcessOK
<1>5. ProcessOK(p)
  BY <1>1, <1>3, <1>4 DEF ProcessOK
<1> QED BY <1>2, <1>3, <1>5

\* An idle process is in order.
LEMMA IdleOK ==
  ASSUME TRUE
  PROVE  ProcessOK(Idle) /\ Idle.pc = "idle" /\ Idle.pc \notin PublishPcs
BY ConstantsAssumption DEF ProcessOK, Idle, NoCred, CredOK, CliPcs, PublishPcs, KeyPcs, WritePcs

\* A step of a process that asks, waits or reads, and writes at most the credentials.
LEMMA ProcessStep ==
  ASSUME IInv, NEW c \in Clis, NEW p, ProcessOK(p), cli' = [cli EXCEPT ![c] = p],
         sessions' = sessions, keys' = keys, StoresOK',
         \/ p.pc \notin PublishPcs
         \/ /\ cli[c].pc \in KeyPcs /\ p.pc \in {"packed", "uploading"}
            /\ p.key = cli[c].key /\ p.pub = cli[c].pub
  PROVE  IInv'
<1>1. Grows
  BY SessionsKept DEF IInv
<1>2. ProcessOK(p)'
  BY DEF ProcessOK, CredOK
<1>3. CliOK'
  BY <1>1, <1>2, CliMoved DEF IInv
<1>4. KeysOK'
  BY KeysMoved DEF IInv
<1> QED BY <1>3, <1>4 DEF IInv

\* The stores, when neither they nor the sessions change.
LEMMA StoresStill ==
  ASSUME IInv, sessions' = sessions, vault' = vault, config' = config
  PROVE  StoresOK'
BY SessionsKept, StoresKept DEF IInv

\* A command that ends.
LEMMA EndStep ==
  ASSUME IInv, NEW c \in Clis, End(c), sessions' = sessions, keys' = keys, StoresOK'
  PROVE  IInv'
BY IdleOK, ProcessStep DEF End

\* A command that goes on, outside a publish.
LEMMA GotoStep ==
  ASSUME IInv, NEW c \in Clis, NEW pc \in CliPcs \ PublishPcs, Goto(c, pc),
         sessions' = sessions, keys' = keys, StoresOK'
  PROVE  IInv'
<1>1. PICK p : p = [cli[c] EXCEPT !.pc = pc] /\ ProcessOK(p) /\ p.pc = pc
  BY Going DEF IInv
<1>2. cli' = [cli EXCEPT ![c] = p]
  BY <1>1 DEF Goto
<1> QED BY <1>1, <1>2, ProcessStep

\* A command that starts, outside a publish.
LEMMA StartStep ==
  ASSUME IInv, NEW c \in Clis, NEW r \in Registries, NEW pc \in CliPcs \ PublishPcs, NEW cred,
         CredOK(cred, r), NEW todo, Start(c, r, pc, cred, todo),
         sessions' = sessions, keys' = keys, StoresOK'
  PROVE  IInv'
<1>1. PICK p : p = [Idle EXCEPT !.pc = pc, !.reg = r, !.cred = cred, !.todo = todo]
  OBVIOUS
<1>2. cli' = [cli EXCEPT ![c] = p]
  BY <1>1 DEF Start
<1>3. p.pc = pc /\ p.reg = r /\ p.cred = cred
  BY <1>1 DEF Idle
<1>4. p \in [pc: CliPcs, reg: Registries, cred: {p.cred}, todo: {p.todo}, key: Nat, pub: Nat]
  BY <1>1 DEF Idle
<1>5. ProcessOK(p)
  BY <1>3, <1>4 DEF ProcessOK
<1> QED BY <1>2, <1>3, <1>5, ProcessStep

\* The device flow up to the answer: only the process moves.
LEMMA DeviceStep ==
  ASSUME IInv, NEW c \in Clis, CheckDeadline(c) \/ PollPending(c) \/ PollApproved(c)
  PROVE  IInv'
<1>1. /\ sessions' = sessions /\ keys' = keys
      /\ vault' = vault /\ config' = config
  BY DEF CheckDeadline, PollPending, PollApproved, server, local
<1>2. StoresOK'
  BY <1>1, StoresStill
<1>3. End(c) \/ Goto(c, "asleep") \/ Goto(c, "waiting") \/ Goto(c, "issuing")
  BY DEF CheckDeadline, PollPending, PollApproved
<1>4. {"asleep", "waiting", "issuing"} \subseteq CliPcs \ PublishPcs
  BY DEF CliPcs, PublishPcs, KeyPcs, WritePcs
<1> QED BY <1>1, <1>2, <1>3, <1>4, EndStep, GotoStep

\* The registry issues a session for the login; the answer arrives or is lost.
LEMMA IssueStep ==
  ASSUME IInv, NEW c \in Clis, Issue(c)
  PROVE  IInv'
<1>1. ProcessOK(cli[c])
  BY DEF IInv, CliOK
<1>a. PICK r \in Registries : r = cli[c].reg
  BY <1>1 DEF ProcessOK
<1>b. PICK k : k = Len(sessions) + 1
  OBVIOUS
<1>2. /\ sessions' = Append(sessions, NewSession(r, "cli"))
      /\ keys' = keys /\ vault' = vault /\ config' = config
  BY <1>a DEF Issue, local
<1>3. Grows /\ k \in DOMAIN sessions' /\ sessions'[k] = NewSession(r, "cli")
  BY <1>2, <1>b, SessionIssued DEF IInv
<1>4. StoresOK'
  BY <1>2, <1>3, StoresKept DEF IInv
<1>5. CASE cli' = [cli EXCEPT ![c].pc = "answered", ![c].cred = Cred(Len(sessions) + 1)]
  <2>1. PICK p : p = [cli[c] EXCEPT !.pc = "answered", !.cred = Cred(k)]
    OBVIOUS
  <2>2. p.pc = "answered" /\ p.reg = r /\ p.cred = Cred(k)
    BY <1>1, <1>a, <2>1 DEF ProcessOK
  <2>3. p \in [pc: CliPcs, reg: Registries, cred: {p.cred}, todo: {p.todo}, key: Nat, pub: Nat]
    BY <1>1, <2>1 DEF ProcessOK, CliPcs
  <2>4. cli' = [cli EXCEPT ![c] = p]
    BY <1>5, <1>b, <2>1 DEF IInv, CliOK
  <2>5. CredOK(Cred(k), r)'
    BY <1>3 DEF CredOK, Cred, NewSession
  <2>6. CredOK(p.cred, p.reg)'
    BY <2>2, <2>5
  <2>7. ProcessOK(p)' /\ p.pc \notin PublishPcs
    BY <2>2, <2>3, <2>6 DEF ProcessOK, PublishPcs, KeyPcs, WritePcs
  <2>8. CliOK'
    BY <1>3, <2>4, <2>7, CliMoved DEF IInv
  <2>9. KeysOK'
    BY <1>2, <2>4, <2>7, KeysMoved DEF IInv
  <2> QED BY <1>4, <2>8, <2>9 DEF IInv
<1>6. CASE End(c)
  <2>1. cli' = [cli EXCEPT ![c] = Idle]
    BY <1>6 DEF End
  <2>2. ProcessOK(Idle)' /\ Idle.pc \notin PublishPcs
    BY IdleOK DEF ProcessOK, Idle, CredOK, NoCred
  <2>3. CliOK'
    BY <1>3, <2>1, <2>2, CliMoved DEF IInv
  <2>4. KeysOK'
    BY <1>2, <2>1, <2>2, KeysMoved DEF IInv
  <2> QED BY <1>4, <2>3, <2>4 DEF IInv
<1> QED BY <1>5, <1>6 DEF Issue

\* The CLI stores what it was given for the registry that gave it.
LEMMA StoreStep ==
  ASSUME IInv, NEW c \in Clis, StoreCredential(c) \/ StoreRegistry(c)
  PROVE  IInv'
<1>1. ProcessOK(cli[c]) /\ cli[c].reg \in Registries /\ CredOK(cli[c].cred, cli[c].reg)
  BY DEF IInv, CliOK, ProcessOK
<1>2. sessions' = sessions /\ keys' = keys
  BY DEF StoreCredential, StoreRegistry, server
<1>3. CASE StoreCredential(c)
  <2>1. StoresOK'
    BY <1>1, <1>2, <1>3, CredStored DEF StoreCredential, saveCredential, IInv, StoresOK
  <2>2. Goto(c, "stored") /\ "stored" \in CliPcs \ PublishPcs
    BY <1>3 DEF StoreCredential, CliPcs, PublishPcs, KeyPcs, WritePcs
  <2> QED BY <1>2, <2>1, <2>2, GotoStep
<1>4. CASE StoreRegistry(c)
  <2>1. StoresOK'
    BY <1>1, <1>2, <1>4 DEF StoreRegistry, IInv, StoresOK, CredOK
  <2>2. End(c)
    BY <1>4 DEF StoreRegistry
  <2> QED BY <1>2, <2>1, <2>2, EndStep
<1> QED BY <1>3, <1>4

\* No credential, a GitHub token and that of the configuration may be used anywhere.
LEMMA PlainCreds ==
  ASSUME TRUE
  PROVE  \A r : CredOK(NoCred, r) /\ CredOK(GitHubToken, r) /\ CredOK(ConfigToken, r)
BY DEF CredOK, NoCred, GitHubToken, ConfigToken

\* login starts: the device flow, or a token that is stored at once.
LEMMA LoginStep ==
  ASSUME IInv, NEW c \in Clis, NEW r \in Registries, Login(c, r)
  PROVE  IInv'
<1>1. CASE StartDeviceLogin(c, r)
  <2>1. /\ sessions' = sessions /\ keys' = keys
        /\ vault' = vault /\ config' = config
    BY <1>1 DEF StartDeviceLogin, local
  <2>2. Start(c, r, "waiting", NoCred, <<>>) /\ "waiting" \in CliPcs \ PublishPcs
    BY <1>1 DEF StartDeviceLogin, CliPcs, PublishPcs, KeyPcs, WritePcs
  <2>3. StoresOK'
    BY <2>1, StoresStill
  <2> QED BY <2>1, <2>2, <2>3, PlainCreds, StartStep
<1>2. CASE StartTokenLogin(c, r)
  <2>1. /\ sessions' = sessions /\ keys' = keys
        /\ vault' = [vault EXCEPT ![r] = GitHubToken]
        /\ config' = [config EXCEPT !.registryUrl = r]
    BY <1>2 DEF StartTokenLogin, server, saveCredential
  <2>2. Start(c, r, "naming", GitHubToken, <<>>) /\ "naming" \in CliPcs \ PublishPcs
    BY <1>2 DEF StartTokenLogin, CliPcs, PublishPcs, KeyPcs, WritePcs
  <2>3. config' \in [registryUrl: Registries, token: {NoCred, ConfigToken}]
    BY <2>1 DEF IInv, StoresOK
  <2>4. StoresOK'
    BY <2>1, <2>3, PlainCreds, CredStored DEF IInv
  <2> QED BY <2>1, <2>2, <2>4, PlainCreds, StartStep
<1> QED BY <1>1, <1>2 DEF Login

\* tokenFlow stores the token once more, or not.
LEMMA TokenNamedStep ==
  ASSUME IInv, NEW c \in Clis, TokenNamed(c)
  PROVE  IInv'
<1>1. sessions' = sessions /\ keys' = keys /\ config' = config /\ End(c)
  BY DEF TokenNamed, server
<1>2. cli[c].reg \in Registries
  BY DEF IInv, CliOK, ProcessOK
<1>3. StoresOK'
  <2>1. CASE saveCredential(cli[c].reg, GitHubToken)
    BY <1>1, <1>2, <2>1, PlainCreds, CredStored DEF saveCredential, IInv, StoresOK
  <2>2. CASE vault' = vault
    BY <1>1, <2>2, StoresStill
  <2> QED BY <2>1, <2>2 DEF TokenNamed
<1> QED BY <1>1, <1>3, EndStep

\* A command takes the credential that is stored for its registry.
LEMMA TokenResolved ==
  ASSUME IInv, NEW r \in Registries
  PROVE  CredOK(resolveToken(r), r)
BY PlainCreds DEF IInv, StoresOK, resolveToken, getCredential

\* Commands that start with the stored credential: logout, the ones that ask, auth revoke.
LEMMA CommandStep ==
  ASSUME IInv, NEW c \in Clis, NEW r \in Registries,
         \/ \E all \in {"all", "own"} : Logout(c, r, all)
         \/ Whoami(c, r) \/ Auth(c, r) \/ AuthStatus(c, r) \/ AuthSessions(c, r)
         \/ \E id \in DOMAIN sessions : AuthRevoke(c, r, id)
  PROVE  IInv'
<1>1. /\ sessions' = sessions /\ keys' = keys
      /\ vault' = vault /\ config' = config
  BY DEF Logout, Whoami, Auth, AuthStatus, AuthSessions, Ask, AuthRevoke, server, local
<1>2. StoresOK' /\ CredOK(resolveToken(r), r)
  BY <1>1, StoresStill, TokenResolved
<1>3. PICK pc \in {"clearing", "listing", "leaving", "asking", "revoking_one"} :
        \E todo : Start(c, r, pc, resolveToken(r), todo)
  <2>1. CASE \E all \in {"all", "own"} : Logout(c, r, all)
    <3>1. PICK all \in {"all", "own"} : Logout(c, r, all)
      BY <2>1
    <3> DEFINE pc == IF resolveToken(r) = NoCred THEN "clearing" ELSE
                     IF all = "all" THEN "listing" ELSE "leaving"
    <3>2. Start(c, r, pc, resolveToken(r), <<>>)
      BY <3>1 DEF Logout
    <3>3. pc \in {"clearing", "listing", "leaving", "asking", "revoking_one"}
      OBVIOUS
    <3> QED BY <3>2, <3>3
  <2>2. CASE Whoami(c, r) \/ Auth(c, r) \/ AuthStatus(c, r) \/ AuthSessions(c, r)
    BY <2>2 DEF Whoami, Auth, AuthStatus, AuthSessions, Ask
  <2>3. CASE \E id \in DOMAIN sessions : AuthRevoke(c, r, id)
    BY <2>3 DEF AuthRevoke
  <2> QED BY <2>1, <2>2, <2>3
<1>4. pc \in CliPcs \ PublishPcs
  BY DEF CliPcs, PublishPcs, KeyPcs, WritePcs
<1> QED BY <1>1, <1>2, <1>3, <1>4, StartStep

\* A process whose list of things to do changes, and perhaps its step.
LEMMA Listing ==
  ASSUME CliOK, NEW c \in Clis, NEW pc \in CliPcs, NEW todo
  PROVE  \E p : /\ p = [cli[c] EXCEPT !.pc = pc, !.todo = todo] /\ ProcessOK(p) /\ p.pc = pc
<1>1. ProcessOK(cli[c])
  BY DEF CliOK
<1>2. PICK p : p = [cli[c] EXCEPT !.pc = pc, !.todo = todo]
  OBVIOUS
<1>3. p.pc = pc /\ p.reg = cli[c].reg /\ p.cred = cli[c].cred
  BY <1>1, <1>2 DEF ProcessOK
<1>4. p \in [pc: CliPcs, reg: Registries, cred: {p.cred}, todo: {p.todo}, key: Nat, pub: Nat]
  BY <1>1, <1>2 DEF ProcessOK
<1>5. ProcessOK(p)
  BY <1>1, <1>3, <1>4 DEF ProcessOK
<1> QED BY <1>2, <1>3, <1>5

\* The next of the things to do, at the same step.
LEMMA Nexting ==
  ASSUME CliOK, NEW c \in Clis
  PROVE  \E p : /\ p = [cli[c] EXCEPT !.todo = Tail(@)] /\ ProcessOK(p) /\ p.pc = cli[c].pc
<1>1. ProcessOK(cli[c])
  BY DEF CliOK
<1>2. PICK p : p = [cli[c] EXCEPT !.todo = Tail(@)]
  OBVIOUS
<1>3. p.pc = cli[c].pc /\ p.reg = cli[c].reg /\ p.cred = cli[c].cred
  BY <1>1, <1>2 DEF ProcessOK
<1>4. p \in [pc: CliPcs, reg: Registries, cred: {p.cred}, todo: {p.todo}, key: Nat, pub: Nat]
  BY <1>1, <1>2 DEF ProcessOK
<1>5. ProcessOK(p)
  BY <1>1, <1>3, <1>4 DEF ProcessOK
<1> QED BY <1>2, <1>3, <1>5

\* logout and the commands that ask: steps that change no session.
LEMMA AskStep ==
  ASSUME IInv, NEW c \in Clis, LogoutMe(c) \/ ListSessions(c) \/ ClearCredential(c) \/ Asked(c)
  PROVE  IInv'
<1>1. sessions' = sessions /\ keys' = keys /\ (ClearCredential(c) \/ config' = config)
  BY DEF LogoutMe, ListSessions, ClearCredential, Asked, server, local
<1>2. CASE LogoutMe(c)
  <2>1. Goto(c, "clearing") /\ "clearing" \in CliPcs \ PublishPcs /\ StoresOK'
    BY <1>1, <1>2, StoresStill DEF LogoutMe, CliPcs, PublishPcs, KeyPcs, WritePcs, local
  <2> QED BY <1>1, <2>1, GotoStep
<1>3. CASE ListSessions(c)
  <2> DEFINE pc == IF Accepted(cli[c].cred, cli[c].reg) THEN "revoking" ELSE "clearing"
             todo == Reverse(SetToSortSeq(Unrevoked(sessions, cli[c].reg, {"cli"}),
                                          LAMBDA i, j : i < j))
  <2>1. pc \in CliPcs /\ pc \notin PublishPcs
    BY DEF CliPcs, PublishPcs, KeyPcs, WritePcs
  <2>2. cli' = [cli EXCEPT ![c].pc = pc, ![c].todo = todo]
    BY <1>3 DEF ListSessions
  <2> HIDE DEF pc, todo
  <2>3. PICK p : p = [cli[c] EXCEPT !.pc = pc, !.todo = todo] /\ ProcessOK(p) /\ p.pc = pc
    <3>1. \A x \in CliPcs : \A t :
            \E p : p = [cli[c] EXCEPT !.pc = x, !.todo = t] /\ ProcessOK(p) /\ p.pc = x
      BY Listing DEF IInv
    <3> QED BY <2>1, <3>1
  <2>4. cli' = [cli EXCEPT ![c] = p]
    BY <2>2, <2>3 DEF IInv, CliOK
  <2>5. StoresOK'
    BY <1>1, <1>3, StoresStill DEF ListSessions, local
  <2> QED BY <1>1, <2>1, <2>3, <2>4, <2>5, ProcessStep
<1>4. CASE ClearCredential(c)
  <2>1. cli[c].reg \in Registries
    BY DEF IInv, CliOK, ProcessOK
  <2>2. config' \in [registryUrl: Registries, token: {NoCred, ConfigToken}]
    BY <1>4 DEF ClearCredential, IInv, StoresOK
  <2>3. StoresOK'
    BY <1>1, <1>4, <2>1, <2>2, PlainCreds, CredStored DEF ClearCredential, deleteCredential, IInv
  <2> QED BY <1>1, <1>4, <2>3, EndStep DEF ClearCredential
<1>5. CASE Asked(c)
  <2>1. StoresOK'
    BY <1>1, <1>5, StoresStill DEF Asked, local
  <2>2. CASE End(c)
    BY <1>1, <2>1, <2>2, EndStep
  <2>3. CASE cli' = [cli EXCEPT ![c].todo = Tail(@)]
    <3>1. PICK p : p = [cli[c] EXCEPT !.todo = Tail(@)] /\ ProcessOK(p) /\ p.pc = cli[c].pc
      BY Nexting DEF IInv
    <3>2. cli' = [cli EXCEPT ![c] = p]
      BY <2>3, <3>1
    <3>3. p.pc \notin PublishPcs
      BY <1>5, <3>1 DEF Asked, PublishPcs, KeyPcs, WritePcs
    <3> QED BY <1>1, <2>1, <3>1, <3>2, <3>3, ProcessStep
  <2> QED BY <1>5, <2>2, <2>3 DEF Asked
<1> QED BY <1>2, <1>3, <1>4, <1>5

\* A request of a process that revokes a session.
LEMMA RevokingStep ==
  ASSUME IInv, NEW c \in Clis, NEW id, sessions' = Revoked({id}),
         NEW p, ProcessOK(p), p.pc \notin PublishPcs, cli' = [cli EXCEPT ![c] = p],
         vault' = vault, config' = config, keys' = keys
  PROVE  IInv'
<1>1. Grows
  BY SessionsRevoked DEF IInv
<1>2. ProcessOK(p)'
  BY <1>1, CredKept DEF ProcessOK
<1>3. StoresOK' /\ CliOK' /\ KeysOK'
  BY <1>1, <1>2, StoresKept, CliMoved, KeysMoved DEF IInv
<1> QED BY <1>3 DEF IInv

\* logout --all and auth revoke.
LEMMA RevokeStep ==
  ASSUME IInv, NEW c \in Clis, RevokeNext(c) \/ RevokeOne(c)
  PROVE  IInv'
<1>1. keys' = keys /\ vault' = vault /\ config' = config
  BY DEF RevokeNext, RevokeOne, local
<1>2. CASE RevokeNext(c)
  <2>1. CASE cli[c].todo # <<>> /\ Accepted(cli[c].cred, cli[c].reg)
    <3>1. /\ sessions' = Revoked({Head(cli[c].todo)})
          /\ cli' = [cli EXCEPT ![c].todo = Tail(@)]
      BY <1>2, <2>1 DEF RevokeNext
    <3>2. PICK p : p = [cli[c] EXCEPT !.todo = Tail(@)] /\ ProcessOK(p) /\ p.pc = cli[c].pc
      BY Nexting DEF IInv
    <3>3. cli' = [cli EXCEPT ![c] = p]
      BY <3>1, <3>2
    <3>4. p.pc \notin PublishPcs
      BY <1>2, <3>2 DEF RevokeNext, PublishPcs, KeyPcs, WritePcs
    <3> QED BY <1>1, <3>1, <3>2, <3>3, <3>4, RevokingStep
  <2>2. CASE ~(cli[c].todo # <<>> /\ Accepted(cli[c].cred, cli[c].reg))
    <3>1. Goto(c, "clearing") /\ sessions' = sessions
      BY <1>2, <2>2 DEF RevokeNext
    <3>2. "clearing" \in CliPcs \ PublishPcs /\ StoresOK'
      BY <1>1, <3>1, StoresStill DEF CliPcs, PublishPcs, KeyPcs, WritePcs
    <3> QED BY <1>1, <3>1, <3>2, GotoStep
  <2> QED BY <2>1, <2>2
<1>3. CASE RevokeOne(c)
  <2>1. End(c)
    BY <1>3 DEF RevokeOne
  <2>2. CASE sessions' = Revoked({Head(cli[c].todo)})
    BY <1>1, <2>1, <2>2, IdleOK, RevokingStep DEF End
  <2>3. CASE sessions' = sessions
    <3>1. StoresOK'
      BY <1>1, <2>3, StoresStill
    <3> QED BY <1>1, <2>1, <2>3, <3>1, EndStep
  <2> QED BY <1>3, <2>2, <2>3 DEF RevokeOne
<1> QED BY <1>2, <1>3

-----------------------------------------------------------------------------
(* publish.                                                                *)

\* A publish starts with the pair that is on disk, ends on a torn one, or is to
\* make a new one.
LEMMA PublishStep ==
  ASSUME IInv, NEW c \in Clis, NEW r \in Registries, Publish(c, r)
  PROVE  IInv'
<1>1. sessions' = sessions /\ vault' = vault /\ config' = config
  BY DEF Publish, server
<1>2. Grows
  BY <1>1, SessionsKept DEF IInv
<1>3. StoresOK'
  BY <1>1, <1>2, StoresKept DEF IInv
<1>4. keys \in KeyRecord /\ keys.priv \in Nat /\ keys.pub \in Nat
  BY DEF IInv, KeysOK, KeyRecord
<1>5. cli[c].pc = "idle" /\ {"packed", "no_key"} \subseteq CliPcs
  BY DEF Publish, CliPcs, PublishPcs, KeyPcs, WritePcs
<1>6. ASSUME NEW p, ProcessOK(p)', cli' = [cli EXCEPT ![c] = p]
      PROVE  CliOK' /\ cli'[c] = p /\ \A d \in Clis : d # c => cli'[d] = cli[d]
  BY <1>2, <1>6, CliMoved DEF IInv, CliOK
<1>7. CASE KeyFiles /\ keys.torn # {}
  <2>1. keys' = keys /\ cli' = cli
    BY <1>7 DEF Publish
  <2> QED BY <1>2, <1>3, <2>1, CliKept, KeysKept DEF IInv
<1>8. CASE KeyFiles /\ keys.torn = {}
  <2>1. keys' = keys
    BY <1>8 DEF Publish
  <2>2. PICK p : p = [Idle EXCEPT !.pc = "packed", !.reg = r, !.key = keys.priv, !.pub = keys.pub]
    OBVIOUS
  <2>3. cli' = [cli EXCEPT ![c] = p]
    BY <1>8, <2>2 DEF Publish
  <2>4. ProcessOK(p)' /\ p.pc = "packed" /\ p.key = keys.priv /\ p.pub = keys.pub
    <3>1. PICK k \in Nat, h \in Nat : k = keys.priv /\ h = keys.pub
      BY <1>4
    <3>2. ProcessOK(p) /\ p.pc = "packed" /\ p.key = k /\ p.pub = h
      <4>1. p.pc = "packed" /\ p.reg = r /\ p.key = k /\ p.pub = h /\ p.cred = NoCred
        BY <2>2, <3>1 DEF Idle
      <4>2. p \in [pc: CliPcs, reg: Registries, cred: {p.cred}, todo: {p.todo}, key: Nat, pub: Nat]
        BY <1>5, <2>2, <3>1 DEF Idle
      <4> QED BY <4>1, <4>2 DEF ProcessOK, CredOK, NoCred
    <3> QED BY <1>1, <3>1, <3>2 DEF ProcessOK, CredOK
  <2>5. CliOK' /\ cli'[c] = p /\ \A d \in Clis : d # c => cli'[d] = cli[d]
    BY <1>6, <2>3, <2>4
  <2>6. KeysOK'
    <3> SUFFICES ASSUME keys.overlap = "no", NEW d \in Clis PROVE PublishOK(d)'
      BY <2>1 DEF IInv, KeysOK, PairOK
    <3>1. keys.priv = keys.pub /\ PublishOK(d)
      BY <1>8 DEF IInv, KeysOK, PairOK, KeyFiles
    <3>2. CASE d = c
      BY <2>1, <2>4, <2>5, <3>1, <3>2 DEF PublishOK, WritePcs
    <3>3. CASE d # c
      BY <2>1, <2>4, <2>5, <3>1, <3>3 DEF PublishOK, WritePcs
    <3> QED BY <3>2, <3>3
  <2> QED BY <1>3, <2>5, <2>6 DEF IInv
<1>9. CASE ~KeyFiles
  <2>1. PICK o \in {"no", "yes"} : o = IF Writers # {} THEN "yes" ELSE keys.overlap
    BY <1>4 DEF KeyRecord
  <2>2. keys' = [keys EXCEPT !.overlap = o]
    BY <1>9, <2>1 DEF Publish
  <2>3. /\ keys' \in KeyRecord /\ keys'.priv = keys.priv /\ keys'.pub = keys.pub
        /\ keys'.torn = keys.torn /\ keys'.registered = keys.registered
        /\ keys'.refused = keys.refused /\ keys'.overlap = o
    <3>1. keys' \in KeyRecord
      BY <1>4, <2>2 DEF KeyRecord
    <3> QED BY <1>4, <2>2, <3>1 DEF KeyRecord
  <2>4. PICK p : p = [Idle EXCEPT !.pc = "no_key", !.reg = r]
    OBVIOUS
  <2>5. cli' = [cli EXCEPT ![c] = p]
    BY <1>9, <2>4 DEF Publish
  <2>6. ProcessOK(p)' /\ p.pc = "no_key"
    <3>1. p.pc = "no_key" /\ p.reg = r /\ p.key = 0 /\ p.pub = 0 /\ p.cred = NoCred
      BY <2>4 DEF Idle
    <3>2. p \in [pc: CliPcs, reg: Registries, cred: {p.cred}, todo: {p.todo}, key: Nat, pub: Nat]
      BY <1>5, <2>4 DEF Idle
    <3> QED BY <3>1, <3>2 DEF ProcessOK, CredOK, NoCred
  <2>7. CliOK' /\ cli'[c] = p /\ \A d \in Clis : d # c => cli'[d] = cli[d]
    BY <1>6, <2>5, <2>6
  <2>8. KeysOK'
    <3> SUFFICES ASSUME o = "no" PROVE PairOK' /\ \A d \in Clis : PublishOK(d)'
      BY <2>3 DEF KeysOK
    <3>1. keys.overlap = "no" /\ \A d \in Clis : cli[d].pc \notin WritePcs
      BY <2>1 DEF Writers, WritePcs
    <3>2. PairOK /\ keys.pub = 0
      BY <1>4, <1>9, <3>1 DEF IInv, KeysOK, PairOK, KeyFiles
    <3>3. ASSUME NEW d \in Clis PROVE PublishOK(d)'
      <4>1. PublishOK(d)
        BY <3>1 DEF IInv, KeysOK
      <4>2. CASE d = c
        BY <2>3, <2>6, <2>7, <3>1, <3>2, <4>2 DEF PublishOK, WritePcs, KeyPcs
      <4>3. CASE d # c
        BY <2>3, <2>6, <2>7, <3>1, <4>1, <4>3 DEF PublishOK
      <4> QED BY <4>2, <4>3
    <3> QED BY <2>3, <3>2, <3>3 DEF PairOK
  <2> QED BY <1>3, <2>7, <2>8 DEF IInv
<1> QED BY <1>7, <1>8, <1>9

\* The private half that is written: a new one, over whatever was there.
LEMMA NewPrivateHalf ==
  ASSUME KeysOK
  PROVE  \E n \in Nat : \E q \in KeyRecord :
           /\ n = keys.made + 1 /\ n # 0 /\ q = PrivateHalf(n)
           /\ q.priv = n /\ q.pub = keys.pub /\ q.torn = keys.torn \ {"priv"}
           /\ q.registered = keys.registered /\ q.overlap = keys.overlap
           /\ q.refused = keys.refused
<1>1. keys \in KeyRecord /\ keys.made \in Nat /\ keys.torn \in SUBSET {"priv", "pub"}
  BY DEF KeysOK, KeyRecord
<1>2. PICK n \in Nat : n = keys.made + 1 /\ n # 0
  BY <1>1
<1>3. PICK t \in SUBSET {"priv", "pub"} : t = keys.torn \ {"priv"}
  BY <1>1
<1>4. PICK q : q = [keys EXCEPT !.made = n, !.priv = n, !.torn = t]
  OBVIOUS
<1>5. q = PrivateHalf(n)
  BY <1>3, <1>4 DEF PrivateHalf
<1>6. q \in KeyRecord
  BY <1>1, <1>4 DEF KeyRecord
<1>7. /\ q.priv = n /\ q.pub = keys.pub /\ q.torn = t /\ q.registered = keys.registered
      /\ q.overlap = keys.overlap /\ q.refused = keys.refused
  BY <1>1, <1>4 DEF KeyRecord
<1> QED BY <1>2, <1>3, <1>5, <1>6, <1>7

\* The private half is written.
LEMMA PrivateKeyStep ==
  ASSUME IInv, NEW c \in Clis, WritePrivateKey(c)
  PROVE  IInv'
<1>1. sessions' = sessions /\ vault' = vault /\ config' = config
  BY DEF WritePrivateKey, server
<1>2. Grows
  BY <1>1, SessionsKept DEF IInv
<1>3. StoresOK'
  BY <1>1, <1>2, StoresKept DEF IInv
<1>4. PICK n \in Nat, q \in KeyRecord :
           /\ n = keys.made + 1 /\ n # 0 /\ q = PrivateHalf(n)
           /\ q.priv = n /\ q.pub = keys.pub /\ q.torn = keys.torn \ {"priv"}
           /\ q.registered = keys.registered /\ q.overlap = keys.overlap
           /\ q.refused = keys.refused
  BY NewPrivateHalf DEF IInv
<1>5. keys' = q /\ cli' = [cli EXCEPT ![c].pc = "half_key", ![c].key = n, ![c].pub = n]
  <2>1. /\ keys' = PrivateHalf(keys.made + 1)
        /\ cli' = [cli EXCEPT ![c].pc = "half_key",
                              ![c].key = PrivateHalf(keys.made + 1).priv, ![c].pub = keys.made + 1]
    BY DEF WritePrivateKey
  <2> QED BY <1>4, <2>1
<1>6. ProcessOK(cli[c]) /\ cli[c].pc = "no_key"
  BY DEF IInv, CliOK, WritePrivateKey
<1>7. PICK p : p = [cli[c] EXCEPT !.pc = "half_key", !.key = n, !.pub = n]
  OBVIOUS
<1>8. p.pc = "half_key" /\ p.key = n /\ p.pub = n /\ p.reg = cli[c].reg /\ p.cred = cli[c].cred
  BY <1>6, <1>7 DEF ProcessOK
<1>9. p \in [pc: CliPcs, reg: Registries, cred: {p.cred}, todo: {p.todo}, key: Nat, pub: Nat]
  BY <1>6, <1>7 DEF ProcessOK, CliPcs, PublishPcs, KeyPcs, WritePcs
<1>10. ProcessOK(p)'
  BY <1>1, <1>6, <1>8, <1>9 DEF ProcessOK, CredOK
<1>11. cli' = [cli EXCEPT ![c] = p]
  BY <1>5, <1>7 DEF IInv, CliOK
<1>12. CliOK' /\ cli'[c] = p /\ \A d \in Clis : d # c => cli'[d] = cli[d]
  BY <1>2, <1>10, <1>11, CliMoved DEF IInv, CliOK
<1>13. KeysOK'
  <2> SUFFICES ASSUME keys.overlap = "no" PROVE PairOK' /\ \A d \in Clis : PublishOK(d)'
    BY <1>4, <1>5 DEF KeysOK
  <2>1. PublishOK(c) /\ PairOK
    BY DEF IInv, KeysOK
  <2>2. keys.pub = 0 /\ \A d \in Clis : d # c => cli[d].pc \notin WritePcs
    BY <1>6, <2>1 DEF PublishOK, WritePcs
  <2>3. ASSUME NEW d \in Clis PROVE PublishOK(d)'
    <3>1. PublishOK(d)
      BY DEF IInv, KeysOK
    <3>2. CASE d = c
      BY <1>4, <1>5, <1>8, <1>12, <2>2, <3>2 DEF PublishOK
    <3>3. CASE d # c
      BY <1>4, <1>5, <1>12, <2>2, <3>1, <3>3 DEF PublishOK, WritePcs
    <3> QED BY <3>2, <3>3
  <2> QED BY <1>4, <1>5, <2>1, <2>2, <2>3 DEF PairOK
<1> QED BY <1>3, <1>12, <1>13 DEF IInv

\* The public half that is written, in full or torn.
LEMMA NewPublicHalf ==
  ASSUME KeysOK, NEW h \in Nat, NEW t \in SUBSET {"priv", "pub"}
  PROVE  \E q \in KeyRecord :
           /\ q = [keys EXCEPT !.pub = h, !.torn = t] /\ q.priv = keys.priv /\ q.pub = h
           /\ q.torn = t /\ q.registered = keys.registered /\ q.overlap = keys.overlap
           /\ q.refused = keys.refused
<1>1. keys \in KeyRecord
  BY DEF KeysOK
<1>2. PICK q : q = [keys EXCEPT !.pub = h, !.torn = t]
  OBVIOUS
<1>3. q \in KeyRecord
  BY <1>1, <1>2 DEF KeyRecord
<1>4. /\ q.priv = keys.priv /\ q.pub = h /\ q.torn = t /\ q.registered = keys.registered
      /\ q.overlap = keys.overlap /\ q.refused = keys.refused
  BY <1>1, <1>2 DEF KeyRecord
<1> QED BY <1>2, <1>3, <1>4

\* A writer of the public half that goes on or ends keeps the pair in order.
LEMMA PublicHalfKeeps ==
  ASSUME IInv, NEW c \in Clis, cli[c].pc = "half_key", NEW t \in SUBSET {"priv", "pub"},
         "priv" \in t => "priv" \in keys.torn,
         keys' = [keys EXCEPT !.pub = cli[c].pub, !.torn = t],
         NEW p, cli' = [cli EXCEPT ![c] = p],
         \/ p.pc \notin PublishPcs
         \/ p.pc = "packed" /\ p.key = cli[c].key /\ p.pub = cli[c].pub
  PROVE  KeysOK'
<1>1. PICK h \in Nat : h = cli[c].pub
  BY DEF IInv, CliOK, ProcessOK
<1>2. PICK q \in KeyRecord :
        /\ q = [keys EXCEPT !.pub = h, !.torn = t] /\ q.priv = keys.priv /\ q.pub = h
        /\ q.torn = t /\ q.registered = keys.registered /\ q.overlap = keys.overlap
        /\ q.refused = keys.refused
  BY NewPublicHalf DEF IInv
<1>3. keys' = q
  BY <1>1, <1>2
<1> SUFFICES ASSUME keys.overlap = "no" PROVE PairOK' /\ \A d \in Clis : PublishOK(d)'
  BY <1>2, <1>3 DEF KeysOK
<1>4. PublishOK(c) /\ PairOK
  BY DEF IInv, KeysOK
<1>5. /\ keys.priv = cli[c].pub /\ "priv" \notin keys.torn /\ cli[c].key = cli[c].pub
      /\ \A d \in Clis : d # c => cli[d].pc \notin WritePcs
  BY <1>4 DEF PublishOK, WritePcs, KeyPcs
<1>6. cli'[c] = p /\ \A d \in Clis : d # c => cli'[d] = cli[d]
  BY DEF IInv, CliOK
<1>7. p.pc # "publishing" /\ p.pc # "half_key" /\ p.pc \notin WritePcs
      /\ (p.pc \in KeyPcs => p.key = p.pub)
  BY <1>5 DEF PublishPcs, KeyPcs, WritePcs
<1>8. ASSUME NEW d \in Clis PROVE PublishOK(d)'
  <2>1. PublishOK(d)
    BY DEF IInv, KeysOK
  <2>2. CASE d = c
    BY <1>6, <1>7, <2>2 DEF PublishOK
  <2>3. CASE d # c
    BY <1>2, <1>3, <1>5, <1>6, <2>1, <2>3 DEF PublishOK, WritePcs
  <2> QED BY <2>2, <2>3
<1> QED BY <1>1, <1>2, <1>3, <1>4, <1>5, <1>8 DEF PairOK

\* The public half is written.
LEMMA PublicKeyStep ==
  ASSUME IInv, NEW c \in Clis, WritePublicKey(c)
  PROVE  IInv'
<1>1. sessions' = sessions /\ vault' = vault /\ config' = config
  BY DEF WritePublicKey, server
<1>2. Grows
  BY <1>1, SessionsKept DEF IInv
<1>3. StoresOK'
  BY <1>1, <1>2, StoresKept DEF IInv
<1>4. "packed" \in CliPcs
  BY DEF CliPcs, PublishPcs, KeyPcs
<1>5. PICK p : /\ p = [cli[c] EXCEPT !.pc = "packed"] /\ ProcessOK(p) /\ p.pc = "packed"
               /\ p.key = cli[c].key /\ p.pub = cli[c].pub
  BY <1>4, Going DEF IInv
<1>6. cli' = [cli EXCEPT ![c] = p]
  BY <1>5 DEF WritePublicKey, Goto
<1>7. CliOK'
  <2>1. ProcessOK(p)'
    BY <1>1, <1>5 DEF ProcessOK, CredOK
  <2> QED BY <1>2, <1>6, <2>1, CliMoved DEF IInv
<1>8. PICK t \in SUBSET {"priv", "pub"} : t = keys.torn \ {"pub"}
  BY DEF IInv, KeysOK, KeyRecord
<1>9. KeysOK'
  <2>1. keys' = [keys EXCEPT !.pub = cli[c].pub, !.torn = t] /\ cli[c].pc = "half_key"
    BY <1>8 DEF WritePublicKey
  <2> QED BY <1>5, <1>6, <1>8, <2>1, PublicHalfKeeps
<1> QED BY <1>3, <1>7, <1>9 DEF IInv

\* A command is killed while it writes a key file: the torn private half is written
\* anew by the next one, and a torn public half is one of the pair on disk.
LEMMA TornStep ==
  ASSUME IInv, NEW c \in Clis, KeyWriteTorn(c)
  PROVE  IInv'
<1>1. sessions' = sessions /\ vault' = vault /\ config' = config
  BY DEF KeyWriteTorn, server
<1>2. Grows
  BY <1>1, SessionsKept DEF IInv
<1>3. StoresOK'
  BY <1>1, <1>2, StoresKept DEF IInv
<1>4. cli' = [cli EXCEPT ![c] = Idle]
  BY DEF KeyWriteTorn, End
<1>5. ProcessOK(Idle)' /\ Idle.pc \notin PublishPcs
  BY IdleOK DEF ProcessOK, Idle, CredOK, NoCred
<1>6. CliOK'
  BY <1>2, <1>4, <1>5, CliMoved DEF IInv
<1>7. CASE cli[c].pc = "half_key"
  <2>1. PICK t \in SUBSET {"priv", "pub"} : t = keys.torn \cup {"pub"}
    BY DEF IInv, KeysOK, KeyRecord
  <2>2. keys' = [keys EXCEPT !.pub = cli[c].pub, !.torn = t]
    BY <1>7, <2>1 DEF KeyWriteTorn
  <2>3. KeysOK'
    BY <1>4, <1>5, <1>7, <2>1, <2>2, PublicHalfKeeps
  <2> QED BY <1>3, <1>6, <2>3 DEF IInv
<1>8. CASE cli[c].pc = "no_key"
  <2>1. PICK n \in Nat, q \in KeyRecord :
           /\ n = keys.made + 1 /\ n # 0 /\ q = PrivateHalf(n)
           /\ q.priv = n /\ q.pub = keys.pub /\ q.torn = keys.torn \ {"priv"}
           /\ q.registered = keys.registered /\ q.overlap = keys.overlap
           /\ q.refused = keys.refused
    BY NewPrivateHalf DEF IInv
  <2>2. PICK t \in SUBSET {"priv", "pub"} : t = q.torn \cup {"priv"}
    BY <2>1 DEF KeyRecord
  <2>3. keys' = [q EXCEPT !.torn = t]
    BY <1>8, <2>1, <2>2 DEF KeyWriteTorn
  <2>4. /\ keys' \in KeyRecord /\ keys'.pub = keys.pub /\ keys'.overlap = keys.overlap
        /\ keys'.registered = keys.registered /\ keys'.refused = keys.refused
    <3>1. keys' \in KeyRecord
      BY <2>3 DEF KeyRecord
    <3> QED BY <2>1, <2>3, <3>1 DEF KeyRecord
  <2>5. KeysOK'
    <3> SUFFICES ASSUME keys.overlap = "no" PROVE PairOK' /\ \A d \in Clis : PublishOK(d)'
      BY <2>4 DEF KeysOK
    <3>1. PublishOK(c) /\ PairOK
      BY DEF IInv, KeysOK
    <3>2. keys.pub = 0 /\ \A d \in Clis : d # c => cli[d].pc \notin WritePcs
      BY <1>8, <3>1 DEF PublishOK, WritePcs
    <3>3. cli'[c] = Idle /\ \A d \in Clis : d # c => cli'[d] = cli[d]
      BY <1>4 DEF IInv, CliOK
    <3>4. ASSUME NEW d \in Clis PROVE PublishOK(d)'
      <4>1. PublishOK(d)
        BY DEF IInv, KeysOK
      <4>2. CASE d = c
        BY <1>5, <3>3, <4>2 DEF PublishOK, PublishPcs, KeyPcs, WritePcs
      <4>3. CASE d # c
        BY <2>4, <3>2, <3>3, <4>1, <4>3 DEF PublishOK, WritePcs
      <4> QED BY <4>2, <4>3
    <3> QED BY <2>4, <3>1, <3>2, <3>4 DEF PairOK
  <2> QED BY <1>3, <1>6, <2>5 DEF IInv
<1> QED BY <1>7, <1>8 DEF KeyWriteTorn

\* A key is revoked.
LEMMA RevokedStep ==
  ASSUME IInv, NEW key \in keys.registered, KeyRevoked(key)
  PROVE  IInv'
<1>1. sessions' = sessions /\ vault' = vault /\ config' = config /\ cli' = cli
  BY DEF KeyRevoked, server
<1>2. PICK new \in SUBSET (Registries \X Nat) : new = {key}
  BY DEF IInv, KeysOK, KeyRecord
<1>3. KeysOK'
  BY <1>1, <1>2, KeysRevoked DEF KeyRevoked, IInv
<1> QED BY <1>1, <1>3, SessionsKept, StoresKept, CliKept DEF IInv

\* --public-only, and the check of the credential before anything is uploaded.
LEMMA AuthenticateStep ==
  ASSUME IInv, NEW c \in Clis, PublicOnly(c) \/ Authenticate(c)
  PROVE  IInv'
<1>1. /\ sessions' = sessions /\ keys' = keys
      /\ vault' = vault /\ config' = config
  BY DEF PublicOnly, Authenticate, server, local
<1>2. StoresOK'
  BY <1>1, StoresStill
<1>3. CASE End(c)
  BY <1>1, <1>2, <1>3, EndStep
<1>4. CASE Authenticate(c) /\ ~End(c)
  <2>1. ProcessOK(cli[c]) /\ cli[c].reg \in Registries
    BY DEF IInv, CliOK, ProcessOK
  <2>2. PICK cred : cred = resolveToken(cli[c].reg) /\ CredOK(cred, cli[c].reg)
    BY <2>1, TokenResolved
  <2>3. cli' = [cli EXCEPT ![c].pc = "uploading", ![c].cred = cred] /\ cli[c].pc = "packed"
    BY <1>4, <2>2 DEF Authenticate
  <2>4. PICK p : p = [cli[c] EXCEPT !.pc = "uploading", !.cred = cred]
    OBVIOUS
  <2>5. cli' = [cli EXCEPT ![c] = p]
    BY <2>3, <2>4 DEF IInv, CliOK
  <2>6. /\ p.pc = "uploading" /\ p.reg = cli[c].reg /\ p.cred = cred
        /\ p.key = cli[c].key /\ p.pub = cli[c].pub
    BY <2>1, <2>4 DEF ProcessOK
  <2>7. p \in [pc: CliPcs, reg: Registries, cred: {p.cred}, todo: {p.todo}, key: Nat, pub: Nat]
    BY <2>1, <2>4 DEF ProcessOK, CliPcs, PublishPcs, KeyPcs, WritePcs
  <2>8. ProcessOK(p)
    BY <2>2, <2>6, <2>7 DEF ProcessOK
  <2> QED BY <1>1, <1>2, <2>3, <2>5, <2>6, <2>8, ProcessStep DEF KeyPcs
<1> QED BY <1>3, <1>4 DEF PublicOnly, Authenticate

\* The public key is registered, and the command goes on to publish with it.
LEMMA UploadStep ==
  ASSUME IInv, NEW c \in Clis, uploadPublicKey(c)
  PROVE  IInv'
<1>1. sessions' = sessions /\ vault' = vault /\ config' = config
  BY DEF uploadPublicKey, server
<1>2. Grows
  BY <1>1, SessionsKept DEF IInv
<1>3. StoresOK'
  BY <1>1, <1>2, StoresKept DEF IInv
<1>4. CASE keys' = keys /\ End(c)
  BY <1>1, <1>3, <1>4, EndStep
<1>5. CASE /\ keys' = [keys EXCEPT !.registered = @ \cup {<<cli[c].reg, cli[c].pub>>}]
           /\ Goto(c, "publishing")
  <2>1. "publishing" \in CliPcs
    BY DEF CliPcs, PublishPcs, KeyPcs, WritePcs
  <2>2. PICK p : /\ p = [cli[c] EXCEPT !.pc = "publishing"] /\ ProcessOK(p) /\ p.pc = "publishing"
                 /\ p.reg = cli[c].reg /\ p.key = cli[c].key /\ p.pub = cli[c].pub
    BY <2>1, Going DEF IInv
  <2>3. cli' = [cli EXCEPT ![c] = p]
    BY <1>5, <2>2 DEF Goto
  <2>4. CliOK' /\ cli'[c] = p /\ \A d \in Clis : d # c => cli'[d] = cli[d]
    <3>1. ProcessOK(p)'
      BY <1>1, <2>2 DEF ProcessOK, CredOK
    <3>2. CliOK'
      BY <1>2, <2>3, <3>1, CliMoved DEF IInv
    <3> QED BY <2>3, <3>2 DEF IInv, CliOK
  <2>5. cli[c].reg \in Registries /\ cli[c].pub \in Nat /\ cli[c].pc = "uploading"
    BY DEF IInv, CliOK, ProcessOK, uploadPublicKey
  <2>6. PICK pair \in Registries \X Nat : pair = <<cli[c].reg, cli[c].pub>>
    BY <2>5
  <2>7. /\ keys' \in KeyRecord /\ keys'.priv = keys.priv /\ keys'.pub = keys.pub
        /\ keys'.registered = keys.registered \cup {pair} /\ keys'.refused = keys.refused
        /\ keys'.overlap = keys.overlap /\ keys'.torn = keys.torn
    <3>1. keys' = [keys EXCEPT !.registered = @ \cup {pair}] /\ keys \in KeyRecord
      BY <1>5, <2>6 DEF IInv, KeysOK
    <3>2. keys.registered \cup {pair} \in SUBSET (Registries \X Nat)
      BY <3>1 DEF KeyRecord
    <3>3. keys' \in KeyRecord
      BY <3>1, <3>2 DEF KeyRecord
    <3> QED BY <3>1, <3>3 DEF KeyRecord
  <2>8. KeysOK'
    <3> SUFFICES ASSUME keys.overlap = "no"
                 PROVE  PairOK' /\ \A d \in Clis : PublishOK(d)'
      BY <2>7 DEF KeysOK
    <3>1. ASSUME NEW d \in Clis PROVE PublishOK(d)'
      <4>1. PublishOK(d) /\ PublishOK(c)
        BY DEF IInv, KeysOK
      <4>2. CASE d = c
        BY <2>2, <2>4, <2>5, <2>6, <2>7, <4>1, <4>2 DEF PublishOK, KeyPcs, WritePcs
      <4>3. CASE d # c
        BY <2>2, <2>4, <2>7, <4>1, <4>3 DEF PublishOK, WritePcs
      <4> QED BY <4>2, <4>3
    <3> QED BY <2>7, <3>1 DEF IInv, KeysOK, PairOK
  <2> QED BY <1>3, <2>4, <2>8 DEF IInv
<1> QED BY <1>4, <1>5 DEF uploadPublicKey

\* The registry does not refuse the version as signed with another key: it was registered.
LEMMA VersionStep ==
  ASSUME IInv, NEW c \in Clis, PublishVersion(c)
  PROVE  IInv'
<1>1. sessions' = sessions /\ vault' = vault /\ config' = config
  BY DEF PublishVersion, server
<1>2. Grows
  BY <1>1, SessionsKept DEF IInv
<1>3. StoresOK'
  BY <1>1, <1>2, StoresKept DEF IInv
<1>4. cli' = [cli EXCEPT ![c] = Idle] /\ cli[c].pc = "publishing"
  BY DEF PublishVersion, End
<1>5. CliOK'
  <2>1. ProcessOK(Idle)'
    BY IdleOK DEF ProcessOK, Idle, CredOK, NoCred
  <2> QED BY <1>2, <1>4, <2>1, CliMoved DEF IInv
<1>6. PICK refused \in {"no", "yes"} :
        refused = IF /\ Accepted(cli[c].cred, cli[c].reg)
                     /\ <<cli[c].reg, cli[c].key>> \notin keys.registered
                  THEN "yes" ELSE keys.refused
  BY DEF IInv, KeysOK, KeyRecord
<1>7. /\ keys' \in KeyRecord /\ keys'.priv = keys.priv /\ keys'.pub = keys.pub
      /\ keys'.registered = keys.registered /\ keys'.refused = refused
      /\ keys'.overlap = keys.overlap /\ keys'.torn = keys.torn
  <2>1. keys' = [keys EXCEPT !.refused = refused] /\ keys \in KeyRecord
    BY <1>6 DEF PublishVersion, IInv, KeysOK
  <2>2. keys' \in KeyRecord
    BY <2>1 DEF KeyRecord
  <2> QED BY <2>1, <2>2 DEF KeyRecord
<1>8. KeysOK'
  <2> SUFFICES ASSUME keys.overlap = "no"
               PROVE  PairOK' /\ \A d \in Clis : PublishOK(d)'
    BY <1>7 DEF KeysOK
  <2>1. PublishOK(c) /\ PairOK
    BY DEF IInv, KeysOK
  <2>2. refused = "no"
    BY <1>4, <1>6, <2>1 DEF PublishOK, PairOK, KeyPcs
  <2>3. ASSUME NEW d \in Clis PROVE PublishOK(d)'
    <3>1. PublishOK(d)
      BY DEF IInv, KeysOK
    <3>2. cli'[c] = Idle /\ \A e \in Clis : e # c => cli'[e] = cli[e]
      BY <1>4 DEF IInv, CliOK
    <3>3. CASE d = c
      BY <3>2, <3>3, IdleOK DEF PublishOK, PublishPcs, KeyPcs, WritePcs
    <3>4. CASE d # c
      BY <1>7, <3>1, <3>2, <3>4, IdleOK DEF PublishOK, PublishPcs
    <3> QED BY <3>3, <3>4
  <2> QED BY <1>7, <2>1, <2>2, <2>3 DEF PairOK
<1> QED BY <1>3, <1>5, <1>8 DEF IInv

\* A command fails, or a logout goes on without the registry.
LEMMA FailStep ==
  ASSUME IInv, NEW c \in Clis, CommandFails(c)
  PROVE  IInv'
<1>1. /\ sessions' = sessions /\ keys' = keys
      /\ vault' = vault /\ config' = config
  BY DEF CommandFails, server, local
<1>2. StoresOK' /\ "clearing" \in CliPcs \ PublishPcs
  BY <1>1, StoresStill DEF CliPcs, PublishPcs, KeyPcs, WritePcs
<1> QED BY <1>1, <1>2, EndStep, GotoStep DEF CommandFails

-----------------------------------------------------------------------------
(* The pages.                                                              *)

\* A step of a page that changes sessions at most.
LEMMA PageKeeps ==
  ASSUME IInv, Grows, cli' = cli, keys' = keys, vault' = vault, config' = config
  PROVE  IInv'
BY StoresKept, CliKept, KeysKept DEF IInv

\* The page loads, and offers its operations.
LEMMA OpStep ==
  ASSUME IInv, NEW b \in Browsers,
         \/ \E id \in page[b].listed : revoke(b, id)
         \/ AcceptAll(b) \/ LogoutWeb(b) \/ DeleteAccount(b)
         \/ RefreshRead(b) \/ RefreshShow(b) \/ PageRequestFails(b)
  PROVE  IInv'
<1>1. sessions' = sessions /\ cli' = cli /\ keys' = keys /\ vault' = vault /\ config' = config
  BY DEF revoke, AcceptAll, LogoutWeb, DeleteAccount, Op, RefreshRead, RefreshShow,
         PageRequestFails, server, local
<1> QED BY <1>1, SessionsKept, PageKeeps DEF IInv

\* The requests that revoke a session, and the GitHub callback.
LEMMA PageRequestStep ==
  ASSUME IInv, NEW b \in Browsers, RevokeRequest(b) \/ LogoutRequest(b) \/ SignIn(b)
  PROVE  IInv'
<1>1. cli' = cli /\ keys' = keys /\ vault' = vault /\ config' = config
  BY DEF RevokeRequest, LogoutRequest, SignIn, local
<1>2. \/ sessions' = sessions \/ \E ids : sessions' = Revoked(ids)
      \/ sessions' = Append(sessions, NewSession(Home, "web"))
  BY DEF RevokeRequest, LogoutRequest, SignIn
<1>3. Grows
  BY <1>2, SessionsKept, SessionsRevoked, SessionIssued, ConstantsAssumption DEF IInv
<1> QED BY <1>1, <1>3, PageKeeps

\* The request that closes the account revokes its keys too.
LEMMA DeleteRequestStep ==
  ASSUME IInv, NEW b \in Browsers, DeleteRequest(b)
  PROVE  IInv'
<1>1. cli' = cli /\ vault' = vault /\ config' = config
  BY DEF DeleteRequest
<1>2. CASE Accepted(Cookie(b), Home)
  <2>1. PICK new \in SUBSET (Registries \X Nat) : new = {k \in keys.registered : k[1] = Home}
    BY DEF IInv, KeysOK, KeyRecord
  <2>2. Grows
    BY <1>2, SessionsRevoked DEF DeleteRequest, IInv
  <2>3. keys' = [keys EXCEPT !.revoked = @ \cup new]
    BY <1>2, <2>1 DEF DeleteRequest
  <2>4. KeysOK'
    BY <1>1, <2>3, KeysRevoked DEF IInv
  <2> QED BY <1>1, <2>2, <2>4, StoresKept, CliKept DEF IInv
<1>3. CASE ~Accepted(Cookie(b), Home)
  BY <1>1, <1>3, SessionsKept, PageKeeps DEF DeleteRequest, IInv
<1> QED BY <1>2, <1>3

-----------------------------------------------------------------------------
(* Time, login transactions, and the theorems.                             *)

\* A session expires: it is not accepted any more, but it is not revoked.
LEMMA ExpireStep ==
  ASSUME IInv, NEW i \in DOMAIN sessions, SessionExpires(i)
  PROVE  IInv'
<1>1. /\ sessions' = [sessions EXCEPT ![i].state = "expired"]
      /\ cli' = cli /\ keys' = keys /\ vault' = vault /\ config' = config
  BY DEF SessionExpires, local
<1>2. Grows
  BY <1>1, SessionExpired DEF IInv
<1> QED BY <1>1, <1>2, PageKeeps

\* Steps that change nothing the invariant speaks of: the login transactions.
LEMMA StillStep ==
  ASSUME IInv, sessions' = sessions, cli' = cli, keys' = keys, vault' = vault,
         config' = config
  PROVE  IInv'
BY SessionsKept, PageKeeps DEF IInv

\* The initial state satisfies the invariant.
LEMMA InitInv == Init => IInv
<1> SUFFICES ASSUME Init PROVE IInv
  OBVIOUS
<1> USE ConstantsAssumption
<1>1. PICK web \in Nat : web = Cardinality(Browsers) + 1
  <2>1. Cardinality(Browsers) \in Nat
    BY FS_CardinalityType
  <2> QED BY <2>1
<1>4. /\ sessions = [i \in 1..web + 1 |-> NewSession(Home, IF i <= web THEN "web" ELSE "cli")]
      /\ vault = [r \in Registries |-> IF r = Home THEN Cred(web + 1) ELSE NoCred]
  BY <1>1 DEF Init
<1>5. \A i \in 1..web + 1 : sessions[i] \in Session /\ sessions[i].reg = Home
  BY <1>4 DEF NewSession, Session
<1>6. sessions \in [1..web + 1 -> Session]
  BY <1>4, <1>5
<1>7. sessions \in Seq(Session) /\ DOMAIN sessions = 1..web + 1
  BY <1>1, <1>6, SeqDef
<1>8. StoresOK
  <2>1. ASSUME NEW r \in Registries PROVE CredOK(vault[r], r)
    <3>1. CASE r = Home
      <4>1. vault[r] = Cred(web + 1)
        BY <1>4, <3>1
      <4>2. web + 1 \in 1..web + 1
        BY <1>1
      <4>3. web + 1 \in DOMAIN sessions /\ sessions[web + 1].reg = Home
        BY <1>5, <1>7, <4>2
      <4> QED BY <3>1, <4>1, <4>3 DEF CredOK, Cred
    <3>2. CASE r # Home
      BY <1>4, <3>2 DEF CredOK, NoCred
    <3> QED BY <3>1, <3>2
  <2> QED BY <1>4, <1>7, <2>1 DEF StoresOK, Init
<1>9. CliOK
  BY IdleOK DEF Init, CliOK
<1>10. KeysOK
  <2>1. keys \in KeyRecord /\ keys.refused = "no" /\ keys.pub = 0
    BY DEF Init, KeyRecord
  <2>2. \A c \in Clis : PublishOK(c)
    BY DEF Init, PublishOK, Idle, KeyPcs, WritePcs
  <2> QED BY <2>1, <2>2 DEF KeysOK, PairOK
<1> QED BY <1>8, <1>9, <1>10 DEF IInv

\* Every step of the system preserves the invariant.
LEMMA InvStep == IInv /\ [Next]_vars => IInv'
<1> SUFFICES ASSUME IInv, [Next]_vars PROVE IInv'
  OBVIOUS
<1>1. ASSUME NEW c \in Clis, CliStep(c) PROVE IInv'
  BY <1>1, DeviceStep, IssueStep, StoreStep, TokenNamedStep, AskStep, RevokeStep, PrivateKeyStep, PublicKeyStep,
     AuthenticateStep, UploadStep, VersionStep DEF CliStep
<1>2. ASSUME NEW c \in Clis, NEW r \in Chosen, CliCommand(c, r) PROVE IInv'
  <2>1. r \in Registries
    BY DEF Chosen, IInv, StoresOK
  <2> QED BY <1>2, <2>1, LoginStep, CommandStep, PublishStep DEF CliCommand
<1>3. ASSUME NEW c \in Clis, CommandFails(c) \/ KeyWriteTorn(c) PROVE IInv'
  BY <1>3, FailStep, TornStep
<1>4. ASSUME NEW c \in Clis, TransactionAges(c) \/ ApproveElsewhere(c) PROVE IInv'
  BY <1>4, StillStep DEF TransactionAges, ApproveElsewhere, local
<1>5. ASSUME NEW b \in Browsers, PageStep(b) PROVE IInv'
  BY <1>5, OpStep, PageRequestStep, DeleteRequestStep DEF PageStep
<1>6. ASSUME NEW b \in Browsers, PageCommand(b) PROVE IInv'
  <2>1. ASSUME NEW c \in Clis, Approve(b, c) PROVE IInv'
    BY <2>1, StillStep DEF Approve, local
  <2> QED BY <1>6, <2>1, PageRequestStep, OpStep DEF PageCommand
<1>7. ASSUME NEW b \in Browsers, PageRequestFails(b) PROVE IInv'
  BY <1>7, OpStep
<1>8. ASSUME NEW i \in DOMAIN sessions, SessionExpires(i) PROVE IInv'
  BY <1>8, ExpireStep
<1>10. ASSUME NEW key \in keys.registered, KeyRevoked(key) PROVE IInv'
  BY <1>10, RevokedStep
<1>9. CASE UNCHANGED vars
  BY <1>9, StillStep DEF vars
<1> QED BY <1>1, <1>2, <1>3, <1>4, <1>5, <1>6, <1>7, <1>8, <1>9, <1>10 DEF Next

\* The invariant holds in every reachable state, for any number of registries, CLI
\* processes and browsers.
THEOREM Invariance == Spec => []IInv
BY InitInv, InvStep, PTL DEF Spec

\* A session credential is presented to, and stored for, the registry that issued it only
\* (credentials.ts).
THEOREM CredentialsAreHome == Spec => []CredentialsStayHome
<1>1. IInv => CredentialsStayHome
  BY DEF IInv, StoresOK, CliOK, ProcessOK, CredOK, CredentialsStayHome
<1> QED BY <1>1, Invariance, PTL

\* Unless two first publishes overlap, the key files match, the private half is whole, and
\* no publish is refused as signed with a key other than the one it registered, whatever
\* is killed in or between the two writes and whichever keys are revoked (signingKey of
\* publish.ts).
THEOREM KeysMatch == Spec => []KeyHalvesMatch
<1>1. IInv => KeyHalvesMatch
  BY DEF IInv, KeysOK, PairOK, KeyFiles, KeyHalvesMatch
<1> QED BY <1>1, Invariance, PTL

=============================================================================
