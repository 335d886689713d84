-------------------------- MODULE RegistrySession --------------------------
(***************************************************************************)
(* Signing in to registries: the CLI's login, logout, auth, whoami and     *)
(* publish commands (cli/src/commands, lib/credentials.ts) over the        *)
(* requests of sdk/src/registry.ts, the browser's device and account pages *)
(* (web/src/app/device, components/account.tsx, the account routes), and   *)
(* the registry's sessions and login transactions as those requests see    *)
(* them.                                                                   *)
(*                                                                         *)
(* CLI processes and browsers run at the same time; every request is a     *)
(* step of its own, and between two of them anyone may act.  One account   *)
(* per registry.  A CLI command keeps the credential it resolved when it   *)
(* started.  The file operations of one synchronous function are one step. *)
(***************************************************************************)
EXTENDS Naturals, Sequences, FiniteSets, SequencesExt

CONSTANTS Clis, Browsers,
          Registries,    \* origins; the browsers' pages are those of Home
          Home,
          MaxCommands,   \* bound: CLI commands and page operations started
          MaxFaults      \* bound: failed requests and killed processes

ASSUME ConstantsAssumption == Home \in Registries /\ IsFiniteSet(Browsers)

VARIABLES sessions,      \* sequence of the sessions issued by all registries
          account,       \* [Registries -> "active" | "deleted"]
          tx,            \* each CLI process's login transaction at its registry
          vault,         \* the stored credentials, per registry origin
          config,        \* config.registryUrl, and config.token of older versions
          keys,          \* the signing key files, and the keys registered
          cli, page, commands, faults

server == <<sessions, account, tx>>
local  == <<vault, config, keys>>
vars   == <<sessions, account, tx, vault, config, keys, cli, page, commands, faults>>

NoCred == [kind |-> "none", id |-> 0]
Cred(id) == [kind |-> "session", id |-> id]
GitHubToken == [kind |-> "github", id |-> 0]
ConfigToken == [kind |-> "config", id |-> 0]
Idle == [pc |-> "idle", reg |-> Home, cred |-> NoCred, todo |-> <<>>, key |-> 0, pub |-> 0]
NoTx == [state |-> "none", age |-> 0]

Command == commands < MaxCommands /\ commands' = commands + 1
Fault == faults < MaxFaults /\ faults' = faults + 1

-----------------------------------------------------------------------------
(* The registry *)

\* get_current_user: a revoked or expired session and one of a closed account are
\* not accepted.  The token of an older version may be one that Home issued; a
\* GitHub token is not accepted anywhere.
Accepted(cred, r) ==
    /\ account[r] = "active"
    /\ \/ cred.kind = "session" /\ sessions[cred.id].reg = r /\ sessions[cred.id].state = "active"
       \/ cred.kind = "config" /\ r = Home

NewSession(r, audience) == [reg |-> r, audience |-> audience, state |-> "active"]

Revoked(ids) ==
    [i \in DOMAIN sessions |->
        IF i \in ids THEN [sessions[i] EXCEPT !.state = "revoked"] ELSE sessions[i]]

\* /sessions of an account, those of some audiences that are not revoked.
Unrevoked(s, r, audiences) ==
    {i \in DOMAIN s : s[i].reg = r /\ s[i].audience \in audiences /\ s[i].state # "revoked"}

\* Time: a session passes its idle or absolute limit; a transaction expires at
\* the registry (age 1) and, later, at the CLI, which starts its own clock
\* after the registry did (age 2).
SessionExpires(i) ==
    /\ sessions[i].state = "active" /\ Fault
    /\ sessions' = [sessions EXCEPT ![i].state = "expired"]
    /\ UNCHANGED <<account, tx, local, cli, page, commands>>

TransactionAges(c) ==
    /\ tx[c].state # "none" /\ tx[c].age < 2
    /\ tx' = [tx EXCEPT ![c].age = @ + 1]
    /\ UNCHANGED <<sessions, account, local, cli, page, commands, faults>>

-----------------------------------------------------------------------------
(* credentials.ts *)

\* Mutant: a credential of another registry is used when there is none.
AnyCredential(r) ==
    IF vault[r] # NoCred THEN vault[r]
    ELSE LET other == {o \in Registries : vault[o] # NoCred}
         IN  IF other = {} THEN NoCred ELSE vault[CHOOSE o \in other : TRUE]
getCredential(r) == vault[r]

\* resolveToken: without a credential, the token in the configuration, which no
\* command writes any more, goes to every registry.
resolveToken(r) == IF getCredential(r) # NoCred THEN getCredential(r) ELSE config.token

saveCredential(r, cred) == vault' = [vault EXCEPT ![r] = cred]

deleteCredential(r) == vault' = [vault EXCEPT ![r] = NoCred]

\* resolveRegistryUrl: the flag, or the configured registry.
Chosen == Registries \cup {config.registryUrl}

Start(c, r, pc, cred, todo) ==
    /\ cli[c].pc = "idle" /\ Command
    /\ cli' = [cli EXCEPT ![c] = [Idle EXCEPT !.pc = pc, !.reg = r,
                                              !.cred = cred, !.todo = todo]]

Goto(c, pc) == cli' = [cli EXCEPT ![c].pc = pc]
End(c) == cli' = [cli EXCEPT ![c] = Idle]

-----------------------------------------------------------------------------
(* login *)

\* The request that opens a login transaction.
startDeviceLogin(c) == tx' = [tx EXCEPT ![c] = [state |-> "pending", age |-> 0]]

\* deviceFlow.
StartDeviceLogin(c, r) ==
    /\ Start(c, r, "waiting", NoCred, <<>>)
    /\ startDeviceLogin(c)
    /\ UNCHANGED <<sessions, account, local, page, faults>>

\* The loop looks at its deadline, sleeps and polls.
\* Mutant: it relies on the registry's expired_token answer alone.
NoDeadline(c) ==
    /\ cli[c].pc = "waiting"
    /\ Goto(c, "asleep")
    /\ UNCHANGED <<server, local, page, commands, faults>>
CheckDeadline(c) ==
    /\ cli[c].pc = "waiting"
    /\ IF tx[c].age = 2 THEN End(c) ELSE Goto(c, "asleep")
    /\ UNCHANGED <<server, local, page, commands, faults>>

\* pollDeviceToken: every 400 (pending, expired, already issued) becomes a
\* DeviceAuthPendingError, on which the loop goes on.
PollPending(c) ==
    /\ cli[c].pc = "asleep"
    /\ tx[c].age > 0 \/ tx[c].state # "approved"
    /\ Goto(c, "waiting")
    /\ UNCHANGED <<server, local, page, commands, faults>>

\* The registry finds the approved transaction and an active account...
PollApproved(c) ==
    /\ cli[c].pc = "asleep" /\ tx[c].age = 0 /\ tx[c].state = "approved"
    /\ IF account[cli[c].reg] = "active" THEN Goto(c, "issuing") ELSE End(c)
    /\ UNCHANGED <<server, local, page, commands, faults>>

\* ...and commits a session.  The answer may not arrive: the command fails.
Issue(c) ==
    /\ cli[c].pc = "issuing"
    /\ sessions' = Append(sessions, NewSession(cli[c].reg, "cli"))
    /\ tx' = [tx EXCEPT ![c].state = "issued"]
    /\ \/ /\ cli' = [cli EXCEPT ![c].pc = "answered", ![c].cred = Cred(Len(sessions) + 1)]
          /\ UNCHANGED faults
       \/ Fault /\ End(c)
    /\ UNCHANGED <<account, local, page, commands>>

StoreCredential(c) ==
    /\ cli[c].pc = "answered"
    /\ saveCredential(cli[c].reg, cli[c].cred)
    /\ Goto(c, "stored")
    /\ UNCHANGED <<server, config, keys, page, commands, faults>>

StoreRegistry(c) ==
    /\ cli[c].pc = "stored"
    /\ config' = [config EXCEPT !.registryUrl = cli[c].reg]
    /\ End(c)
    /\ UNCHANGED <<server, vault, keys, page, commands, faults>>

\* tokenFlow: the token is stored before the registry is asked and, if it
\* answers, once more with the user's name.
StartTokenLogin(c, r) ==
    /\ Start(c, r, "naming", GitHubToken, <<>>)
    /\ config' = [config EXCEPT !.registryUrl = r] /\ saveCredential(r, GitHubToken)
    /\ UNCHANGED <<server, keys, page, faults>>

TokenNamed(c) ==
    /\ cli[c].pc = "naming"
    /\ saveCredential(cli[c].reg, GitHubToken) \/ UNCHANGED vault
    /\ End(c)
    /\ UNCHANGED <<server, config, keys, page, commands, faults>>

-----------------------------------------------------------------------------
(* logout *)

Logout(c, r, all) ==
    /\ LET cred == resolveToken(r)
       IN  Start(c, r, IF cred = NoCred THEN "clearing" ELSE
                       IF all = "all" THEN "listing" ELSE "leaving", cred, <<>>)
    /\ UNCHANGED <<server, local, page, faults>>

\* logoutMe: DELETE /sessions/me.  The registry registers /sessions/{session_id}
\* first, whose session_id is an integer: the request is answered with 422.
LogoutMe(c) ==
    /\ cli[c].pc = "leaving"
    /\ Goto(c, "clearing")
    /\ UNCHANGED <<server, local, page, commands, faults>>

\* --all: mySessions, newest first.
ListSessions(c) ==
    /\ cli[c].pc = "listing"
    /\ cli' = [cli EXCEPT
         ![c].pc = IF Accepted(cli[c].cred, cli[c].reg) THEN "revoking" ELSE "clearing",
         ![c].todo = Reverse(SetToSortSeq(Unrevoked(sessions, cli[c].reg, {"cli"}),
                                          LAMBDA i, j : i < j))]
    /\ UNCHANGED <<server, local, page, commands, faults>>

\* revokeSession, one request per session, made with the command's own session.
RevokeNext(c) ==
    /\ cli[c].pc = "revoking"
    /\ IF cli[c].todo # <<>> /\ Accepted(cli[c].cred, cli[c].reg)
       THEN /\ sessions' = Revoked({Head(cli[c].todo)})
            /\ cli' = [cli EXCEPT ![c].todo = Tail(@)]
       ELSE Goto(c, "clearing") /\ UNCHANGED sessions
    /\ UNCHANGED <<account, tx, local, page, commands, faults>>

ClearCredential(c) ==
    /\ cli[c].pc = "clearing"
    /\ deleteCredential(cli[c].reg)
    /\ config' = [config EXCEPT !.token = NoCred]
    /\ End(c)
    /\ UNCHANGED <<server, keys, page, commands, faults>>

-----------------------------------------------------------------------------
(* Commands that only ask, and auth revoke *)

Ask(c, r, requests) ==
    /\ resolveToken(r) # NoCred
    /\ Start(c, r, "asking", resolveToken(r), requests)
    /\ UNCHANGED <<server, local, page, faults>>

Whoami(c, r) == Ask(c, r, <<"me">>)
Auth(c, r) == Ask(c, r, <<"me", "sessions">>)
AuthStatus(c, r) == Ask(c, r, <<"me", "agreements">>)
AuthSessions(c, r) == Ask(c, r, <<"sessions">>)

\* A refused request ends the command; AuthStatus does without agreements.
Asked(c) ==
    /\ cli[c].pc = "asking"
    /\ IF Len(cli[c].todo) > 1 /\ Accepted(cli[c].cred, cli[c].reg)
       THEN cli' = [cli EXCEPT ![c].todo = Tail(@)]
       ELSE End(c)
    /\ UNCHANGED <<server, local, page, commands, faults>>

AuthRevoke(c, r, id) ==
    /\ resolveToken(r) # NoCred /\ id \in DOMAIN sessions
    /\ Start(c, r, "revoking_one", resolveToken(r), <<id>>)
    /\ UNCHANGED <<server, local, page, faults>>

\* revoke_by_id: 404 or 403 for a session that is not the account's.
RevokeOne(c) ==
    /\ cli[c].pc = "revoking_one"
    /\ LET id == Head(cli[c].todo)
       IN  IF Accepted(cli[c].cred, cli[c].reg) /\ sessions[id].reg = cli[c].reg
           THEN sessions' = Revoked({id})
           ELSE UNCHANGED sessions
    /\ End(c)
    /\ UNCHANGED <<account, tx, local, page, commands, faults>>

-----------------------------------------------------------------------------
(* publish *)

\* signingKey: both files are there, and read; a public half that was torn makes
\* publicKeyFingerprint throw, a private one makes the signing throw.  Otherwise
\* a new pair is made, whose private half is written first.
KeyFiles == keys.priv # 0 /\ keys.pub # 0
Writers == {d \in Clis : cli[d].pc \in {"no_key", "half_key"}}

Publish(c, r) ==
    /\ cli[c].pc = "idle" /\ Command
    /\ IF KeyFiles
       THEN /\ UNCHANGED keys
            /\ IF keys.torn # {} THEN UNCHANGED cli
               ELSE cli' = [cli EXCEPT ![c] = [Idle EXCEPT
                        !.pc = "packed", !.reg = r, !.key = keys.priv, !.pub = keys.pub]]
       ELSE /\ keys' = [keys EXCEPT !.overlap = IF Writers # {} THEN "yes" ELSE @]
            /\ cli' = [cli EXCEPT ![c] = [Idle EXCEPT !.pc = "no_key", !.reg = r]]
    /\ UNCHANGED <<server, vault, config, page, faults>>

\* Mutant: a private half that is there is kept.
KeepPrivateHalf(k) ==
    [keys EXCEPT !.made = k, !.priv = IF @ = 0 THEN k ELSE @, !.torn = @ \ {"priv"}]
PrivateHalf(k) == [keys EXCEPT !.made = k, !.priv = k, !.torn = @ \ {"priv"}]

WritePrivateKey(c) ==
    /\ cli[c].pc = "no_key"
    /\ keys' = PrivateHalf(keys.made + 1)
    /\ cli' = [cli EXCEPT ![c].pc = "half_key", ![c].key = PrivateHalf(keys.made + 1).priv,
                          ![c].pub = keys.made + 1]
    /\ UNCHANGED <<server, vault, config, page, commands, faults>>

WritePublicKey(c) ==
    /\ cli[c].pc = "half_key"
    /\ keys' = [keys EXCEPT !.pub = cli[c].pub, !.torn = @ \ {"pub"}]
    /\ Goto(c, "packed")
    /\ UNCHANGED <<server, vault, config, page, commands, faults>>

\* The command is killed in the middle of either write.
KeyWriteTorn(c) ==
    /\ Fault
    /\ \/ cli[c].pc = "no_key" /\ keys' = [PrivateHalf(keys.made + 1) EXCEPT !.torn = @ \cup {"priv"}]
       \/ cli[c].pc = "half_key" /\ keys' = [keys EXCEPT !.pub = cli[c].pub, !.torn = @ \cup {"pub"}]
    /\ End(c)
    /\ UNCHANGED <<server, vault, config, page, commands>>

\* --public-only: the archive is made and signed, nothing is uploaded.
PublicOnly(c) ==
    /\ cli[c].pc = "packed"
    /\ End(c)
    /\ UNCHANGED <<server, local, page, commands, faults>>

\* The credential is resolved after packing; without one, and when me() is
\* refused, the command ends.
Authenticate(c) ==
    /\ cli[c].pc = "packed"
    /\ LET cred == resolveToken(cli[c].reg)
       IN  IF Accepted(cred, cli[c].reg)
           THEN cli' = [cli EXCEPT ![c].pc = "uploading", ![c].cred = cred]
           ELSE End(c)
    /\ UNCHANGED <<server, local, page, commands, faults>>

\* register_signing_key: a key that is registered is answered with success, also
\* when it was revoked.
uploadPublicKey(c) ==
    /\ cli[c].pc = "uploading"
    /\ IF Accepted(cli[c].cred, cli[c].reg)
       THEN /\ keys' = [keys EXCEPT !.registered = @ \cup {<<cli[c].reg, cli[c].pub>>}]
            /\ Goto(c, "publishing")
       ELSE UNCHANGED keys /\ End(c)
    /\ UNCHANGED <<server, vault, config, page, commands, faults>>

\* DELETE /keys/{id}, by any client of the account; or the key passes its expiry.
KeyRevoked(key) ==
    /\ key \notin keys.revoked /\ Fault
    /\ keys' = [keys EXCEPT !.revoked = @ \cup {key}]
    /\ UNCHANGED <<server, vault, config, cli, page, commands>>

\* The archive was signed with the private half.  A revoked key is refused like
\* one that is not registered; only the second is what `refused` notes.
PublishVersion(c) ==
    /\ cli[c].pc = "publishing"
    /\ keys' = [keys EXCEPT !.refused =
           IF /\ Accepted(cli[c].cred, cli[c].reg)
              /\ <<cli[c].reg, cli[c].key>> \notin keys.registered
           THEN "yes" ELSE @]
    /\ End(c)
    /\ UNCHANGED <<server, vault, config, page, commands, faults>>

\* A request fails or times out, or the user kills the command.  The logout
\* goes on without the registry; every other command ends.
CommandFails(c) ==
    /\ cli[c].pc \notin {"idle"} /\ Fault
    /\ \/ End(c)
       \/ cli[c].pc \in {"leaving", "listing", "revoking"} /\ Goto(c, "clearing")
    /\ UNCHANGED <<server, local, page, commands>>

-----------------------------------------------------------------------------
(* The browser *)

WebListed(b) == {i \in page[b].listed : sessions[i].audience = "web"}
Cookie(b) == IF page[b].cookie = 0 THEN NoCred ELSE Cred(page[b].cookie)
Op(b, pc, target) ==
    /\ page[b].pc = "shown" /\ page[b].signedIn = "yes" /\ Command
    /\ page' = [page EXCEPT ![b].pc = pc, ![b].target = target]
    /\ UNCHANGED <<server, local, cli, faults>>

\* The GitHub callback creates a web session and sets the cookie; the account
\* page is then loaded.
SignIn(b) ==
    /\ page[b].cookie = 0 /\ page[b].pc = "shown"
    /\ account[Home] = "active" /\ Command
    /\ sessions' = Append(sessions, NewSession(Home, "web"))
    /\ page' = [page EXCEPT ![b].cookie = Len(sessions) + 1, ![b].pc = "loading"]
    /\ UNCHANGED <<account, tx, local, cli, faults>>

\* DeviceBody.approve and approve_device_login, which looks at the transaction
\* and not at its age.
Approve(b, c) ==
    /\ Accepted(Cookie(b), Home) /\ cli[c].reg = Home /\ tx[c].state = "pending"
    /\ tx' = [tx EXCEPT ![c].state = "approved"]
    /\ UNCHANGED <<sessions, account, local, cli, page, commands, faults>>

\* The pages of another registry.
ApproveElsewhere(c) ==
    /\ cli[c].reg # Home /\ tx[c].state = "pending"
    /\ tx' = [tx EXCEPT ![c].state = "approved"]
    /\ UNCHANGED <<sessions, account, local, cli, page, commands, faults>>

\* refresh: the sessions are fetched, then three more requests are made...
RefreshRead(b) ==
    /\ page[b].pc = "loading"
    /\ page' = [page EXCEPT ![b].pc = "fetched", ![b].got =
           IF Accepted(Cookie(b), Home) THEN Unrevoked(sessions, Home, {"web", "cli"}) ELSE {}]
    /\ UNCHANGED <<server, local, cli, commands, faults>>

\* ...and the page shows what the first answer said.
RefreshShow(b) ==
    /\ page[b].pc = "fetched"
    /\ page' = [page EXCEPT ![b].pc = "shown", ![b].listed = page[b].got,
                            ![b].signedIn = IF page[b].got = {} THEN "no" ELSE "yes"]
    /\ UNCHANGED <<server, local, cli, commands, faults>>

\* revoke: the only web session the page shows is not revoked.  The list may be
\* outdated, and it has the expired sessions too.
revoke(b, id) ==
    /\ id \in page[b].listed
    /\ ~(sessions[id].audience = "web" /\ Cardinality(WebListed(b)) <= 1)
    /\ Op(b, "revoking", id)

\* The DELETE, after which the page is refreshed whatever the answer was.
RevokeRequest(b) ==
    /\ page[b].pc = "revoking"
    /\ IF Accepted(Cookie(b), Home)
       THEN sessions' = Revoked({page[b].target})
       ELSE UNCHANGED sessions
    /\ page' = [page EXCEPT ![b].pc = "loading"]
    /\ UNCHANGED <<account, tx, local, cli, commands, faults>>

\* acceptAll: no code asks for the agreements it records.
AcceptAll(b) == Op(b, "loading", 0)

LogoutWeb(b) == Op(b, "leaving", 0)
DeleteAccount(b) == Op(b, "deleting", 0)

\* The registry's /me/delete revokes every session and key of the account.
DeleteRequest(b) ==
    /\ page[b].pc = "deleting"
    /\ IF Accepted(Cookie(b), Home)
       THEN /\ account' = [account EXCEPT ![Home] = "deleted"]
            /\ sessions' = Revoked({i \in DOMAIN sessions : sessions[i].reg = Home})
            /\ keys' = [keys EXCEPT !.revoked = @ \cup {k \in keys.registered : k[1] = Home}]
            /\ page' = [page EXCEPT ![b].pc = "leaving"]
       ELSE page' = [page EXCEPT ![b].pc = "shown"] /\ UNCHANGED <<account, sessions, keys>>
    /\ UNCHANGED <<tx, vault, config, cli, commands, faults>>

\* /logout clears the cookie, and revokes its session if it is still valid.
LogoutRequest(b) ==
    /\ page[b].pc = "leaving"
    /\ sessions' = IF Accepted(Cookie(b), Home) THEN Revoked({page[b].cookie}) ELSE sessions
    /\ page' = [page EXCEPT ![b].pc = "loading", ![b].cookie = 0]
    /\ UNCHANGED <<account, tx, local, cli, commands, faults>>

\* The request of a page operation is lost.
PageRequestFails(b) ==
    /\ page[b].pc \in {"revoking", "deleting", "leaving"} /\ Fault
    /\ page' = [page EXCEPT ![b].pc = IF @ = "deleting" THEN "shown" ELSE "loading"]
    /\ UNCHANGED <<server, local, cli, commands>>

-----------------------------------------------------------------------------

\* Every browser has signed in and opens its account page, the account has a
\* web session on some other device besides, and the CLI is signed in to Home.
Init ==
    /\ LET web == Cardinality(Browsers) + 1
           cookie == CHOOSE f \in [Browsers -> 1..web] : IsInjective(f)
       IN  /\ sessions = [i \in 1..web + 1 |-> NewSession(Home, IF i <= web THEN "web" ELSE "cli")]
           /\ vault = [r \in Registries |-> IF r = Home THEN Cred(web + 1) ELSE NoCred]
           /\ page = [b \in Browsers |-> [cookie |-> cookie[b], pc |-> "loading",
                   signedIn |-> "no", listed |-> {}, got |-> {}, target |-> 0]]
    /\ account = [r \in Registries |-> "active"]
    /\ tx = [c \in Clis |-> NoTx]
    /\ config \in [registryUrl: {Home}, token: {NoCred, ConfigToken}]
    /\ keys = [priv |-> 0, pub |-> 0, made |-> 0, torn |-> {}, registered |-> {}, revoked |-> {},
               overlap |-> "no", refused |-> "no"]
    /\ cli = [c \in Clis |-> Idle]
    /\ commands = 0 /\ faults = 0

CliStep(c) ==
    \/ CheckDeadline(c)
    \/ PollPending(c)
    \/ PollApproved(c)
    \/ Issue(c)
    \/ StoreCredential(c)
    \/ StoreRegistry(c)
    \/ TokenNamed(c)
    \/ LogoutMe(c)
    \/ ListSessions(c)
    \/ RevokeNext(c)
    \/ ClearCredential(c)
    \/ Asked(c)
    \/ RevokeOne(c)
    \/ WritePrivateKey(c)
    \/ WritePublicKey(c)
    \/ PublicOnly(c)
    \/ Authenticate(c)
    \/ uploadPublicKey(c)
    \/ PublishVersion(c)

\* login --token, or the device flow.
Login(c, r) == StartTokenLogin(c, r) \/ StartDeviceLogin(c, r)

CliCommand(c, r) ==
    \/ Login(c, r)
    \/ \E all \in {"all", "own"} : Logout(c, r, all)
    \/ Whoami(c, r)
    \/ Auth(c, r)
    \/ AuthStatus(c, r)
    \/ AuthSessions(c, r)
    \/ \E id \in DOMAIN sessions : AuthRevoke(c, r, id)
    \/ Publish(c, r)

PageStep(b) ==
    \/ RefreshRead(b)
    \/ RefreshShow(b)
    \/ RevokeRequest(b)
    \/ DeleteRequest(b)
    \/ LogoutRequest(b)

PageCommand(b) ==
    \/ SignIn(b)
    \/ \E c \in Clis : Approve(b, c)
    \/ \E id \in page[b].listed : revoke(b, id)
    \/ AcceptAll(b)
    \/ LogoutWeb(b)
    \/ DeleteAccount(b)

Next ==
    \/ \E c \in Clis : CliStep(c)
    \/ \E c \in Clis, r \in Chosen : CliCommand(c, r)
    \/ \E c \in Clis : CommandFails(c) \/ KeyWriteTorn(c)
    \/ \E key \in keys.registered : KeyRevoked(key)
    \/ \E c \in Clis : TransactionAges(c)
    \/ \E c \in Clis : ApproveElsewhere(c)
    \/ \E b \in Browsers : PageStep(b)
    \/ \E b \in Browsers : PageCommand(b)
    \/ \E b \in Browsers : PageRequestFails(b)
    \/ \E i \in DOMAIN sessions : SessionExpires(i)

\* A command that is not killed goes on, requests are answered, time passes.
Fairness ==
    \A c \in Clis : WF_vars(CliStep(c)) /\ WF_vars(TransactionAges(c))

Spec == Init /\ [][Next]_vars /\ Fairness

-----------------------------------------------------------------------------
(* Properties *)

\* A session credential is only ever presented to, and only ever stored for,
\* the registry that issued it (credentials.ts keeps one per origin).  Nothing is
\* said of config.token: resolveToken hands it to every registry.
CredentialsStayHome ==
    /\ \A c \in Clis : cli[c].cred.kind = "session" => sessions[cli[c].cred.id].reg = cli[c].reg
    /\ \A r \in Registries : vault[r].kind = "session" => sessions[vault[r].id].reg = r

\* A publish that registered its key is not refused as signed with another one: a
\* crash while the private half is written, or before the public half is, leaves a
\* pair that is made anew, never one whose halves differ or whose private half is
\* torn.  (Two first publishes at once can leave such a pair.  A key that was
\* revoked is refused, and a torn public half ends every later publish: neither
\* is ever made anew.)
KeyHalvesMatch ==
    keys.overlap = "no" =>
        /\ keys.refused = "no"
        /\ KeyFiles => keys.priv = keys.pub /\ "priv" \notin keys.torn

\* A device login ends, whatever the registry answers and even if nobody
\* approves: the deadline of the CLI bounds the polling.
LoginEnds == \A c \in Clis : (cli[c].pc = "waiting") ~> (cli[c].pc = "idle")

=============================================================================
