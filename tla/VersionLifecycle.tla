--------------------------- MODULE VersionLifecycle ---------------------------
(***************************************************************************)
(* One package of the registry: publishing its versions, the archive store *)
(* beside the database, scans, reviews, yanks, the cached public catalog   *)
(* and downloads (registry/app/registry, store.py, security_review).       *)
(*                                                                         *)
(* A publish is one database transaction.  Its INSERT of the version row   *)
(* takes the unique key (agent, version): another publish of that version  *)
(* waits for it.  The archive is written to the store by an executor       *)
(* thread BEFORE the commit, and the store knows nothing of transactions.  *)
(* Review, yank and scan load the row, work, and write back the columns    *)
(* they changed.  A catalog request reads the watermark, then, under the lock   *)
(* of its key, uses the cached page or loads a new one.                    *)
(*                                                                         *)
(* Abstractions.  An archive stands for its bytes and for their sha256.    *)
(* Checks that only refuse a request (rate limits, sizes, the signature    *)
(* file, the manifest, roles, namespaces, quotas, visibility, the rescan   *)
(* cooldown, the download token) are left out: a request here passed them. *)
(* A catalog page is one read; the code reads the signing keys after the   *)
(* versions, under the same watermark.                                     *)
(***************************************************************************)
EXTENDS Integers, FiniteSets

CONSTANTS
  Versions,     \* version numbers, ordered as semver_key orders them
  Archives,     \* archive contents
  Hostile,      \* the archives check_archive_safety has findings for
  LateHostile,  \* the ones it has findings for after the scanner was updated
  Publishers,   \* publish requests that may run at the same time
  Scanners,     \* scan workers and rescan requests
  Reviewers,    \* review and yank requests
  Readers,      \* catalog requests of one API process
  Downloads,    \* download requests
  MaxBumps,     \* publishes, reviews and yanks (a bound of the model)
  MaxFaults     \* crashes, database errors and cancellations (a bound of the model)

ASSUME ConstantsAssumption ==
  /\ Versions \subseteq Nat \ {0}
  /\ Hostile \subseteq Archives
  /\ LateHostile \subseteq Archives
  /\ MaxBumps \in Nat
  /\ MaxFaults \in Nat

None == "none"
Torn == "torn"   \* a file whose write a crash cut short
ASSUME NamesAssumption == /\ None \notin Archives \cup Publishers
                          /\ Torn \notin Archives \cup {None}

VARIABLES
  row,       \* the agent_versions table
  file,      \* the archive store
  late,      \* store writes still in the executor after their request was cancelled
  pub,       \* publish transactions
  scan,      \* scan transactions
  rev,       \* review and yank transactions
  dl,        \* download requests
  wm,        \* catalog_meta.updated_at: a stamp no two transactions share
  cache,     \* the catalog cache entry of one page
  reader,    \* catalog requests
  key,       \* the publisher's signing key: "valid" or "revoked"
  updated,   \* "yes" once the scanner was updated
  crashes,   \* crashes and database errors so far
  stray      \* versions a publish of which was cancelled inside its store write

database == <<row, wm, key>>
requests == <<pub, scan, rev, dl, reader>>
faultVars == <<updated, crashes, stray>>
vars == <<database, requests, file, late, cache, faultVars>>

BLOCKED_REVIEW_STATUSES == {"rejected", "revoked"}
REVIEW_ACTIONS == {"verify", "warning", "reject", "revoke", "request"}

REVIEW_STATUS_BY_ACTION == [a \in REVIEW_ACTIONS |->
  CASE a = "verify" -> "verified"
    [] a = "warning" -> "warning"
    [] a = "reject" -> "rejected"
    [] a = "revoke" -> "revoked"
    [] a = "request" -> "changes_requested"]

NoRow == [digest |-> None, security |-> "absent", review |-> "pending",
          yanked |-> "no", tx |-> None]

Committed(v) == row[v].security # "absent" /\ row[v].tx = None

\* check_archive_safety on the bytes of a file.
Findings(f) == f = Torn \/ f \in Hostile \/ (updated = "yes" /\ f \in LateHostile)
Verdict(f) == IF Findings(f) THEN "flagged" ELSE "clean"

-----------------------------------------------------------------------------
(* The public catalog: the latest version that is neither yanked nor       *)
(* blocked by a review, with what a page says about it.                    *)

Visible == {v \in Versions : /\ Committed(v)
                             /\ row[v].yanked = "no"
                             /\ row[v].review \notin BLOCKED_REVIEW_STATUSES}

NoPage == [version |-> 0, digest |-> None, review |-> "none", security |-> "none",
           signer |-> "none"]

Page == IF Visible = {} THEN NoPage
        ELSE LET v == CHOOSE x \in Visible : \A y \in Visible : y <= x
             IN [version |-> v, digest |-> row[v].digest, review |-> row[v].review,
                 security |-> row[v].security, signer |-> key]

PublishIdle == [pc |-> "idle", v |-> 0, data |-> None]
ScanIdle == [pc |-> "idle", v |-> 0, seen |-> "pending", verdict |-> "pending"]
ReviewIdle == [pc |-> "idle", v |-> 0, seen |-> "pending", flag |-> "no"]
DownloadIdle == [pc |-> "idle", v |-> 0, digest |-> None, got |-> None]
ReaderIdle == [pc |-> "idle", wm |-> 0, page |-> NoPage]
NoEntry == [wm |-> -1, page |-> NoPage, age |-> "expired"]

Init ==
  /\ row = [v \in Versions |-> NoRow]
  /\ file = [v \in Versions |-> None]
  /\ late = {}
  /\ pub = [p \in Publishers |-> PublishIdle]
  /\ scan = [s \in Scanners |-> ScanIdle]
  /\ rev = [r \in Reviewers |-> ReviewIdle]
  /\ dl = [d \in Downloads |-> DownloadIdle]
  /\ wm = 0
  /\ cache = NoEntry
  /\ reader = [c \in Readers |-> ReaderIdle]
  /\ key = "valid"
  /\ updated = "no"
  /\ crashes = 0
  /\ stray = {}

MayFail == crashes + Cardinality(stray) < MaxFaults

\* bump_catalog: a stamp never used before.
Bump == wm < MaxBumps /\ wm' = wm + 1

-----------------------------------------------------------------------------
(* publish_version.                                                        *)

\* The key is registered and not revoked, the version does not exist yet.
PublishCheck(p) ==
  /\ pub[p].pc = "idle"
  /\ key = "valid"
  /\ \E v \in Versions, a \in Archives :
       /\ ~Committed(v)
       /\ pub' = [pub EXCEPT ![p] = [pc |-> "checked", v |-> v, data |-> a]]
  /\ UNCHANGED <<database, scan, rev, dl, reader, file, late, cache, faultVars>>

\* Mutant: the unique constraint is missing, an older row is replaced.
PublishInsertReplaces(p) ==
  /\ pub[p].pc = "checked"
  /\ row[pub[p].v].tx = None
  /\ row' = [row EXCEPT ![pub[p].v] = [digest |-> pub[p].data, security |-> "pending",
                                       review |-> "pending", yanked |-> "no", tx |-> p]]
  /\ pub' = [pub EXCEPT ![p].pc = "inserted"]
  /\ UNCHANGED <<wm, key, scan, rev, dl, reader, file, late, cache, faultVars>>

\* VersionRepository.create flushes the INSERT.  It waits while another
\* transaction holds the unique key and fails (the transaction rolls back)
\* when that transaction committed the version.
PublishInsert(p) ==
  /\ pub[p].pc = "checked"
  /\ row[pub[p].v].tx = None
  /\ \/ /\ ~Committed(pub[p].v)
        /\ row' = [row EXCEPT ![pub[p].v] = [digest |-> pub[p].data, security |-> "pending",
                                             review |-> "pending", yanked |-> "no", tx |-> p]]
        /\ pub' = [pub EXCEPT ![p].pc = "inserted"]
     \/ /\ Committed(pub[p].v)
        /\ pub' = [pub EXCEPT ![p] = PublishIdle]
        /\ UNCHANGED row
  /\ UNCHANGED <<wm, key, scan, rev, dl, reader, file, late, cache, faultVars>>

\* Mutant: the archive is stored before the row is inserted.
PublishPutEarly(p) ==
  /\ pub[p].pc \in {"checked", "inserted"}
  /\ file' = [file EXCEPT ![pub[p].v] = pub[p].data]
  /\ pub' = [pub EXCEPT ![p].pc = IF @ = "inserted" THEN "writing" ELSE @]
  /\ UNCHANGED <<database, scan, rev, dl, reader, late, cache, faultVars>>

\* ArchiveStore.put hands the write to an executor thread and waits for it.
PublishPut(p) ==
  /\ pub[p].pc = "inserted"
  /\ pub' = [pub EXCEPT ![p].pc = "writing"]
  /\ UNCHANGED <<database, scan, rev, dl, reader, file, late, cache, faultVars>>

PublishWritten(p) ==
  /\ pub[p].pc = "writing"
  /\ file' = [file EXCEPT ![pub[p].v] = pub[p].data]
  /\ pub' = [pub EXCEPT ![p].pc = "written"]
  /\ UNCHANGED <<database, scan, rev, dl, reader, late, cache, faultVars>>

\* Mutant: the scan is left to the worker of the scan.requested event.
PublishCommitUnscanned(p) ==
  /\ pub[p].pc = "written"
  /\ Bump
  /\ row' = [row EXCEPT ![pub[p].v].tx = None]
  /\ pub' = [pub EXCEPT ![p] = PublishIdle]
  /\ UNCHANGED <<key, scan, rev, dl, reader, file, late, cache, faultVars>>

\* run_scan on the uploaded bytes, the event, the bump, then the commit.
PublishCommit(p) ==
  /\ pub[p].pc = "written"
  /\ Bump
  /\ row' = [row EXCEPT ![pub[p].v].security = Verdict(pub[p].data), ![pub[p].v].tx = None]
  /\ pub' = [pub EXCEPT ![p] = PublishIdle]
  /\ UNCHANGED <<key, scan, rev, dl, reader, file, late, cache, faultVars>>

Rollback(p) == row' = [v \in Versions |-> IF row[v].tx = p THEN NoRow ELSE row[v]]

\* The process dies, a running write with it; or a statement of the
\* transaction fails.
PublishCrash(p) ==
  /\ pub[p].pc # "idle"
  /\ MayFail
  /\ crashes' = crashes + 1
  /\ Rollback(p)
  /\ pub' = [pub EXCEPT ![p] = PublishIdle]
  /\ file' \in {file} \cup (IF pub[p].pc = "writing"
                            THEN {[file EXCEPT ![pub[p].v] = Torn]} ELSE {})
  /\ UNCHANGED <<wm, key, scan, rev, dl, reader, late, cache, updated, stray>>

\* The request is cancelled while it waits for the write: the transaction is
\* rolled back, the executor thread goes on.
PublishCancel(p) ==
  /\ pub[p].pc = "writing"
  /\ MayFail
  /\ pub[p].v \notin stray
  /\ stray' = stray \cup {pub[p].v}
  /\ Rollback(p)
  /\ late' = late \cup {<<pub[p].v, pub[p].data>>}
  /\ pub' = [pub EXCEPT ![p] = PublishIdle]
  /\ UNCHANGED <<wm, key, scan, rev, dl, reader, file, cache, updated, crashes>>

LateWrite ==
  /\ \E w \in late : /\ file' = [file EXCEPT ![w[1]] = w[2]]
                     /\ late' = late \ {w}
  /\ UNCHANGED <<database, requests, cache, faultVars>>

-----------------------------------------------------------------------------
(* Scans (the scan.run worker and rescan requests), reviews, yanks, keys.  *)

ScanRead(s, v) ==
  /\ scan[s].pc = "idle"
  /\ Committed(v)
  /\ file[v] # None
  /\ scan' = [scan EXCEPT ![s] = [pc |-> "scanned", v |-> v, seen |-> row[v].security,
                                  verdict |-> Verdict(file[v])]]
  /\ UNCHANGED <<database, pub, rev, dl, reader, file, late, cache, faultVars>>

\* record_scan_result writes when the verdict differs from the loaded status.
\* No watermark is bumped.
ScanCommit(s) ==
  /\ scan[s].pc = "scanned"
  /\ row' = IF scan[s].verdict = scan[s].seen THEN row
            ELSE [row EXCEPT ![scan[s].v].security = scan[s].verdict]
  /\ scan' = [scan EXCEPT ![s] = ScanIdle]
  /\ UNCHANGED <<wm, key, pub, rev, dl, reader, file, late, cache, faultVars>>

\* _resolve_version, for a review or a yank.
ReviewLoad(r, v) ==
  /\ rev[r].pc = "idle"
  /\ Committed(v)
  /\ rev' = [rev EXCEPT ![r] = [pc |-> "loaded", v |-> v, seen |-> row[v].review,
                                flag |-> row[v].yanked]]
  /\ UNCHANGED <<database, pub, scan, dl, reader, file, late, cache, faultVars>>

\* set_review leaves the row alone when status and reason are as loaded; the
\* event, the audit entry and the bump are written in any case.
ReviewCommit(r, action) ==
  /\ rev[r].pc = "loaded"
  /\ Bump
  /\ \/ row' = [row EXCEPT ![rev[r].v].review = REVIEW_STATUS_BY_ACTION[action]]
     \/ /\ REVIEW_STATUS_BY_ACTION[action] = rev[r].seen
        /\ UNCHANGED row
  /\ rev' = [rev EXCEPT ![r] = ReviewIdle]
  /\ UNCHANGED <<key, pub, scan, dl, reader, file, late, cache, faultVars>>

\* set_yanked compares with the flag it loaded: nothing happens, and nothing
\* is bumped, when that is the one asked for.
YankCommit(r, y) ==
  /\ rev[r].pc = "loaded"
  /\ \/ /\ rev[r].flag # y
        /\ Bump
        /\ row' = [row EXCEPT ![rev[r].v].yanked = y]
     \/ /\ rev[r].flag = y
        /\ UNCHANGED <<row, wm>>
  /\ rev' = [rev EXCEPT ![r] = ReviewIdle]
  /\ UNCHANGED <<key, pub, scan, dl, reader, file, late, cache, faultVars>>

RevokeKey ==
  /\ key = "valid"
  /\ key' = "revoked"
  /\ UNCHANGED <<row, wm, requests, file, late, cache, faultVars>>

\* A deployment of the scanner finds more than the one before.
UpdateScanner ==
  /\ updated = "no"
  /\ updated' = "yes"
  /\ UNCHANGED <<database, requests, file, late, cache, crashes, stray>>

-----------------------------------------------------------------------------
(* GET /catalog through CatalogCache.                                      *)

CatalogWatermark(c) ==
  /\ reader[c].pc = "idle"
  /\ reader' = [reader EXCEPT ![c] = [pc |-> "tagged", wm |-> wm, page |-> NoPage]]
  /\ UNCHANGED <<database, pub, scan, rev, dl, file, late, cache, faultVars>>

Hit(c) == cache.wm = reader[c].wm /\ cache.age = "fresh"

LockFree == \A c \in Readers : reader[c].pc \notin {"locked", "loaded"}

\* get_or_put under the key's lock: the entry is good, or it is loaded anew.
CatalogLookup(c) ==
  /\ reader[c].pc = "tagged"
  /\ LockFree
  /\ reader' = [reader EXCEPT ![c] = IF Hit(c) THEN ReaderIdle ELSE [@ EXCEPT !.pc = "locked"]]
  /\ UNCHANGED <<database, pub, scan, rev, dl, file, late, cache, faultVars>>

CatalogLoad(c) ==
  /\ reader[c].pc = "locked"
  /\ reader' = [reader EXCEPT ![c].pc = "loaded", ![c].page = Page]
  /\ UNCHANGED <<database, pub, scan, rev, dl, file, late, cache, faultVars>>

\* Mutant: the entry is tagged with the watermark of the moment it is stored.
CatalogPutRetagged(c) ==
  /\ reader[c].pc = "loaded"
  /\ cache' = [wm |-> wm, page |-> reader[c].page, age |-> "fresh"]
  /\ reader' = [reader EXCEPT ![c] = ReaderIdle]
  /\ UNCHANGED <<database, pub, scan, rev, dl, file, late, faultVars>>

CatalogPut(c) ==
  /\ reader[c].pc = "loaded"
  /\ cache' = [wm |-> reader[c].wm, page |-> reader[c].page, age |-> "fresh"]
  /\ reader' = [reader EXCEPT ![c] = ReaderIdle]
  /\ UNCHANGED <<database, pub, scan, rev, dl, file, late, faultVars>>

\* The database fails: the loader raises, the lock is released and the last
\* entry is answered, labelled stale.
CatalogError(c) ==
  /\ reader[c].pc \in {"tagged", "locked"}
  /\ MayFail
  /\ crashes' = crashes + 1
  /\ reader' = [reader EXCEPT ![c] = ReaderIdle]
  /\ UNCHANGED <<database, pub, scan, rev, dl, file, late, cache, updated, stray>>

\* ttl_seconds pass.
CatalogExpire ==
  /\ cache.age = "fresh"
  /\ cache' = [cache EXCEPT !.age = "expired"]
  /\ UNCHANGED <<database, requests, file, late, faultVars>>

-----------------------------------------------------------------------------
(* GET .../archive.                                                        *)

\* _blocked_download_reason
Blocked(v) == row[v].review \in BLOCKED_REVIEW_STATUSES \/ row[v].security = "flagged"

DownloadCheck(d, v) ==
  /\ dl[d].pc = "idle"
  /\ Committed(v)
  /\ ~Blocked(v)
  /\ dl' = [dl EXCEPT ![d] = [pc |-> "allowed", v |-> v, digest |-> row[v].digest, got |-> None]]
  /\ UNCHANGED <<database, pub, scan, rev, reader, file, late, cache, faultVars>>

\* ArchiveStore.get; a missing file is a 404.
DownloadRead(d) ==
  /\ dl[d].pc = "allowed"
  /\ dl' = [dl EXCEPT ![d] = IF file[dl[d].v] = None THEN DownloadIdle
                              ELSE [@ EXCEPT !.pc = "served", !.got = file[dl[d].v]]]
  /\ UNCHANGED <<database, pub, scan, rev, reader, file, late, cache, faultVars>>

DownloadEnd(d) ==
  /\ dl[d].pc = "served"
  /\ dl' = [dl EXCEPT ![d] = DownloadIdle]
  /\ UNCHANGED <<database, pub, scan, rev, reader, file, late, cache, faultVars>>

-----------------------------------------------------------------------------
Publish(p) == \/ PublishCheck(p) \/ PublishInsert(p) \/ PublishPut(p) \/ PublishWritten(p)
              \/ PublishCommit(p) \/ PublishCrash(p) \/ PublishCancel(p)
Scan(s) == (\E v \in Versions : ScanRead(s, v)) \/ ScanCommit(s)
Review(r) == \/ \E v \in Versions : ReviewLoad(r, v)
             \/ \E action \in REVIEW_ACTIONS : ReviewCommit(r, action)
             \/ \E y \in {"no", "yes"} : YankCommit(r, y)
Catalog(c) == \/ CatalogWatermark(c) \/ CatalogLookup(c) \/ CatalogLoad(c) \/ CatalogPut(c)
              \/ CatalogError(c)
Download(d) == (\E v \in Versions : DownloadCheck(d, v)) \/ DownloadRead(d) \/ DownloadEnd(d)

Next ==
  \/ \E p \in Publishers : Publish(p)
  \/ \E s \in Scanners : Scan(s)
  \/ \E r \in Reviewers : Review(r)
  \/ \E c \in Readers : Catalog(c)
  \/ \E d \in Downloads : Download(d)
  \/ RevokeKey
  \/ UpdateScanner
  \/ LateWrite
  \/ CatalogExpire

Spec == Init /\ [][Next]_vars

-----------------------------------------------------------------------------
(* Properties.                                                             *)

\* The archive on disk is the one the committed row's sha256 names, whatever
\* publishes of the same version raced, failed or crashed before.  Only a
\* publish cancelled inside ArchiveStore.put can break it.
ArchiveBacked == \A v \in Versions \ stray : Committed(v) => file[v] = row[v].digest

\* A committed version never disappears and its identity (version, digest)
\* never changes: a second publish of it gets a conflict.
VersionImmutable == [][\A v \in Versions : Committed(v) =>
  Committed(v)' /\ row'[v].digest = row[v].digest]_vars

\* What a download hands out is the archive whose row was checked, and one
\* the scan at publish time had no findings for ("scan run synchronously
\* before the version becomes publicly downloadable").
ServedIsVetted == \A d \in Downloads : dl[d].pc = "served" /\ dl[d].v \notin stray =>
  dl[d].got = dl[d].digest /\ dl[d].got \notin Hostile

\* What a page says that publishes, reviews and yanks decide.
Reviewed(page) == <<page.version, page.digest, page.review>>

\* An entry that carries the current watermark shows every committed publish,
\* review and yank, although its load ran beside them.
CatalogFresh == cache.wm = wm => Reviewed(cache.page) = Reviewed(Page)

=============================================================================
