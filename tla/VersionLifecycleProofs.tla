------------------------ MODULE VersionLifecycleProofs ------------------------
(***************************************************************************)
(* The safety of VersionLifecycle for any number of versions, archives and *)
(* requests: the store holds what the table names, versions are immutable, *)
(* downloads are vetted and the catalog cache is never behind its tag.     *)
(***************************************************************************)
EXTENDS VersionLifecycle, TLAPS

ReviewStatuses == {"pending", "verified", "warning", "rejected", "revoked", "changes_requested"}
SecurityStatuses == {"pending", "flagged", "clean"}
Digests == Archives \cup {None}
Files == Archives \cup {None, Torn}

Row == [digest: Digests, security: SecurityStatuses \cup {"absent"}, review: ReviewStatuses,
        yanked: {"no", "yes"}, tx: Publishers \cup {None}]
Pages == [version: Nat, digest: Digests, review: ReviewStatuses \cup {"none"},
          security: SecurityStatuses \cup {"none", "absent"}, signer: {"none", "valid", "revoked"}]
PublishTx == [pc: {"idle", "checked", "inserted", "writing", "written"},
              v: Versions \cup {0}, data: Digests]
ScanTx == [pc: {"idle", "scanned"}, v: Versions \cup {0},
           seen: SecurityStatuses \cup {"absent"}, verdict: SecurityStatuses]
ReviewTx == [pc: {"idle", "loaded"}, v: Versions \cup {0}, seen: ReviewStatuses,
             flag: {"no", "yes"}]
DownloadReq == [pc: {"idle", "allowed", "served"}, v: Versions \cup {0},
                digest: Digests, got: Files]
ReaderReq == [pc: {"idle", "tagged", "locked", "loaded"}, wm: Nat, page: Pages]
Entry == [wm: Int, page: Pages, age: {"fresh", "expired"}]

StoreTypes ==
  /\ row \in [Versions -> Row]
  /\ file \in [Versions -> Files]
  /\ late \subseteq Versions \X Archives
  /\ pub \in [Publishers -> PublishTx]
RequestTypes ==
  /\ scan \in [Scanners -> ScanTx]
  /\ rev \in [Reviewers -> ReviewTx]
  /\ dl \in [Downloads -> DownloadReq]
CatalogTypes ==
  /\ wm \in Nat
  /\ cache \in Entry
  /\ reader \in [Readers -> ReaderReq]
  /\ key \in {"valid", "revoked"}

\* A publish past its INSERT holds the row of its version, with its archive;
\* after the write the store holds that archive too.
Holding == {"inserted", "writing", "written"}
PublishOK(p) ==
  /\ pub[p].pc # "idle" => pub[p].v \in Versions /\ pub[p].data \in Archives
  /\ pub[p].pc \in Holding => row[pub[p].v].tx = p /\ row[pub[p].v].digest = pub[p].data
  /\ pub[p].pc = "written" /\ pub[p].v \notin stray => file[pub[p].v] = pub[p].data

\* A row that is not committed belongs to a publish in progress; a hostile
\* archive is never committed unflagged, and no rescan clears it.
RowOK(v) ==
  /\ row[v].tx # None => pub[row[v].tx].pc \in Holding /\ pub[row[v].tx].v = v
  /\ Committed(v) /\ v \notin stray /\ row[v].digest \in Hostile => row[v].security = "flagged"

Stored ==
  /\ \A p \in Publishers : PublishOK(p)
  /\ \A v \in Versions : RowOK(v)
  /\ \A w \in late : w[1] \in stray
  /\ ArchiveBacked

\* Scans, reviews and downloads in progress are about committed versions.
ScanOK(s) == scan[s].pc = "scanned" =>
  /\ scan[s].v \in Versions /\ Committed(scan[s].v)
  /\ scan[s].v \notin stray /\ row[scan[s].v].digest \in Hostile => scan[s].verdict = "flagged"
ReviewOK(r) == rev[r].pc = "loaded" => rev[r].v \in Versions /\ Committed(rev[r].v)
DownloadOK(d) == dl[d].pc # "idle" =>
  /\ dl[d].v \in Versions /\ Committed(dl[d].v) /\ dl[d].digest = row[dl[d].v].digest
  /\ dl[d].v \notin stray => /\ dl[d].digest \notin Hostile
                             /\ dl[d].pc = "served" => dl[d].got = dl[d].digest
Requested ==
  /\ \A s \in Scanners : ScanOK(s)
  /\ \A r \in Reviewers : ReviewOK(r)
  /\ \A d \in Downloads : DownloadOK(d)

\* The committed versions have a latest one, however many of them are blocked.
Bounded(S) == S # {} => \E m \in S : \A y \in S : y <= m
Latest == \A S \in SUBSET {v \in Versions : Committed(v)} : Bounded(S)

\* A page that was loaded under the current watermark is the current page.
Fresh(tag, page) == tag <= wm /\ (tag = wm => Reviewed(page) = Reviewed(Page))
ReaderOK(c) == /\ reader[c].wm <= wm
               /\ reader[c].pc = "loaded" => Fresh(reader[c].wm, reader[c].page)
Cached == Fresh(cache.wm, cache.page) /\ \A c \in Readers : ReaderOK(c)

Types == StoreTypes /\ RequestTypes /\ CatalogTypes
IInv == Types /\ Stored /\ Requested /\ Latest /\ Cached

-----------------------------------------------------------------------------
(* Frames: what a step that leaves part of the state alone preserves.      *)

\* A step that neither removes a committed version nor changes its digest.
Kept == \A v \in Versions : Committed(v) => Committed(v)' /\ row'[v].digest = row[v].digest

\* A step that changes nothing a catalog page takes from the table but scans.
SameCatalog == \A v \in Versions :
  /\ Committed(v)' <=> Committed(v)
  /\ Committed(v) => /\ row'[v].digest = row[v].digest
                     /\ row'[v].review = row[v].review
                     /\ row'[v].yanked = row[v].yanked

\* Steps of readers, downloads, scans and reviews leave store and table alone.
LEMMA StoredFrame ==
  ASSUME IInv, UNCHANGED <<row, file, late, pub, stray>>
  PROVE  StoreTypes' /\ Stored' /\ Kept /\ SameCatalog
<1>1. \A v \in Versions : Committed(v)' <=> Committed(v)
  BY DEF Committed
<1>2. StoreTypes' /\ Kept /\ SameCatalog
  BY <1>1 DEF IInv, Types, StoreTypes, Kept, SameCatalog
<1>3. Stored'
  BY <1>1 DEF IInv, Stored, PublishOK, RowOK, ArchiveBacked
<1> QED BY <1>2, <1>3

\* Requests in progress are not disturbed: their versions stay committed.
LEMMA RequestedFrame ==
  ASSUME IInv, Kept, stray \subseteq stray', UNCHANGED <<scan, rev, dl>>
  PROVE  RequestTypes' /\ Requested'
<1>1. RequestTypes'
  BY DEF IInv, Types, RequestTypes
<1>2. \A s \in Scanners : ScanOK(s)'
  BY DEF IInv, Requested, ScanOK, Kept
<1>3. \A r \in Reviewers : ReviewOK(r)'
  BY DEF IInv, Requested, ReviewOK, Kept
<1>4. \A d \in Downloads : DownloadOK(d)'
  BY DEF IInv, Requested, DownloadOK, Kept
<1> QED BY <1>1, <1>2, <1>3, <1>4 DEF Requested

\* No version is committed: the latest of any of them stays the latest.
LEMMA LatestFrame ==
  ASSUME Latest, \A v \in Versions : Committed(v)' => Committed(v)
  PROVE  Latest'
<1>1. {v \in Versions : Committed(v)'} \subseteq {v \in Versions : Committed(v)}
  OBVIOUS
<1> QED BY <1>1 DEF Latest, Bounded

\* The version a page shows is a visible one.
LEMMA LatestVisible ==
  ASSUME Latest, Visible # {}
  PROVE  (CHOOSE x \in Visible : \A y \in Visible : y <= x) \in Visible
<1>1. Visible \in SUBSET {v \in Versions : Committed(v)}
  BY DEF Visible
<1>2. \E m \in Visible : \A y \in Visible : y <= m
  BY <1>1 DEF Latest, Bounded
<1> QED BY <1>2

\* Every page is a page, of a version in the table or of none.
LEMMA PageType ==
  ASSUME StoreTypes, key \in {"valid", "revoked"}, Latest
  PROVE  Page \in Pages
<1>1. CASE Visible = {}
  BY <1>1 DEF Page, NoPage, Pages, Digests
<1>2. CASE Visible # {}
  <2> DEFINE v == CHOOSE x \in Visible : \A y \in Visible : y <= x
  <2>1. v \in Visible
    BY <1>2, LatestVisible
  <2> HIDE DEF v
  <2>2. v \in Nat /\ v \in Versions /\ row[v] \in Row
    BY <2>1, ConstantsAssumption DEF Visible, StoreTypes
  <2>3. Page = [version |-> v, digest |-> row[v].digest, review |-> row[v].review,
                security |-> row[v].security, signer |-> key]
    BY <1>2 DEF Page, v
  <2> QED BY <2>2, <2>3 DEF Pages, Row
<1> QED BY <1>1, <1>2

\* A page changes only with the visible rows, and in what it says of reviews
\* only with their digests and review statuses.
LEMMA PageFrame ==
  ASSUME Latest, SameCatalog
  PROVE  Reviewed(Page)' = Reviewed(Page)
<1>1. Visible' = Visible
  BY DEF Visible, SameCatalog
<1>2. CASE Visible = {}
  BY <1>1, <1>2 DEF Page, NoPage, Reviewed
<1>3. CASE Visible # {}
  <2> DEFINE V == Visible
             v == CHOOSE x \in V : \A y \in V : y <= x
  <2>1. v \in Visible
    BY <1>3, LatestVisible
  <2>2. v' = v
    BY <1>1
  <2> HIDE DEF v
  <2>3. /\ Page = [version |-> v, digest |-> row[v].digest, review |-> row[v].review,
                   security |-> row[v].security, signer |-> key]
        /\ Page' = [version |-> v, digest |-> row'[v].digest, review |-> row'[v].review,
                    security |-> row'[v].security, signer |-> key']
    BY <1>1, <1>3, <2>2 DEF Page, v
  <2>4. row'[v].digest = row[v].digest /\ row'[v].review = row[v].review
    BY <2>1 DEF Visible, SameCatalog
  <2> QED BY <2>3, <2>4 DEF Reviewed
<1> QED BY <1>2, <1>3

\* The cache and the readers survive a step that keeps what pages show, and one
\* that bumps the watermark.
LEMMA CachedFrame ==
  ASSUME IInv, UNCHANGED <<cache, reader>>, key' \in {"valid", "revoked"},
         \/ wm' = wm /\ SameCatalog
         \/ wm' = wm + 1
  PROVE  CatalogTypes' /\ Cached'
<1>1. wm \in Nat /\ cache.wm \in Int /\ \A c \in Readers : reader[c].wm \in Nat
  BY DEF IInv, Types, CatalogTypes, Entry, ReaderReq
<1>2. CatalogTypes'
  BY <1>1 DEF IInv, Types, CatalogTypes
<1>3. CASE wm' = wm /\ SameCatalog
  <2>1. Reviewed(Page)' = Reviewed(Page)
    BY <1>3, PageFrame DEF IInv
  <2>2. Fresh(cache.wm, cache.page)'
    BY <1>3, <2>1 DEF IInv, Cached, Fresh, Reviewed
  <2>3. \A c \in Readers : ReaderOK(c)'
    BY <1>3, <2>1 DEF IInv, Cached, ReaderOK, Fresh, Reviewed
  <2> QED BY <1>2, <2>2, <2>3 DEF Cached
<1>4. CASE wm' = wm + 1
  <2>1. Fresh(cache.wm, cache.page)'
    BY <1>1, <1>4 DEF IInv, Cached, Fresh
  <2>2. \A c \in Readers : ReaderOK(c)'
    BY <1>1, <1>4 DEF IInv, Cached, ReaderOK, Fresh
  <2> QED BY <1>2, <2>1, <2>2 DEF Cached
<1> QED BY <1>3, <1>4

-----------------------------------------------------------------------------
(* Publishing.                                                             *)

\* A step of one publish moves only its own transaction record.
LEMMA PublishMoved ==
  ASSUME StoreTypes, NEW p \in Publishers, NEW r \in PublishTx, pub' = [pub EXCEPT ![p] = r]
  PROVE  /\ pub' \in [Publishers -> PublishTx]
         /\ pub'[p] = r
         /\ \A q \in Publishers : q # p => pub'[q] = pub[q]
  BY DEF StoreTypes

\* A publish not yet in progress, and the empty slot of the table.
LEMMA Blanks ==
  /\ PublishIdle \in PublishTx
  /\ NoRow \in Row /\ NoRow.tx = None /\ NoRow.security = "absent"
  BY DEF PublishIdle, PublishTx, NoRow, Row, Digests, ReviewStatuses

\* What the store keeps of a publish that holds its version: the row is its own,
\* so no other publish holds it and it is not committed.
LEMMA Holder ==
  ASSUME IInv, NEW p \in Publishers, pub[p].pc \in Holding
  PROVE  /\ pub[p].v \in Versions /\ pub[p].data \in Archives
         /\ row[pub[p].v].tx = p /\ row[pub[p].v].digest = pub[p].data
         /\ ~Committed(pub[p].v)
         /\ \A q \in Publishers : pub[q].pc \in Holding /\ pub[q].v = pub[p].v => q = p
<1>1. p # None
  BY NamesAssumption
<1> QED BY <1>1 DEF IInv, Stored, PublishOK, Committed, Holding

\* The checks of a publish, and handing the write to the executor.
LEMMA StoredPublishLocal ==
  ASSUME IInv, NEW p \in Publishers, PublishCheck(p) \/ PublishPut(p)
  PROVE  StoreTypes' /\ Stored' /\ SameCatalog
<1>1. UNCHANGED <<row, file, late, stray>> /\ StoreTypes
  BY DEF PublishCheck, PublishPut, database, faultVars, IInv, Types
<1>2. PICK r \in PublishTx :
        /\ pub' = [pub EXCEPT ![p] = r]
        /\ r.pc # "idle" /\ r.v \in Versions /\ r.data \in Archives
        /\ \/ r.pc = "checked" /\ pub[p].pc = "idle"
           \/ r.pc = "writing" /\ pub[p].pc = "inserted" /\ r.v = pub[p].v /\ r.data = pub[p].data
  <2>1. CASE PublishCheck(p)
    <3>1. PICK v \in Versions, a \in Archives :
            pub' = [pub EXCEPT ![p] = [pc |-> "checked", v |-> v, data |-> a]]
      BY <2>1 DEF PublishCheck
    <3>2. [pc |-> "checked", v |-> v, data |-> a] \in PublishTx
      BY DEF PublishTx, Digests
    <3> QED BY <2>1, <3>1, <3>2 DEF PublishCheck
  <2>2. CASE PublishPut(p)
    <3>1. pub[p] \in PublishTx /\ pub[p].pc = "inserted"
      BY <1>1, <2>2 DEF StoreTypes, PublishPut
    <3>2. [pub[p] EXCEPT !.pc = "writing"] \in PublishTx
      BY <3>1 DEF PublishTx
    <3>3. pub' = [pub EXCEPT ![p] = [pub[p] EXCEPT !.pc = "writing"]]
      BY <1>1, <2>2 DEF StoreTypes, PublishPut
    <3>4. pub[p].v \in Versions /\ pub[p].data \in Archives
      BY <3>1, Holder DEF Holding
    <3> QED BY <3>1, <3>2, <3>3, <3>4 DEF PublishTx
  <2> QED BY <2>1, <2>2
<1>3. /\ pub' \in [Publishers -> PublishTx] /\ pub'[p] = r
      /\ \A q \in Publishers : q # p => pub'[q] = pub[q]
  BY <1>1, <1>2, PublishMoved
<1>4. \A v \in Versions : Committed(v)' <=> Committed(v)
  BY <1>1 DEF Committed
<1>5. SameCatalog /\ StoreTypes'
  BY <1>1, <1>3, <1>4 DEF SameCatalog, StoreTypes
<1>6. ASSUME NEW q \in Publishers PROVE PublishOK(q)'
  <2>1. PublishOK(q)
    BY DEF IInv, Stored
  <2>2. CASE q = p
    BY <1>1, <1>2, <1>3, <2>1, <2>2 DEF PublishOK, Holding
  <2>3. CASE q # p
    BY <1>1, <1>3, <2>1, <2>3 DEF PublishOK
  <2> QED BY <2>2, <2>3
<1>7. ASSUME NEW v \in Versions PROVE RowOK(v)'
  <2>1. RowOK(v)
    BY DEF IInv, Stored
  <2>2. row[v].tx # None => row[v].tx \in Publishers
    BY <1>1 DEF StoreTypes, Row
  <2>3. row[v].tx # None => pub'[row[v].tx].pc \in Holding /\ pub'[row[v].tx].v = v
    BY <1>2, <1>3, <2>1, <2>2 DEF RowOK, Holding
  <2> QED BY <1>1, <1>4, <2>1, <2>3 DEF RowOK
<1>8. (\A w \in late : w[1] \in stray)' /\ ArchiveBacked'
  BY <1>1, <1>4 DEF IInv, Stored, ArchiveBacked
<1> QED BY <1>5, <1>6, <1>7, <1>8 DEF Stored

\* The INSERT: a new row of this publish, or its end on a conflict.
LEMMA StoredPublishInsert ==
  ASSUME IInv, NEW p \in Publishers, PublishInsert(p)
  PROVE  StoreTypes' /\ Stored' /\ SameCatalog
<1>1. UNCHANGED <<file, late, stray>> /\ StoreTypes /\ pub[p].pc = "checked"
  BY DEF PublishInsert, faultVars, IInv, Types
<1>2. PICK u \in Versions, a \in Archives : u = pub[p].v /\ a = pub[p].data
  BY <1>1 DEF IInv, Stored, PublishOK
<1>3. row[u].tx = None /\ p # None
  BY <1>2, NamesAssumption DEF PublishInsert
<1>4. CASE ~Committed(u)
  <2> DEFINE n == [digest |-> a, security |-> "pending", review |-> "pending",
                   yanked |-> "no", tx |-> p]
  <2>1. n \in Row
    BY DEF Row, Digests, SecurityStatuses, ReviewStatuses
  <2>2. row' = [row EXCEPT ![u] = n]
    BY <1>2, <1>4 DEF PublishInsert
  <2>3. row' \in [Versions -> Row] /\ row'[u] = n /\ \A v \in Versions : v # u => row'[v] = row[v]
    BY <1>1, <2>1, <2>2 DEF StoreTypes
  <2>4. PICK r \in PublishTx : r = [pub[p] EXCEPT !.pc = "inserted"]
    BY <1>1 DEF StoreTypes, PublishTx
  <2>5. r.pc = "inserted" /\ r.v = u /\ r.data = a
    BY <1>1, <1>2, <2>4 DEF StoreTypes, PublishTx
  <2>6. pub' = [pub EXCEPT ![p] = r]
    BY <1>1, <1>2, <1>4, <2>4 DEF PublishInsert, StoreTypes
  <2>7. /\ pub' \in [Publishers -> PublishTx] /\ pub'[p] = r
        /\ \A q \in Publishers : q # p => pub'[q] = pub[q]
    BY <1>1, <2>6, PublishMoved
  <2>8. row'[u].tx = p /\ row'[u].digest = a
    BY <2>3
  <2>9. \A v \in Versions : Committed(v)' <=> Committed(v)
    BY <1>3, <1>4, <2>3, <2>8 DEF Committed
  <2>10. SameCatalog /\ StoreTypes'
    BY <1>1, <1>4, <2>3, <2>7, <2>9 DEF SameCatalog, StoreTypes
  <2>11. ASSUME NEW q \in Publishers PROVE PublishOK(q)'
    <3>1. PublishOK(q)
      BY DEF IInv, Stored
    <3>2. CASE q = p
      BY <2>5, <2>7, <2>8, <3>2 DEF PublishOK, Holding
    <3>3. CASE q # p
      <4>1. pub[q].pc \in Holding => pub[q].v # u
        BY <1>3, <3>1, <3>3, NamesAssumption DEF PublishOK
      <4> QED BY <1>1, <2>3, <2>7, <3>1, <3>3, <4>1 DEF PublishOK, Holding
    <3> QED BY <3>2, <3>3
  <2>12. ASSUME NEW v \in Versions PROVE RowOK(v)'
    <3>1. RowOK(v)
      BY DEF IInv, Stored
    <3>2. CASE v = u
      BY <1>4, <2>5, <2>7, <2>8, <2>9, <3>2 DEF RowOK, Holding
    <3>3. CASE v # u
      <4>1. row'[v] = row[v] /\ (row[v].tx # None => row[v].tx \in Publishers)
        BY <1>1, <2>3, <3>3 DEF StoreTypes, Row
      <4>2. row[v].tx # p
        BY <1>1, <1>3, <3>1 DEF RowOK, Holding
      <4> QED BY <1>1, <2>7, <2>9, <3>1, <4>1, <4>2 DEF RowOK
    <3> QED BY <3>2, <3>3
  <2>13. (\A w \in late : w[1] \in stray)' /\ ArchiveBacked'
    BY <1>1, <1>4, <2>3, <2>9 DEF IInv, Stored, ArchiveBacked
  <2> QED BY <2>10, <2>11, <2>12, <2>13 DEF Stored
<1>5. CASE Committed(u)
  <2>0. row' = row /\ pub' = [pub EXCEPT ![p] = PublishIdle]
    BY <1>2, <1>5 DEF PublishInsert
  <2>1. /\ pub' \in [Publishers -> PublishTx] /\ pub'[p] = PublishIdle
        /\ \A q \in Publishers : q # p => pub'[q] = pub[q]
    BY <1>1, <2>0, Blanks, PublishMoved
  <2>2. \A v \in Versions : Committed(v)' <=> Committed(v)
    BY <2>0 DEF Committed
  <2>3. SameCatalog /\ StoreTypes'
    BY <1>1, <2>0, <2>1, <2>2 DEF SameCatalog, StoreTypes
  <2>4. ASSUME NEW q \in Publishers PROVE PublishOK(q)'
    BY <1>1, <2>0, <2>1 DEF PublishOK, PublishIdle, Holding, IInv, Stored
  <2>5. ASSUME NEW v \in Versions PROVE RowOK(v)'
    <3>1. RowOK(v) /\ (row[v].tx # None => row[v].tx \in Publishers)
      BY <1>1 DEF IInv, Stored, StoreTypes, Row
    <3>2. row[v].tx # p
      BY <1>1, <1>3, <3>1 DEF RowOK, Holding
    <3> QED BY <1>1, <2>0, <2>1, <2>2, <3>1, <3>2 DEF RowOK
  <2>6. (\A w \in late : w[1] \in stray)' /\ ArchiveBacked'
    BY <1>1, <2>0, <2>2 DEF IInv, Stored, ArchiveBacked
  <2> QED BY <2>3, <2>4, <2>5, <2>6 DEF Stored
<1> QED BY <1>4, <1>5

\* The write of ArchiveStore.put: only the file of the version held changes.
LEMMA StoredPublishWritten ==
  ASSUME IInv, NEW p \in Publishers, PublishWritten(p)
  PROVE  StoreTypes' /\ Stored' /\ SameCatalog
<1>1. UNCHANGED <<row, late, stray>> /\ StoreTypes /\ pub[p].pc = "writing"
  BY DEF PublishWritten, database, faultVars, IInv, Types
<1>2. PICK u \in Versions, a \in Archives : u = pub[p].v /\ a = pub[p].data
  BY <1>1, Holder DEF Holding
<1>3. /\ row[u].tx = p /\ row[u].digest = a /\ ~Committed(u)
      /\ \A q \in Publishers : pub[q].pc \in Holding /\ pub[q].v = u => q = p
  BY <1>1, <1>2, Holder DEF Holding
<1>4. file' = [file EXCEPT ![u] = a]
  BY <1>2 DEF PublishWritten
<1>5. /\ file' \in [Versions -> Files] /\ file'[u] = a
      /\ \A v \in Versions : v # u => file'[v] = file[v]
  BY <1>1, <1>4 DEF StoreTypes, Files
<1>6. PICK r \in PublishTx : r = [pub[p] EXCEPT !.pc = "written"]
  BY <1>1 DEF StoreTypes, PublishTx
<1>7. r.pc = "written" /\ r.v = u /\ r.data = a
  BY <1>1, <1>2, <1>6 DEF StoreTypes, PublishTx
<1>8. pub' = [pub EXCEPT ![p] = r]
  BY <1>1, <1>6 DEF PublishWritten, StoreTypes
<1>9. /\ pub' \in [Publishers -> PublishTx] /\ pub'[p] = r
      /\ \A q \in Publishers : q # p => pub'[q] = pub[q]
  BY <1>1, <1>8, PublishMoved
<1>10. \A v \in Versions : Committed(v)' <=> Committed(v)
  BY <1>1 DEF Committed
<1>11. SameCatalog /\ StoreTypes'
  BY <1>1, <1>5, <1>9, <1>10 DEF SameCatalog, StoreTypes
<1>12. ASSUME NEW q \in Publishers PROVE PublishOK(q)'
  <2>1. PublishOK(q)
    BY DEF IInv, Stored
  <2>2. CASE q = p
    BY <1>1, <1>3, <1>5, <1>7, <1>9, <2>2 DEF PublishOK
  <2>3. CASE q # p
    BY <1>1, <1>3, <1>5, <1>9, <2>1, <2>3 DEF PublishOK, Holding
  <2> QED BY <2>2, <2>3
<1>13. ASSUME NEW v \in Versions PROVE RowOK(v)'
  <2>1. RowOK(v) /\ (row[v].tx # None => row[v].tx \in Publishers)
    BY <1>1 DEF IInv, Stored, StoreTypes, Row
  <2>2. row[v].tx # None => pub'[row[v].tx].pc \in Holding /\ pub'[row[v].tx].v = v
    BY <1>2, <1>7, <1>9, <2>1 DEF RowOK, Holding
  <2> QED BY <1>1, <1>10, <2>1, <2>2 DEF RowOK
<1>14. (\A w \in late : w[1] \in stray)' /\ ArchiveBacked'
  BY <1>1, <1>3, <1>5, <1>10 DEF IInv, Stored, ArchiveBacked
<1> QED BY <1>11, <1>12, <1>13, <1>14 DEF Stored

\* The commit: the version appears, scanned, with its archive in the store.
LEMMA StoredPublishCommit ==
  ASSUME IInv, NEW p \in Publishers, PublishCommit(p)
  PROVE  /\ StoreTypes' /\ Stored' /\ Kept
         /\ \A v \in Versions : Committed(v)' => Committed(v) \/ v = pub[p].v
<1>1. UNCHANGED <<file, late, stray>> /\ StoreTypes /\ pub[p].pc = "written"
  BY DEF PublishCommit, faultVars, IInv, Types
<1>2. PICK u \in Versions, a \in Archives : u = pub[p].v /\ a = pub[p].data
  BY <1>1, Holder DEF Holding
<1>3. /\ row[u].tx = p /\ row[u].digest = a /\ ~Committed(u)
      /\ \A q \in Publishers : pub[q].pc \in Holding /\ pub[q].v = u => q = p
      /\ u \notin stray => file[u] = a
  BY <1>1, <1>2, Holder DEF Holding, IInv, Stored, PublishOK
<1>4. Verdict(a) \in {"flagged", "clean"} /\ (a \in Hostile => Verdict(a) = "flagged")
  BY DEF Verdict, Findings
<1>5. PICK n \in Row : n = [row[u] EXCEPT !.security = Verdict(a), !.tx = None]
  BY <1>1, <1>4 DEF StoreTypes, Row, SecurityStatuses
<1>6. n.tx = None /\ n.digest = a /\ n.security = Verdict(a)
  BY <1>1, <1>3, <1>5 DEF StoreTypes, Row
<1>7. row' = [row EXCEPT ![u] = n]
  BY <1>1, <1>2, <1>5 DEF PublishCommit, StoreTypes
<1>8. row' \in [Versions -> Row] /\ row'[u] = n /\ \A v \in Versions : v # u => row'[v] = row[v]
  BY <1>1, <1>7 DEF StoreTypes
<1>9. /\ pub' \in [Publishers -> PublishTx] /\ pub'[p] = PublishIdle
      /\ \A q \in Publishers : q # p => pub'[q] = pub[q]
  BY <1>1, Blanks, PublishMoved DEF PublishCommit
<1>10. \A v \in Versions : v # u => (Committed(v)' <=> Committed(v))
  BY <1>8 DEF Committed
<1>11. Kept /\ StoreTypes'
  BY <1>1, <1>3, <1>8, <1>9, <1>10 DEF Kept, StoreTypes
<1>12. ASSUME NEW q \in Publishers PROVE PublishOK(q)'
  <2>1. PublishOK(q)
    BY DEF IInv, Stored
  <2>2. CASE q = p
    BY <1>9, <2>2 DEF PublishOK, PublishIdle, Holding
  <2>3. CASE q # p
    BY <1>1, <1>3, <1>8, <1>9, <2>1, <2>3 DEF PublishOK, Holding
  <2> QED BY <2>2, <2>3
<1>13. ASSUME NEW v \in Versions PROVE RowOK(v)'
  <2>1. RowOK(v) /\ (row[v].tx # None => row[v].tx \in Publishers)
    BY <1>1 DEF IInv, Stored, StoreTypes, Row
  <2>2. CASE v = u
    BY <1>4, <1>6, <1>8, <2>2 DEF RowOK
  <2>3. CASE v # u
    <3>1. row[v].tx # p
      BY <1>2, <2>1, <2>3, NamesAssumption DEF RowOK
    <3> QED BY <1>1, <1>8, <1>9, <1>10, <2>1, <2>3, <3>1 DEF RowOK
  <2> QED BY <2>2, <2>3
<1>14. (\A w \in late : w[1] \in stray)'
  BY <1>1 DEF IInv, Stored
<1>15. ArchiveBacked'
  BY <1>1, <1>3, <1>6, <1>8, <1>10 DEF IInv, Stored, ArchiveBacked
<1> QED BY <1>2, <1>10, <1>11, <1>12, <1>13, <1>14, <1>15 DEF Stored

\* A crash or a cancellation rolls the row back; the file it may leave torn or
\* to a late write is that of a version it held, or one then counted as stray.
LEMMA StoredPublishAbort ==
  ASSUME IInv, NEW p \in Publishers, PublishCrash(p) \/ PublishCancel(p)
  PROVE  StoreTypes' /\ Stored' /\ SameCatalog /\ stray \subseteq stray'
<1>1. StoreTypes /\ stray \subseteq stray' /\ p # None /\ pub' = [pub EXCEPT ![p] = PublishIdle]
  BY NamesAssumption DEF PublishCrash, PublishCancel, IInv, Types
<1>2. /\ pub' \in [Publishers -> PublishTx] /\ pub'[p] = PublishIdle
      /\ \A q \in Publishers : q # p => pub'[q] = pub[q]
  BY <1>1, Blanks, PublishMoved
<1>3. row' = [v \in Versions |-> IF row[v].tx = p THEN NoRow ELSE row[v]]
  BY DEF PublishCrash, PublishCancel, Rollback
<1>4. \A v \in Versions : row'[v] = IF row[v].tx = p THEN NoRow ELSE row[v]
  BY <1>3
<1>5. row' \in [Versions -> Row]
  BY <1>1, <1>3, Blanks DEF StoreTypes
<1>6. \A v \in Versions : Committed(v)' <=> Committed(v)
  BY <1>1, <1>4, Blanks DEF Committed
<1>7. SameCatalog
  BY <1>1, <1>4, <1>6 DEF SameCatalog, Committed
<1>8. /\ file' \in [Versions -> Files]
      /\ \A v \in Versions : file'[v] # file[v] => v = pub[p].v /\ pub[p].pc = "writing"
  <2>1. CASE file' = file
    BY <1>1, <2>1 DEF StoreTypes
  <2>2. CASE pub[p].pc = "writing" /\ file' = [file EXCEPT ![pub[p].v] = Torn]
    BY <1>1, <2>2 DEF StoreTypes, Files
  <2> QED BY <2>1, <2>2 DEF PublishCrash, PublishCancel
<1>9. late' \subseteq Versions \X Archives /\ \A w \in late' : w[1] \in stray'
  <2>1. CASE late' = late
    BY <1>1, <2>1 DEF StoreTypes, IInv, Stored
  <2>2. CASE PublishCancel(p)
    <3>1. pub[p].v \in Versions /\ pub[p].data \in Archives
      BY <2>2, Holder DEF PublishCancel, Holding
    <3>2. late' = late \cup {<<pub[p].v, pub[p].data>>} /\ stray' = stray \cup {pub[p].v}
      BY <2>2 DEF PublishCancel
    <3> QED BY <1>1, <3>1, <3>2 DEF StoreTypes, IInv, Stored
  <2> QED BY <2>1, <2>2 DEF PublishCrash
<1>10. ASSUME NEW q \in Publishers PROVE PublishOK(q)'
  <2>1. PublishOK(q)
    BY DEF IInv, Stored
  <2>2. CASE q = p
    BY <1>2, <2>2 DEF PublishOK, PublishIdle, Holding
  <2>3. CASE q # p
    <3>1. pub[q].pc \in Holding => /\ pub[q].v \in Versions /\ row'[pub[q].v] = row[pub[q].v]
                                   /\ file'[pub[q].v] = file[pub[q].v]
      <4>1. SUFFICES ASSUME pub[q].pc \in Holding
                     PROVE  /\ pub[q].v \in Versions /\ row'[pub[q].v] = row[pub[q].v]
                            /\ file'[pub[q].v] = file[pub[q].v]
        OBVIOUS
      <4>2. pub[q].v \in Versions /\ row[pub[q].v].tx = q
        BY <4>1, Holder
      <4>3. pub[p].pc = "writing" => pub[p].v # pub[q].v
        BY <2>3, <4>1, Holder DEF Holding
      <4> QED BY <1>4, <1>8, <2>3, <4>2, <4>3
    <3> QED BY <1>1, <1>2, <2>1, <2>3, <3>1 DEF PublishOK, Holding
  <2> QED BY <2>2, <2>3
<1>11. ASSUME NEW v \in Versions PROVE RowOK(v)'
  <2>1. RowOK(v) /\ (row[v].tx # None => row[v].tx \in Publishers)
    BY <1>1 DEF IInv, Stored, StoreTypes, Row
  <2>2. CASE row[v].tx = p
    BY <1>4, <2>2, Blanks DEF RowOK, Committed
  <2>3. CASE row[v].tx # p
    BY <1>1, <1>2, <1>4, <1>6, <2>1, <2>3 DEF RowOK
  <2> QED BY <2>2, <2>3
<1>12. ArchiveBacked'
  <2>1. SUFFICES ASSUME NEW v \in Versions, v \notin stray', Committed(v)'
                 PROVE  file'[v] = row'[v].digest
    BY DEF ArchiveBacked
  <2>2. Committed(v) /\ v \notin stray /\ row'[v] = row[v]
    BY <1>1, <1>4, <1>6, <2>1 DEF Committed
  <2>3. pub[p].pc = "writing" => v # pub[p].v
    BY <2>2, Holder DEF Holding
  <2> QED BY <1>8, <2>1, <2>2, <2>3 DEF IInv, Stored, ArchiveBacked
<1> QED BY <1>1, <1>2, <1>5, <1>7, <1>8, <1>9, <1>10, <1>11, <1>12 DEF Stored, StoreTypes

\* The executor's late write hits a version that is stray.
LEMMA StoredLateWrite ==
  ASSUME IInv, LateWrite
  PROVE  StoreTypes' /\ Stored' /\ SameCatalog
<1>1. UNCHANGED <<row, pub, stray>> /\ StoreTypes
  BY DEF LateWrite, database, requests, faultVars, IInv, Types
<1>2. PICK w \in late : file' = [file EXCEPT ![w[1]] = w[2]] /\ late' = late \ {w}
  BY DEF LateWrite
<1>3. w[1] \in Versions /\ w[2] \in Archives /\ w[1] \in stray
  BY <1>1, <1>2 DEF StoreTypes, IInv, Stored
<1>4. file' \in [Versions -> Files] /\ \A v \in Versions : v \notin stray => file'[v] = file[v]
  BY <1>1, <1>2, <1>3 DEF StoreTypes, Files
<1>5. \A v \in Versions : Committed(v)' <=> Committed(v)
  BY <1>1 DEF Committed
<1>6. SameCatalog /\ StoreTypes'
  BY <1>1, <1>2, <1>4, <1>5 DEF SameCatalog, StoreTypes
<1>7. Stored'
  BY <1>1, <1>2, <1>4, <1>5 DEF IInv, Stored, PublishOK, RowOK, ArchiveBacked, Holding
<1> QED BY <1>6, <1>7

\* A scan, a review or a yank rewrites columns of a committed row.
LEMMA StoredRowEdit ==
  ASSUME IInv, NEW u \in Versions, Committed(u), NEW n \in Row, row' = [row EXCEPT ![u] = n],
         n.tx = None, n.security # "absent", n.digest = row[u].digest,
         u \notin stray /\ n.digest \in Hostile => n.security = "flagged",
         UNCHANGED <<file, late, pub, stray>>
  PROVE  /\ StoreTypes' /\ Stored' /\ Kept
         /\ \A v \in Versions : Committed(v)' <=> Committed(v)
         /\ n.review = row[u].review /\ n.yanked = row[u].yanked => SameCatalog
<1>1. StoreTypes /\ row[u].tx = None
  BY DEF IInv, Types, Committed
<1>2. row' \in [Versions -> Row] /\ row'[u] = n /\ \A v \in Versions : v # u => row'[v] = row[v]
  BY <1>1 DEF StoreTypes
<1>3. \A v \in Versions : Committed(v)' <=> Committed(v)
  BY <1>2 DEF Committed
<1>4. StoreTypes' /\ Kept
  BY <1>1, <1>2, <1>3 DEF StoreTypes, Kept
<1>5. n.review = row[u].review /\ n.yanked = row[u].yanked => SameCatalog
  BY <1>2, <1>3 DEF SameCatalog
<1>6. ASSUME NEW q \in Publishers PROVE PublishOK(q)'
  <2>1. PublishOK(q)
    BY DEF IInv, Stored
  <2>2. pub[q].pc \in Holding => pub[q].v # u
    BY <1>1, <2>1, NamesAssumption DEF PublishOK
  <2> QED BY <1>2, <2>1, <2>2 DEF PublishOK, Holding
<1>7. ASSUME NEW v \in Versions PROVE RowOK(v)'
  BY <1>2, <1>3 DEF RowOK, IInv, Stored
<1>8. (\A w \in late : w[1] \in stray)' /\ ArchiveBacked'
  BY <1>2, <1>3 DEF IInv, Stored, ArchiveBacked
<1> QED BY <1>3, <1>4, <1>5, <1>6, <1>7, <1>8 DEF Stored

-----------------------------------------------------------------------------
(* One lemma per handler: each keeps the whole invariant.  Each also keeps *)
(* every committed version, which is what VersionImmutable asks of a step. *)

\* The commit of a publish adds one version to the committed ones.
LEMMA LatestGrows ==
  ASSUME Latest, NEW u \in Versions,
         \A v \in Versions : Committed(v)' => Committed(v) \/ v = u
  PROVE  Latest'
<1>1. SUFFICES ASSUME NEW S \in SUBSET {v \in Versions : Committed(v)'}, S # {}
               PROVE  \E m \in S : \A y \in S : y <= m
  BY DEF Latest, Bounded
<1>2. S \subseteq Nat /\ u \in Nat
  BY <1>1, ConstantsAssumption
<1>3. S \ {u} \in SUBSET {v \in Versions : Committed(v)}
  BY <1>1
<1>4. CASE S \ {u} = {}
  <2>1. S = {u}
    BY <1>1, <1>4
  <2> QED BY <1>2, <2>1
<1>5. CASE S \ {u} # {}
  <2>1. PICK m \in S \ {u} : \A y \in S \ {u} : y <= m
    BY <1>3, <1>5 DEF Latest, Bounded
  <2>2. CASE u \in S /\ m <= u
    <3>1. \A y \in S : y <= u
      BY <1>2, <2>1, <2>2
    <3> QED BY <2>2, <3>1
  <2>3. CASE ~(u \in S /\ m <= u)
    <3>1. \A y \in S : y <= m
      BY <1>2, <2>1, <2>3
    <3> QED BY <2>1, <3>1
  <2> QED BY <2>2, <2>3
<1> QED BY <1>4, <1>5

\* publish_version and its crashes.
LEMMA PublishStep ==
  ASSUME IInv, NEW p \in Publishers, Publish(p)
  PROVE  IInv' /\ Kept
<1>1. UNCHANGED <<scan, rev, dl, reader, cache, key>>
  BY DEF Publish, PublishCheck, PublishInsert, PublishPut, PublishWritten, PublishCommit,
         PublishCrash, PublishCancel, database
<1>2. key' \in {"valid", "revoked"} /\ wm \in Nat
  BY <1>1 DEF IInv, Types, CatalogTypes
<1>3. CASE PublishCommit(p)
  <2>1. /\ StoreTypes' /\ Stored' /\ Kept
        /\ \A v \in Versions : Committed(v)' => Committed(v) \/ v = pub[p].v
    BY <1>3, StoredPublishCommit
  <2>2. wm' = wm + 1 /\ stray' = stray /\ pub[p].v \in Versions
    BY <1>3, Holder DEF PublishCommit, Bump, faultVars, Holding
  <2>3. CatalogTypes' /\ Cached'
    BY <1>1, <1>2, <2>2, CachedFrame
  <2>4. RequestTypes' /\ Requested'
    BY <1>1, <2>1, <2>2, RequestedFrame
  <2>5. Latest'
    BY <2>1, <2>2, LatestGrows DEF IInv
  <2> QED BY <2>1, <2>3, <2>4, <2>5 DEF IInv, Types
<1>4. CASE ~PublishCommit(p)
  <2>1. StoreTypes' /\ Stored' /\ SameCatalog /\ stray \subseteq stray' /\ wm' = wm
    <3>1. CASE PublishCheck(p) \/ PublishPut(p)
      BY <3>1, StoredPublishLocal DEF PublishCheck, PublishPut, database, faultVars
    <3>2. CASE PublishInsert(p)
      BY <3>2, StoredPublishInsert DEF PublishInsert, faultVars
    <3>3. CASE PublishWritten(p)
      BY <3>3, StoredPublishWritten DEF PublishWritten, database, faultVars
    <3>4. CASE PublishCrash(p) \/ PublishCancel(p)
      BY <3>4, StoredPublishAbort DEF PublishCrash, PublishCancel
    <3> QED BY <1>4, <3>1, <3>2, <3>3, <3>4 DEF Publish
  <2>2. Kept
    BY <2>1 DEF SameCatalog, Kept
  <2>3. CatalogTypes' /\ Cached'
    BY <1>1, <1>2, <2>1, CachedFrame
  <2>4. RequestTypes' /\ Requested'
    BY <1>1, <2>1, <2>2, RequestedFrame
  <2>5. Latest'
    BY <2>1, LatestFrame DEF IInv, SameCatalog
  <2> QED BY <2>1, <2>2, <2>3, <2>4, <2>5 DEF IInv, Types
<1> QED BY <1>3, <1>4

\* The scan worker: what it read of a file decides the status of its row.
LEMMA ScanStep ==
  ASSUME IInv, NEW s \in Scanners, Scan(s)
  PROVE  IInv' /\ Kept
<1>1. /\ UNCHANGED <<rev, dl, reader, cache, key, wm, file, late, pub, stray>>
      /\ Types /\ scan[s] \in ScanTx
  BY DEF Scan, ScanRead, ScanCommit, database, faultVars, IInv, Types, RequestTypes
<1>2. /\ StoreTypes' /\ Stored' /\ Kept /\ SameCatalog
  <2>1. CASE row' = row
    BY <1>1, <2>1, StoredFrame
  <2>2. CASE row' # row
    <3>1. /\ scan[s].pc = "scanned"
          /\ row' = [row EXCEPT ![scan[s].v].security = scan[s].verdict]
          /\ scan[s].verdict # scan[s].seen
      BY <2>2 DEF Scan, ScanRead, ScanCommit, database
    <3>2. PICK u \in Versions : u = scan[s].v /\ Committed(u)
      BY <3>1 DEF IInv, Requested, ScanOK
    <3>3. PICK n \in Row : n = [row[u] EXCEPT !.security = scan[s].verdict]
      BY <1>1 DEF Types, StoreTypes, Row, ScanTx
    <3>4. /\ n.tx = None /\ n.security = scan[s].verdict /\ n.digest = row[u].digest
          /\ n.review = row[u].review /\ n.yanked = row[u].yanked
      BY <1>1, <3>2, <3>3 DEF Types, StoreTypes, Row, Committed
    <3>5. row' = [row EXCEPT ![u] = n]
      BY <1>1, <3>1, <3>2, <3>3 DEF Types, StoreTypes
    <3>6. n.security # "absent"
      BY <1>1, <3>4 DEF ScanTx, SecurityStatuses
    <3>7. u \notin stray /\ n.digest \in Hostile => n.security = "flagged"
      BY <3>1, <3>2, <3>4 DEF IInv, Requested, ScanOK
    <3> QED BY <1>1, <3>2, <3>4, <3>5, <3>6, <3>7, StoredRowEdit
  <2> QED BY <2>1, <2>2
<1>3. CatalogTypes' /\ Cached'
  <2>1. key' \in {"valid", "revoked"}
    BY <1>1 DEF Types, CatalogTypes
  <2> QED BY <1>1, <1>2, <2>1, CachedFrame
<1>4. Latest'
  BY <1>2, LatestFrame DEF IInv, SameCatalog
<1>5. PICK t \in ScanTx :
        /\ scan' = [scan EXCEPT ![s] = t]
        /\ t.pc = "scanned" =>
             /\ t.v \in Versions /\ Committed(t.v)
             /\ t.v \notin stray /\ row[t.v].digest \in Hostile => t.verdict = "flagged"
  <2>1. CASE ScanCommit(s)
    <3>1. ScanIdle \in ScanTx /\ ScanIdle.pc = "idle"
      BY DEF ScanIdle, ScanTx, SecurityStatuses
    <3> QED BY <2>1, <3>1 DEF ScanCommit
  <2>2. ASSUME NEW v \in Versions, ScanRead(s, v)
        PROVE  \E t \in ScanTx :
                 /\ scan' = [scan EXCEPT ![s] = t]
                 /\ t.pc = "scanned" =>
                      /\ t.v \in Versions /\ Committed(t.v)
                      /\ t.v \notin stray /\ row[t.v].digest \in Hostile => t.verdict = "flagged"
    <3> DEFINE t == [pc |-> "scanned", v |-> v, seen |-> row[v].security,
                     verdict |-> Verdict(file[v])]
    <3>1. Verdict(file[v]) \in SecurityStatuses
      BY DEF Verdict, SecurityStatuses
    <3>2. t \in ScanTx
      BY <1>1, <3>1 DEF Types, StoreTypes, Row, ScanTx
    <3>3. Committed(v) /\ scan' = [scan EXCEPT ![s] = t]
      BY <2>2 DEF ScanRead
    <3>4. v \notin stray /\ row[v].digest \in Hostile => Verdict(file[v]) = "flagged"
      BY <3>3 DEF IInv, Stored, ArchiveBacked, Verdict, Findings
    <3> QED BY <3>2, <3>3, <3>4
  <2> QED BY <2>1, <2>2 DEF Scan
<1>6. /\ scan' \in [Scanners -> ScanTx] /\ scan'[s] = t
      /\ \A o \in Scanners : o # s => scan'[o] = scan[o]
  BY <1>1, <1>5 DEF Types, RequestTypes
<1>7. RequestTypes'
  BY <1>1, <1>6 DEF Types, RequestTypes
<1>8. \A o \in Scanners : ScanOK(o)'
  BY <1>1, <1>2, <1>5, <1>6 DEF IInv, Requested, ScanOK, Kept
<1>9. \A r \in Reviewers : ReviewOK(r)'
  BY <1>1, <1>2 DEF IInv, Requested, ReviewOK, Kept
<1>10. \A d \in Downloads : DownloadOK(d)'
  BY <1>1, <1>2 DEF IInv, Requested, DownloadOK, Kept
<1> QED BY <1>2, <1>3, <1>4, <1>7, <1>8, <1>9, <1>10 DEF IInv, Types, Requested

\* Reviews and yanks: they bump the watermark whenever they change a row.
LEMMA ReviewStep ==
  ASSUME IInv, NEW r \in Reviewers, Review(r)
  PROVE  IInv' /\ Kept
<1>1. /\ UNCHANGED <<scan, dl, reader, cache, key, file, late, pub, stray>>
      /\ Types /\ rev[r] \in ReviewTx
  BY DEF Review, ReviewLoad, ReviewCommit, YankCommit, database, faultVars, IInv, Types,
         RequestTypes
<1>2. /\ row' = row \/ wm' = wm + 1
      /\ wm' = wm \/ wm' = wm + 1
  BY DEF Review, ReviewLoad, ReviewCommit, YankCommit, Bump, database
<1>3. StoreTypes' /\ Stored' /\ Kept /\ \A v \in Versions : Committed(v)' <=> Committed(v)
  <2>1. CASE row' = row
    <3>1. StoreTypes' /\ Stored' /\ Kept /\ SameCatalog
      BY <1>1, <2>1, StoredFrame
    <3> QED BY <3>1 DEF SameCatalog
  <2>2. CASE row' # row
    <3>1. rev[r].pc = "loaded"
      BY <2>2 DEF Review, ReviewLoad, ReviewCommit, YankCommit, database
    <3>2. PICK u \in Versions : u = rev[r].v /\ Committed(u)
      BY <3>1 DEF IInv, Requested, ReviewOK
    <3>3. row[u] \in Row
      BY <1>1 DEF Types, StoreTypes
    <3>4. PICK n \in Row :
            /\ row' = [row EXCEPT ![u] = n]
            /\ n.tx = row[u].tx /\ n.security = row[u].security /\ n.digest = row[u].digest
      <4>1. ASSUME NEW action \in REVIEW_ACTIONS, ReviewCommit(r, action)
            PROVE  \E n \in Row :
                     /\ row' = [row EXCEPT ![u] = n]
                     /\ n.tx = row[u].tx /\ n.security = row[u].security
                     /\ n.digest = row[u].digest
        <5>1. REVIEW_STATUS_BY_ACTION[action] \in ReviewStatuses
          BY DEF REVIEW_STATUS_BY_ACTION, REVIEW_ACTIONS, ReviewStatuses
        <5>2. PICK n \in Row : n = [row[u] EXCEPT !.review = REVIEW_STATUS_BY_ACTION[action]]
          BY <3>3, <5>1 DEF Row
        <5>3. row' = [row EXCEPT ![u] = n]
          BY <1>1, <2>2, <3>2, <4>1, <5>2 DEF ReviewCommit, Types, StoreTypes
        <5> QED BY <3>3, <5>2, <5>3 DEF Row
      <4>2. ASSUME NEW y \in {"no", "yes"}, YankCommit(r, y)
            PROVE  \E n \in Row :
                     /\ row' = [row EXCEPT ![u] = n]
                     /\ n.tx = row[u].tx /\ n.security = row[u].security
                     /\ n.digest = row[u].digest
        <5>1. PICK n \in Row : n = [row[u] EXCEPT !.yanked = y]
          BY <3>3 DEF Row
        <5>2. row' = [row EXCEPT ![u] = n]
          BY <1>1, <2>2, <3>2, <4>2, <5>1 DEF YankCommit, Types, StoreTypes
        <5> QED BY <3>3, <5>1, <5>2 DEF Row
      <4>3. \A v \in Versions : ~ReviewLoad(r, v)
        BY <2>2 DEF ReviewLoad, database
      <4> QED BY <4>1, <4>2, <4>3 DEF Review
    <3>5. /\ n.tx = None /\ n.security # "absent"
          /\ u \notin stray /\ n.digest \in Hostile => n.security = "flagged"
      BY <3>2, <3>4 DEF Committed, IInv, Stored, RowOK
    <3> QED BY <1>1, <3>2, <3>4, <3>5, StoredRowEdit
  <2> QED BY <2>1, <2>2
<1>4. CatalogTypes' /\ Cached'
  <2>1. key' \in {"valid", "revoked"}
    BY <1>1 DEF Types, CatalogTypes
  <2>2. row' = row => SameCatalog
    BY <1>3 DEF SameCatalog
  <2> QED BY <1>1, <1>2, <2>1, <2>2, CachedFrame
<1>5. Latest'
  BY <1>3, LatestFrame DEF IInv
<1>6. PICK t \in ReviewTx :
        /\ rev' = [rev EXCEPT ![r] = t]
        /\ t.pc = "loaded" => t.v \in Versions /\ Committed(t.v)
  <2>1. CASE rev' = [rev EXCEPT ![r] = ReviewIdle]
    <3>1. ReviewIdle \in ReviewTx /\ ReviewIdle.pc = "idle"
      BY DEF ReviewIdle, ReviewTx, ReviewStatuses
    <3> QED BY <2>1, <3>1
  <2>2. ASSUME NEW v \in Versions, ReviewLoad(r, v)
        PROVE  \E t \in ReviewTx : /\ rev' = [rev EXCEPT ![r] = t]
                                   /\ t.pc = "loaded" => t.v \in Versions /\ Committed(t.v)
    <3> DEFINE t == [pc |-> "loaded", v |-> v, seen |-> row[v].review, flag |-> row[v].yanked]
    <3>1. t \in ReviewTx
      BY <1>1 DEF Types, StoreTypes, Row, ReviewTx
    <3>2. Committed(v) /\ rev' = [rev EXCEPT ![r] = t]
      BY <2>2 DEF ReviewLoad
    <3> QED BY <3>1, <3>2
  <2> QED BY <2>1, <2>2 DEF Review, ReviewCommit, YankCommit
<1>7. /\ rev' \in [Reviewers -> ReviewTx] /\ rev'[r] = t
      /\ \A o \in Reviewers : o # r => rev'[o] = rev[o]
  BY <1>1, <1>6 DEF Types, RequestTypes
<1>8. RequestTypes'
  BY <1>1, <1>7 DEF Types, RequestTypes
<1>9. \A s \in Scanners : ScanOK(s)'
  BY <1>1, <1>3 DEF IInv, Requested, ScanOK, Kept
<1>10. \A o \in Reviewers : ReviewOK(o)'
  BY <1>3, <1>6, <1>7 DEF IInv, Requested, ReviewOK, Kept
<1>11. \A d \in Downloads : DownloadOK(d)'
  BY <1>1, <1>3 DEF IInv, Requested, DownloadOK, Kept
<1> QED BY <1>3, <1>4, <1>5, <1>8, <1>9, <1>10, <1>11 DEF IInv, Types, Requested

\* GET /catalog: a page is stored with the watermark read before it was loaded.
LEMMA CatalogStep ==
  ASSUME IInv, NEW c \in Readers, Catalog(c)
  PROVE  IInv' /\ Kept
<1>1. /\ UNCHANGED <<row, wm, key, pub, scan, rev, dl, file, late, stray>>
      /\ Types /\ reader[c] \in ReaderReq
  BY DEF Catalog, CatalogWatermark, CatalogLookup, CatalogLoad, CatalogPut, CatalogError,
         database, faultVars, IInv, Types, CatalogTypes
<1>2. StoreTypes' /\ Stored' /\ Kept /\ SameCatalog
  BY <1>1, StoredFrame
<1>3. RequestTypes' /\ Requested'
  BY <1>1, <1>2, RequestedFrame
<1>4. Latest'
  BY <1>2, LatestFrame DEF IInv, SameCatalog
<1>5. Reviewed(Page)' = Reviewed(Page)
  BY <1>2, PageFrame DEF IInv
<1>6. NoPage \in Pages /\ Page \in Pages
  BY PageType DEF IInv, Types, CatalogTypes, NoPage, Pages, Digests
<1>7. ReaderIdle \in ReaderReq /\ ReaderIdle.pc = "idle" /\ ReaderIdle.wm = 0
  BY <1>6 DEF ReaderIdle, ReaderReq
<1>8. wm \in Nat /\ cache \in Entry /\ reader[c].wm \in Nat /\ reader[c].wm <= wm
  BY <1>1 DEF Types, CatalogTypes, ReaderReq, IInv, Cached, ReaderOK
<1>9. PICK t \in ReaderReq :
        /\ reader' = [reader EXCEPT ![c] = t]
        /\ t.wm <= wm
        /\ t.pc = "loaded" => t.page = Page
  <2>1. CASE CatalogWatermark(c)
    <3> DEFINE t == [pc |-> "tagged", wm |-> wm, page |-> NoPage]
    <3>1. t \in ReaderReq /\ t.wm <= wm /\ t.pc # "loaded"
      BY <1>6, <1>8 DEF ReaderReq
    <3>2. reader' = [reader EXCEPT ![c] = t]
      BY <2>1 DEF CatalogWatermark
    <3> HIDE DEF t
    <3> QED BY <3>1, <3>2
  <2>2. CASE reader' = [reader EXCEPT ![c] = ReaderIdle]
    <3>1. ReaderIdle.wm <= wm
      BY <1>7, <1>8
    <3> QED BY <1>7, <2>2, <3>1
  <2>3. CASE CatalogLookup(c) /\ ~Hit(c)
    <3> DEFINE t == [reader[c] EXCEPT !.pc = "locked"]
    <3>1. t \in ReaderReq /\ t.wm <= wm /\ t.pc # "loaded"
      BY <1>1, <1>8 DEF ReaderReq
    <3>2. reader' = [reader EXCEPT ![c] = t]
      BY <1>1, <2>3 DEF CatalogLookup, Types, CatalogTypes
    <3> HIDE DEF t
    <3> QED BY <3>1, <3>2
  <2>4. CASE CatalogLoad(c)
    <3> DEFINE t == [reader[c] EXCEPT !.pc = "loaded", !.page = Page]
    <3>1. t \in ReaderReq /\ t.wm <= wm /\ t.page = Page
      BY <1>1, <1>6, <1>8 DEF ReaderReq
    <3>2. reader' = [reader EXCEPT ![c] = t]
      BY <1>1, <2>4 DEF CatalogLoad, Types, CatalogTypes
    <3> HIDE DEF t
    <3> QED BY <3>1, <3>2
  <2>5. CASE CatalogLookup(c) /\ Hit(c)
    <3>1. reader' = [reader EXCEPT ![c] = ReaderIdle]
      BY <2>5 DEF CatalogLookup
    <3> QED BY <2>2, <3>1
  <2> QED BY <2>1, <2>2, <2>3, <2>4, <2>5 DEF Catalog, CatalogPut, CatalogError
<1>10. /\ reader' \in [Readers -> ReaderReq] /\ reader'[c] = t
       /\ \A o \in Readers : o # c => reader'[o] = reader[o]
  BY <1>1, <1>9 DEF Types, CatalogTypes
<1>11. cache' \in Entry /\ Fresh(cache.wm, cache.page)'
  <2>1. CASE cache' = cache
    BY <1>1, <1>5, <1>8, <2>1 DEF IInv, Cached, Fresh, Reviewed
  <2>2. CASE CatalogPut(c)
    <3>1. cache' = [wm |-> reader[c].wm, page |-> reader[c].page, age |-> "fresh"]
      BY <2>2 DEF CatalogPut
    <3>2. cache' \in Entry
      BY <1>1, <3>1 DEF Entry, ReaderReq
    <3>3. Fresh(reader[c].wm, reader[c].page)
      BY <2>2 DEF CatalogPut, IInv, Cached, ReaderOK
    <3>4. cache'.wm = reader[c].wm /\ cache'.page = reader[c].page
      BY <3>1
    <3> QED BY <1>1, <1>5, <3>2, <3>3, <3>4 DEF Fresh, Reviewed
  <2> QED BY <2>1, <2>2
       DEF Catalog, CatalogWatermark, CatalogLookup, CatalogLoad, CatalogError
<1>12. ASSUME NEW o \in Readers PROVE ReaderOK(o)'
  <2>1. CASE o = c
    BY <1>1, <1>5, <1>9, <1>10, <2>1 DEF ReaderOK, Fresh, Reviewed
  <2>2. CASE o # c
    BY <1>1, <1>5, <1>10, <2>2 DEF IInv, Cached, ReaderOK, Fresh, Reviewed
  <2> QED BY <2>1, <2>2
<1>13. CatalogTypes'
  BY <1>1, <1>10, <1>11 DEF Types, CatalogTypes
<1> QED BY <1>2, <1>3, <1>4, <1>11, <1>12, <1>13 DEF IInv, Types, Cached

\* GET .../archive: the row is checked, then the file is read.
LEMMA DownloadStep ==
  ASSUME IInv, NEW d \in Downloads, Download(d)
  PROVE  IInv' /\ Kept
<1>1. /\ UNCHANGED <<row, wm, key, pub, scan, rev, reader, cache, file, late, stray>>
      /\ Types /\ dl[d] \in DownloadReq
  BY DEF Download, DownloadCheck, DownloadRead, DownloadEnd, database, faultVars, IInv, Types,
         RequestTypes
<1>2. StoreTypes' /\ Stored' /\ Kept /\ SameCatalog
  BY <1>1, StoredFrame
<1>3. Latest'
  BY <1>2, LatestFrame DEF IInv, SameCatalog
<1>4. CatalogTypes' /\ Cached'
  <2>1. key' \in {"valid", "revoked"}
    BY <1>1 DEF Types, CatalogTypes
  <2> QED BY <1>1, <1>2, <2>1, CachedFrame
<1>5. DownloadIdle \in DownloadReq /\ DownloadIdle.pc = "idle"
  BY DEF DownloadIdle, DownloadReq, Digests, Files
<1>6. PICK t \in DownloadReq :
        /\ dl' = [dl EXCEPT ![d] = t]
        /\ t.pc # "idle" =>
             /\ t.v \in Versions /\ Committed(t.v) /\ t.digest = row[t.v].digest
             /\ t.v \notin stray => /\ t.digest \notin Hostile
                                    /\ t.pc = "served" => t.got = t.digest
  <2>1. CASE dl' = [dl EXCEPT ![d] = DownloadIdle]
    BY <1>5, <2>1
  <2>2. ASSUME NEW v \in Versions, DownloadCheck(d, v)
        PROVE  \E t \in DownloadReq :
                 /\ dl' = [dl EXCEPT ![d] = t]
                 /\ t.pc = "allowed" /\ t.v = v /\ Committed(v) /\ t.digest = row[v].digest
                 /\ v \notin stray => t.digest \notin Hostile
    <3> DEFINE t == [pc |-> "allowed", v |-> v, digest |-> row[v].digest, got |-> None]
    <3>1. t \in DownloadReq
      BY <1>1 DEF Types, StoreTypes, Row, DownloadReq, Files
    <3>2. dl' = [dl EXCEPT ![d] = t] /\ Committed(v) /\ ~Blocked(v)
      BY <2>2 DEF DownloadCheck
    <3>3. v \notin stray => row[v].digest \notin Hostile
      BY <3>2 DEF Blocked, IInv, Stored, RowOK
    <3> QED BY <3>1, <3>2, <3>3
  <2>3. CASE DownloadRead(d) /\ dl' # [dl EXCEPT ![d] = DownloadIdle]
    <3>1. dl[d].pc = "allowed"
      BY <2>3 DEF DownloadRead
    <3>2. PICK v \in Versions : v = dl[d].v
      BY <3>1 DEF IInv, Requested, DownloadOK
    <3>3. file[v] \in Files
      BY <1>1 DEF Types, StoreTypes
    <3>4. PICK t \in DownloadReq : t = [dl[d] EXCEPT !.pc = "served", !.got = file[v]]
      BY <1>1, <3>3 DEF DownloadReq
    <3>5. dl' = [dl EXCEPT ![d] = t]
      BY <1>1, <2>3, <3>2, <3>4 DEF DownloadRead, Types, RequestTypes
    <3>6. t.pc = "served" /\ t.v = v /\ t.digest = dl[d].digest /\ t.got = file[v]
      BY <1>1, <3>2, <3>4 DEF DownloadReq
    <3>7. /\ Committed(v) /\ dl[d].digest = row[v].digest
          /\ v \notin stray => dl[d].digest \notin Hostile
      BY <3>1, <3>2 DEF IInv, Requested, DownloadOK
    <3>8. v \notin stray => file[v] = row[v].digest
      BY <3>7 DEF IInv, Stored, ArchiveBacked
    <3> QED BY <3>5, <3>6, <3>7, <3>8
  <2> QED BY <2>1, <2>2, <2>3 DEF Download, DownloadEnd
<1>7. /\ dl' \in [Downloads -> DownloadReq] /\ dl'[d] = t
      /\ \A o \in Downloads : o # d => dl'[o] = dl[o]
  BY <1>1, <1>6 DEF Types, RequestTypes
<1>8. RequestTypes'
  BY <1>1, <1>7 DEF Types, RequestTypes
<1>9. \A s \in Scanners : ScanOK(s)'
  BY <1>1, <1>2 DEF IInv, Requested, ScanOK, Kept
<1>10. \A r \in Reviewers : ReviewOK(r)'
  BY <1>1, <1>2 DEF IInv, Requested, ReviewOK, Kept
<1>11. ASSUME NEW o \in Downloads PROVE DownloadOK(o)'
  <2>1. CASE o = d
    BY <1>1, <1>2, <1>6, <1>7, <2>1 DEF DownloadOK, Kept
  <2>2. CASE o # d
    BY <1>1, <1>2, <1>7, <2>2 DEF IInv, Requested, DownloadOK, Kept
  <2> QED BY <2>1, <2>2
<1> QED BY <1>2, <1>3, <1>4, <1>8, <1>9, <1>10, <1>11 DEF IInv, Types, Requested

\* A revoked key, an updated scanner and an expired entry.
LEMMA AmbientStep ==
  ASSUME IInv, RevokeKey \/ UpdateScanner \/ CatalogExpire \/ UNCHANGED vars
  PROVE  IInv' /\ Kept
<1>1. UNCHANGED <<row, wm, pub, scan, rev, dl, reader, file, late, stray>> /\ Types
  BY DEF RevokeKey, UpdateScanner, CatalogExpire, vars, database, requests, faultVars, IInv
<1>2. key' \in {"valid", "revoked"}
  BY <1>1 DEF RevokeKey, UpdateScanner, CatalogExpire, vars, database, Types, CatalogTypes
<1>3. StoreTypes' /\ Stored' /\ Kept /\ SameCatalog
  BY <1>1, StoredFrame
<1>4. RequestTypes' /\ Requested'
  BY <1>1, <1>3, RequestedFrame
<1>5. Latest'
  BY <1>3, LatestFrame DEF IInv, SameCatalog
<1>6. CatalogTypes' /\ Cached'
  <2>1. CASE cache' = cache
    BY <1>1, <1>2, <1>3, <2>1, CachedFrame
  <2>2. CASE CatalogExpire
    <3>1. cache \in Entry /\ cache' = [cache EXCEPT !.age = "expired"]
      BY <1>1, <2>2 DEF Types, CatalogTypes, CatalogExpire
    <3>2. cache' \in Entry /\ cache'.wm = cache.wm /\ cache'.page = cache.page
      BY <3>1 DEF Entry
    <3>3. Reviewed(Page)' = Reviewed(Page)
      BY <1>3, PageFrame DEF IInv
    <3>4. Fresh(cache.wm, cache.page)'
      BY <1>1, <3>2, <3>3 DEF IInv, Cached, Fresh, Reviewed
    <3>5. \A c \in Readers : ReaderOK(c)'
      BY <1>1, <3>3 DEF IInv, Cached, ReaderOK, Fresh, Reviewed
    <3> QED BY <1>1, <1>2, <3>2, <3>4, <3>5 DEF Types, CatalogTypes, Cached
  <2> QED BY <2>1, <2>2 DEF RevokeKey, UpdateScanner, vars
<1> QED BY <1>3, <1>4, <1>5, <1>6 DEF IInv, Types

\* The executor finishes a write whose request is gone.
LEMMA LateWriteStep ==
  ASSUME IInv, LateWrite
  PROVE  IInv' /\ Kept
<1>1. UNCHANGED <<wm, key, scan, rev, dl, reader, cache, stray>>
  BY DEF LateWrite, database, requests, faultVars
<1>2. StoreTypes' /\ Stored' /\ SameCatalog
  BY StoredLateWrite
<1>3. Kept
  BY <1>2 DEF SameCatalog, Kept
<1>4. RequestTypes' /\ Requested'
  BY <1>1, <1>3, RequestedFrame
<1>5. Latest'
  BY <1>2, LatestFrame DEF IInv, SameCatalog
<1>6. CatalogTypes' /\ Cached'
  <2>1. key' \in {"valid", "revoked"}
    BY <1>1 DEF IInv, Types, CatalogTypes
  <2> QED BY <1>1, <1>2, <2>1, CachedFrame
<1> QED BY <1>2, <1>3, <1>4, <1>5, <1>6 DEF IInv, Types

-----------------------------------------------------------------------------
(* The theorems.                                                           *)

\* An empty table, an empty store and no request satisfy the invariant.
LEMMA InvInit == Init => IInv
<1> SUFFICES ASSUME Init PROVE IInv
  OBVIOUS
<1>1. \A v \in Versions : row[v] = NoRow /\ ~Committed(v)
  BY DEF Init, Committed, NoRow
<1>2. StoreTypes
  BY Blanks DEF Init, StoreTypes, Files
<1>3. RequestTypes
  BY DEF Init, RequestTypes, ScanIdle, ScanTx, ReviewIdle, ReviewTx, DownloadIdle, DownloadReq,
         SecurityStatuses, ReviewStatuses, Digests, Files
<1>4. NoPage \in Pages
  BY DEF NoPage, Pages, Digests
<1>5. CatalogTypes
  BY <1>4 DEF Init, CatalogTypes, NoEntry, Entry, ReaderIdle, ReaderReq
<1>6. Stored
  BY <1>1, Blanks DEF Init, Stored, PublishOK, RowOK, ArchiveBacked, PublishIdle, Holding
<1>7. Requested
  BY DEF Init, Requested, ScanOK, ReviewOK, DownloadOK, ScanIdle, ReviewIdle, DownloadIdle
<1>8. Latest
  BY <1>1 DEF Latest, Bounded
<1>9. Cached
  BY DEF Init, Cached, Fresh, ReaderOK, NoEntry, ReaderIdle
<1> QED BY <1>2, <1>3, <1>5, <1>6, <1>7, <1>8, <1>9 DEF IInv, Types

\* Every step keeps the invariant and every committed version.
LEMMA InvStep == IInv /\ [Next]_vars => IInv' /\ Kept
  BY PublishStep, ScanStep, ReviewStep, CatalogStep, DownloadStep, AmbientStep, LateWriteStep
  DEF Next

\* The inductive invariant holds in every reachable state.
THEOREM Invariance == Spec => []IInv
  BY InvInit, InvStep, PTL DEF Spec

\* The archive store holds what the committed rows name, whatever publishes
\* raced, failed or crashed, except where one was cancelled inside put.
THEOREM StoreBacksTable == Spec => []ArchiveBacked
<1>1. IInv => ArchiveBacked
  BY DEF IInv, Stored
<1> QED BY <1>1, Invariance, PTL

\* A committed version stays and keeps its digest.
THEOREM VersionsAreImmutable == Spec => VersionImmutable
<1>1. IInv /\ [Next]_vars => [\A v \in Versions : Committed(v) =>
                                Committed(v)' /\ row'[v].digest = row[v].digest]_vars
  BY InvStep DEF Kept
<1> QED BY <1>1, Invariance, PTL DEF Spec, VersionImmutable

\* What a download hands out is the vetted archive of the row it checked.
THEOREM DownloadsAreVetted == Spec => []ServedIsVetted
<1>1. IInv => ServedIsVetted
  BY DEF IInv, Requested, DownloadOK, ServedIsVetted
<1> QED BY <1>1, Invariance, PTL

\* An entry tagged with the current watermark shows every publish, review, yank.
THEOREM CacheIsFresh == Spec => []CatalogFresh
<1>1. IInv => CatalogFresh
  BY DEF IInv, Cached, Fresh, CatalogFresh
<1> QED BY <1>1, Invariance, PTL
=============================================================================
