--------------------------- MODULE PackageArchive ---------------------------
(***************************************************************************)
(* The agent package of sdk/src/package.ts: packAgent walks a project,     *)
(* archives and signs it; verifySignatureFileStrict checks a downloaded    *)
(* archive against its signature file; unpackAgent extracts it under       *)
(* limits.  Extraction is event driven: the tar parser hands over entries  *)
(* while the writes of earlier entries are still under way, and one        *)
(* promise is settled by whichever event comes first.                      *)
(*                                                                         *)
(* A path is a model value; Kind gives what the code's name tests find     *)
(* out about it.  An archive is the sequence of its entries and its        *)
(* sha256 is the archive itself (the hash is taken to be injective).  A    *)
(* key stands for the pair and for its fingerprint.                        *)
(***************************************************************************)
EXTENDS Integers, Sequences, FiniteSets, SequencesExt

CONSTANTS Paths,         \* file names of projects and archives
          Kind,          \* what isIgnoredName and the manifest test say of one
          Size,          \* bytes of the file at a path, in units of the limits
          SigningKeys,   \* publishers' signing keys
          Versions,      \* versions of the one agent packed
          Projects,      \* project directories: sets of paths
          OtherArchives, \* archives that other tools made
          MaxTotalBytes, MaxSingleFileBytes, MaxFiles,
          MaxPacked,     \* bound: archives made
          MaxStreamFaults \* bound: failed writes and broken streams

\* A file named agent.yaml or manifest.yaml is a valid manifest in the root
\* directory, or in a subdirectory a valid one ("nested") or an invalid one
\* ("bad"); ignored names are those of IGNORE_PATTERNS and
\* SECRET_IGNORE_PATTERNS.
Kinds == {"manifest", "nested", "bad", "plain", "ignored", "hidden", "double"}
ArchiveEntry == [path: Paths, type: {"File", "Directory", "Link"},
          safe: {"safe", "unsafe"}, size: Nat]

ASSUME LimitsAssumption ==
    MaxTotalBytes \in Nat /\ MaxSingleFileBytes \in Nat /\ MaxFiles \in Nat
ASSUME InputsAssumption ==
    /\ Kind \in [Paths -> Kinds] /\ Size \in [Paths -> Nat]
    /\ \A project \in Projects : project \subseteq Paths /\ IsFiniteSet(project)
    /\ OtherArchives \subseteq Seq(ArchiveEntry)

VARIABLES packed,   \* archives made, each with its signature file
          signed,   \* ghost: what holders of a key really signed
          got,      \* the archive and signature file an install downloaded
          ex,       \* the extraction of got.entries
          kept,     \* what the install keeps for `verify`, and its last verdict
          streamFaults

archiveVars == <<packed, signed, got, ex, kept, streamFaults>>

-----------------------------------------------------------------------------
(* Packing and signing *)

\* listProjectFiles and isIgnoredName: ignored and secret names, files of
\* hidden directories and AppleDouble files are skipped.
listProjectFiles(dir) == {p \in dir : Kind[p] \in {"manifest", "nested", "bad", "plain"}}

\* The test on the last part of an entry's path: subdirectories count too.
IsManifest(p) == Kind[p] \in {"manifest", "nested", "bad"}

\* validateManifest against the schema.
assertValidManifest(p) == Kind[p] \in {"manifest", "nested"}

loadManifestFromDir(dir) == \E p \in dir : Kind[p] = "manifest"

\* What tar writes for one listed file.
FileEntry(p) == [path |-> p, type |-> "File", safe |-> "safe", size |-> Size[p]]

signaturePayload(version, sha) == <<version, sha>>

signPayload(payload, key) == [payload |-> payload, key |-> key]
verifyPayload(payload, sig, key) == sig = signPayload(payload, key)

SignatureFile(version, entries, key) ==
    [scheme |-> "ed25519", publicKey |-> key, publicKeyId |-> key,
     sha256 |-> entries, version |-> version,
     signature |-> signPayload(signaturePayload(version, entries), key)]

NoSignature ==
    SignatureFile(CHOOSE v \in Versions : TRUE, <<>>, CHOOSE k \in SigningKeys : TRUE)

Sign(entries, version, key) ==
    /\ Cardinality(packed) < MaxPacked
    /\ packed' = packed \cup
           {[entries |-> entries, sig |-> SignatureFile(version, entries, key)]}
    /\ signed' = signed \cup {signPayload(signaturePayload(version, entries), key)}
    /\ UNCHANGED <<got, ex, kept, streamFaults>>

\* packAgent: the order of the entries is the order readdir gave.
packAgent(dir, version, key) ==
    /\ loadManifestFromDir(dir)
    /\ \E order \in SetToSeqs(listProjectFiles(dir)) :
           Sign([i \in DOMAIN order |-> FileEntry(order[i])], version, key)

\* A publisher who made the archive with another tool signs what that wrote.
PackedElsewhere(entries, version, key) == Sign(entries, version, key)

-----------------------------------------------------------------------------
(* Verifying a download *)

NoExtraction == [parser |-> "none", next |-> 1, open |-> {}, done |-> {},
                 refused |-> {}, files |-> 0, total |-> 0, pending |-> 0,
                 candidates |-> <<>>, settled |-> "no", early |-> "no",
                 listed |-> {}]

\* The install has the archive of one publication and the signature file of
\* the version it asked for; the two may differ, and a field of the signature
\* file may not be the one that was signed.
Download(a, s, version) ==
    /\ got.state = "none"
    /\ got' = [state |-> "downloaded", entries |-> a.entries,
               sig |-> [s.sig EXCEPT !.version = version]]
    /\ UNCHANGED <<packed, signed, ex, kept, streamFaults>>

\* downloadArchive: the version has no signature, the registry answers with an
\* error, or the body breaks off or exceeds the download limit.
DownloadFails ==
    /\ got.state = "none" /\ streamFaults < MaxStreamFaults
    /\ streamFaults' = streamFaults + 1
    /\ got' = [got EXCEPT !.state = "failed"]
    /\ UNCHANGED <<packed, signed, ex, kept>>

\* Mutant: the checksum of the downloaded archive is not compared.
TrustSignatureFile(sig, entries) ==
    /\ sig.scheme = "ed25519"
    /\ verifyPayload(signaturePayload(sig.version, sig.sha256), sig.signature, sig.publicKey)
    /\ sig.publicKeyId = sig.publicKey
verifySignatureFileStrict(sig, entries) ==
    /\ sig.scheme = "ed25519"
    /\ sig.sha256 = entries
    /\ verifyPayload(signaturePayload(sig.version, sig.sha256), sig.signature, sig.publicKey)
    /\ sig.publicKeyId = sig.publicKey

VerifyDownload ==
    /\ got.state = "downloaded"
    /\ got' = [got EXCEPT !.state =
                  IF verifySignatureFileStrict(got.sig, got.entries)
                  THEN "verified" ELSE "refused"]
    /\ UNCHANGED <<packed, signed, ex, kept, streamFaults>>

\* unpackAgent makes the destination and starts the streams.
unpackAgent ==
    /\ got.state = "verified" /\ ex.parser = "none"
    /\ ex' = [NoExtraction EXCEPT !.parser = "open"]
    /\ UNCHANGED <<packed, signed, got, kept, streamFaults>>

-----------------------------------------------------------------------------
(* extractArchive: its callbacks, each applied to the extraction's state x *)

\* What unpackAgent makes of a resolved promise: the first manifest whose write
\* finished, and the files under the destination at that moment.
Unpacked(x) ==
    IF x.candidates = <<>> THEN [x EXCEPT !.settled = "missing"]
    ELSE IF ~assertValidManifest(x.candidates[1]) THEN [x EXCEPT !.settled = "invalid"]
    ELSE [x EXCEPT !.settled = "ok",
                   !.listed = listProjectFiles({got.entries[i].path : i \in x.done})]

fail(x) == IF x.settled = "no" THEN [x EXCEPT !.settled = "error"] ELSE x

\* Mutant: the promise is resolved with writes still pending.
FinishNow(x) ==
    IF x.settled # "no" THEN x
    ELSE Unpacked([x EXCEPT !.early = IF x.parser = "ended" THEN "no" ELSE "yes"])
finish(x) ==
    IF x.settled # "no" \/ x.pending # 0 THEN x
    ELSE Unpacked([x EXCEPT !.early = IF x.parser = "ended" THEN "no" ELSE "yes"])

assertSafeArchivePath(e) == e.safe = "safe"

\* The checks of the "entry" handler: the counters move before they are
\* compared, so an entry over one of them still counts against it.
\* Mutant: the size is compared before the entry is added.
CountAfterCheck(x, e) ==
    IF ~assertSafeArchivePath(e) \/ e.type = "Link" THEN [ok |-> "no", x |-> x]
    ELSE IF e.type = "Directory" THEN [ok |-> "dir", x |-> x]
    ELSE LET y == [x EXCEPT !.files = @ + 1]
         IN  IF y.files > MaxFiles \/ e.size > MaxSingleFileBytes
             THEN [ok |-> "no", x |-> y]
             ELSE [ok |-> IF y.total > MaxTotalBytes THEN "no" ELSE "yes",
                   x |-> [y EXCEPT !.total = @ + e.size]]
Admit(x, e) ==
    IF ~assertSafeArchivePath(e) \/ e.type = "Link" THEN [ok |-> "no", x |-> x]
    ELSE IF e.type = "Directory" THEN [ok |-> "dir", x |-> x]
    ELSE LET y == [x EXCEPT !.files = @ + 1]
         IN  IF y.files > MaxFiles \/ e.size > MaxSingleFileBytes
             THEN [ok |-> "no", x |-> y]
             ELSE LET z == [y EXCEPT !.total = @ + e.size]
                  IN  [ok |-> IF z.total > MaxTotalBytes THEN "no" ELSE "yes", x |-> z]

StreamFault == streamFaults < MaxStreamFaults /\ streamFaults' = streamFaults + 1

\* The handler threw: the entry is not consumed, and the parser stalls on it
\* unless it has no body, and then goes on to the next one.
Refuse(x, e) ==
    fail([x EXCEPT !.refused = @ \cup {ex.next},
                   !.parser = IF e.size = 0 THEN "open" ELSE "stalled"])

\* The parser's "entry" event.
EntryEvent ==
    /\ ex.parser = "open" /\ ex.next <= Len(got.entries)
    /\ LET e == got.entries[ex.next]
           r == Admit(ex, e)
           x == [r.x EXCEPT !.next = @ + 1]
       IN  ex' = CASE r.ok = "dir" -> x
                   [] r.ok = "yes" -> [x EXCEPT !.pending = @ + 1,
                                                !.open = @ \cup {ex.next}]
                   [] r.ok = "no" -> Refuse(x, e)
    /\ UNCHANGED <<packed, signed, got, kept, streamFaults>>

\* The directory of an admitted entry, or the entry's own, cannot be made.
EntryFails ==
    /\ ex.parser = "open" /\ ex.next <= Len(got.entries) /\ StreamFault
    /\ LET e == got.entries[ex.next]
           r == Admit(ex, e)
       IN  r.ok # "no" /\ ex' = Refuse([r.x EXCEPT !.next = @ + 1], e)
    /\ UNCHANGED <<packed, signed, got, kept>>

\* An earlier entry of the same path made the file first.
Exists(x, i) ==
    \E j \in x.done \cup x.open : j < i /\ got.entries[j].path = got.entries[i].path

\* A write stream's "finish" event.
WriteFinished(i) ==
    /\ i \in ex.open /\ ~Exists(ex, i)
    /\ LET x == [ex EXCEPT !.open = @ \ {i}, !.done = @ \cup {i},
                           !.pending = @ - 1,
                           !.candidates = IF IsManifest(got.entries[i].path)
                                          THEN Append(@, got.entries[i].path) ELSE @]
       IN  ex' = finish(x)
    /\ UNCHANGED <<packed, signed, got, kept, streamFaults>>

\* A write stream's "error" event: the file exists (flag wx) or the write
\* failed.  The pending count stays; the entry may hold the parser up.
WriteFailed(i) ==
    /\ i \in ex.open
    /\ IF Exists(ex, i) THEN UNCHANGED streamFaults ELSE StreamFault
    /\ \E p \in {ex.parser, IF ex.parser = "open" THEN "stalled" ELSE ex.parser} :
           ex' = fail([ex EXCEPT !.open = @ \ {i}, !.refused = @ \cup {i}, !.parser = p])
    /\ UNCHANGED <<packed, signed, got, kept>>

\* Mutant: nobody listens to the parser's "end" event.
EndUnheard ==
    /\ ex.parser = "open" /\ ex.next > Len(got.entries)
    /\ ex' = [ex EXCEPT !.parser = "ended"]
    /\ UNCHANGED <<packed, signed, got, kept, streamFaults>>
ParserEnd ==
    /\ ex.parser = "open" /\ ex.next > Len(got.entries)
    /\ ex' = finish([ex EXCEPT !.parser = "ended"])
    /\ UNCHANGED <<packed, signed, got, kept, streamFaults>>

\* The parser or the read stream reports an error.
StreamError ==
    /\ ex.parser = "open" /\ StreamFault
    /\ ex' = fail([ex EXCEPT !.parser = "broken"])
    /\ UNCHANGED <<packed, signed, got, kept>>

-----------------------------------------------------------------------------
(* What installAgent keeps beside the files, and the verify command *)

KeepSignature ==
    /\ ex.settled = "ok" /\ kept.sig = "absent"
    /\ kept' = [kept EXCEPT !.sig = "present"]
    /\ UNCHANGED <<packed, signed, got, ex, streamFaults>>

KeepArchive ==
    /\ kept.sig = "present" /\ kept.archive = "absent"
    /\ kept' = [kept EXCEPT !.archive = "present"]
    /\ UNCHANGED <<packed, signed, got, ex, streamFaults>>

\* Verify: the installed directory must hold a manifest; an install without a
\* signature file passes with a warning.
Verify ==
    /\ ex.settled = "ok"
    /\ kept' = [kept EXCEPT !.verdict =
           IF ~loadManifestFromDir({got.entries[i].path : i \in ex.done}) THEN "no-manifest"
           ELSE IF kept.sig = "absent" THEN "unsigned"
           ELSE IF kept.archive = "absent" THEN "archive-missing"
           ELSE IF verifySignatureFileStrict(got.sig, got.entries) THEN "valid" ELSE "failed"]
    /\ UNCHANGED <<packed, signed, got, ex, streamFaults>>

-----------------------------------------------------------------------------

ArchiveInit ==
    /\ packed = {} /\ signed = {}
    /\ got = [state |-> "none", entries |-> <<>>, sig |-> NoSignature]
    /\ ex = NoExtraction /\ streamFaults = 0
    /\ kept = [sig |-> "absent", archive |-> "absent", verdict |-> "none"]

\* The events Node is bound to deliver: entries, the end, and for every write
\* its completion or, where the file exists, its error.
StreamStep ==
    \/ EntryEvent
    \/ ParserEnd
    \/ \E i \in ex.open : WriteFinished(i) \/ (Exists(ex, i) /\ WriteFailed(i))

ArchiveNext ==
    \/ \E dir \in Projects, v \in Versions, k \in SigningKeys : packAgent(dir, v, k)
    \/ \E a \in OtherArchives, v \in Versions, k \in SigningKeys : PackedElsewhere(a, v, k)
    \/ \E a, s \in packed, v \in Versions : Download(a, s, v)
    \/ DownloadFails
    \/ VerifyDownload
    \/ unpackAgent
    \/ EntryEvent
    \/ EntryFails
    \/ \E i \in ex.open : WriteFinished(i)
    \/ \E i \in ex.open : WriteFailed(i)
    \/ ParserEnd
    \/ StreamError
    \/ KeepSignature
    \/ KeepArchive
    \/ Verify

ArchiveFairness == WF_archiveVars(StreamStep)

ArchiveSpec == ArchiveInit /\ [][ArchiveNext]_archiveVars /\ ArchiveFairness

-----------------------------------------------------------------------------
(* Properties *)

\* What verifySignatureFileStrict lets through is an archive that a holder of
\* the key signed for that very version: a download that mixes the archive of
\* one publication with the signature file of another is refused, both before
\* it is unpacked and when the kept copy is verified later.
VerifiedIsSigned ==
    got.state = "verified" \/ kept.verdict = "valid" =>
        signPayload(signaturePayload(got.sig.version, got.entries), got.sig.publicKey) \in signed

\* The size of the entries of an archive that stand at the given positions.
Bytes(entries, positions) ==
    LET sum[n \in Nat] ==
            IF n = 0 THEN 0
            ELSE sum[n - 1] + (IF n \in positions THEN entries[n].size ELSE 0)
    IN  sum[Len(entries)]

\* The limits of unpackAgent bound what is written, whatever the order of the
\* events, and also what goes on being written after the promise is settled.
LimitsHold ==
    LET written == ex.done \cup ex.open
    IN  /\ Cardinality(written) <= MaxFiles
        /\ Bytes(got.entries, written) <= MaxTotalBytes
        /\ \A i \in written : got.entries[i].size <= MaxSingleFileBytes

\* A promise resolved after the parser's end tells the truth: unpackAgent then
\* returns a complete package (no entry refused, every file on disk, the list
\* that packAgent made of these files), and it reports a missing manifest only
\* of an archive that has none.
UnpackComplete ==
    ex.early = "no" =>
        LET files == {i \in DOMAIN got.entries : got.entries[i].type = "File"}
            names == {got.entries[i].path : i \in files}
        IN  /\ ex.settled = "ok" => /\ ex.refused = {} /\ ex.done = files
                                    /\ ex.listed = listProjectFiles(names)
            /\ ex.settled = "missing" => \A p \in names : ~IsManifest(p)

\* Every extraction that starts is settled: no order of entry, write and end
\* events leaves unpackAgent waiting.
UnpackSettles == (ex.parser # "none") ~> (ex.settled # "no")

=============================================================================
