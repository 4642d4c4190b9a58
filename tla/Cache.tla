------------------------------- MODULE Cache --------------------------------
(***************************************************************************)
(* One bincache data directory and everything that changes it:             *)
(*   bincache/src/boot.rs            the processes (serve, delete,         *)
(*                                   reconcile, rotate) and the lock       *)
(*   bincache-ingest/src/upload.rs   a NAR upload, state by state          *)
(*   bincache-ingest/src/ingest.rs   receive and publish                   *)
(*   bincache-ingest/src/maintain.rs delete, reconcile, rotate             *)
(* composed with the payload store (NarStore) and the index (Index).       *)
(*                                                                         *)
(* A process may die between any two steps.  Nothing traps a signal, so    *)
(* stopping a server is the same event as crashing it.  Requests of one    *)
(* server run on several shard threads and interleave at every step.       *)
(***************************************************************************)
EXTENDS Index

CONSTANTS
    Uploads,       \* concurrent `PUT nar/<hash>.nar` requests
    Publications,  \* concurrent `PUT <hash>.narinfo` requests
    Batch,         \* BATCH of maintain.rs, scaled down
    MaxStarts,     \* bound: starts of a server or of a rotation
    OperatorRemoves \* does the operator run reconcile and delete the orphans it
                   \* lists?

ASSUME BatchAssumption == Batch \in Nat \ {0}
ASSUME StartBoundAssumption == MaxStarts \in Nat

VARIABLES
    mode,          \* what each process is doing
    key,           \* --secret-key-file of a running process
    level,         \* --zstd-level of a running server
    sequence,      \* Inner::sequence, the next staging ordinal
    listing,       \* staging names a booting server has yet to unlink
    snapshot,      \* re-signed records a rotation has yet to commit
    upload,        \* the upload each request drives, or None
    publication,   \* the publish each request drives, or None
    report,        \* what the last reconcile printed, or None
    starts,        \* bound counter
    (* Observations: what clients and the log were told. *)
    ackedNars,     \* NAR hashes a PUT was answered 201 for
    ackedPaths,    \* paths a narinfo PUT was answered 201 for
    resolved,      \* artifacts a served narinfo pointed a client to
    rotatedTo,     \* the key the last completed rotation used, or None
    litter,        \* names the log of the running server has as "staging file
                   \* left for the boot sweep"
    since          \* paths published since that reconcile

procVars == <<mode, key, level, sequence, listing, snapshot, starts>>
requestVars == <<upload, publication>>
ackVars == <<ackedNars, ackedPaths>>
reportVars == <<report, since>>
observations == <<ackedNars, ackedPaths, resolved, rotatedTo, litter>>
vars == <<storeVars, indexVars, procVars, requestVars, reportVars, observations>>

Mode == {"off", "sweeping", "serving", "rotating"}

\* The typestates of Upload<S>; Synced and Committed are the two points
\* inside Upload::store between its effects, Recorded the point before the
\* answer.
UploadState == {"Receiving", "Compressed", "Verified", "Synced",
                "Committed", "Recorded"}

Upload == [state: UploadState, pid: Pids, staged: StagingName,
           expected: Nars, body: Nars, level: Levels, offset: Nat]

Publication == [state: {"found", "committed"}, pid: Pids, record: NarInfo]

Report == [orphan_artifacts: SUBSET Artifact,
           records_without_artifacts: SUBSET Paths]

ASSUME NoRequestAssumption == /\ None \notin Upload
                              /\ None \notin Publication
                              /\ None \notin Report
                              /\ None \notin Keys
                              /\ None \notin Levels

\* The states hold values of their types.
TypeOK ==
    /\ StoreTypeOK
    /\ IndexTypeOK
    /\ mode \in [Pids -> Mode]
    /\ key \in [Pids -> Keys \cup {None}]
    /\ level \in [Pids -> Levels \cup {None}]
    /\ sequence \in [Pids -> 0 .. MaxStages]
    /\ listing \in [Pids -> SUBSET StagingName]
    /\ snapshot \in [Pids -> SUBSET NarInfo]
    /\ upload \in [Uploads -> Upload \cup {None}]
    /\ publication \in [Publications -> Publication \cup {None}]
    /\ report \in Report \cup {None}
    /\ starts \in 0 .. MaxStarts
    /\ ackedNars \subseteq Nars
    /\ ackedPaths \subseteq Paths
    /\ resolved \subseteq Artifact
    /\ rotatedTo \in Keys \cup {None}
    /\ litter \subseteq StagingName
    /\ since \subseteq Paths

Init ==
    /\ StoreInit
    /\ IndexInit
    /\ mode = [p \in Pids |-> "off"]
    /\ key = [p \in Pids |-> None]
    /\ level = [p \in Pids |-> None]
    /\ sequence = [p \in Pids |-> 0]
    /\ listing = [p \in Pids |-> {}]
    /\ snapshot = [p \in Pids |-> {}]
    /\ upload = [u \in Uploads |-> None]
    /\ publication = [q \in Publications |-> None]
    /\ report = None
    /\ starts = 0
    /\ ackedNars = {}
    /\ ackedPaths = {}
    /\ resolved = {}
    /\ rotatedTo = None
    /\ litter = {}
    /\ since = {}

-----------------------------------------------------------------------------
(* Processes: boot.rs.                                                     *)

\* serve: open the store and the index, then list what the sweep will unlink.
\* A held lock ends the process (IndexLocked) with nothing changed.
Serve(p) ==
    /\ mode[p] = "off"
    /\ starts < MaxStarts
    /\ OpenIndex(p)
    /\ \E k \in Keys, l \in Levels :
          /\ key' = [key EXCEPT ![p] = k]
          /\ level' = [level EXCEPT ![p] = l]
          /\ rotatedTo' = IF rotatedTo = k THEN k ELSE None
    /\ mode' = [mode EXCEPT ![p] = "sweeping"]
    /\ sequence' = [sequence EXCEPT ![p] = 0]
    /\ listing' = [listing EXCEPT ![p] = Leftovers]
    /\ starts' = starts + 1
    /\ UNCHANGED <<storeVars, narinfo, nar, snapshot, requestVars, reportVars,
                   ackVars, resolved, litter>>

\* The walk does not advance.
Unlisted_Never(p, n) == listing

\* The walk goes on with the rest of the listing.
Unlisted(p, n) == [listing EXCEPT ![p] = @ \ {n}]

\* One iteration of sweep_staging. A name that is no longer there fails the
\* boot, which Exit covers.
SweepOne(p) ==
    /\ mode[p] = "sweeping"
    /\ \E n \in listing[p] :
          /\ staging[n] # NoFile
          /\ Unlink(n)
          /\ listing' = Unlisted(p, n)
    /\ UNCHANGED <<artifacts, unflushed, indexVars, mode, key, level, sequence,
                   snapshot, starts, requestVars, reportVars, observations>>

\* The shards start before the sweep is over.
Swept_Assumed(p) == TRUE

\* sweep_staging returned.
Swept(p) == listing[p] = {}

\* The sweep is over: the shards start serving.
Listen(p) ==
    /\ mode[p] = "sweeping"
    /\ Swept(p)
    /\ mode' = [mode EXCEPT ![p] = "serving"]
    /\ UNCHANGED <<storeVars, indexVars, key, level, sequence, listing,
                   snapshot, starts, requestVars, reportVars, observations>>

\* The end of a process, at any point: memory and the file lock go, files
\* and committed transactions stay.
Exit(p) ==
    /\ mode' = [mode EXCEPT ![p] = "off"]
    /\ key' = [key EXCEPT ![p] = None]
    /\ level' = [level EXCEPT ![p] = None]
    /\ sequence' = [sequence EXCEPT ![p] = 0]
    /\ listing' = [listing EXCEPT ![p] = {}]
    /\ snapshot' = [snapshot EXCEPT ![p] = {}]
    /\ upload' = [u \in Uploads |->
           IF upload[u] # None /\ upload[u].pid = p THEN None ELSE upload[u]]
    /\ publication' = [q \in Publications |->
           IF publication[q] # None /\ publication[q].pid = p
           THEN None ELSE publication[q]]
    /\ CloseIndex(p)
    /\ litter' = {n \in litter : n[1] # p}
    /\ UNCHANGED <<narinfo, nar, starts, reportVars, ackVars, resolved>>

\* A process dies, or is stopped.
Crash(p) ==
    /\ mode[p] # "off"
    /\ Exit(p)
    /\ UNCHANGED <<storeVars, rotatedTo>>

\* Power is lost, under process p or when none runs: the process dies, and so
\* does the page cache.
PowerLoss(p) ==
    /\ PowerFails
    /\ mode[p] # "off" \/ IndexFree
    /\ Exit(p)
    /\ LosePageCache
    /\ UNCHANGED rotatedTo

\* The kernel writes a directory back.
Flush ==
    /\ PowerFails
    /\ \E f \in Artifact : Writeback(f)
    /\ UNCHANGED <<indexVars, procVars, requestVars, reportVars, observations>>

-----------------------------------------------------------------------------
(* A NAR upload: Ingest::receive, then upload.rs.                          *)

Art(up) == <<up.body, up.level>>

\* Every step of an upload but the first leaves these alone.
uploadFrame == <<narinfo, holder, procVars, publication, reportVars, ackedPaths,
                 resolved, rotatedTo>>

\* The name Store::stage picks.
StagedName(p) == <<p, sequence[p]>>

\* Ingest::receive and Upload::new. `expected` is read from the target, the
\* body is whatever the client sends.
Receive(p, u) ==
    /\ mode[p] = "serving"
    /\ upload[u] = None
    /\ sequence[p] < MaxStages
    /\ Stage(StagedName(p))
    /\ \E expected, body \in Nars :
          upload' = [upload EXCEPT ![u] =
              [state |-> "Receiving", pid |-> p, staged |-> StagedName(p),
               expected |-> expected, body |-> body, level |-> level[p],
               offset |-> 0]]
    /\ sequence' = [sequence EXCEPT ![p] = @ + 1]
    /\ UNCHANGED <<artifacts, unflushed, indexVars, mode, key, level, listing,
                   snapshot, starts, publication, reportVars, observations>>

\* Upload::write: one chunk of the body, compressed into the staging file.
WriteChunk(u) ==
    /\ upload[u] # None
    /\ upload[u].state = "Receiving"
    /\ upload[u].offset < NarSize[upload[u].body]
    /\ Write(upload[u].staged, upload[u].offset, Art(upload[u]))
    /\ upload' = [upload EXCEPT ![u].offset = @ + 1]
    /\ UNCHANGED <<artifacts, unflushed, nar, ackedNars, litter, uploadFrame>>

\* Upload::finish: the encoder's tail. Sizes and hashes are final.
Finish(u) ==
    /\ upload[u] # None
    /\ upload[u].state = "Receiving"
    /\ upload[u].offset = NarSize[upload[u].body]
    /\ Write(upload[u].staged, upload[u].offset, Art(upload[u]))
    /\ upload' = [upload EXCEPT ![u].offset = @ + 1,
                                ![u].state = "Compressed"]
    /\ UNCHANGED <<artifacts, unflushed, nar, ackedNars, litter, uploadFrame>>

\* Whatever was sent is taken for what the target named.
Genuine_Unchecked(up) == NarSize[up.body] # 0

\* Upload::verify: the body hashes to the target and is not empty.
Genuine(up) == up.body = up.expected /\ NarSize[up.body] # 0

\* Upload::verify succeeds.
Verify(u) ==
    /\ upload[u] # None
    /\ upload[u].state = "Compressed"
    /\ Genuine(upload[u])
    /\ upload' = [upload EXCEPT ![u].state = "Verified"]
    /\ UNCHANGED <<storeVars, nar, ackedNars, litter, uploadFrame>>

\* The end of a request: the handler returns and lets go of its upload.
Forget(u) == upload' = [upload EXCEPT ![u] = None]

\* Drop for Staged, a courtesy: an unlink that fails is logged, and the file is
\* left for the sweep of the next boot.
DropStaged(n) ==
    \/ Unlink(n) /\ UNCHANGED litter
    \/ litter' = litter \cup {n} /\ UNCHANGED staging

\* Upload::verify fails: 400, and the upload is dropped.
Reject(u) ==
    /\ upload[u] # None
    /\ upload[u].state = "Compressed"
    /\ ~Genuine(upload[u])
    /\ DropStaged(upload[u].staged)
    /\ Forget(u)
    /\ UNCHANGED <<artifacts, unflushed, nar, ackedNars, uploadFrame>>

\* Upload::store, in its three effects: fsync, rename, index row.
SyncStaged(u) ==
    /\ upload[u] # None
    /\ upload[u].state = "Verified"
    /\ Sync(upload[u].staged)
    /\ upload' = [upload EXCEPT ![u].state = "Synced"]
    /\ UNCHANGED <<artifacts, unflushed, nar, ackedNars, litter, uploadFrame>>

\* The rename of Staged::commit.
Commit(u) ==
    /\ upload[u] # None
    /\ upload[u].state = "Synced"
    /\ Rename(upload[u].staged, Art(upload[u]))
    /\ upload' = [upload EXCEPT ![u].state = "Committed"]
    /\ UNCHANGED <<nar, ackedNars, litter, uploadFrame>>

\* The row Upload::store writes.
EntryOf(up) == [file_hash |-> Art(up), file_size |-> up.offset,
                nar_size |-> NarSize[up.body]]

\* The row is written first, the file is committed after it.
Renamed_NotAwaited(up) == up.state = "Verified"

\* Upload::store awaits the commit before put_nar.
Renamed(up) == up.state = "Committed"

\* Index::put_nar.
RecordNar(u) ==
    /\ upload[u] # None
    /\ Renamed(upload[u])
    /\ PutNar(upload[u].body, EntryOf(upload[u]))
    /\ upload' = [upload EXCEPT ![u].state = "Recorded"]
    /\ UNCHANGED <<storeVars, ackedNars, litter, uploadFrame>>

\* 201.
AnswerUpload(u) ==
    /\ upload[u] # None
    /\ upload[u].state = "Recorded"
    /\ ackedNars' = ackedNars \cup {upload[u].body}
    /\ Forget(u)
    /\ UNCHANGED <<storeVars, nar, litter, uploadFrame>>

\* The client goes away, or a write, fsync, rename or transaction fails. The
\* staging file is dropped unless the rename has happened.
Abandon(u) ==
    /\ upload[u] # None
    /\ \/ /\ upload[u].state \in {"Receiving", "Verified", "Synced"}
          /\ DropStaged(upload[u].staged)
       \/ /\ upload[u].state \in {"Committed", "Recorded"}
          /\ UNCHANGED <<staging, litter>>
    /\ Forget(u)
    /\ UNCHANGED <<artifacts, unflushed, nar, ackedNars, uploadFrame>>

-----------------------------------------------------------------------------
(* A publish: Ingest::publish.  The NAR row is read in one transaction and *)
(* the record written in another.                                          *)

publishFrame == <<storeVars, nar, holder, procVars, upload, report, ackedNars,
                  resolved, rotatedTo, litter>>

\* The artifact's name is worked out anew, at this server's level.
RecordFor_CurrentLevel(p, x, n, size, meta) ==
    [store_path |-> x, nar_hash |-> n, nar_size |-> size, meta |-> meta,
     file_hash |-> <<n, level[p]>>, file_size |-> nar[n].file_size,
     sigs |-> {}]

\* The record: every payload field comes from the row, the rest from the body,
\* and whatever signatures the body had are dropped.
RecordFor(p, x, n, size, meta) ==
    [store_path |-> x, nar_hash |-> n, nar_size |-> size, meta |-> meta,
     file_hash |-> nar[n].file_hash, file_size |-> nar[n].file_size,
     sigs |-> {}]

\* A NAR the cache never received, or a declared size it did not have, is
\* refused.
LookUp(p, q) ==
    /\ mode[p] = "serving"
    /\ publication[q] = None
    /\ \E x \in Paths, n \in Nars, size \in {NarSize[m] : m \in Nars},
          meta \in Metas :
          /\ nar[n] # None
          /\ nar[n].nar_size = size
          /\ publication' = [publication EXCEPT ![q] =
                 [state |-> "found", pid |-> p,
                  record |-> Resign(RecordFor(p, x, n, size, meta), key[p])]]
    /\ UNCHANGED <<narinfo, since, ackedPaths, publishFrame>>

\* Index::publish.
PublishRecord(q) ==
    /\ publication[q] # None
    /\ publication[q].state = "found"
    /\ Publish(publication[q].record)
    /\ publication' = [publication EXCEPT ![q].state = "committed"]
    /\ since' = IF report = None THEN since
                ELSE since \cup {publication[q].record.store_path}
    /\ UNCHANGED <<ackedPaths, publishFrame>>

\* Answered before the transaction.
Committed_NotAwaited(pub) == TRUE

\* Index::publish returned.
Committed(pub) == pub.state = "committed"

\* 201.
AnswerPublish(q) ==
    /\ publication[q] # None
    /\ Committed(publication[q])
    /\ ackedPaths' = ackedPaths \cup {publication[q].record.store_path}
    /\ publication' = [publication EXCEPT ![q] = None]
    /\ UNCHANGED <<narinfo, since, publishFrame>>

\* The transaction fails, or the client is gone when the answer is due.
FailPublish(q) ==
    /\ publication[q] # None
    /\ publication' = [publication EXCEPT ![q] = None]
    /\ UNCHANGED <<narinfo, since, ackedPaths, publishFrame>>

-----------------------------------------------------------------------------
(* A client resolves a path: GET <hash>.narinfo.                           *)

\* A client is told which artifact to fetch.
Resolve(p) ==
    /\ mode[p] = "serving"
    /\ \E x \in Paths :
          /\ narinfo[x] # None
          /\ resolved' = resolved \cup {narinfo[x].file_hash}
    /\ UNCHANGED <<storeVars, indexVars, procVars, requestVars, reportVars,
                   ackVars, rotatedTo, litter>>

-----------------------------------------------------------------------------
(* Maintenance: maintain.rs, each command in a process of its own that     *)
(* opens the index first.  delete and reconcile make one step of it.       *)

\* The artifact goes with the record.
LeaveArtifact_Unlinked(x) == Remove(narinfo[x].file_hash)

\* The artifact stays: another path may share it.
LeaveArtifact(x) == UNCHANGED <<artifacts, unflushed>>

\* delete of a published path.
Delete(x) ==
    /\ IndexFree
    /\ Unpublish(x)
    /\ LeaveArtifact(x)
    /\ ackedPaths' = ackedPaths \ {x}
    /\ ackedNars' = ackedNars \ {narinfo[x].nar_hash}
    /\ UNCHANGED <<staging, holder, procVars, requestVars, reportVars,
                   resolved, rotatedTo, litter>>

\* Nothing is looked up in the index.
Claimed_None == {}

\* The artifacts the records name. The NAR table is not consulted.
Claimed == {r.file_hash : r \in Records}

\* reconcile: a scan of the store against the records, printed.
Reconcile ==
    /\ OperatorRemoves
    /\ IndexFree
    /\ report' = [orphan_artifacts |-> Scan \ Claimed,
                  records_without_artifacts |->
                      {r.store_path : r \in {s \in Records :
                                             s.file_hash \notin Scan}}]
    /\ since' = {}
    /\ UNCHANGED <<storeVars, indexVars, procVars, requestVars, observations>>

\* The operator deletes an orphan of the last report, however old it is and
\* whatever runs meanwhile.
RemoveOrphan ==
    /\ OperatorRemoves
    /\ report # None
    /\ \E f \in report.orphan_artifacts : Remove(f)
    /\ UNCHANGED <<staging, indexVars, procVars, requestVars, reportVars,
                   observations>>

\* rotate: open, read every record, re-sign them all in memory ...
Rotate(p) ==
    /\ mode[p] = "off"
    /\ starts < MaxStarts
    /\ OpenIndex(p)
    /\ \E k \in Keys :
          /\ key' = [key EXCEPT ![p] = k]
          /\ snapshot' = [snapshot EXCEPT ![p] =
                 {Resign(r, k) : r \in Records}]
    /\ mode' = [mode EXCEPT ![p] = "rotating"]
    /\ starts' = starts + 1
    /\ rotatedTo' = None
    /\ UNCHANGED <<storeVars, narinfo, nar, level, sequence, listing,
                   requestVars, reportVars, ackVars, resolved, litter>>

\* records.chunks(BATCH): full batches, then what is left.
ChunkSize(batch, rest) ==
    \/ Cardinality(batch) = Batch
    \/ Cardinality(batch) < Batch /\ batch = rest /\ batch # {}

\* ... then commit them, a batch to a transaction. The code's batches follow
\* the key order; which records come first is left open here.
RotateBatch(p) ==
    /\ mode[p] = "rotating"
    /\ \E batch \in SUBSET snapshot[p] :
          /\ ChunkSize(batch, snapshot[p])
          /\ Republish(batch)
          /\ snapshot' = [snapshot EXCEPT ![p] = @ \ batch]
    /\ UNCHANGED <<storeVars, nar, holder, mode, key, level, sequence, listing,
                   starts, requestVars, reportVars, observations>>

\* The command ends before its last batch.
AllCommitted_Assumed(p) == TRUE

\* The loop over the batches is over.
AllCommitted(p) == snapshot[p] = {}

RotateDone(p) ==
    /\ mode[p] = "rotating"
    /\ AllCommitted(p)
    /\ rotatedTo' = key[p]
    /\ Exit(p)
    /\ UNCHANGED storeVars

-----------------------------------------------------------------------------

UploadStep(u) ==
    \/ WriteChunk(u)
    \/ Finish(u)
    \/ Verify(u)
    \/ Reject(u)
    \/ SyncStaged(u)
    \/ Commit(u)
    \/ RecordNar(u)
    \/ AnswerUpload(u)
    \/ Abandon(u)

PublishStep(q) ==
    \/ PublishRecord(q)
    \/ AnswerPublish(q)
    \/ FailPublish(q)

ProcessStep(p) ==
    \/ Serve(p)
    \/ SweepOne(p)
    \/ Listen(p)
    \/ Crash(p)
    \/ PowerLoss(p)
    \/ Rotate(p)
    \/ RotateBatch(p)
    \/ RotateDone(p)
    \/ Resolve(p)
    \/ \E u \in Uploads : Receive(p, u)
    \/ \E q \in Publications : LookUp(p, q)

OperatorStep ==
    \/ \E x \in Paths : Delete(x)
    \/ Reconcile
    \/ RemoveOrphan

Next ==
    \/ \E p \in Pids : ProcessStep(p)
    \/ \E u \in Uploads : UploadStep(u)
    \/ \E q \in Publications : PublishStep(q)
    \/ OperatorStep
    \/ Flush

Spec == Init /\ [][Next]_vars

\* Steps a running process takes by itself once it can: the boot sweep and a
\* rotation. Clients and operators owe nothing.
Fairness ==
    \A p \in Pids :
        /\ WF_vars(SweepOne(p))
        /\ WF_vars(Listen(p))
        /\ WF_vars(RotateBatch(p))
        /\ WF_vars(RotateDone(p))

FairSpec == Spec /\ Fairness

-----------------------------------------------------------------------------
(* Safety.                                                                 *)

\* Every artifact under nar/ is the complete, fsynced compression its name is
\* the hash of: `Staged::commit` makes it appear whole or not at all, whatever
\* uploads, crashes and power losses interleave.
WholeArtifacts ==
    \A f \in Artifact : artifacts[f] \in {NoFile, Whole(f)}

\* A row of NAR names the artifact that holds those NAR bytes, with its true
\* sizes (Upload::store runs put_nar after the rename).
RowsBacked ==
    \A n \in Nars : nar[n] # None =>
        /\ nar[n].file_hash[1] = n
        /\ artifacts[nar[n].file_hash] = Whole(nar[n].file_hash)
        /\ nar[n].file_size = artifacts[nar[n].file_hash].len
        /\ nar[n].nar_size = NarSize[n]
        /\ NarSize[n] # 0

\* The artifact a record names is on disk, whole, and decompresses to the NAR
\* the record declares.
Backed(r) ==
    /\ r.file_hash[1] = r.nar_hash
    /\ artifacts[r.file_hash] = Whole(r.file_hash)
    /\ r.file_size = artifacts[r.file_hash].len
    /\ r.nar_size = NarSize[r.nar_hash]

\* A published record is never a lie, across crashes, deletes of paths that
\* share its artifact, and re-uploads at another compression level.
RecordsBacked ==
    \A x \in Paths : narinfo[x] # None =>
        narinfo[x].store_path = x /\ Backed(narinfo[x])

\* Once a narinfo answer has pointed a client at an artifact, the artifact
\* stays fetchable, whatever is deleted or republished in between.
ResolvedFetchable ==
    \A f \in resolved : artifacts[f] = Whole(f)

\* What was answered 201 survives every crash: the record, until the operator
\* deletes it, and the NAR row, until the operator deletes a path with it.
AcksSurvive ==
    /\ \A x \in ackedPaths : narinfo[x] # None
    /\ \A n \in ackedNars : nar[n] # None

\* Before its rename an upload owns a staging file.
InFlight(up) == up.state \notin {"Committed", "Recorded"}

\* The bytes an upload has written are in its staging file, alone, until it
\* renames the file: no other upload and no other process's boot sweep
\* touches it. (`sweep_staging` relies on the index lock taken before it.)
StagingExclusive ==
    \A u \in Uploads : upload[u] # None /\ InFlight(upload[u]) =>
        LET file == staging[upload[u].staged]
        IN  /\ file # NoFile
            /\ file.len = upload[u].offset
            /\ file.of \subseteq {Art(upload[u])}

\* A serving cache has no staging file but those of its live uploads and those
\* its own log says it failed to unlink: whatever earlier processes left, by a
\* crash, a power loss or an unlink of theirs that failed, went in the boot
\* sweep.
NoLeftovers ==
    \A p \in Pids : mode[p] = "serving" =>
        \A n \in Leftovers :
            \/ n \in litter
            \/ \E u \in Uploads :
                  upload[u] # None /\ InFlight(upload[u]) /\ upload[u].staged = n

\* What a client that trusts key k asks of a record, and that nothing else is on
\* it.
SignedBy(r, k) == r.sigs = {[key |-> k, over |-> Fingerprint(r)]}

\* Every record at every moment, in the middle of a rotation or after one that
\* crashed too, carries exactly one signature and it verifies.
OneValidSignature ==
    \A x \in Paths : narinfo[x] # None =>
        \E k \in Keys : SignedBy(narinfo[x], k)

\* After a rotation that ran to its end no record answers to an older key, and
\* none will as long as the server runs with the new one.
RotationRetiresKeys ==
    rotatedTo # None =>
        \A x \in Paths : narinfo[x] # None => SignedBy(narinfo[x], rotatedTo)

-----------------------------------------------------------------------------
(* The inductive invariants behind the theorems of CacheProofs,            *)
(* CacheRecordProofs and CacheRefinement.                                  *)

\* A running process holds the index lock, and only it.
LockHeld == \A p \in Pids : mode[p] # "off" <=> holder = p

\* Requests belong to a serving process; staging ordinals are handed out once.
RequestsOwned ==
    /\ \A u \in Uploads : upload[u] # None =>
          /\ mode[upload[u].pid] = "serving"
          /\ upload[u].staged[1] = upload[u].pid
          /\ upload[u].staged[2] < sequence[upload[u].pid]
          /\ \A v \in Uploads \ {u} :
                upload[v] # None => upload[v].staged # upload[u].staged
    /\ \A q \in Publications :
          publication[q] # None => mode[publication[q].pid] = "serving"

\* How far the bytes of an upload have got, state by state.
Progress(up) ==
    /\ up.state = "Receiving" =>
          /\ staging[up.staged] # NoFile
          /\ staging[up.staged].len = up.offset
          /\ staging[up.staged].of = IF up.offset = 0 THEN {} ELSE {Art(up)}
          /\ up.offset <= NarSize[up.body]
    /\ up.state \in {"Compressed", "Verified", "Synced"} =>
          /\ staging[up.staged] # NoFile
          /\ staging[up.staged].len = up.offset
          /\ staging[up.staged].of = {Art(up)}
    /\ up.state = "Synced" => staging[up.staged].synced
    /\ up.state # "Receiving" => up.offset = Parts(up.body)
    /\ up.state \notin {"Receiving", "Compressed"} => Genuine(up)

StoreInv ==
    /\ LockHeld
    /\ RequestsOwned
    /\ \A u \in Uploads : upload[u] # None => Progress(upload[u])
    /\ WholeArtifacts

\* Rows and records that are about to be committed are backed too.
BackedInv ==
    /\ RowsBacked
    /\ RecordsBacked
    /\ \A u \in Uploads : upload[u] # None /\ ~InFlight(upload[u]) =>
          artifacts[Art(upload[u])] = Whole(Art(upload[u]))
    /\ \A q \in Publications :
          publication[q] # None => Backed(publication[q].record)
    /\ \A p \in Pids : \A r \in snapshot[p] : Backed(r)
    /\ ResolvedFetchable

\* A boot has on its list whatever is still in the staging directory.
SweptInv ==
    /\ NoLeftovers
    /\ \A p \in Pids : mode[p] = "sweeping" => Leftovers \subseteq listing[p]

\* What a rotation has yet to commit are the records as they are, signed with
\* its key, and a record that is not among them has been committed already.
SnapshotCurrent ==
    \A p \in Pids :
        /\ \A r \in snapshot[p] :
              /\ mode[p] = "rotating"
              /\ SignedBy(r, key[p])
              /\ narinfo[r.store_path] # None
              /\ Unsigned(r) = Unsigned(narinfo[r.store_path])
        /\ mode[p] = "rotating" =>
              \A x \in Paths : narinfo[x] # None =>
                  \/ SignedBy(narinfo[x], key[p])
                  \/ \E r \in snapshot[p] : r.store_path = x

\* Records stand under their own paths, records on their way are signed by the
\* server that made them, and nobody runs with another key than the one the
\* last rotation ended with.
SignInv ==
    /\ OneValidSignature
    /\ \A x \in Paths : narinfo[x] # None => narinfo[x].store_path = x
    /\ \A q \in Publications : publication[q] # None =>
          SignedBy(publication[q].record, key[publication[q].pid])
    /\ SnapshotCurrent
    /\ RotationRetiresKeys
    /\ rotatedTo # None => \A p \in Pids : mode[p] # "off" =>
          mode[p] # "rotating" /\ key[p] = rotatedTo

\* What is about to be acknowledged is in its table.
AckInv ==
    /\ AcksSurvive
    /\ \A q \in Publications : publication[q] # None /\ Committed(publication[q]) =>
          narinfo[publication[q].record.store_path] # None
    /\ \A u \in Uploads : upload[u] # None /\ upload[u].state = "Recorded" =>
          nar[upload[u].body] # None

\* No record has come to name what the report calls an orphan, but one that was
\* published after it.
ReportInv ==
    report # None =>
        \A x \in Paths : narinfo[x] # None =>
            x \in since \/ narinfo[x].file_hash \notin report.orphan_artifacts

-----------------------------------------------------------------------------
(* What the processes, files and tables implement.                         *)

Claim == [nar_hash: Nars, meta: Metas, file_hash: Artifact]

ASSUME NoClaimAssumption == None \notin Claim

ClaimOf(r) == [nar_hash |-> r.nar_hash, meta |-> r.meta,
               file_hash |-> r.file_hash]

Abstract == INSTANCE CacheSpec WITH
    catalog <- [x \in Paths |->
        IF narinfo[x] = None THEN None ELSE ClaimOf(narinfo[x])],
    signers <- [x \in Paths |->
        IF narinfo[x] = None THEN {} ELSE {s.key : s \in narinfo[x].sigs}],
    fetchable <- {f \in Artifact : artifacts[f] = Whole(f)}

\* The cache is the abstract cache: uploads, crashes, restarts and rotations
\* are invisible but for artifacts arriving, paths being published, withdrawn
\* and re-signed, and nothing published is ever of bytes that are not there.
ImplementsCacheSpec == Abstract!Spec

-----------------------------------------------------------------------------
(* What a step may never do.                                               *)

\* An artifact appears only by the rename of the upload that compressed it, and
\* only when that upload's target named this very NAR and it is not empty.
OnlyVerifiedAppears ==
    [][\A f \in Artifact : artifacts[f] = NoFile /\ artifacts'[f] # NoFile =>
          \E u \in Uploads :
              /\ upload[u] # None /\ upload[u].state = "Synced"
              /\ upload'[u].state = "Committed"
              /\ Art(upload[u]) = f
              /\ upload[u].expected = f[1]
              /\ NarSize[f[1]] # 0]_vars

\* Committing a batch of a rotation loses no record, brings none back, and
\* changes nothing in any but its signature.
RotationOnlyResigns ==
    [][\A p \in Pids : RotateBatch(p) =>
          \A x \in Paths :
              /\ (narinfo[x] = None) <=> (narinfo'[x] = None)
              /\ narinfo[x] # None => Unsigned(narinfo'[x]) = Unsigned(narinfo[x])]_vars

\* Deleting what reconcile called an orphan, at whatever time later and with
\* whatever ran in between, takes the artifact of no record that was published
\* before the report: only a publish after it can have come to name one.
RemovalSparesRecords ==
    [][RemoveOrphan => \A x \in Paths : narinfo[x] # None =>
          \/ x \in since
          \/ artifacts'[narinfo[x].file_hash] = artifacts[narinfo[x].file_hash]]_vars

\* "never a record pointing at bytes that are not there" (Upload::store): a
\* publish that finds a row, and so goes on to make a record of it, finds one
\* whose artifact is there.
PublishesWhatIsThere ==
    [][\A p \in Pids, q \in Publications : LookUp(p, q) =>
          Backed(publication'[q].record)]_vars

-----------------------------------------------------------------------------
(* Liveness, under Fairness.                                               *)

\* A boot gets through its sweep, unless the process dies, and a rotation comes
\* to its end: neither is put off for ever by what it finds.
ProcessesFinish ==
    \A p \in Pids :
        /\ mode[p] = "sweeping" ~> mode[p] # "sweeping"
        /\ mode[p] = "rotating" ~> mode[p] = "off"

=============================================================================
