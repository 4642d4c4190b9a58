# bincache: specifications, model checking and proofs

bincache is a Nix binary cache: one process that serves narinfos and compressed
NARs over HTTP, accepts pushes of both, and a few maintenance commands on the
same data directory. This directory holds TLA+ modules translated from the Rust
sources under `src/crates`, TLC configurations that check them on small
instances, and theorems that TLAPS proves for every instance.

`PROJECT.json` lists the components, the runs, the source lines each definition
stands for, the hazards the properties are aimed at, the mutants that show each
property can fail, the findings and the theorems.

## 1. The system

| Component | Source | State | Operations |
|---|---|---|---|
| payload store | `bincache-store/src/nar.rs` | `staging/<pid>-<n>.nar`, `nar/<shard>/<file hash>.nar.zst`, an ordinal counter | `stage`, `write`, `commit` (fsync, rename), `abort`/drop (unlink), `read`, `scan`, `remove`, `sweep_staging` |
| index | `bincache-index/src/index.rs`, `nar.rs` | redb tables `NARINFO` and `NAR`, the file lock | `put_nar`, `publish`, `republish`, `unpublish`, `records`, lookups |
| NAR upload | `bincache-ingest/src/upload.rs` | per request: hashers, encoder, staging file, offset; typestates `Receiving`, `Compressed`, `Verified` | `write`, `finish`, `verify`, `store`, `abort` |
| publish | `bincache-ingest/src/ingest.rs` | none between calls | parse, look the NAR row up, complete and sign the record, commit |
| maintenance | `bincache-ingest/src/maintain.rs` | a snapshot of records during a rotation | `delete`, `reconcile`, `rotate` in batches |
| processes | `bincache/src/boot.rs`, `bincache-serve/src/shard.rs` | key, level, tokens, lock, shard threads | `serve`, `delete`, `reconcile`, `rotate`, `keygen`, `token` |
| session | `bincache-serve/src/shard.rs`, `connection.rs` | the read buffer | accept, read a head, handle it, keep or close |
| handlers | `bincache-serve/src/handler.rs` | none of their own | cache-info, metrics, narinfo, NAR fetch/probe, the two pushes |
| ranges, streaming | `bincache-serve/src/range.rs`, `handler.rs` | offset of a transfer | resolve a `Range`, pump chunks |
| HTTP heads, routes, tokens | `http.rs`, `http/response.rs`, `route.rs`, `auth.rs` | the tokens, fixed at boot | parse, dispatch, compare digests, frame an answer |
| stall detection, counters | `bincache-serve/src/stats.rs`, `bincache/src/watchdog.rs` | per shard: last beat, beat count, six counters | `beat`, `stalled`, `watch`, `bump`, `total` |
| whose fault | `bincache-ingest/src/fault.rs`, the `fault` of its errors | none | an error, to a side, to a status |
| names, records and keys as text | `bincache-core` | none | base32, hashes, store paths, narinfo text, key files, signatures |

**Interactions.** A push is two requests: `PUT nar/<nar hash>.nar` drives an
upload through a staging file to an artifact and then a row of `NAR`;
`PUT <path hash>.narinfo` reads that row, completes the record from it, signs
it and writes `NARINFO`. The file is made durable before the row and the row
exists before the record, and nothing else ties the three together. Requests
run on several shard threads and share the store's directory, the ordinal
counter and redb. Maintenance commands are separate processes that are kept
apart from the server only by redb's file lock. Files are never deleted by the
program: `delete` drops rows, `reconcile` prints orphans, the operator removes
them.

**What is hard.** A crash or power failure between any two of the effects of a
push; the boot sweep against live uploads; a row read in one transaction and
used in another; paths that share a NAR while one of them is deleted; a NAR
re-uploaded at another compression level, which is another artifact; a rotation
that dies between batches; a connection that is kept although a body is unread;
clients that wait for `100 Continue`; downloads dropped and resumed at any byte;
arithmetic at the ends of ranges; compressed output that leaves the encoder in
pieces, hashed and written apart from what was received; which side a failure is
put on; a shard that dies or wedges while the others serve; blanks, newlines and
mismatched halves in what the operator configures; relaxed counters read by
another thread.

**What makes it correct.** Store: whatever has an artifact's name is that
artifact, complete. Index and ingest: no row, record or narinfo answer ever
names bytes that are not there; what was acknowledged survives; nothing
unverified appears; what is left behind is gone with the next boot. Upload: an artifact is the bytes its
name hashes, its row tells its sizes, and a 400 means that the request itself was
wrong. Rotation: each record has one
signature that verifies, at every moment. Session: each head and each body is
found where the client put it, each request is answered once, in order.
Streaming: the bytes RFC 9110 says, framed as declared. Keys: what keygen prints
starts a server, and what the operator is shown verifies what it signs. Watchdog:
a wedged or lost shard is reported, an idle one is not unless the threshold is
tighter than its period.

## 2. Modules

`NarStore` <- `Index` <- `Cache` (EXTENDS); `Cache` implements `CacheSpec`;
`Fault` <- `Upload`, and `Upload` implements `UploadSpec`; `Range` <- `Stream`;
`Http` <- `Session`; `Base32`, `Sign` and `Fault` <- `Narinfo`; `Watchdog`. Each
specification has an `MC...` module with instances. The theorems about `Cache` are
in `CacheProofs` (types, the store, what backs a record, staging) and in two modules
that extend it: `CacheRecordProofs` and `CacheRefinement`. `UploadProofs`,
`StreamProofs`, `WatchdogProofs`, `SessionProofs` and `NarinfoProofs` hold those about
the modules they are named after, the last those about `Base32` and `Sign` too.

* **NarStore** - files. The name of a compressed NAR is the pair of its NAR and
  its level (the hash is taken to be injective, the encoder deterministic). What
  is on disk under a name is kept apart from the name: how many parts were
  written, by which streams, and whether they were fsynced. `unflushed` notes
  renames whose directory is not written back yet, so that a power failure can
  undo them. Its operators are the calls of `nar.rs`; each constrains only the
  variables it names.
* **Index** - the two tables and the file lock. Each method is one atomic step,
  which is what a redb write transaction gives. A signature is its key and the
  fingerprint it covers; the payload's file hash is not in the fingerprint.
* **Cache** - everything that changes one data directory: processes, uploads
  with the three effects of `Upload::store` as separate steps, publishes with
  their two transactions, the maintenance commands, crashes, power failures. The
  unlink of a dropped `Staged` may fail, which the log tells (`litter`) and the next
  boot sweep makes good. The operator removes what reconcile printed at any later
  time, with a server running or after several; `since` are the paths published
  after the report was made. A
  process may die between any two steps; nothing in the code traps a signal, so
  stopping a server is the same event. `delete` and `reconcile` are one step
  each, since they run under the lock and make one write or none. The variables
  `ackedNars`, `ackedPaths`, `resolved`, `rotatedTo`, `litter` and `since` observe what
  clients, the operator and the log were told and influence no step.
* **CacheSpec** - the cache as its clients see it: a signed catalogue of claims
  and a set of fetchable artifacts that only grows. `Cache` maps onto it by
  forgetting processes, staging and rows (`Abstract`).
* **Fault** - which side each error is put on, and the status that makes of it.
* **Upload** - the pipeline `Cache` takes for granted, byte by byte. A digest is
  what was hashed and a zstd frame is its units and an epilogue, so that a byte
  hashed and not written, written twice or out of place is visible. The encoder
  may keep up to `Window` units to itself at every call; the output buffer is
  drained when it reaches `DrainThreshold`, and at the end, before the tail.
  Every call to the disk, the encoder or the index may fail, and so may the
  unlink of a dropped `Staged`; the process may be killed and started again.
* **UploadSpec** - what `PUT nar/<hash>.nar` promises: a NAR is kept only if
  somebody sent exactly its bytes, 201 only if it is kept, 400 only to a request
  that could never have been accepted, and nothing is taken back. `Upload` maps
  onto it by the set of NARs that have a row.
* **Range** - `range::resolve` as an operator over headers described by the
  tests the code puts them to, and RFC 9110's meaning of a range as its
  reference definition.
* **Stream** - `stream` and `pump`, with reads of any length, a client that
  resumes as Nix does, dropped connections, a file that loses its tail, and the
  payload counter.
* **Http** - what a head says: `parse` as a recursive function that absorbs one
  header field after the other (`Absorbed`), which keeps the order of contradicting
  and repeated ones, so that of two `Content-Length` fields that differ the last
  stands, as in the code; `route::resolve`; the
  tokens that flags and a file make, blanks included, and the credential of an
  `Authorization` header against them; what a response head declares and what is
  written after it.
* **Session** - one keep-alive connection: the socket, the read buffer, heads,
  bodies, every route with its early returns and statuses, what each does with
  the connection, what it counts and when, and what it declares and writes. Items
  on the wire carry the request they belong to and their place in it; the server
  does not look at that, only the properties do, and so the framing the server
  reads from a head and the body the client sends are two things that can
  disagree. `replies` are the final answers, in the order they were written;
  `continued` are the requests that were told to go on. A GET of a NAR whose file
  ends early is answered with fewer bytes than its head declares, and the connection
  is kept, as `pump` and `stream` do (`CutShort`). What index, store and ingest answer is a choice, which is the
  interface to `Cache`, `Upload` and `Stream`.
* **Base32** - Nix's base32 with its bit layout, digit by digit: `encode`, when
  `decode` succeeds and what it returns, the latter as a recursive function over
  the digits (`Decoded`).
* **Sign** - key files, public keys and signatures as text: where `split` splits,
  what is trimmed at either end, the blank in front of a name included, which half
  of a file counts. ed25519 is external: a signature
  is the seed that made it and what it covers, and the public half of a seed is a
  value of its own.
* **Narinfo** - a narinfo as text: lines of words, spelled and parsed as store
  paths, digests, URLs and so on; `parse` as a recursive function over the lines
  (`Drafted`) that absorbs one after the other; `finish`; `render`; the record
  `publish` makes; GET and PUT of `<key>.narinfo` around them; uploads, which put and
  replace the row of a NAR (`nars`) and add an artifact (`stored`); `delete`, which
  takes the row along; and the processes that start with a key file and a store
  directory, serve or rotate, and show the public key. Every path in a fingerprint is
  printed under the directory of the process that signs, so the directory is part of
  the fingerprint; a number past `U64Max` does not parse. Sorting a
  list is forgetting its order, so a fingerprint holds how often each reference
  occurs. `ClientReads` and `ClientFingerprint` are what Nix does with a served
  body. `Cache` has the same publish with its transactions apart and its body
  already read.
* **Watchdog** - the threads of a server in discrete time: `run` binds and spawns
  shard after shard and then joins them in the same order; a shard starts, beats,
  wedges, comes back or dies; the watchdog thread looks, if it came up at all, and up
  to `Late` after its interval. The threshold is any of `Stales`: nothing in the code
  ties `--stall-seconds` to the heartbeat. A beat is two relaxed stores that another thread may see in either order.

Definitions whose names end in `_Something`, such as `Genuine_Unchecked`, are
never used by a specification. Each is a plausible mistake in the definition
after it, and `mutants` in `PROJECT.json` says which property catches it.

## 3. Runs

| Run | What it asks | Instance |
|---|---|---|
| CacheShare | Can a record, a row or an answer point at missing bytes; can anything acknowledged get lost? | 2 NARs, 2 paths that may share one, 2 levels, 3 starts |
| CacheRotate | Do racing uploads, crashes and the sweep leave rows with artifacts, owned staging files and no litter but the running server's own; are signatures right at each moment of a rotation, crashed ones too; is all of it the abstract cache? | 2 uploads, 3 paths, batches of 2, 2 keys, 2 processes, 2 staging names each, 4 starts |
| CacheFaults | Power failures at any step, orphans removed at any time: is what appears whole, verified and, for records older than the report, safe from removals; do boots and rotations end? | 2 NARs, one empty; 2 uploads; 2 starts; fairness |
| CachePowerDurable | Is a row as durable as its artifact? (It is not.) | 1 upload, 2 starts |
| CacheOrphansLie | Is what reconcile lists safe to delete? (It is not.) | 1 upload, 2 starts |
| Upload | Does the artifact equal its name and its row, however the body is cut, kept back and drained; does memory stay bounded; is the pipeline the abstract upload; does it end? | 2 requests; bodies of 0, 1 and 4 units; 4 targets, one compressed; chunks to 2, drains at 2, 1 unit kept back; fairness |
| Stream | Are the bytes sent the bytes asked for, however they are cut, dropped and resumed? | every header with numbers to 8, lengths 1 to 5, chunks of 2, 2 drops, truncation |
| Session | Do requests, bodies and answers stay aligned; do the counters tell the truth; who may write; does anyone wait for ever? | 2 requests out of 40 kinds, pipelined, every division into reads |
| SessionUnread | Is a body nobody reads closed off? (Not after success.) | 2 requests |
| SessionFaults | Is a failing push told so? (Not always.) | 1 push |
| Narinfo | Does an accepted body mean what it says, read back, verify at a client, lead to its bytes and survive a second push, while rows are replaced and removed; does what keygen prints start a server, and does what it shows verify? | hashes of 2 bytes, digests of 1, sizes to 9; 47 bodies: one as Nix writes it, each line removed or replaced by others of its field, lines put in front, behind and both; 5 key texts, 8 key files, 2 store directories, one NAR at 2 levels; 2 pushes, 2 processes |
| Watchdog | Are wedged and lost shards reported, and others only where the threshold calls for it? | 2 shards, 11 ticks, heartbeat 2, looks 2 apart and up to 1 late, stale after 1, 3 or 4 |

All properties of a passing run hold, and the last sections say what that is
worth.

**Bounds.** `MaxStages` bounds the staging files one process opens, `MaxStarts`
the servers and rotations started, `MaxPuts` pushes, `MaxRequests`, `MaxDrops` and `MaxTime` what
their names say. They are chosen so that the cases a property is about occur:
two uploads suffice for a collision, two starts for a crash and the boot after
it, three for a push at one level, one at another and a delete in between, four
for push, rotation, failed rotation and push; three records in batches of two
give a full batch, a short one and a crash between them. Lengths to 5 with
chunks of 2 put each end of a range at a chunk boundary, before and after it,
and `U64Max` = 7 leaves room for numbers inside, past the end of and past the
type. In `Upload` a body of four units is
two drains and a tail, each chunk may end before, at and behind a threshold, and
two requests may ask for one name. In `Session` two requests are a message and its successor, which is what
misalignment needs. In `Narinfo` two bytes make digits that straddle bytes and,
like the 32 of a digest, leave spare bits in the text (a path hash of 20 bytes
leaves none); a line in front of and one behind a body are what order and
repetition need; two pushes make two paths of one NAR, or a record and its
successor, deletes are not bounded, and two processes are a server and the rotation
or the server after it, for the same store directory or another. In `Watchdog` 11
ticks exceed a start, a wedge of the smaller thresholds with a late look behind it,
a report and a recovery; of the thresholds 1 is below the period of an idle shard,
3 below the latest first beat and 4 at it.

**Symmetry** is used over processes, uploads, paths and non-empty NARs, in runs
without liveness only.

**Deadlock** is not checked: clients may stop asking, and the bounds end every
behaviour. What must not stop is stated as liveness.

**Fairness.** `Cache`: weak fairness for the steps of a boot sweep and of a
rotation, both of which run to their end on the main thread of a process that does
nothing else. None for clients, operators, crashes or requests; that an upload ends
is asked of `Upload`.
`Session`: weak fairness for the session task and for a client sending what it
may send; a client that waits for a `100` may wait for ever, and may also
lose patience. `Upload`: weak fairness for the shard's steps and for this
client's chunks; a client that stops is excused by `Fail`, which needs none.
`Stream`: weak fairness for the transfer. `Watchdog` needs none:
lateness is bounded by `Slack` and `Late` in the guard of `Tick`, and its properties are
safety properties over time.

## 4. Findings

1. **A row outlives its artifact when power fails** (CachePowerDurable).
   `Staged::commit` fsyncs the file and renames it but not the directory, and
   redb's commit of the row is durable at once. `index.rs:104-106` promises
   "never a record with no bytes behind it". Process crashes alone do not show
   it (CacheRotate, CacheShare).
2. **Deleting a listed orphan can make a record a lie** (CacheOrphansLie).
   `reconcile` looks at records only. A NAR uploaded and not yet published is
   listed, `maintain.rs:33` calls it deletable, and its `NAR` row stays, so a
   later publish finds the row and succeeds with no bytes behind it
   (`PublishesWhatIsThere`). Records made before the report are safe
   (`RemovalSparesRecords`).
3. **Unread bodies after a success** (SessionUnread). The rule at
   `handler.rs:60-61` is kept by `answer` and `refuse` and not by `send`,
   `probe` and `stream`. A body on a GET, or on a PUT of `/nix-cache-info`, is
   taken for the next head. Nix sends none, so the run `Session` sends bodies
   only with pushes and with requests that are refused.
4. **A failing push is cut off, not answered** (SessionFaults). Errors of
   `write`, `finish` and `store` leave `receive` by `?`; the README says that a
   failing cache answers `500`.

More was met while modelling and has no run:

* `resolve` in `range.rs` compares the first position with the length before it
  parses the last one, so `bytes=<past the end>-<not a number>` is a 416, where
  `range.rs:46` says that "anything unparseable" is the whole artifact.
* A body that lists a reference twice is signed over both, while Nix prints a set:
  no client can verify that record. Nix itself pushes sets, and `ClientAccepts` is
  stated for them.
* `shard.rs:62-63` says that `run` goes on "until every shard thread exits": it
  joins in shard order and returns with the first error, so the process ends with
  shard 0 whatever the others do, and goes on without any other shard as long as
  those joined before it live. A shard lost before its first beat, to a runtime
  that does not start, is then reported nowhere: `StallsReported` is stated for
  shards that have beaten.
* An artifact that ends before its length makes `pump` return `Ok`
  (`handler.rs:346-348`), and `stream` keeps the connection (`handler.rs:322`): the
  client takes the head of the next answer for the rest of the body.
  `AnsweredInOrder` says that no other answer can be short.
* `rotate` takes a `--store-dir` of its own (`boot.rs:201`). Run with another one
  than the server's it signs every record for paths the server does not print, and
  no client of that server verifies them. `ClientAccepts` says exactly when one does.
* Deleting a path drops the row of its NAR (`index.rs:176`) also when another path
  has it: that path is still served and fetched, but pushing it again is refused as
  an unknown NAR until the payload is uploaded again. `RepushStable` says so.
* A `--stall-seconds` below a heartbeat and its lateness reports idle shards, and one
  below the time of a boot can report a shard whose first beat is half seen.
  `NoFalseAlarm` names both.
* `storepath.rs:205-206` counts `Deriver:` among the lines that carry a full path;
  `render` writes its base name (`narinfo.rs:98`), and so does Nix.

## 5. Theorems

Every theorem is proved for all values of the constants: any sets of processes,
uploads, publications, NARs, levels, paths and keys, bodies and artifacts of any
length, any bounds. Each safety proof has the same shape: an inductive invariant,
one lemma per action or per group of actions that leave the same variables
alone, and a last step that combines them.

**Cache, store and records** (`CacheProofs`)

* `TypeCorrect`: `Spec => []TypeOK`. The invariant adds that a running process has
  the key and level it was started with (`ArgsPresent`), without which an upload
  could take a level that is `None`.
* `ArtifactsAreWhole`: `Spec => []WholeArtifacts`, with power failures and orphan
  removals or without. `WholeArtifacts` is not inductive: a rename installs
  whatever the staging file holds. `StoreInv` adds that exactly the process
  with the lock runs (`LockHeld`), that requests belong to a serving process and
  own distinct staging names already handed out (`RequestsOwned`), and how many
  parts of which stream are in the staging file at each typestate, and that they
  are fsynced before the rename (`Progress`). The heart of the argument is that
  whoever sweeps or starts holds the lock, so nobody is being served then
  (`Quiet`), and that within one server ordinals do not repeat.
* `NeverALie`, and of it `RowsAreBacked` and `AnswersStayTrue`: without power
  failures and orphan removals,
  `Spec => [](RowsBacked /\ RecordsBacked /\ ResolvedFetchable)`. The findings
  above are why the two conditions are needed. `BackedInv` adds that records on
  their way - a publish between its two transactions, the snapshot of a
  rotation - are backed too, and that an upload past its rename has its artifact. The argument: artifacts only arrive
  (`ArtifactsLast`), a row is written in a typestate whose artifact is known to be
  whole, a record copies a row, and re-signing touches nothing that
  backs a record (`ResignBacked`). Dropping a shared row in `delete` is harmless
  because records do not depend on rows once they are made.

**Cache, staging** (`CacheProofs` as well, all with power failures and removals or
without)

* `StagingIsExclusive` follows from `StoreInv` alone: `Progress` tells what is in
  the file, `RequestsOwned` that it is one upload's.
* `NothingLeftBehind`: `NoLeftovers` speaks of a serving process only, and what a
  crash or a failed unlink leaves is there until the next one has booted. `SweptInv`
  therefore adds what is true before: what is still in the staging directory is on
  the list of the boot that sweeps it (`listing`), since the lock keeps every other
  writer away. What the running server failed to unlink itself is in its log, and is
  the one exception.
* `VerifiedAppears` is an action property: of all steps only the `Commit` of an
  upload makes a file under `nar/`, the one it compressed, and `StoreInv` says what
  an upload in the typestate before it has shown.

**Cache, records** (`CacheRecordProofs`, with power failures and removals or
without)

* `AlwaysSigned` and `RetiredForGood`: `SignInv` adds the records on their way - a
  publish has signed its record with its own server's key, a rotation's snapshot
  is the table as it is (`SnapshotCurrent`) - and that after a rotation whoever
  publishes does so with the new key. `SnapshotCurrent` is what makes a rotation
  in batches safe: it reads once and writes many times, and only the index lock
  keeps the two together.
* `OnlyResigns` is the action property that follows from `SnapshotCurrent`.
* `AcksLast`: `AckInv` adds that an upload in its last typestate has its row and a
  publish about to answer has its record, since nobody deletes while a server
  runs.
* `RemovalIsSafe`: `ReportInv` says that no record names an artifact of the last
  report but one of a path published since. Rotations and deletes bring no new
  artifact into the table, and the report itself does not age: neither a starting
  server nor a removal changes it.

**Cache implements CacheSpec** (`CacheRefinement`)

* `CacheImplements`, without power failures and orphan removals. The mapping
  forgets processes, staging files and rows. A rename is an arrival, a publish's
  second transaction a claim, a batch a change of signatures, a delete a
  withdrawal; everything else stutters. A claim must be of fetchable bytes at the
  moment it is made, though its row was read in an earlier transaction: that is
  `BackedInv` of publishes on their way. A batch must touch signatures only:
  that is `SnapshotCurrent`.

**Upload** (`UploadProofs`)

* `AddressIsContent`, `RowsAreTrue` and `MemoryStaysBounded`, from `UploadInv`: of
  an upload in any typestate, the digest over what arrived is a prefix of the body
  (`Hashed`), what was written out, what waits in the buffer and what the encoder
  keeps are together that prefix (`Flowing`), the staging file, the digest over
  it and the offset agree (`Written`), and after the tail all of it is the
  compressed body (`Complete`). None of these is inductive without the others: a
  drain moves units from one place to the next.
* `UploadImplements`: what is kept is the set of NARs that have a row. The step
  that has an image other than a stutter is `Record`, and it maps to `Keep`
  because an upload gets that far only with a body that is what its target names
  (`Complete`, `OpenInv`); a 400 is said where that has been ruled out.

**Ranges and streaming** (`StreamProofs`)

* `ResolveSelects`: `resolve` against RFC 9110 for every header and every length,
  by the cases of the code. TLC checks it for lengths to 5.
* `BodiesAsDeclared`, `AskedBytesAreSent`, `ResumedFetchesWhole`, from `StreamInv`:
  what lies behind the bytes the client had is the span's positions up to the
  offset (`Sent`), the span is the one `resolve` made of the header the client
  sent (`SpanInv`), a refusal is one `resolve` calls for (`RefusedInv`), and a fetch
  goes on where it stopped, in a file no longer than the one it began with
  (`FetchInv`).

**Watchdog** (`WatchdogProofs`)

* `StallsAreReported`, `NoAlarmIsFalse`, `ReportsRecover`, for any threshold, from
  `WatchInv`: a shard that turns has a timer that is never further away than a
  heartbeat and the slack, and has beaten since it came back or is still within that
  time (`ShardInv`, which also says what the other thread may see of half a beat: the
  time of the beat before it, or none at a first beat), and what the last look
  reported is the shards that were stale then, or looked so under a threshold that is
  too tight or at a boot (`LookInv`).

**Session** (`SessionProofs`), for any list of requests, bodies and heads of any
length and any buffer

* `ParseFraming`: the framing `parse` makes of a head with any number of fields, in
  any order and with any repetition, is the one its set of framing fields calls for
  - none, the length of the last `content-length` field, or chunks. The
  induction theorems of the library take an operator the provers cannot
  instantiate, but the naturals are well-founded (`NatLessThanWellFounded`): the set
  of lengths at which the claim fails has no least member, so it is empty.
* `BoundaryHolds`, `BodyHolds`, `OrderHolds`, `AdmissionHolds`:
  `Spec => []MessageBoundary` and so on, for clients that send bodies only where
  they are read or refused (`BodiesWelcome(Requests)`). Finding 3 is why the
  hypothesis is needed, and `ManyAssumption` of `MCSession` shows that the requests
  of the run satisfy it. The heart of `Inv` is `Place`: what is in the read buffer,
  on the wire and still with the client is, put together, the stream of messages
  from one item on, and that item is the one the state of the session calls for -
  the next head, or the next unit of the body in hand. A read, a slow client and a
  compaction of the buffer leave it alone; only what consumes a message moves it.
  The rest of `Inv` says what the request in hand was parsed from (`HeadOf`,
  `InHand`), how much of its body was taken (`BodyRead`, `Pushing`), that answers
  are in order (`InOrder`), that every message but the last kept the connection
  (`AllKeep`), and what has been told to continue and applied (`ContinuedOf`,
  `AppliedOf`). A short body leaves `Place` alone: it is in what the server writes,
  not in what it reads, and `OrderHolds` says that only a GET of a NAR has one.
* `CountersHold`: `Spec => []CountersAccount`. `Accounts` says of every counter
  that it is the number of answers that bear it; one counter at most is one ahead,
  and only on a connection that ended because the client did not stay for the last
  answer (`Books`). The number of requests is ahead by the one in hand (`Tally`).

**Narinfo** (`NarinfoProofs`), for hashes of any width, bodies of any number of lines
and any keys, by the same use of well-foundedness (`Induction`, about sets of numbers)

* `DecodeEncode` and `EncodeDecode`: base32 both ways. Digits of five bits straddle
  bytes of eight, so neither direction has a digit-by-digit inverse. The first
  carries that after i digits the low 5i bits of the value are in place and the
  rest is zero (`Filled`). The second needs that nothing was set where a later
  digit goes, so that `|=` adds (`Clean`), and then follows the digits back from
  the value that came out (`FilledBack`). The check of the last character's spare
  bits is what makes the spelling unique: without it `EncodeDecode` is false.
* `RoundTrip`: `Parse(Render(r)) = r` for every record that is `Sound` (its parts are
  ones that can be spelled) and signed by one key over any fingerprint (`Signs`), under
  any store directory. The lines of a rendered record are followed one by one through
  the draft they make.
* `ReadsBackHolds`, `RepushHolds`, `KeyNamesHolds`, `KeygenHolds`, `ClientHolds`,
  `LastLineHolds`: `Spec => []ReadsBack` and so on, from `Inv`. None of the six is
  inductive: what a record reads back as depends on how it was made and on the key
  that signed it, which another process may have used. `Inv` says that every record
  is sound, stands under its own hash, is signed by a key the operator was shown for
  some directory, and is of an artifact that was stored (`Held`), that rows are of
  stored artifacts (`Rows`), that the running server's key is one that was shown
  (`Running`), that a file was refused for being unusable, and what the last answer
  was made from (`Fetched`, `Stored`). Records do not depend on rows once they are
  made, which is why a replaced or removed row does not touch `ReadsBackHolds` and
  `ClientHolds`; `RepushHolds` speaks of the row as it is. `KeyNamesHolds`
  is `EncodeDecode` for the key in the URL;
  `LastLineHolds` is an induction over the lines of the body; `ClientHolds` has
  the hypothesis that no reference is listed twice, which section 4 explains.

**Assumptions.** They are the named `ASSUME`s of the modules, and TLC evaluates
them in every run of a module that extends theirs: sizes and bounds are naturals;
`Batch`, `ReadChunk`, `DrainThreshold` and `SendChunk` are positive; `None` and
`NoFile` are not values of the types they complement (`NoneAssumption`,
`NoClaimAssumption`); bodies, requests, key texts and key files are sequences and
records of the right kind (`BodiesAssumption` of `Upload` and of `Narinfo`,
`RequestsAssumption`, `KeyTextsAssumption`, `KeyFilesAssumption`); hashes have a byte at
least and sizes a bound (`WidthAssumption`), uploads are of bytes and sizes, not
empty, and of one size if of one hash (`UploadsAssumption`); an artifact is no
longer than a `u64` can say (`FitsAssumption`); a client sends the body its last
`Content-Length` promises, or none if it promises none (`RequestsAssumption`); the
watchdog's intervals are positive (`TimingAssumption`), and nothing is assumed of the
threshold.

## 6. Only model-checked

Liveness (`ProcessesFinish`, `UploadsSettle`, `StreamsEnd`,
`RequestsAnswered`): the prover has no rules for fairness. Every other property of a
passing run is stated by a theorem.

## 7. Not modelled

* Text that no property is about: cache-info, the request line and the wording of
  HTTP heads, the metrics page, what commands print, the command line. Their
  outcomes are choices or fields where they matter.
* Cryptography and codecs: SHA-256 and ed25519 are injective, zstd is
  deterministic and streams in order, hex and base64 decode what they encode.
  `token` and the seed of `keygen` are random text.
* `Upload::abort` and `Connection::discard`, which no route calls.
* Thread placement and socket options, which keep no state, and the sum of the
  counters over shards, which is not atomic and decides nothing.
* Records that do not decode and foreign files under `nar/`: errors that change
  nothing.

## 8. Plan

1. A pusher that probes, uploads, publishes and retries against `Cache`, with
   lost answers.
