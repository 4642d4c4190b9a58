------------------------------- MODULE Upload -------------------------------
(***************************************************************************)
(* The upload pipeline byte by byte: Cache::receive of handler.rs,         *)
(* Ingest::receive, bincache-ingest/src/upload.rs and the Staged of        *)
(* bincache-store/src/nar.rs.                                              *)
(*                                                                         *)
(* A body is a sequence of units.  A SHA-256 digest is what was hashed.    *)
(* The zstd stream of a body is its units, each compressed to one unit,    *)
(* and the epilogue that ends the frame.  The encoder may keep units to    *)
(* itself and hand them to its output buffer later, never out of order.    *)
(*                                                                         *)
(* Several requests run on the shards of one server, which may die and be  *)
(* started again.  Every call to the disk, the encoder or the index may    *)
(* fail.                                                                   *)
(***************************************************************************)
EXTENDS Integers, Sequences, Fault

CONSTANTS
    Requests,      \* `PUT nar/<hash>.nar` requests
    Bodies,        \* what clients send: sequences of units, the empty one too
    Targets,       \* what they ask for: [hash: Bodies, compression]
    ReadChunk,     \* READ_CHUNK, in units
    DrainThreshold, \* DRAIN_THRESHOLD, in units
    Window,        \* units the encoder may keep to itself
    Epilogue,      \* the last unit of a zstd frame
    NoFile,
    None

ASSUME SizesAssumption ==
    ReadChunk \in Nat \ {0} /\ DrainThreshold \in Nat \ {0} /\ Window \in Nat

\* What bodies and compressed streams consist of.
Unit == {Epilogue} \cup UNION {{b[i] : i \in DOMAIN b} : b \in Bodies}

\* Upload<S> in whatever state
UploadState ==
    [state: {"Receiving", "Compressed", "Verified", "Committed", "Recorded"},
     nar: Seq(Unit), nar_size: Nat, held: Seq(Unit), out: Seq(Unit),
     file: Seq(Unit), offset: Nat, file_size: Nat]

\* bincache_index::nar::Entry
Entry == [file_hash: Seq(Unit), file_size: Nat, nar_size: Nat]

ASSUME BodiesAssumption == Bodies \subseteq Seq(Unit)
ASSUME NoneAssumption == None \notin UploadState /\ None \notin Entry

VARIABLES
    asked,         \* request -> <<target, body>>, or NoRequest
    told,          \* request -> the status it was answered, see UploadSpec
    upload,        \* request -> Upload<S>, or None
    staging,       \* request -> the content of its staging file, or NoFile
    artifacts,     \* nar/: [name, content], one content per name
    rows           \* table NAR: NAR hash -> Entry, or None

vars == <<asked, told, upload, staging, artifacts, rows>>

Silence == -1
NoRequest == <<>>
Closed == 0

\* zstd: external code.
Compressed(nar) == nar \o <<Epilogue>>

\* State `Receiving`, and the fields the later states keep of it.
Started ==
    [state |-> "Receiving",
     nar |-> <<>>,       \* the digest over what arrived
     nar_size |-> 0,
     held |-> <<>>,      \* inside the encoder
     out |-> <<>>,       \* the encoder's output buffer, a Vec
     file |-> <<>>,      \* the digest over what was written out
     offset |-> 0,       \* Staged::offset
     file_size |-> 0]

Init ==
    /\ asked = [u \in Requests |-> NoRequest]
    /\ told = [u \in Requests |-> Silence]
    /\ upload = [u \in Requests |-> None]
    /\ staging = [u \in Requests |-> NoFile]
    /\ artifacts = {}
    /\ rows = [n \in Bodies |-> None]

-----------------------------------------------------------------------------
(* The staging file.                                                       *)

\* write_all_at: bytes put at an offset of a file's content, at its end or
\* over what is there.
WriteAt(content, at, bytes) ==
    SubSeq(content, 1, at) \o bytes
        \o SubSeq(content, at + Len(bytes) + 1, Len(content))

\* The offset after Staged::write.
Advance(offset, bytes) == offset + Len(bytes)

\* Staged::write of some bytes, and the digest that goes before it.
WriteOut(up, content, bytes) ==
    [up |-> [up EXCEPT !.file = @ \o bytes, !.offset = Advance(@, bytes)],
     content |-> WriteAt(content, up.offset, bytes)]

\* mem::take
Taken(up) == [up EXCEPT !.out = <<>>]

\* drain: what the encoder produced so far goes to the file.
Drain(up, content) == WriteOut(Taken(up), content, up.out)

-----------------------------------------------------------------------------
(* upload.rs                                                               *)

\* The encoder takes a chunk and hands out all but the last n units it has.
Encode(up, chunk, n) ==
    LET all == up.held \o chunk
    IN  [up EXCEPT !.out = @ \o SubSeq(all, 1, Len(all) - n),
                   !.held = SubSeq(all, Len(all) - n + 1, Len(all))]

\* The hasher and the counter of `write`.
Absorb(up, chunk) == [up EXCEPT !.nar = @ \o chunk, !.nar_size = @ + Len(chunk)]

\* Nothing is drained before the end.
Full_Never(up) == FALSE

\* encoder.get_ref().len() >= DRAIN_THRESHOLD
Full(up) == Len(up.out) >= DrainThreshold

\* Upload::write of the next k units, n of them and of earlier ones kept back
\* by the encoder.
Write(u, k, n) ==
    LET up == upload[u]
        chunk == SubSeq(asked[u][2], up.nar_size + 1, up.nar_size + k)
        encoded == Encode(Absorb(up, chunk), chunk, n)
    IN  IF Full(encoded) THEN Drain(encoded, staging[u])
        ELSE [up |-> encoded, content |-> staging[u]]

\* The tail without its digest.
Tail_Unhashed(up, content) ==
    LET tail == up.held \o <<Epilogue>>
        written == WriteOut(up, content, tail)
    IN  [written EXCEPT !.up.file = up.file]

\* encoder.finish: what was kept back, and the epilogue.
Finished(up, content) == WriteOut(up, content, up.held \o <<Epilogue>>)

\* file_size is asked for before the tail is written.
Finish_SizedEarly(u) ==
    LET drained == Drain(upload[u], staging[u])
        tail == Finished(drained.up, drained.content)
    IN  [tail EXCEPT !.up.state = "Compressed", !.up.held = <<>>,
                     !.up.file_size = drained.up.offset]

\* Upload::finish: drain, then the tail; Staged::written is the file's size.
Finish(u) ==
    LET drained == Drain(upload[u], staging[u])
        tail == Finished(drained.up, drained.content)
    IN  [tail EXCEPT !.up.state = "Compressed", !.up.held = <<>>,
                     !.up.file_size = tail.up.offset]

\* What verify finds wrong, if anything.
Mismatch(u) == IF upload[u].nar # asked[u][1].hash THEN {"HashMismatch"}
               ELSE IF upload[u].nar_size = 0 THEN {"Empty"}
               ELSE {}

-----------------------------------------------------------------------------
(* The request, as `receive` of handler.rs drives it.                      *)

InState(u, state) == upload[u] # None /\ upload[u].state = state

\* A call returned: the upload and its file are as it left them.
Became(u, result) ==
    /\ upload' = [upload EXCEPT ![u] = result.up]
    /\ staging' = [staging EXCEPT ![u] = result.content]

\* Drop for Staged: a courtesy, which may fail. After the rename there is
\* nothing to unlink.
Drop(u) ==
    /\ upload' = [upload EXCEPT ![u] = None]
    /\ \/ staging' = [staging EXCEPT ![u] = NoFile]
       \/ UNCHANGED staging

\* The answer, or the end without one.
Tell(u, status) == told' = [told EXCEPT ![u] = status]

\* Ingest::receive and its refusals: a target that is not a bare NAR, no
\* staging file, no encoder.
Receive(u) ==
    /\ asked[u] = NoRequest
    /\ \E target \in Targets, body \in Bodies :
          /\ asked' = [asked EXCEPT ![u] = <<target, body>>]
          /\ \/ /\ target.compression = "none"
                /\ upload' = [upload EXCEPT ![u] = Started]
                /\ staging' = [staging EXCEPT ![u] = <<>>]
                /\ UNCHANGED told
             \/ /\ \E error \in IF target.compression = "none"
                                THEN {"Stage", "Compress"} ELSE {"PreCompressed"} :
                       Tell(u, StatusOf(error))
                /\ UNCHANGED <<upload, staging>>
    /\ UNCHANGED <<artifacts, rows>>

\* One turn of the loop: a chunk of at most READ_CHUNK, written.
WriteChunk(u) ==
    /\ InState(u, "Receiving")
    /\ \E k \in 1 .. ReadChunk, n \in 0 .. Window :
          /\ upload[u].nar_size + k <= Len(asked[u][2])
          /\ n <= Len(upload[u].held) + k
          /\ Became(u, Write(u, k, n))
    /\ UNCHANGED <<asked, told, artifacts, rows>>

\* One unit more than was declared is waited for.
BodyRead_OffByOne(u) == upload[u].nar_size = Len(asked[u][2]) + 1

\* remaining = 0
BodyRead(u) == upload[u].nar_size = Len(asked[u][2])

\* The loop is over.
FinishUpload(u) ==
    /\ InState(u, "Receiving")
    /\ BodyRead(u)
    /\ Became(u, Finish(u))
    /\ UNCHANGED <<asked, told, artifacts, rows>>

\* verify, and the 400 of a body that is not what it should be.
Verify(u) ==
    /\ InState(u, "Compressed")
    /\ Mismatch(u) = {}
    /\ upload' = [upload EXCEPT ![u].state = "Verified"]
    /\ UNCHANGED <<asked, told, staging, artifacts, rows>>

Refuse(u) ==
    /\ InState(u, "Compressed")
    /\ \E error \in Mismatch(u) : Tell(u, StatusOf(error))
    /\ Drop(u)
    /\ UNCHANGED <<asked, artifacts, rows>>

\* store: sync_all and the rename, into the name of the file's digest ...
Commit(u) ==
    /\ InState(u, "Verified")
    /\ artifacts' = {a \in artifacts : a.name # upload[u].file}
                        \cup {[name |-> upload[u].file, content |-> staging[u]]}
    /\ staging' = [staging EXCEPT ![u] = NoFile]
    /\ upload' = [upload EXCEPT ![u].state = "Committed"]
    /\ UNCHANGED <<asked, told, rows>>

\* ... then the row.
Record(u) ==
    /\ InState(u, "Committed")
    /\ rows' = [rows EXCEPT ![upload[u].nar] =
           [file_hash |-> upload[u].file, file_size |-> upload[u].file_size,
            nar_size |-> upload[u].nar_size]]
    /\ upload' = [upload EXCEPT ![u].state = "Recorded"]
    /\ UNCHANGED <<asked, told, staging, artifacts>>

\* 201
Created(u) ==
    /\ InState(u, "Recorded")
    /\ Tell(u, 201)
    /\ upload' = [upload EXCEPT ![u] = None]
    /\ UNCHANGED <<asked, staging, artifacts, rows>>

\* The client is gone, or `?` on a write, the encoder, sync_all, the rename or
\* the transaction: no answer.
Fail(u) ==
    /\ upload[u] # None /\ ~InState(u, "Compressed")
    /\ Tell(u, Closed)
    /\ Drop(u)
    /\ UNCHANGED <<asked, artifacts, rows>>

\* The process dies; the next one sweeps the staging directory.
Restart ==
    /\ \E u \in Requests : upload[u] # None
    /\ told' = [u \in Requests |-> IF upload[u] # None THEN Closed ELSE told[u]]
    /\ upload' = [u \in Requests |-> None]
    /\ staging' = [u \in Requests |-> NoFile]
    /\ UNCHANGED <<asked, artifacts, rows>>

\* A step the server takes once the bytes are there.
Proceed(u) ==
    \/ FinishUpload(u) \/ Verify(u) \/ Refuse(u)
    \/ Commit(u) \/ Record(u) \/ Created(u)

Next ==
    \/ \E u \in Requests :
          \/ Receive(u) \/ WriteChunk(u) \/ Fail(u) \/ Proceed(u)
    \/ Restart

Spec == Init /\ [][Next]_vars

\* A shard goes on with an upload it can go on with, and this client sends its
\* body to the end.
FairSpec == Spec /\ \A u \in Requests : WF_vars(WriteChunk(u)) /\ WF_vars(Proceed(u))

-----------------------------------------------------------------------------
(* Safety.                                                                 *)

\* Under the name that is the digest of a complete compressed NAR lies that
\* compressed NAR, byte for byte, however its chunks were cut, kept back by
\* the encoder and drained, and whoever else wrote the same name meanwhile.
ContentAddressed ==
    \A a \in artifacts :
        /\ a.content = a.name
        /\ \E n \in Bodies \ {<<>>} : a.content = Compressed(n)

\* A row tells the truth about the artifact it names: it is there, it
\* decompresses to the NAR of that hash, and both sizes are what a client
\* will count.
RowsDescribe ==
    \A n \in Bodies : rows[n] # None =>
        \E a \in artifacts :
            /\ a.name = rows[n].file_hash
            /\ a.content = Compressed(n)
            /\ rows[n].file_size = Len(a.content)
            /\ rows[n].nar_size = Len(n)

\* "peak memory is one chunk of compressed output rather than the whole
\* artifact": what an upload holds in memory between two chunks does not
\* depend on how long its body is.
MemoryBounded ==
    \A u \in Requests : upload[u] # None =>
        /\ Len(upload[u].out) < DrainThreshold
        /\ Len(upload[u].out) + Len(upload[u].held) < DrainThreshold + Window

-----------------------------------------------------------------------------
(* What the pipeline implements.                                           *)

Abstract == INSTANCE UploadSpec WITH kept <- {n \in Bodies : rows[n] # None}

\* The pipeline is the abstract upload: a NAR can be published only after
\* somebody sent exactly its bytes, 201 only then, 400 only to a request that
\* could never have been accepted, and no failure or restart takes back what
\* was kept.
ImplementsUploadSpec == Abstract!Spec

\* An upload whose client does not stop is answered, or ends with its
\* connection.
UploadsSettle ==
    \A u \in Requests : upload[u] # None ~> upload[u] = None

=============================================================================
