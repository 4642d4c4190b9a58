------------------------------- MODULE Stream -------------------------------
(***************************************************************************)
(* Serving one artifact: `stream` and `pump` of                            *)
(* bincache-serve/src/handler.rs over Reader::read_at of                   *)
(* bincache-store/src/nar.rs, and the client that resumes a dropped        *)
(* download.  A byte of the artifact is its position.                      *)
(*                                                                         *)
(* A transfer is a bounded chunk at a time, and between two chunks the     *)
(* connection may drop and the file under the open descriptor may lose its *)
(* tail (a fault of the disk or of an operator; nothing in the cache       *)
(* shortens a file).                                                       *)
(***************************************************************************)
EXTENDS Range, Sequences, SequencesExt

CONSTANTS
    MaxSize,       \* bound: bytes in the artifact
    SendChunk,     \* SEND_CHUNK of connection.rs, scaled down
    MaxDrops,      \* bound: dropped connections
    Truncates      \* may the file on disk lose its tail?

ASSUME ChunkAssumption == SendChunk \in Nat \ {0}
ASSUME BoundAssumption == MaxSize \in Nat /\ MaxDrops \in Nat
ASSUME FitsAssumption == MaxSize <= U64Max

VARIABLES
    size,          \* Reader::size, taken when the file was opened
    ondisk,        \* bytes the file has now
    pc,            \* idle, asked, pumping, kept (answered), dropped
    header,        \* the Range header of the request
    span,          \* what pump is to send
    offset,        \* pump's offset
    status,        \* of the answer: 0 before there is one
    declared,      \* its Content-Length
    expects,       \* the Content-Length of the answer a fetch began with
    copy,          \* the bytes the client has
    resumed,       \* bytes it had when it sent the request
    payload_bytes, \* what the shard's counter gained
    drops          \* bound counter

vars == <<size, ondisk, pc, header, span, offset, status, declared, expects,
          copy, resumed, payload_bytes, drops>>

\* Ingest refuses an empty NAR, so the artifact has at least a byte.
Init ==
    /\ ondisk \in 1 .. MaxSize
    /\ size = ondisk
    /\ pc = "idle"
    /\ header = NoHeader
    /\ span = [first |-> 0, last |-> 0]
    /\ offset = 0
    /\ status = 0
    /\ declared = 0
    /\ expects = 0
    /\ copy = <<>>
    /\ resumed = 0
    /\ payload_bytes = 0
    /\ drops = 0

-----------------------------------------------------------------------------
(* The client: external code.                                              *)

\* Any request, `GET nar/<file hash>.nar.zst`.
Ask ==
    /\ pc = "idle"
    /\ \E h \in Header(U64Max + 1) :
          /\ h.form # "range" => h.first = Blank /\ h.last = Blank
          /\ header' = h
    /\ pc' = "asked"
    /\ UNCHANGED <<size, ondisk, span, offset, status, declared, expects, copy,
                   resumed, payload_bytes, drops>>

\* maybeRetry: a whole fetch that broke off is resumed where it stopped. Every
\* answer advertises `Accept-Ranges: bytes`.
Resume ==
    /\ pc = "dropped"
    /\ header.form = "absent" \/ resumed > 0
    /\ copy # <<>>
    /\ Len(copy) < expects
    /\ header' = From(Len(copy))
    /\ resumed' = Len(copy)
    /\ status' = 0
    /\ pc' = "asked"
    /\ UNCHANGED <<size, ondisk, span, offset, declared, expects, copy,
                   payload_bytes, drops>>

-----------------------------------------------------------------------------
(* The server.                                                             *)

\* A head with no body after it.
Refuse(code) ==
    /\ status' = code
    /\ declared' = 0
    /\ pc' = "kept"
    /\ UNCHANGED <<span, offset, expects>>

\* `Content-Range` and 206 for a part; a range that covers everything is 200.
Begin(s) ==
    /\ span' = s
    /\ offset' = s.first
    /\ status' = IF SpanLen(s) # ondisk THEN 206 ELSE 200
    /\ declared' = SpanLen(s)
    /\ expects' = IF resumed = 0 THEN SpanLen(s) ELSE expects
    /\ pc' = "pumping"

\* stream, up to the head: Store::read opens the file and takes its size.
Respond ==
    /\ pc = "asked"
    /\ size' = ondisk
    /\ LET requested == Resolve(header, ondisk) IN
          \/ /\ ondisk = 0
             /\ Refuse(500)
          \/ /\ ondisk # 0
             /\ requested.kind = "Unsatisfiable"
             /\ Refuse(416)
          \/ /\ ondisk # 0
             /\ requested.kind = "Whole"
             /\ Begin([first |-> 0, last |-> ondisk - 1])
          \/ /\ ondisk # 0
             /\ requested.kind = "Partial"
             /\ Begin(requested.span)
    /\ UNCHANGED <<ondisk, header, copy, resumed, payload_bytes, drops>>

\* filled.truncate(wanted)
Filled(read, wanted) == Min2(read, wanted)

\* Progress is taken from what was asked of the file.
Advance_ByWanted(wanted, sent) == wanted

\* offset += sent
Advance(wanted, sent) == sent

\* One turn of pump: read at most a buffer, cut it to the span, write it,
\* yield. A read may return fewer bytes than it was asked for.
PumpChunk ==
    /\ pc = "pumping"
    /\ offset <= span.last
    /\ offset < ondisk
    /\ \E read \in 1 .. Min2(SendChunk, ondisk - offset) :
          LET wanted == Min2(span.last - offset + 1, SendChunk)
              sent == Filled(read, wanted)
          IN  /\ copy' = copy \o [i \in 1 .. sent |-> offset + i - 1]
              /\ offset' = offset + Advance(wanted, sent)
    /\ UNCHANGED <<size, ondisk, pc, header, span, status, declared, expects,
                   resumed, payload_bytes, drops>>

\* The bump after pump, which a failed write skips.
Count(sent) == payload_bytes' = payload_bytes + sent

\* The empty read is taken for one more chunk.
ReadsNothing_Unchecked == FALSE

\* read == 0
ReadsNothing == offset >= ondisk

\* The file ended early: pump gives up, and stream keeps the connection.
PumpShort ==
    /\ pc = "pumping"
    /\ offset <= span.last
    /\ ReadsNothing
    /\ Count(offset - span.first)
    /\ pc' = "kept"
    /\ UNCHANGED <<size, ondisk, header, span, offset, status, declared, expects,
                   copy, resumed, drops>>

\* The loop is over one byte too soon.
Pumped_Early == offset >= span.last

\* while offset <= span.last
Pumped == offset > span.last

PumpDone ==
    /\ pc = "pumping"
    /\ Pumped
    /\ Count(SpanLen(span))
    /\ pc' = "kept"
    /\ UNCHANGED <<size, ondisk, header, span, offset, status, declared, expects,
                   copy, resumed, drops>>

-----------------------------------------------------------------------------
(* The world.                                                              *)

\* A write fails: the session ends.
Drop ==
    /\ pc \in {"asked", "pumping"}
    /\ drops < MaxDrops
    /\ pc' = "dropped"
    /\ drops' = drops + 1
    /\ UNCHANGED <<size, ondisk, header, span, offset, status, declared, expects,
                   copy, resumed, payload_bytes>>

Truncate ==
    /\ Truncates
    /\ ondisk > 0
    /\ ondisk' \in 0 .. ondisk - 1
    /\ UNCHANGED <<size, pc, header, span, offset, status, declared, expects,
                   copy, resumed, payload_bytes, drops>>

Next ==
    \/ Ask
    \/ Resume
    \/ Respond
    \/ PumpChunk
    \/ PumpShort
    \/ PumpDone
    \/ Drop
    \/ Truncate

Spec == Init /\ [][Next]_vars

\* The server's own steps: a chunk that can be read and written is.
FairSpec == Spec /\ WF_vars(Respond \/ PumpChunk \/ PumpShort \/ PumpDone)

-----------------------------------------------------------------------------

Positions(from, to) == [i \in 1 .. to - from + 1 |-> from + i - 1]

\* The file still is what it was when it was opened.
Intact == ondisk = size

\* What is on the wire is the span, in order and without a gap, whatever read
\* sizes the file gives and wherever chunks end. A kept-alive connection
\* carried exactly the body its Content-Length declared, or the client would
\* take the next answer for the rest of it: so long as the file keeps its
\* length. bincache_payload_bytes_total grows by what was sent on it even if
\* the file does not, and by nothing for the transfers that dropped.
BodyAsDeclared ==
    /\ status \in {200, 206} =>
          SubSeq(copy, resumed + 1, Len(copy)) = Positions(span.first, offset - 1)
    /\ pc = "kept" /\ Intact => Len(copy) - resumed = declared
    /\ payload_bytes = IF pc = "kept" THEN Len(copy) - resumed ELSE 0

\* A well-formed range that is honoured selects the bytes RFC 9110 says, and
\* one whose numbers fit a u64 is always honoured.
AskedBytesSent ==
    pc = "kept" /\ Intact /\ resumed = 0 /\ size # 0 /\ WellFormed(header) =>
        \/ ToSet(copy) = Asked(header, size)
        \/ /\ \E side \in {header.first, header.last} : side > U64Max
           /\ ToSet(copy) = 0 .. size - 1

\* A fetch resumed any number of times, at any byte, ends as the artifact it
\* began with.
ResumedFetchWhole ==
    pc = "kept" /\ ondisk = expects
    /\ (header.form = "absent" \/ resumed > 0) =>
        copy = Positions(0, size - 1)

\* An answer that was begun ends, or its connection does.
StreamsEnd == (pc \in {"asked", "pumping"}) ~> (pc \in {"kept", "dropped"})

=============================================================================
