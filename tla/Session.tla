------------------------------ MODULE Session -------------------------------
(***************************************************************************)
(* One keep-alive connection, from the socket to the answers:              *)
(*   bincache-serve/src/shard.rs       the session loop                    *)
(*   bincache-serve/src/connection.rs  the buffer, heads, bodies, chunks   *)
(*   bincache-serve/src/handler.rs     the routes and their answers        *)
(*                                                                         *)
(* The byte stream is a sequence of items: the lines of a head, the blank  *)
(* line that ends it, and units of body, each tagged with the request the  *)
(* client meant it for and its place in it.  The server does not see the   *)
(* tags: it finds a head by its blank line and a body by what the head     *)
(* declares (Http).  What the index, the store and ingest answer is a      *)
(* choice.                                                                 *)
(***************************************************************************)
EXTENDS Http, SequencesExt

CONSTANTS
    Requests,      \* the messages a client may send: a head (Http), its size in
                   \* lines of text, and the length of the body that follows
    MaxRequests,   \* bound: requests on the connection
    Pipelining,    \* does the client send a request before the last answer?
    HeadLenMax,    \* HEAD_LEN_MAX, in items
    MetadataBodyMax \* METADATA_BODY_MAX, in units

ASSUME SessionBounds == MaxRequests \in Nat /\ HeadLenMax \in Nat /\ MetadataBodyMax \in Nat

\* A field announces a body.
Framing == {"content-length", "transfer-encoding"}

FieldNames(r) == {r.headers[i].name : i \in DOMAIN r.headers}

\* No later field has the name of the i-th.
LastOfName(r, i) ==
    \A k \in DOMAIN r.headers : k > i => r.headers[k].name # r.headers[i].name

\* A client announces a body before it sends one, and does not lie about its
\* length: of several Content-Length fields, which may differ, the last is the
\* one it means. What it sends after two framings at once is anybody's guess.
ASSUME RequestsAssumption ==
    \A r \in Requests :
        /\ r.target \in Target /\ r.length \in Nat /\ r.lines \in Nat \ {0}
        /\ r.line = "good" => r.method \in {"Get", "Head", "Put"}
        /\ Len(r.headers) \in Nat /\ DOMAIN r.headers = 1 .. Len(r.headers)
        /\ r.length > 0 => FieldNames(r) \cap Framing # {}
        /\ "transfer-encoding" \notin FieldNames(r) =>
              \A i \in DOMAIN r.headers :
                  r.headers[i].name = "content-length" /\ LastOfName(r, i) =>
                      r.headers[i].value \in {r.length, NotANumber}
        /\ \A i \in DOMAIN r.headers : r.headers[i].name = "authorization" =>
              r.headers[i].value \in Authorization

\* Bodies go only where the cache reads or refuses them. The handlers of the
\* other requests succeed without a look at the body.
BodiesWelcome(some) ==
    \A r \in some : r.length > 0 =>
        \/ Route(r.target) \in {"unknown", "malformed"}
        \/ r.method = "Put" /\ Route(r.target) \in {"nar", "narinfo"}

VARIABLES
    (* the client *)
    requests,      \* what it has asked so far
    unsent,        \* items of the last request it has yet to send
    fin,           \* has it closed its half?
    (* the socket *)
    wire,          \* items sent, not yet read
    (* the session *)
    pc,            \* where the session task is
    buffer,        \* Connection::buffer
    head,          \* the items of the last head it took
    request,       \* what http::parse made of it
    remaining,     \* body units still to read
    body,          \* body units read
    continued,     \* requests that were told to continue
    replies,       \* answers written: [to, status, keep_alive], the Content-Length
                   \* declared, what was written after it, and how the pump ended
    faulted,       \* requests that met a fault of the cache
    applied,       \* requests whose body was handed to ingest whole
    counters       \* what the shard's counters gained, see stats.rs

vars == <<requests, unsent, fin, wire, pc, buffer, head, request, remaining, body,
          continued, replies, faulted, applied, counters>>

clientVars == <<requests, unsent, fin>>

\* What no answer touches.
readVars == <<clientVars, wire, buffer, head, request, remaining, body, continued>>

\* The i-th request on the wire: its head, and the body after it.
Item(i, r, j) ==
    [kind |-> IF j <= r.lines THEN "line" ELSE IF j = r.lines + 1 THEN "end" ELSE "body",
     of |-> i, at |-> j]

HeadItems(i, r) == [j \in 1 .. r.lines + 1 |-> Item(i, r, j)]
BodyItems(i, r) == [j \in 1 .. r.length |-> Item(i, r, r.lines + 1 + j)]
MessageItems(i, r) == [j \in 1 .. r.lines + 1 + r.length |-> Item(i, r, j)]

\* Shard: payload_bytes is in Stream, the heartbeats are in Watchdog.
Counter == {"requests", "metadata_hits", "metadata_misses", "uploads", "rejections"}

Serving == {"handling", "receiving", "finishing", "collecting"}

Init ==
    /\ requests = <<>>
    /\ unsent = <<>>
    /\ fin = FALSE
    /\ wire = <<>>
    /\ pc = "head"
    /\ buffer = <<>>
    /\ head = <<>>
    /\ request = Nothing
    /\ remaining = 0
    /\ body = <<>>
    /\ continued = {}
    /\ replies = <<>>
    /\ faulted = {}
    /\ applied = {}
    /\ counters = [c \in Counter |-> 0]

-----------------------------------------------------------------------------
(* The client and the socket: external code.                               *)

Answered(i) == \E j \in DOMAIN replies : replies[j].to = i

ToldToClose == \E j \in DOMAIN replies : replies[j].keep_alive = "Close"

\* The next request, once the last one is out.
Ask ==
    /\ ~fin /\ unsent = <<>> /\ ~ToldToClose
    /\ Len(requests) < MaxRequests
    /\ Pipelining \/ Len(requests) = 0 \/ Answered(Len(requests))
    /\ \E r \in Requests :
          /\ requests' = Append(requests, r)
          /\ unsent' = MessageItems(Len(requests) + 1, r)
    /\ UNCHANGED <<fin, wire, pc, buffer, head, request, remaining, body, continued,
                   replies, faulted, applied, counters>>

\* One item leaves.
Emit ==
    /\ ~fin /\ unsent # <<>> /\ ~ToldToClose
    /\ wire' = Append(wire, Head(unsent))
    /\ unsent' = Tail(unsent)
    /\ UNCHANGED <<requests, fin, pc, buffer, head, request, remaining, body, continued,
                   replies, faulted, applied, counters>>

\* `Expect: 100-continue` holds the body back.
HeldBack ==
    /\ Head(unsent).kind = "body"
    /\ \E i \in DOMAIN requests[Len(requests)].headers :
          requests[Len(requests)].headers[i] = [name |-> "expect", value |-> "100-continue"]
    /\ Len(requests) \notin continued /\ ~Answered(Len(requests))

SendItem == Emit /\ ~HeldBack

\* A client may tire of waiting and send the body all the same.
SendUnasked == Emit /\ HeldBack

\* The client closes, at any point of a message.
HangUp ==
    /\ ~fin
    /\ fin' = TRUE
    /\ UNCHANGED <<requests, unsent, wire, pc, buffer, head, request, remaining, body,
                   continued, replies, faulted, applied, counters>>

-----------------------------------------------------------------------------
(* connection.rs                                                           *)

\* http::head_len: where the first blank line is, or 0.
HeadLen(items) ==
    IF \E j \in DOMAIN items : items[j].kind = "end"
    THEN CHOOSE j \in DOMAIN items :
            items[j].kind = "end" /\ \A m \in 1 .. j - 1 : items[m].kind # "end"
    ELSE 0

\* Does the task wait for the socket? head() wants a blank line, body() its
\* length, chunk() anything.
Waiting ==
    \/ pc = "head" /\ HeadLen(buffer) = 0 /\ Len(buffer) <= HeadLenMax
    \/ pc = "receiving" /\ remaining > 0 /\ buffer = <<>>
    \/ pc = "collecting" /\ Len(buffer) < remaining

\* fill: a read returns some of what is there.
Fill ==
    /\ Waiting
    /\ \E n \in 1 .. Len(wire) :
          /\ buffer' = buffer \o SubSeq(wire, 1, n)
          /\ wire' = SubSeq(wire, n + 1, Len(wire))
    /\ UNCHANGED <<clientVars, pc, head, request, remaining, body, continued, replies,
                   faulted, applied, counters>>

\* Shard::bump of one counter.
Bump(counter) == counters' = [counters EXCEPT ![counter] = @ + 1]

\* The session ends: return from `session`, and the socket goes with it.
Close ==
    /\ pc' = "closed"
    /\ UNCHANGED <<readVars, replies, applied, counters>>

\* A read of zero: the end between requests, Truncated inside one.
Eof ==
    /\ Waiting
    /\ wire = <<>> /\ fin
    /\ Close
    /\ UNCHANGED faulted

\* HeadTooLong: no answer.
HeadTooLong ==
    /\ pc = "head"
    /\ HeadLen(buffer) = 0
    /\ Len(buffer) > HeadLenMax
    /\ Close
    /\ UNCHANGED faulted

\* A read or a write fails because the peer is gone.
PeerGone ==
    /\ pc # "closed"
    /\ fin
    /\ Close
    /\ UNCHANGED faulted

\* The request a head belongs to. The blank line is the only mark the server
\* has; MessageBoundary says that nothing foreign stands before it.
Current == Last(head).of

sent == requests[Current]

\* head(), the buffer up to the first blank line, http::parse of it, and the
\* bump `handle` begins with.
TakeHead ==
    /\ pc = "head"
    /\ HeadLen(buffer) > 0
    /\ head' = SubSeq(buffer, 1, HeadLen(buffer))
    /\ request' = Parse(requests[Last(head').of])
    /\ buffer' = SubSeq(buffer, HeadLen(buffer) + 1, Len(buffer))
    /\ pc' = "handling"
    /\ body' = <<>>
    /\ remaining' = 0
    /\ IF request'.ok THEN Bump("requests") ELSE UNCHANGED counters
    /\ UNCHANGED <<clientVars, wire, continued, replies, faulted, applied>>

-----------------------------------------------------------------------------
(* The ends of an exchange.                                                *)

\* A response head: Head::new, its headers, its length.
Rendering(status, keep, framed) ==
    [to |-> Current, status |-> status, keep_alive |-> keep,
     declared |-> framed.declared, written |-> framed.written, pumped |-> framed.pumped]

\* The session reads on after an answer that announced the close.
Reply_GoesOn(status, keep, framed) ==
    /\ replies' = Append(replies, Rendering(status, keep, framed))
    /\ pc' = "head"

\* Write a head; `session` goes on with the next request or ends. If the peer
\* is gone the write fails.
Reply(status, keep, framed) ==
    \/ /\ replies' = Append(replies, Rendering(status, keep, framed))
       /\ pc' = IF keep = "Keep" THEN "head" ELSE "closed"
    \/ fin /\ pc' = "closed" /\ UNCHANGED replies

\* The rule of `answer` and `refuse`.
KeepAfter(drained) ==
    IF drained = "Unread" /\ CarriesBody(request) THEN "Close"
    ELSE request.keep_alive

\* answer: no body.
Answer(status, drained) == Reply(status, KeepAfter(drained), Bare(0))

\* A rendered body; how long it is does not matter.
Rendered == 1

\* refuse: the reason goes with a 400, a 500 is answered without.
RefuseWith(status, drained) ==
    Reply(status, KeepAfter(drained), IF status = 400 THEN WithBody(Rendered) ELSE Bare(0))

\* send, probe and stream: the request's own wish, a body or not; a HEAD gets
\* the length alone.
Send(status) ==
    Reply(status, request.keep_alive,
          IF request.method = "Head" THEN Bare(Rendered) ELSE WithBody(Rendered))

\* Nothing but the reply changes.
exchangeFrame == <<readVars, faulted, applied>>

\* `?` on a fault of the cache: handle fails, and the session with it.
Fault ==
    /\ Close
    /\ faulted' = faulted \cup {Current}

-----------------------------------------------------------------------------
(* handler.rs, route by route.                                             *)

\* session, for a head that does not parse: 400, always closing.
Unparseable ==
    /\ pc = "handling"
    /\ ~request.ok
    /\ Reply(400, "Close", Bare(0))
    /\ UNCHANGED <<exchangeFrame, counters>>

\* Past http::parse and the chunked test of `handle`, at a route.
At(route) ==
    /\ pc = "handling"
    /\ request.ok
    /\ request.framing # "Chunked"
    /\ Route(request.target) = route

\* The first lines of `handle`: chunked bodies and what no route takes.
Unroutable ==
    /\ pc = "handling"
    /\ request.ok
    /\ \/ request.framing = "Chunked" /\ Answer(501, "Unread")
       \/ At("unknown") /\ Answer(404, "Unread")
       \/ At("malformed") /\ Answer(400, "Unread")
    /\ UNCHANGED <<exchangeFrame, counters>>

\* cache_info, whatever the method.
CacheInfo ==
    /\ At("cacheinfo")
    /\ Send(200)
    /\ UNCHANGED <<exchangeFrame, counters>>

\* metrics, whatever the method; the index counts its paths.
Metrics ==
    /\ At("metrics")
    /\ \/ Send(200) /\ UNCHANGED <<exchangeFrame, counters>>
       \/ Fault

\* narinfo, GET and HEAD: a hit, a miss or a failed read.
ReadNarinfo ==
    /\ At("narinfo")
    /\ request.method # "Put"
    /\ \/ Bump("metadata_hits") /\ Send(200) /\ UNCHANGED exchangeFrame
       \/ Bump("metadata_misses") /\ Answer(404, "Unread") /\ UNCHANGED exchangeFrame
       \/ Fault

\* probe and stream: a hit, a miss or a failed read. The 206 and 416 of stream
\* leave the connection as its 200 does (see Stream); an empty artifact is a
\* 500. A file shorter than it was recorded is found out by the pump, after the
\* head: it returns Ok, and the connection is kept all the same.
ReadNar ==
    /\ At("nar")
    /\ request.method # "Put"
    /\ \/ Send(200) /\ UNCHANGED <<exchangeFrame, counters>>
       \/ /\ request.method = "Get"
          /\ Reply(200, request.keep_alive, CutShort(Rendered))
          /\ UNCHANGED <<exchangeFrame, counters>>
       \/ Answer(404, "Unread") /\ UNCHANGED <<exchangeFrame, counters>>
       \/ /\ request.method = "Get"
          /\ Answer(500, "Unread")
          /\ faulted' = faulted \cup {Current}
          /\ UNCHANGED <<readVars, applied, counters>>
       \/ Fault

Push(route) == At(route) /\ request.method = "Put"

\* admit: the credential of the Authorization header.
Admitted == Admits(request.authorization)

\* What receive and publish refuse by the head alone.
Deny ==
    /\ Push("narinfo") \/ Push("nar")
    /\ \/ ~Admitted /\ Bump("rejections") /\ Answer(401, "Unread")
       \/ /\ Admitted /\ request.framing = "Empty"
          /\ Answer(411, "Unread")
          /\ UNCHANGED counters
       \/ /\ Admitted /\ Push("narinfo")
          /\ request.framing = "Length" /\ request.length > MetadataBodyMax
          /\ Answer(413, "Unread")
          /\ UNCHANGED counters
    /\ UNCHANGED exchangeFrame

\* The 100 is left to the client's patience.
Proceed_Silent == UNCHANGED continued

\* proceed
Proceed ==
    continued' = IF request.expectation = "Continue" THEN continued \cup {Current}
                 ELSE continued

\* receive, up to its loop. Ingest::receive refuses a target that is not a
\* bare NAR (400) or fails to open a staging file (500).
StartUpload ==
    /\ Push("nar") /\ Admitted /\ request.framing = "Length"
    /\ \/ /\ Proceed
          /\ pc' = "receiving"
          /\ remaining' = request.length
          /\ UNCHANGED <<clientVars, wire, buffer, head, request, body, replies, faulted,
                         applied, counters>>
       \/ /\ RefuseWith(400, "Unread")
          /\ UNCHANGED <<exchangeFrame, counters>>
       \/ /\ RefuseWith(500, "Unread")
          /\ faulted' = faulted \cup {Current}
          /\ UNCHANGED <<readVars, applied, counters>>

\* min(buffer, remaining); READ_CHUNK cuts it further.
Take == IF Len(buffer) < remaining THEN Len(buffer) ELSE remaining

\* One turn of receive's loop: Connection::chunk, then Upload::write, which
\* may fail.
ReceiveChunk ==
    /\ pc = "receiving"
    /\ remaining > 0
    /\ buffer # <<>>
    /\ \/ \E n \in 1 .. Take :
             /\ body' = body \o SubSeq(buffer, 1, n)
             /\ buffer' = SubSeq(buffer, n + 1, Len(buffer))
             /\ remaining' = remaining - n
             /\ UNCHANGED <<clientVars, wire, pc, head, request, continued, replies, faulted,
                            applied, counters>>
       \/ Fault

\* Counted when the last byte is in, stored or not.
Uploaded_Always(status) == Bump("uploads")

\* The bump after store.
Uploaded(status) == IF status = 201 THEN Bump("uploads") ELSE UNCHANGED counters

\* receive, after its loop: finish, verify, store, count.
FinishUpload ==
    /\ pc = "receiving"
    /\ remaining = 0
    /\ \/ /\ Uploaded(201)
          /\ Answer(201, "Consumed")
          /\ applied' = applied \cup {Current}
          /\ UNCHANGED <<readVars, faulted>>
       \/ /\ RefuseWith(400, "Consumed")
          /\ Uploaded(400)
          /\ UNCHANGED exchangeFrame
       \/ Fault

\* publish, up to its body.
StartPublish ==
    /\ Push("narinfo") /\ Admitted /\ request.framing = "Length"
    /\ request.length <= MetadataBodyMax
    /\ Proceed
    /\ pc' = "collecting"
    /\ remaining' = request.length
    /\ UNCHANGED <<clientVars, wire, buffer, head, request, body, replies, faulted, applied,
                   counters>>

\* The body is what has arrived so far.
BodyLen_Buffered == Len(buffer)

\* Connection::body: exactly the declared length.
BodyLen == remaining

\* Connection::body once enough is there.
CollectBody ==
    /\ pc = "collecting"
    /\ Len(buffer) >= remaining
    /\ body' = SubSeq(buffer, 1, BodyLen)
    /\ buffer' = SubSeq(buffer, BodyLen + 1, Len(buffer))
    /\ remaining' = 0
    /\ pc' = "finishing"
    /\ UNCHANGED <<clientVars, wire, head, request, continued, replies, faulted, applied,
                   counters>>

\* The rest of publish: not UTF-8 or refused (400), failed (500), done (201).
FinishPublish ==
    /\ pc = "finishing"
    /\ \/ /\ Answer(201, "Consumed")
          /\ applied' = applied \cup {Current}
          /\ UNCHANGED <<readVars, faulted, counters>>
       \/ /\ Answer(400, "Consumed")
          /\ UNCHANGED <<exchangeFrame, counters>>
       \/ /\ RefuseWith(400, "Consumed")
          /\ UNCHANGED <<exchangeFrame, counters>>
       \/ /\ RefuseWith(500, "Consumed")
          /\ faulted' = faulted \cup {Current}
          /\ UNCHANGED <<readVars, applied, counters>>

-----------------------------------------------------------------------------

ServerStep ==
    \/ Fill \/ Eof \/ HeadTooLong \/ TakeHead
    \/ Unparseable \/ Unroutable \/ CacheInfo \/ Metrics
    \/ ReadNarinfo \/ ReadNar \/ Deny
    \/ StartUpload \/ ReceiveChunk \/ FinishUpload
    \/ StartPublish \/ CollectBody \/ FinishPublish

Next ==
    \/ Ask \/ SendItem \/ SendUnasked \/ HangUp
    \/ ServerStep
    \/ PeerGone

Spec == Init /\ [][Next]_vars

\* The shard polls a session that can go on, and a client that has begun a
\* request sends what it may send of it. One that waits for 100 Continue may
\* wait for ever.
FairSpec == Spec /\ WF_vars(ServerStep) /\ WF_vars(SendItem)

-----------------------------------------------------------------------------
(* Safety.                                                                 *)

\* Every head the session takes is the head of one request, all of it and
\* nothing else: what an earlier request left unread on a kept-alive
\* connection never ends up in front of it (the rule of `Drained`).
MessageBoundary ==
    head # <<>> => head = HeadItems(Current, sent)

\* The body handed to ingest is the body of that request, unit for unit, and
\* nothing read for it belongs to a pipelined successor.
BodyIsOwn ==
    pc \in {"receiving", "finishing"} =>
        /\ Len(body) + remaining = sent.length
        /\ \A j \in DOMAIN body : body[j] = BodyItems(Current, sent)[j]

\* Requests are answered one for one, in order, and after an answer that
\* announces the close nothing more is written. A client that takes as many
\* bytes as an answer declares, and none after its own HEAD, is at the start
\* of the next answer, unless the artifact it asked for has lost its tail: no
\* error ends that connection, and the client takes the next head for the rest.
AnsweredInOrder ==
    \A j \in DOMAIN replies :
        /\ replies[j].to = j
        /\ j < Len(replies) => replies[j].keep_alive = "Keep"
        /\ \/ replies[j].written =
                 IF requests[j].method = "Head" THEN 0 ELSE replies[j].declared
           \/ /\ replies[j].pumped = "Short"
              /\ requests[j].method = "Get" /\ Route(requests[j].target) = "nar"

\* The request names a credential an operator chose, and not an empty one.
Entitled(r) ==
    \E j \in DOMAIN r.headers :
        /\ r.headers[j].name = "authorization"
        /\ \E text \in Credential(r.headers[j].value) \ {Blank} :
              Trim(text) \in {Trim(chosen) : chosen \in TokenFlags \cup TokenLines}

\* Nothing reaches ingest without a credential an operator chose: not with an
\* empty one, whatever blank flags or lines the configuration has. A client
\* that was told to continue is not then refused by its head.
AdmittedOnly ==
    /\ \A i \in applied : Entitled(requests[i])
    /\ \A j \in DOMAIN replies :
          replies[j].to \in continued => replies[j].status \in {201, 400, 500}

\* Answers of a status to requests of some methods on some routes.
Told(status, methods, routes) ==
    Cardinality({j \in DOMAIN replies :
        /\ replies[j].status = status
        /\ requests[j].method \in methods
        /\ Route(requests[j].target) \in routes})

\* Counts that no answer bears out.
Untold ==
    [metadata_hits |->
        counters["metadata_hits"] - Told(200, {"Get", "Head"}, {"narinfo"}),
     metadata_misses |->
        counters["metadata_misses"] - Told(404, {"Get", "Head"}, {"narinfo"}),
     uploads |-> counters["uploads"] - Told(201, {"Put"}, {"nar"}),
     rejections |-> counters["rejections"] - Told(401, {"Put"}, {"nar", "narinfo"})]

\* /metrics tells what clients saw: every hit, miss, upload and rejection is
\* counted once, by the request that had it. One count at most is ahead of
\* its answer, the last one, and only when the client did not stay to read it.
CountersAccount ==
    /\ \A c \in DOMAIN Untold : Untold[c] \in {0, IF pc = "closed" /\ fin THEN 1 ELSE 0}
    /\ Cardinality({c \in DOMAIN Untold : Untold[c] # 0}) <= 1
    /\ counters["requests"] - Cardinality({j \in DOMAIN replies : Parse(requests[j]).ok})
          \in IF pc \in Serving /\ request.ok THEN {1} ELSE IF pc = "closed" THEN {0, 1} ELSE {0}

\* "500 means the cache failed": a request that met a fault is told so.
FaultsAnswered ==
    \A i \in faulted : \E j \in DOMAIN replies :
        replies[j].to = i /\ replies[j].status = 500

-----------------------------------------------------------------------------
(* Liveness, under FairSpec.                                               *)

\* A request is answered, or the connection ends: a client that waits for 100
\* Continue and a server that waits for the body do not wait for each other.
\* Clients that stop in the middle are excused by closing.
RequestsAnswered ==
    \A i \in 1 .. MaxRequests :
        (Len(requests) >= i) ~> (Answered(i) \/ pc = "closed" \/ fin)

=============================================================================
