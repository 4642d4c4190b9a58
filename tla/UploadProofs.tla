---------------------------- MODULE UploadProofs ----------------------------
(***************************************************************************)
(* The theorems of Upload: bodies of any length, cut into chunks of any    *)
(* size, kept back by an encoder with any window and drained at any        *)
(* threshold, in any number of requests and restarts.                      *)
(***************************************************************************)
EXTENDS Upload, SequenceTheorems, TLAPS

Stored(n) == [name |-> Compressed(n), content |-> Compressed(n)]

EntryOf(n) == [file_hash |-> Compressed(n), file_size |-> Len(Compressed(n)),
               nar_size |-> Len(n)]

TypeOK ==
    /\ asked \in [Requests -> {NoRequest} \cup (Targets \X Bodies)]
    /\ told \in [Requests -> {Silence, Closed, 201, 400, 500}]
    /\ upload \in [Requests -> UploadState \cup {None}]
    /\ staging \in [Requests -> Seq(Unit) \cup {NoFile}]
    /\ rows \in [Bodies -> Entry \cup {None}]

\* The hasher has seen the part of the body that arrived.
Hashed(up, body) ==
    /\ up.nar_size <= Len(body)
    /\ up.nar = SubSeq(body, 1, up.nar_size)

\* What the file digest has seen is what the file holds, up to the offset.
Written(up, content) ==
    /\ content = up.file
    /\ up.offset = Len(up.file)

\* No unit is lost, doubled or out of order on its way from the hasher through
\* the encoder and its buffer to the file, and little is on the way.
Flowing(up) ==
    /\ up.file \o (up.out \o up.held) = up.nar
    /\ Len(up.out) < DrainThreshold
    /\ Len(up.held) <= Window

\* After `finish` the file digest is of the whole compressed body.
Complete(up, body) ==
    /\ up.nar = body /\ up.nar_size = Len(body)
    /\ up.held = <<>> /\ up.out = <<>>
    /\ up.file = Compressed(body)
    /\ up.file_size = Len(up.file)

\* How far an upload has got, state by state.
Progress(u) ==
    LET up == upload[u]
        body == asked[u][2]
    IN  /\ Hashed(up, body)
        /\ up.state = "Receiving" => Flowing(up)
        /\ up.state # "Receiving" => Complete(up, body)
        /\ up.state \in {"Receiving", "Compressed", "Verified"} =>
              Written(up, staging[u])
        /\ up.state \in {"Verified", "Committed", "Recorded"} =>
              body = asked[u][1].hash /\ body # <<>>
        /\ up.state \in {"Committed", "Recorded"} => Stored(body) \in artifacts
        /\ up.state = "Recorded" => rows[body] # None

\* A request is worked on from the moment it is made until it is told.
OpenInv ==
    \A u \in Requests :
        /\ upload[u] # None <=> (asked[u] # NoRequest /\ told[u] = Silence)
        /\ upload[u] # None => asked[u][1].compression = "none"
        /\ asked[u] = NoRequest => told[u] = Silence

UploadInv ==
    /\ OpenInv
    /\ \A u \in Requests : upload[u] # None => Progress(u)
    /\ artifacts \subseteq {Stored(n) : n \in Bodies \ {<<>>}}
    /\ \A n \in Bodies : rows[n] # None =>
          rows[n] = EntryOf(n) /\ Stored(n) \in artifacts

-----------------------------------------------------------------------------
(* What the calls of upload.rs and nar.rs do, on any values.               *)

\* Concatenation associates; the name lets the instances be cited one by one.
Associates(r, s, t) == (r \o s) \o t = r \o (s \o t)

LEMMA Associative == \A r, s, t \in Seq(Unit) : Associates(r, s, t)
  BY ConcatAssociative DEF Associates

\* A sequence cut in two is the two parts.
LEMMA Cut ==
  ASSUME NEW s \in Seq(Unit), NEW m \in 0 .. Len(s), NEW n \in m .. Len(s)
  PROVE  /\ SubSeq(s, m + 1, n) \in Seq(Unit)
         /\ Len(SubSeq(s, m + 1, n)) = n - m
         /\ SubSeq(s, 1, m) \o SubSeq(s, m + 1, n) = SubSeq(s, 1, n)
<1>1. 1 \in 1 .. Len(s) + 1 /\ m \in 1 - 1 .. Len(s)
  BY LenProperties
<1>2. SubSeq(s, m + 1, n) \in Seq(Unit) /\ Len(SubSeq(s, m + 1, n)) = n - m
  BY LenProperties
<1>3. QED BY <1>1, <1>2, ConcatAdjacentSubSeq

LEMMA WriteAtEnd ==
  ASSUME NEW content \in Seq(Unit), NEW bytes \in Seq(Unit)
  PROVE  WriteAt(content, Len(content), bytes) = content \o bytes
<1>1. Len(content) \in Nat /\ Len(bytes) \in Nat
  BY LenProperties
<1>2. SubSeq(content, 1, Len(content)) = content
  BY SubSeqFull
<1>3. SubSeq(content, Len(content) + Len(bytes) + 1, Len(content)) = <<>>
  BY <1>1, SubSeqEmpty
<1>4. content \o bytes \in Seq(Unit)
  BY ConcatProperties
<1>5. (content \o bytes) \o <<>> = content \o bytes
  BY <1>4, ConcatEmptySeq
<1>6. QED BY <1>2, <1>3, <1>5 DEF WriteAt

\* Nothing but the file, its digest and the offset moved, all by some bytes.
WroteOut(up, w, bytes) ==
    /\ w = [up |-> w.up, content |-> w.content]
    /\ w.up \in UploadState /\ w.content \in Seq(Unit)
    /\ Written(w.up, w.content)
    /\ w.up.file = up.file \o bytes
    /\ w.up.state = up.state
    /\ w.up.nar = up.nar /\ w.up.nar_size = up.nar_size
    /\ w.up.held = up.held /\ w.up.out = up.out

\* Staged::write after the digest.
LEMMA WriteOutFacts ==
  ASSUME NEW up \in UploadState, NEW content \in Seq(Unit),
         NEW bytes \in Seq(Unit), Written(up, content)
  PROVE  WroteOut(up, WriteOut(up, content, bytes), bytes)
<1>1. PICK w : w = WriteOut(up, content, bytes)
  OBVIOUS
<1>2. up.file \in Seq(Unit) /\ up.offset \in Nat /\ Len(bytes) \in Nat
  BY LenProperties DEF UploadState
<1>3. PICK all \in Seq(Unit) :
        all = up.file \o bytes /\ Len(all) = Len(up.file) + Len(bytes)
  BY <1>2, ConcatProperties
<1>4. PICK end \in Nat : end = up.offset + Len(bytes)
  BY <1>2
<1>5. /\ w.up = [up EXCEPT !.file = all, !.offset = end]
      /\ w.content = WriteAt(content, up.offset, bytes)
      /\ w = [up |-> w.up, content |-> w.content]
  BY <1>1, <1>3, <1>4 DEF WriteOut, Advance
<1>6. w.content = all
  BY <1>3, <1>5, WriteAtEnd DEF Written
<1>7. /\ w.up \in UploadState /\ w.up.file = all /\ w.up.offset = end
      /\ w.up.state = up.state
      /\ w.up.nar = up.nar /\ w.up.nar_size = up.nar_size
      /\ w.up.held = up.held /\ w.up.out = up.out
  BY <1>5 DEF UploadState
<1>8. Written(w.up, w.content)
  BY <1>3, <1>4, <1>6, <1>7 DEF Written
<1>9. QED BY <1>1, <1>3, <1>5, <1>6, <1>7, <1>8 DEF WroteOut

\* Upload::drain
LEMMA DrainFacts ==
  ASSUME NEW up \in UploadState, NEW content \in Seq(Unit), Written(up, content)
  PROVE  WroteOut(Taken(up), Drain(up, content), up.out)
<1>1. Taken(up) \in UploadState /\ Written(Taken(up), content)
  BY EmptySeq DEF Taken, UploadState, Written
<1>2. up.out \in Seq(Unit)
  BY DEF UploadState
<1>3. QED BY <1>1, <1>2, WriteOutFacts DEF Drain

LEMMA TakenFacts ==
  ASSUME NEW up \in UploadState
  PROVE  /\ Taken(up).out = <<>> /\ Taken(up).held = up.held
         /\ Taken(up).state = up.state /\ Taken(up).file = up.file
         /\ Taken(up).nar = up.nar /\ Taken(up).nar_size = up.nar_size
  BY DEF Taken, UploadState

\* The encoder took a chunk and kept n units of what it then had.
Encoded(up, e, chunk, n) ==
    /\ e \in UploadState
    /\ e.out \o e.held = (up.out \o up.held) \o chunk
    /\ Len(e.held) = n
    /\ e.state = up.state /\ e.nar = up.nar /\ e.nar_size = up.nar_size
    /\ e.file = up.file /\ e.offset = up.offset

\* The encoder neither loses nor reorders, whatever it keeps back.
LEMMA EncodeFacts ==
  ASSUME NEW up \in UploadState, NEW chunk \in Seq(Unit), NEW n \in Nat,
         n <= Len(up.held) + Len(chunk)
  PROVE  Encoded(up, Encode(up, chunk, n), chunk, n)
<1>1. up.held \in Seq(Unit) /\ up.out \in Seq(Unit)
  BY DEF UploadState
<1>2. PICK all \in Seq(Unit) :
        all = up.held \o chunk /\ Len(all) = Len(up.held) + Len(chunk)
  BY <1>1, ConcatProperties
<1>3. PICK m \in 0 .. Len(all) : m = Len(all) - n /\ Len(all) \in m .. Len(all)
  <2>1. Len(all) \in Nat /\ n <= Len(all)
    BY <1>1, <1>2, LenProperties
  <2>2. Len(all) - n \in 0 .. Len(all) /\ Len(all) \in Len(all) - n .. Len(all)
    BY <2>1
  <2>3. QED BY <2>2
<1>4. PICK first \in Seq(Unit), rest \in Seq(Unit) :
        /\ first = SubSeq(all, 1, m) /\ rest = SubSeq(all, m + 1, Len(all))
        /\ Len(rest) = Len(all) - m
        /\ first \o rest = all
  <2>1. SubSeq(all, 1, m) \in Seq(Unit)
    BY LenProperties
  <2>2. /\ SubSeq(all, m + 1, Len(all)) \in Seq(Unit)
        /\ Len(SubSeq(all, m + 1, Len(all))) = Len(all) - m
        /\ SubSeq(all, 1, m) \o SubSeq(all, m + 1, Len(all))
             = SubSeq(all, 1, Len(all))
    BY <1>3, Cut
  <2>3. SubSeq(all, 1, Len(all)) = all
    BY SubSeqFull
  <2>4. QED BY <2>1, <2>2, <2>3, Zenon
<1>5. Len(rest) = n
  BY <1>3, <1>4, LenProperties
<1>6. PICK out \in Seq(Unit) : out = up.out \o first
  BY <1>1, ConcatProperties
<1>7. PICK e : e = Encode(up, chunk, n)
  OBVIOUS
<1>8. e = [up EXCEPT !.out = out, !.held = rest]
  BY <1>2, <1>3, <1>4, <1>6, <1>7 DEF Encode
<1>9. /\ e \in UploadState /\ e.out = out /\ e.held = rest
      /\ e.state = up.state /\ e.nar = up.nar /\ e.nar_size = up.nar_size
      /\ e.file = up.file /\ e.offset = up.offset
  BY <1>8 DEF UploadState
<1>10. out \o rest = (up.out \o up.held) \o chunk
  <2>1. Associates(up.out, first, rest) /\ Associates(up.out, up.held, chunk)
    BY <1>1, Associative
  <2>2. QED BY <1>2, <1>4, <1>6, <2>1, Zenon DEF Associates
<1>11. QED BY <1>5, <1>7, <1>9, <1>10 DEF Encoded

\* An upload and its file between two chunks.
Receiving(up, content, body) ==
    /\ up \in UploadState /\ up.state = "Receiving"
    /\ Hashed(up, body)
    /\ Flowing(up)
    /\ Written(up, content)
    /\ content \in Seq(Unit)

\* Upload::write
LEMMA WriteFacts ==
  ASSUME NEW u \in Requests, Receiving(upload[u], staging[u], asked[u][2]),
         asked[u][2] \in Bodies, NEW k \in Nat, NEW n \in 0 .. Window,
         upload[u].nar_size + k <= Len(asked[u][2]),
         n <= Len(upload[u].held) + k
  PROVE  Receiving(Write(u, k, n).up, Write(u, k, n).content, asked[u][2])
<1>1. PICK up \in UploadState, body \in Seq(Unit), size \in Nat :
        up = upload[u] /\ body = asked[u][2] /\ size = up.nar_size
  BY BodiesAssumption DEF Receiving, UploadState
<1>2. /\ Hashed(up, body) /\ Flowing(up) /\ Written(up, staging[u])
      /\ up.state = "Receiving" /\ staging[u] \in Seq(Unit)
  BY <1>1 DEF Receiving
<1>3. /\ up.out \in Seq(Unit) /\ up.held \in Seq(Unit) /\ up.nar \in Seq(Unit)
      /\ up.file \in Seq(Unit)
  BY DEF UploadState
<1>4. size \in 0 .. Len(body) /\ size + k \in size .. Len(body)
  BY <1>1, LenProperties
<1>5. PICK chunk \in Seq(Unit) :
        /\ chunk = SubSeq(body, size + 1, size + k) /\ Len(chunk) = k
        /\ SubSeq(body, 1, size) \o chunk = SubSeq(body, 1, size + k)
  <2>1. Len(SubSeq(body, size + 1, size + k)) = size + k - size
    BY <1>4, Cut
  <2>2. size + k - size = k
    OBVIOUS
  <2>3. QED BY <1>4, <2>1, <2>2, Cut
<1>6. PICK nar \in Seq(Unit) :
        nar = up.nar \o chunk /\ nar = SubSeq(body, 1, size + k)
  <2>1. up.nar \o chunk \in Seq(Unit)
    BY <1>3, ConcatProperties
  <2>2. up.nar = SubSeq(body, 1, size)
    BY <1>1, <1>2 DEF Hashed
  <2>3. QED BY <1>5, <2>1, <2>2, Zenon
<1>7. PICK more \in Nat : more = size + k
  OBVIOUS
<1>8. PICK absorbed : absorbed = Absorb(up, chunk)
  OBVIOUS
<1>9. absorbed = [up EXCEPT !.nar = nar, !.nar_size = more]
  BY <1>1, <1>5, <1>6, <1>7, <1>8 DEF Absorb
<1>10. /\ absorbed \in UploadState
       /\ absorbed.nar = nar /\ absorbed.nar_size = more
       /\ absorbed.held = up.held /\ absorbed.out = up.out
       /\ absorbed.file = up.file /\ absorbed.offset = up.offset
       /\ absorbed.state = up.state
  BY <1>9 DEF UploadState
<1>11. PICK e : e = Encode(absorbed, chunk, n)
  OBVIOUS
<1>12. Encoded(absorbed, e, chunk, n)
  <2>1. n \in Nat
    BY SizesAssumption
  <2>2. n <= Len(absorbed.held) + Len(chunk)
    BY <1>1, <1>5, <1>10
  <2>3. QED BY <1>10, <1>11, <2>1, <2>2, EncodeFacts, Zenon
<1>13. /\ e \in UploadState
       /\ e.out \o e.held = (up.out \o up.held) \o chunk
       /\ Len(e.held) = n
       /\ e.state = "Receiving" /\ e.nar = nar /\ e.nar_size = more
       /\ e.file = up.file /\ e.offset = up.offset
  BY <1>2, <1>10, <1>12 DEF Encoded
<1>14. e.file \in Seq(Unit) /\ e.out \in Seq(Unit) /\ e.held \in Seq(Unit)
  BY <1>13 DEF UploadState
<1>15. e.file \o (e.out \o e.held) = nar
  <2>1. PICK flight \in Seq(Unit) : flight = up.out \o up.held
    BY <1>3, ConcatProperties
  <2>2. Associates(up.file, flight, chunk)
    BY <1>3, Associative
  <2>3. up.file \o flight = up.nar
    BY <1>2, <2>1 DEF Flowing
  <2>4. QED BY <1>6, <1>13, <2>1, <2>2, <2>3, Zenon DEF Associates
<1>16. Hashed(e, body) /\ Written(e, staging[u])
  BY <1>1, <1>2, <1>4, <1>6, <1>7, <1>13 DEF Hashed, Written
<1>17. PICK w : w = Write(u, k, n)
  OBVIOUS
<1>18. w = IF Full(e) THEN Drain(e, staging[u])
           ELSE [up |-> e, content |-> staging[u]]
  BY <1>1, <1>5, <1>8, <1>11, <1>17 DEF Write
<1>19. CASE ~Full(e)
  <2>1. w.up = e /\ w.content = staging[u]
    BY <1>18, <1>19
  <2>2. Len(e.out) < DrainThreshold
    BY <1>14, <1>19, SizesAssumption, LenProperties DEF Full
  <2>3. Len(e.held) <= Window
    BY <1>13, SizesAssumption
  <2>4. Flowing(e)
    BY <1>13, <1>15, <2>2, <2>3 DEF Flowing
  <2>5. QED BY <1>1, <1>2, <1>13, <1>16, <1>17, <2>1, <2>4 DEF Receiving
<1>20. CASE Full(e)
  <2>1. WroteOut(Taken(e), w, e.out)
    BY <1>2, <1>13, <1>16, <1>18, <1>20, DrainFacts
  <2>2. /\ w.up \in UploadState /\ w.content \in Seq(Unit)
        /\ Written(w.up, w.content)
        /\ w.up.out = <<>> /\ w.up.held = e.held /\ w.up.file = e.file \o e.out
        /\ w.up.state = "Receiving" /\ w.up.nar = e.nar
        /\ w.up.nar_size = e.nar_size
    BY <1>13, <2>1, TakenFacts DEF WroteOut
  <2>3. (e.file \o e.out) \o e.held = nar
    <3>1. Associates(e.file, e.out, e.held)
      BY <1>14, Associative
    <3>2. QED BY <1>15, <3>1, Zenon DEF Associates
  <2>4. <<>> \o e.held = e.held
    BY <1>14, ConcatEmptySeq
  <2>5. w.up.file \o (w.up.out \o w.up.held) = w.up.nar
    BY <1>13, <2>2, <2>3, <2>4
  <2>6. Len(w.up.out) < DrainThreshold /\ Len(w.up.held) <= Window
    BY <1>13, <2>2, SizesAssumption, EmptySeq
  <2>7. Flowing(w.up) /\ Hashed(w.up, body)
    BY <1>16, <2>2, <2>5, <2>6 DEF Flowing, Hashed
  <2>8. QED BY <1>1, <1>17, <2>2, <2>7 DEF Receiving
<1>21. QED BY <1>19, <1>20

\* An upload and its file after `finish`.
Ready(up, content, body) ==
    /\ up \in UploadState /\ up.state = "Compressed"
    /\ Hashed(up, body)
    /\ Complete(up, body)
    /\ Written(up, content)
    /\ content \in Seq(Unit)

\* Upload::finish
LEMMA FinishFacts ==
  ASSUME NEW u \in Requests, Receiving(upload[u], staging[u], asked[u][2]),
         asked[u][2] \in Bodies, BodyRead(u)
  PROVE  Ready(Finish(u).up, Finish(u).content, asked[u][2])
<1>1. PICK up \in UploadState, body \in Seq(Unit) :
        up = upload[u] /\ body = asked[u][2]
  BY BodiesAssumption DEF Receiving
<1>2. /\ Hashed(up, body) /\ Flowing(up) /\ Written(up, staging[u])
      /\ staging[u] \in Seq(Unit)
  BY <1>1 DEF Receiving
<1>3. /\ up.out \in Seq(Unit) /\ up.held \in Seq(Unit) /\ up.nar \in Seq(Unit)
      /\ up.file \in Seq(Unit) /\ <<Epilogue>> \in Seq(Unit)
  BY DEF UploadState, Unit
<1>4. up.nar = body /\ up.nar_size = Len(body)
  BY <1>1, <1>2, SubSeqFull DEF Hashed, BodyRead
<1>5. PICK d : d = Drain(up, staging[u])
  OBVIOUS
<1>6. WroteOut(Taken(up), d, up.out)
  BY <1>2, <1>5, DrainFacts
<1>7. /\ d.up \in UploadState /\ d.content \in Seq(Unit)
      /\ Written(d.up, d.content)
      /\ d.up.file = up.file \o up.out /\ d.up.held = up.held /\ d.up.out = <<>>
      /\ d.up.nar = up.nar /\ d.up.nar_size = up.nar_size
  BY <1>6, TakenFacts DEF WroteOut
<1>8. PICK tail \in Seq(Unit) : tail = up.held \o <<Epilogue>>
  BY <1>3, ConcatProperties
<1>9. PICK f : f = Finished(d.up, d.content)
  OBVIOUS
<1>10. WroteOut(d.up, f, tail)
  BY <1>7, <1>8, <1>9, WriteOutFacts DEF Finished
<1>11. /\ f = [up |-> f.up, content |-> f.content]
       /\ f.up \in UploadState /\ f.content \in Seq(Unit)
       /\ Written(f.up, f.content)
       /\ f.up.file = d.up.file \o tail /\ f.up.out = <<>>
       /\ f.up.nar = up.nar /\ f.up.nar_size = up.nar_size
  BY <1>7, <1>10 DEF WroteOut
<1>12. d.up.file \o tail = Compressed(body)
  <2>1. up.file \o up.out \in Seq(Unit)
    BY <1>3, ConcatProperties
  <2>2. /\ Associates(up.file \o up.out, up.held, <<Epilogue>>)
        /\ Associates(up.file, up.out, up.held)
    BY <1>3, <2>1, Associative
  <2>3. ((up.file \o up.out) \o up.held) \o <<Epilogue>> = d.up.file \o tail
    BY <1>7, <1>8, <2>2, Zenon DEF Associates
  <2>4. (up.file \o up.out) \o up.held = body
    BY <1>2, <1>4, <2>2, Zenon DEF Associates, Flowing
  <2>5. QED BY <2>3, <2>4, Zenon DEF Compressed
<1>13. PICK w : w = Finish(u)
  OBVIOUS
<1>14. /\ w.up = [f.up EXCEPT !.state = "Compressed", !.held = <<>>,
                              !.file_size = f.up.offset]
       /\ w.content = f.content
  BY <1>1, <1>5, <1>9, <1>11, <1>13 DEF Finish
<1>15. /\ w.up \in UploadState /\ w.up.state = "Compressed"
       /\ w.up.held = <<>> /\ w.up.out = <<>> /\ w.up.file = f.up.file
       /\ w.up.offset = f.up.offset /\ w.up.file_size = f.up.offset
       /\ w.up.nar = up.nar /\ w.up.nar_size = up.nar_size
  BY <1>11, <1>14, EmptySeq DEF UploadState
<1>16. Hashed(w.up, body) /\ Written(w.up, w.content)
  BY <1>2, <1>11, <1>14, <1>15 DEF Hashed, Written
<1>17. Complete(w.up, body)
  BY <1>4, <1>11, <1>12, <1>15 DEF Complete, Written
<1>18. QED BY <1>1, <1>11, <1>13, <1>14, <1>15, <1>16, <1>17 DEF Ready

-----------------------------------------------------------------------------
(* The invariant.                                                          *)

LEMMA CompressedType ==
  ASSUME NEW n \in Bodies
  PROVE  Compressed(n) \in Seq(Unit) /\ EntryOf(n) \in Entry /\ EntryOf(n) # None
<1>1. n \in Seq(Unit) /\ <<Epilogue>> \in Seq(Unit)
  BY BodiesAssumption DEF Unit
<1>2. PICK c \in Seq(Unit) : c = Compressed(n)
  BY <1>1, ConcatProperties DEF Compressed
<1>3. Len(c) \in Nat /\ Len(n) \in Nat
  BY <1>1, LenProperties
<1>4. EntryOf(n) \in Entry
  BY <1>2, <1>3 DEF EntryOf, Entry
<1>5. QED BY <1>2, <1>4, NoneAssumption

\* A request has a target and a body.
LEMMA AskedPair ==
  ASSUME TypeOK, NEW u \in Requests, asked[u] # NoRequest
  PROVE  asked[u][1] \in Targets /\ asked[u][2] \in Bodies
  BY DEF TypeOK

LEMMA OpenPair ==
  ASSUME TypeOK, UploadInv, NEW u \in Requests, upload[u] # None
  PROVE  /\ asked[u] # NoRequest /\ told[u] = Silence
         /\ asked[u][1] \in Targets /\ asked[u][2] \in Bodies
         /\ upload[u] \in UploadState /\ Progress(u)
  BY AskedPair DEF TypeOK, UploadInv, OpenInv

LEMMA NowReceiving ==
  ASSUME TypeOK, UploadInv, NEW u \in Requests, InState(u, "Receiving")
  PROVE  Receiving(upload[u], staging[u], asked[u][2])
<1>1. /\ upload[u] \in UploadState /\ upload[u].state = "Receiving"
      /\ Progress(u)
  BY OpenPair DEF InState
<1>2. /\ Hashed(upload[u], asked[u][2]) /\ Flowing(upload[u])
      /\ Written(upload[u], staging[u])
  BY <1>1 DEF Progress
<1>3. staging[u] \in Seq(Unit)
  BY <1>1, <1>2 DEF Written, UploadState
<1>4. QED BY <1>1, <1>2, <1>3 DEF Receiving

\* An upload nobody moves stands, whatever else is stored and recorded.
LEMMA ProgressStands ==
  ASSUME NEW v \in Requests, upload[v] # None, Progress(v),
         upload'[v] = upload[v], asked'[v] = asked[v], staging'[v] = staging[v],
         artifacts \subseteq artifacts', asked[v][2] \in Bodies,
         \A n \in Bodies : rows[n] # None => rows'[n] # None
  PROVE  Progress(v)'
  BY DEF Progress

\* What every step leaves: the requests it is not about, what is stored, what is
\* recorded.
Others(u) ==
    /\ \A v \in Requests \ {u} :
          /\ upload'[v] = upload[v] /\ asked'[v] = asked[v]
          /\ staging'[v] = staging[v] /\ told'[v] = told[v]
    /\ artifacts \subseteq artifacts'
    /\ \A n \in Bodies : rows[n] # None => rows'[n] # None

\* What is left to show of a step of one request.
LEMMA OneRequest ==
  ASSUME TypeOK, UploadInv, NEW u \in Requests, Others(u),
         upload'[u] # None <=> (asked'[u] # NoRequest /\ told'[u] = Silence),
         upload'[u] # None => asked'[u][1].compression = "none" /\ Progress(u)',
         asked'[u] = NoRequest => told'[u] = Silence,
         artifacts' \subseteq {Stored(n) : n \in Bodies \ {<<>>}},
         \A n \in Bodies : rows'[n] # None =>
             rows'[n] = EntryOf(n) /\ Stored(n) \in artifacts'
  PROVE  UploadInv'
<1>1. ASSUME NEW v \in Requests, v # u, upload'[v] # None
      PROVE  Progress(v)'
  <2>1. upload[v] # None /\ asked[v][2] \in Bodies /\ Progress(v)
    BY <1>1, OpenPair DEF Others
  <2>2. QED BY <1>1, <2>1, ProgressStands DEF Others
<1>2. OpenInv'
  BY DEF UploadInv, OpenInv, Others
<1>3. \A v \in Requests : upload'[v] # None => Progress(v)'
  BY <1>1
<1>4. QED BY <1>2, <1>3, Zenon DEF UploadInv

\* A step that leaves the artifacts and the rows.
LEMMA StoreStands ==
  ASSUME UploadInv, UNCHANGED <<artifacts, rows>>
  PROVE  /\ artifacts' \subseteq {Stored(n) : n \in Bodies \ {<<>>}}
         /\ \A n \in Bodies : rows'[n] # None =>
              rows'[n] = EntryOf(n) /\ Stored(n) \in artifacts'
         /\ artifacts \subseteq artifacts'
         /\ \A n \in Bodies : rows[n] # None => rows'[n] # None
  BY DEF UploadInv

LEMMA StatusFacts ==
  /\ StatusOf("PreCompressed") = 400 /\ StatusOf("HashMismatch") = 400
  /\ StatusOf("Empty") = 400
  /\ StatusOf("Stage") = 500 /\ StatusOf("Compress") = 500
  BY DEF StatusOf, FaultOf, ClientError, ServerError

LEMMA InitInv == Init => TypeOK /\ UploadInv
<1> SUFFICES ASSUME Init
             PROVE  TypeOK /\ UploadInv
  OBVIOUS
<1>1. TypeOK
  BY DEF Init, TypeOK
<1>2. UploadInv
  BY DEF Init, UploadInv, OpenInv
<1>3. QED BY <1>1, <1>2

LEMMA StartedFacts ==
  /\ Started \in UploadState /\ Started # None
  /\ \A b \in Bodies : Receiving(Started, <<>>, b)
<1>1. Started \in UploadState
  BY EmptySeq DEF Started, UploadState
<1>2. ASSUME NEW b \in Bodies
      PROVE  Receiving(Started, <<>>, b)
  <2>1. Len(b) \in Nat /\ SubSeq(b, 1, 0) = <<>>
    BY BodiesAssumption, LenProperties, SubSeqEmpty
  <2>2. Hashed(Started, b)
    BY <2>1 DEF Hashed, Started
  <2>3. <<>> \in Seq(Unit) /\ Len(<<>>) = 0
    BY EmptySeq
  <2>4. <<>> \o <<>> = <<>>
    BY <2>3, ConcatEmptySeq
  <2>5. Flowing(Started)
    BY <2>3, <2>4, SizesAssumption DEF Flowing, Started
  <2>6. Written(Started, <<>>)
    BY <2>3 DEF Written, Started
  <2>7. QED BY <1>1, <2>2, <2>3, <2>5, <2>6 DEF Receiving, Started
<1>3. QED BY <1>1, <1>2, NoneAssumption

LEMMA ReceiveStep ==
  ASSUME TypeOK, UploadInv, NEW u \in Requests, Receive(u)
  PROVE  TypeOK' /\ UploadInv'
<1>1. PICK t \in Targets, b \in Bodies :
        /\ asked' = [asked EXCEPT ![u] = <<t, b>>]
        /\ \/ /\ t.compression = "none"
              /\ upload' = [upload EXCEPT ![u] = Started]
              /\ staging' = [staging EXCEPT ![u] = <<>>]
              /\ UNCHANGED told
           \/ /\ \E error \in IF t.compression = "none"
                              THEN {"Stage", "Compress"} ELSE {"PreCompressed"} :
                     Tell(u, StatusOf(error))
              /\ UNCHANGED <<upload, staging>>
  BY DEF Receive
<1>2. /\ asked[u] = NoRequest /\ told[u] = Silence /\ upload[u] = None
      /\ UNCHANGED <<artifacts, rows>>
  BY DEF Receive, UploadInv, OpenInv
<1>3. /\ asked'[u] = <<t, b>> /\ asked'[u] # NoRequest
      /\ asked'[u][1] = t /\ asked'[u][2] = b
      /\ \A v \in Requests \ {u} : asked'[v] = asked[v]
      /\ asked' \in [Requests -> {NoRequest} \cup (Targets \X Bodies)]
  BY <1>1 DEF TypeOK, NoRequest
<1>4. CASE /\ t.compression = "none"
           /\ upload' = [upload EXCEPT ![u] = Started]
           /\ staging' = [staging EXCEPT ![u] = <<>>]
           /\ UNCHANGED told
  <2>1. TypeOK'
    BY <1>2, <1>3, <1>4, StartedFacts, EmptySeq DEF TypeOK
  <2>2. upload'[u] = Started /\ staging'[u] = <<>> /\ told'[u] = Silence
    BY <1>2, <1>4 DEF TypeOK
  <2>3. Progress(u)'
    <3>1. Receiving(upload'[u], staging'[u], asked'[u][2])
      BY <1>3, <2>2, StartedFacts
    <3>2. QED BY <3>1 DEF Receiving, Progress
  <2>4. Others(u)
    BY <1>2, <1>3, <1>4 DEF Others, TypeOK
  <2>5. UploadInv'
    BY <1>2, <1>3, <1>4, <2>2, <2>3, <2>4, OneRequest, StoreStands, StartedFacts
  <2>6. QED BY <2>1, <2>5
<1>5. CASE /\ \E error \in IF t.compression = "none"
                           THEN {"Stage", "Compress"} ELSE {"PreCompressed"} :
                  Tell(u, StatusOf(error))
           /\ UNCHANGED <<upload, staging>>
  <2>1. PICK status \in {400, 500} : told' = [told EXCEPT ![u] = status]
    <3>1. PICK error \in {"Stage", "Compress", "PreCompressed"} :
            Tell(u, StatusOf(error))
      BY <1>5
    <3>2. StatusOf(error) \in {400, 500}
      BY StatusFacts
    <3>3. QED BY <3>1, <3>2 DEF Tell
  <2>2. TypeOK' /\ told'[u] # Silence
    BY <1>2, <1>3, <1>5, <2>1 DEF TypeOK, Silence
  <2>3. Others(u)
    BY <1>2, <1>3, <1>5, <2>1 DEF Others, TypeOK
  <2>4. UploadInv'
    BY <1>2, <1>3, <1>5, <2>2, <2>3, OneRequest, StoreStands
  <2>5. QED BY <2>2, <2>4
<1>6. QED BY <1>1, <1>4, <1>5

LEMMA ReceivingSteps ==
  ASSUME TypeOK, UploadInv, NEW u \in Requests, WriteChunk(u) \/ FinishUpload(u)
  PROVE  TypeOK' /\ UploadInv'
<1>1. /\ InState(u, "Receiving") /\ upload[u] # None
      /\ UNCHANGED <<asked, told, artifacts, rows>>
  BY DEF WriteChunk, FinishUpload, InState
<1>2. Receiving(upload[u], staging[u], asked[u][2])
  BY <1>1, NowReceiving
<1>3. PICK body \in Bodies : body = asked[u][2]
  BY <1>1, OpenPair
<1>4. PICK up \in UploadState, content \in Seq(Unit) :
        /\ upload' = [upload EXCEPT ![u] = up]
        /\ staging' = [staging EXCEPT ![u] = content]
        /\ Receiving(up, content, body) \/ Ready(up, content, body)
  <2>1. CASE WriteChunk(u)
    <3>1. PICK k \in 1 .. ReadChunk, n \in 0 .. Window :
            /\ upload[u].nar_size + k <= Len(asked[u][2])
            /\ n <= Len(upload[u].held) + k
            /\ Became(u, Write(u, k, n))
      BY <2>1 DEF WriteChunk
    <3>2. k \in Nat
      BY SizesAssumption
    <3>3. Receiving(Write(u, k, n).up, Write(u, k, n).content, body)
      BY <1>2, <1>3, <3>1, <3>2, WriteFacts
    <3>4. QED BY <3>1, <3>3 DEF Became, Receiving
  <2>2. CASE FinishUpload(u)
    <3>1. Ready(Finish(u).up, Finish(u).content, body)
      BY <1>2, <1>3, <2>2, FinishFacts DEF FinishUpload
    <3>2. QED BY <2>2, <3>1 DEF FinishUpload, Became, Ready
  <2>3. QED BY <2>1, <2>2
<1>5. upload'[u] = up /\ staging'[u] = content /\ up # None
  BY <1>4, NoneAssumption DEF TypeOK
<1>6. TypeOK'
  BY <1>1, <1>4 DEF TypeOK
<1>7. Progress(u)'
  BY <1>1, <1>3, <1>4, <1>5 DEF Receiving, Ready, Progress
<1>8. Others(u)
  BY <1>1, <1>4 DEF Others, TypeOK
<1>9. UploadInv'
  <2>1. /\ asked[u] # NoRequest /\ told[u] = Silence
        /\ asked[u][1].compression = "none"
    BY <1>1 DEF UploadInv, OpenInv
  <2>2. QED BY <1>1, <1>5, <1>7, <1>8, <2>1, OneRequest, StoreStands
<1>10. QED BY <1>6, <1>9

\* verify accepts the body its target names, and no empty one.
LEMMA MismatchFacts ==
  ASSUME TypeOK, UploadInv, NEW u \in Requests, InState(u, "Compressed")
  PROVE  /\ Mismatch(u) \subseteq {"HashMismatch", "Empty"}
         /\ Mismatch(u) = {} <=> (asked[u][2] = asked[u][1].hash /\ asked[u][2] # <<>>)
<1>1. /\ asked[u][2] \in Bodies /\ Complete(upload[u], asked[u][2])
  BY OpenPair DEF InState, Progress
<1>2. asked[u][2] \in Seq(Unit)
  BY <1>1, BodiesAssumption
<1>3. Len(asked[u][2]) = 0 <=> asked[u][2] = <<>>
  BY <1>2, EmptySeq
<1>4. QED BY <1>1, <1>3 DEF Mismatch, Complete

\* A step from one state to the next keeps the fields.
LEMMA NextState ==
  ASSUME TypeOK, NEW u \in Requests, upload[u] \in UploadState,
         NEW state \in {"Verified", "Committed", "Recorded"},
         upload' = [upload EXCEPT ![u].state = state]
  PROVE  /\ upload' \in [Requests -> UploadState \cup {None}]
         /\ upload'[u] \in UploadState /\ upload'[u] # None
         /\ upload'[u].state = state
         /\ \A body : Hashed(upload[u], body) => Hashed(upload'[u], body)
         /\ \A body : Complete(upload[u], body) => Complete(upload'[u], body)
         /\ \A content : Written(upload[u], content) => Written(upload'[u], content)
         /\ \A v \in Requests \ {u} : upload'[v] = upload[v]
<1>1. PICK up \in UploadState : up = [upload[u] EXCEPT !.state = state]
  BY DEF UploadState
<1>2. upload'[u] = up /\ upload' = [upload EXCEPT ![u] = up]
  BY <1>1 DEF TypeOK
<1>3. /\ up.state = state /\ up.nar = upload[u].nar
      /\ up.nar_size = upload[u].nar_size /\ up.held = upload[u].held
      /\ up.out = upload[u].out /\ up.file = upload[u].file
      /\ up.offset = upload[u].offset /\ up.file_size = upload[u].file_size
  BY <1>1 DEF UploadState
<1>4. /\ \A body : Hashed(upload[u], body) => Hashed(up, body)
      /\ \A body : Complete(upload[u], body) => Complete(up, body)
      /\ \A content : Written(upload[u], content) => Written(up, content)
  BY <1>3, Zenon DEF Hashed, Complete, Written
<1>5. QED BY <1>2, <1>3, <1>4, NoneAssumption DEF TypeOK

LEMMA VerifyStep ==
  ASSUME TypeOK, UploadInv, NEW u \in Requests, Verify(u)
  PROVE  TypeOK' /\ UploadInv'
<1>1. /\ InState(u, "Compressed") /\ upload[u] # None
      /\ upload[u].state = "Compressed" /\ Mismatch(u) = {}
      /\ upload' = [upload EXCEPT ![u].state = "Verified"]
      /\ UNCHANGED <<asked, told, staging, artifacts, rows>>
  BY DEF Verify, InState
<1>2. /\ upload[u] \in UploadState /\ Progress(u) /\ asked[u] # NoRequest
      /\ told[u] = Silence /\ asked[u][1].compression = "none"
  BY <1>1, OpenPair DEF UploadInv, OpenInv
<1>3. /\ upload' \in [Requests -> UploadState \cup {None}]
      /\ upload'[u] # None /\ upload'[u].state = "Verified"
      /\ Hashed(upload'[u], asked[u][2]) /\ Complete(upload'[u], asked[u][2])
      /\ Written(upload'[u], staging[u])
      /\ \A v \in Requests \ {u} : upload'[v] = upload[v]
  BY <1>1, <1>2, NextState DEF Progress
<1>4. Progress(u)'
  BY <1>1, <1>3, MismatchFacts DEF Progress
<1>5. TypeOK' /\ Others(u)
  BY <1>1, <1>3 DEF TypeOK, Others
<1>6. QED BY <1>1, <1>2, <1>3, <1>4, <1>5, OneRequest, StoreStands

\* A rename puts the compressed body under its name, and changes no other.
LEMMA CommitStores ==
  ASSUME TypeOK, UploadInv, NEW u \in Requests, Commit(u)
  PROVE  /\ asked[u][2] \in Bodies \ {<<>>}
         /\ artifacts' = artifacts \cup {Stored(asked[u][2])}
<1>1. /\ upload[u] # None /\ upload[u].state = "Verified"
      /\ artifacts' = {a \in artifacts : a.name # upload[u].file}
           \cup {[name |-> upload[u].file, content |-> staging[u]]}
  BY DEF Commit, InState
<1>2. PICK body \in Bodies : body = asked[u][2]
  BY <1>1, OpenPair
<1>3. /\ body # <<>> /\ upload[u].file = Compressed(body)
      /\ staging[u] = Compressed(body)
  BY <1>1, <1>2, OpenPair DEF Progress, Complete, Written
<1>4. artifacts' = {a \in artifacts : a.name # Compressed(body)} \cup {Stored(body)}
  BY <1>1, <1>3 DEF Stored
<1>5. ASSUME NEW a \in artifacts, a.name = Compressed(body)
      PROVE  a = Stored(body)
  <2>1. PICK n \in Bodies : a = Stored(n)
    BY DEF UploadInv
  <2>2. Compressed(n) = Compressed(body)
    BY <1>5, <2>1 DEF Stored
  <2>3. QED BY <2>1, <2>2 DEF Stored
<1>6. artifacts' = artifacts \cup {Stored(body)}
  BY <1>4, <1>5
<1>7. QED BY <1>2, <1>3, <1>6

LEMMA CommitStep ==
  ASSUME TypeOK, UploadInv, NEW u \in Requests, Commit(u)
  PROVE  TypeOK' /\ UploadInv'
<1>1. /\ upload[u] # None /\ upload[u].state = "Verified"
      /\ upload' = [upload EXCEPT ![u].state = "Committed"]
      /\ staging' = [staging EXCEPT ![u] = NoFile]
      /\ UNCHANGED <<asked, told, rows>>
  BY DEF Commit, InState
<1>2. /\ upload[u] \in UploadState /\ Progress(u) /\ asked[u] # NoRequest
      /\ told[u] = Silence /\ asked[u][1].compression = "none"
  BY <1>1, OpenPair DEF UploadInv, OpenInv
<1>3. /\ upload' \in [Requests -> UploadState \cup {None}]
      /\ upload'[u] # None /\ upload'[u].state = "Committed"
      /\ Hashed(upload'[u], asked[u][2]) /\ Complete(upload'[u], asked[u][2])
      /\ \A v \in Requests \ {u} : upload'[v] = upload[v]
  BY <1>1, <1>2, NextState DEF Progress
<1>4. PICK body \in Bodies \ {<<>>} :
        body = asked[u][2] /\ artifacts' = artifacts \cup {Stored(body)}
  BY CommitStores
<1>5. Progress(u)'
  BY <1>1, <1>2, <1>3, <1>4 DEF Progress
<1>6. TypeOK' /\ Others(u)
  BY <1>1, <1>3, <1>4 DEF TypeOK, Others
<1>7. artifacts' \subseteq {Stored(n) : n \in Bodies \ {<<>>}}
  BY <1>4 DEF UploadInv
<1>8. \A n \in Bodies : rows'[n] # None =>
        rows'[n] = EntryOf(n) /\ Stored(n) \in artifacts'
  BY <1>1, <1>4 DEF UploadInv
<1>9. QED BY <1>1, <1>2, <1>3, <1>5, <1>6, <1>7, <1>8, OneRequest

\* The row that is put is the true one.
LEMMA RecordPuts ==
  ASSUME TypeOK, UploadInv, NEW u \in Requests, Record(u)
  PROVE  /\ asked[u][2] \in Bodies /\ Stored(asked[u][2]) \in artifacts
         /\ rows' = [rows EXCEPT ![asked[u][2]] = EntryOf(asked[u][2])]
<1>1. /\ upload[u] # None /\ upload[u].state = "Committed"
      /\ rows' = [rows EXCEPT ![upload[u].nar] =
           [file_hash |-> upload[u].file, file_size |-> upload[u].file_size,
            nar_size |-> upload[u].nar_size]]
  BY DEF Record, InState
<1>2. /\ asked[u][2] \in Bodies /\ Complete(upload[u], asked[u][2])
      /\ Stored(asked[u][2]) \in artifacts
  BY <1>1, OpenPair DEF Progress
<1>3. QED BY <1>1, <1>2 DEF Complete, EntryOf

LEMMA RecordStep ==
  ASSUME TypeOK, UploadInv, NEW u \in Requests, Record(u)
  PROVE  TypeOK' /\ UploadInv'
<1>1. /\ upload[u] # None /\ upload[u].state = "Committed"
      /\ upload' = [upload EXCEPT ![u].state = "Recorded"]
      /\ UNCHANGED <<asked, told, staging, artifacts>>
  BY DEF Record, InState
<1>2. /\ upload[u] \in UploadState /\ Progress(u) /\ asked[u] # NoRequest
      /\ told[u] = Silence /\ asked[u][1].compression = "none"
  BY <1>1, OpenPair DEF UploadInv, OpenInv
<1>3. /\ upload' \in [Requests -> UploadState \cup {None}]
      /\ upload'[u] # None /\ upload'[u].state = "Recorded"
      /\ Hashed(upload'[u], asked[u][2]) /\ Complete(upload'[u], asked[u][2])
      /\ \A v \in Requests \ {u} : upload'[v] = upload[v]
  BY <1>1, <1>2, NextState DEF Progress
<1>4. PICK body \in Bodies :
        /\ body = asked[u][2] /\ Stored(body) \in artifacts
        /\ rows' = [rows EXCEPT ![body] = EntryOf(body)]
  BY RecordPuts
<1>5. EntryOf(body) \in Entry /\ EntryOf(body) # None
  BY CompressedType
<1>6. /\ rows' \in [Bodies -> Entry \cup {None}]
      /\ rows'[body] = EntryOf(body)
      /\ \A n \in Bodies \ {body} : rows'[n] = rows[n]
  BY <1>4, <1>5 DEF TypeOK
<1>7. Progress(u)'
  BY <1>1, <1>2, <1>3, <1>4, <1>5, <1>6 DEF Progress
<1>8. TypeOK' /\ Others(u)
  BY <1>1, <1>3, <1>5, <1>6 DEF TypeOK, Others
<1>9. artifacts' \subseteq {Stored(n) : n \in Bodies \ {<<>>}}
  BY <1>1 DEF UploadInv
<1>10. \A n \in Bodies : rows'[n] # None =>
         rows'[n] = EntryOf(n) /\ Stored(n) \in artifacts'
  BY <1>1, <1>4, <1>6 DEF UploadInv
<1>11. QED BY <1>1, <1>2, <1>3, <1>7, <1>8, <1>9, <1>10, OneRequest

\* The ways a request ends.
LEMMA EndStep ==
  ASSUME TypeOK, UploadInv, NEW u \in Requests, Refuse(u) \/ Created(u) \/ Fail(u)
  PROVE  TypeOK' /\ UploadInv'
<1>1. PICK status \in {Closed, 201, 400} :
        /\ told' = [told EXCEPT ![u] = status]
        /\ upload' = [upload EXCEPT ![u] = None]
        /\ \/ staging' = [staging EXCEPT ![u] = NoFile]
           \/ UNCHANGED staging
        /\ UNCHANGED <<asked, artifacts, rows>>
        /\ upload[u] # None
  BY MismatchFacts, StatusFacts DEF Refuse, Created, Fail, Drop, Tell, InState
<1>2. TypeOK' /\ told'[u] # Silence /\ upload'[u] = None
  BY <1>1 DEF TypeOK, Silence, Closed
<1>3. Others(u)
  BY <1>1 DEF Others, TypeOK
<1>4. asked'[u] # NoRequest
  BY <1>1, OpenPair
<1>5. QED BY <1>1, <1>2, <1>3, <1>4, OneRequest, StoreStands

LEMMA RestartStep ==
  ASSUME TypeOK, UploadInv, Restart
  PROVE  TypeOK' /\ UploadInv'
<1>1. /\ told' = [u \in Requests |-> IF upload[u] # None THEN Closed ELSE told[u]]
      /\ upload' = [u \in Requests |-> None]
      /\ staging' = [u \in Requests |-> NoFile]
      /\ UNCHANGED <<asked, artifacts, rows>>
  BY DEF Restart
<1>2. TypeOK'
  BY <1>1 DEF TypeOK
<1>3. OpenInv'
  BY <1>1 DEF UploadInv, OpenInv, Closed, Silence
<1>4. QED BY <1>1, <1>2, <1>3 DEF UploadInv

LEMMA UploadStep == TypeOK /\ UploadInv /\ [Next]_vars => TypeOK' /\ UploadInv'
<1> SUFFICES ASSUME TypeOK, UploadInv, [Next]_vars
             PROVE  TypeOK' /\ UploadInv'
  OBVIOUS
<1>1. CASE \E u \in Requests : Receive(u)
  BY <1>1, ReceiveStep
<1>2. CASE \E u \in Requests : WriteChunk(u) \/ FinishUpload(u)
  BY <1>2, ReceivingSteps
<1>3. CASE \E u \in Requests : Verify(u)
  BY <1>3, VerifyStep
<1>4. CASE \E u \in Requests : Commit(u)
  BY <1>4, CommitStep
<1>5. CASE \E u \in Requests : Record(u)
  BY <1>5, RecordStep
<1>6. CASE \E u \in Requests : Refuse(u) \/ Created(u) \/ Fail(u)
  BY <1>6, EndStep
<1>7. CASE Restart
  BY <1>7, RestartStep
<1>8. CASE UNCHANGED vars
  BY <1>8 DEF vars, TypeOK, UploadInv, OpenInv, Progress
<1>9. QED
  BY <1>1, <1>2, <1>3, <1>4, <1>5, <1>6, <1>7, <1>8 DEF Next, Proceed

LEMMA UploadInvariant == Spec => [](TypeOK /\ UploadInv)
  BY InitInv, UploadStep, PTL DEF Spec

-----------------------------------------------------------------------------
(* What it shows.                                                          *)

\* Under the name that is the digest of a compressed NAR lies that compressed
\* NAR, byte for byte: for bodies of any length, READ_CHUNK and DRAIN_THRESHOLD
\* of any size, an encoder that keeps back what it likes (Upload::write, drain
\* and finish; Staged::write and commit), failures and restarts anywhere.
THEOREM AddressIsContent == Spec => []ContentAddressed
<1>1. UploadInv => ContentAddressed
  BY DEF UploadInv, ContentAddressed, Stored
<1>2. QED BY <1>1, UploadInvariant, PTL

\* A row of NAR is of an artifact that is there, decompresses to the NAR of its
\* key, and has both sizes right (Upload::store writes it after the rename, with
\* the size `finish` took after the tail).
THEOREM RowsAreTrue == Spec => []RowsDescribe
<1>1. UploadInv => RowsDescribe
  <2> SUFFICES ASSUME UploadInv, NEW n \in Bodies, rows[n] # None
               PROVE  \E a \in artifacts :
                        /\ a.name = rows[n].file_hash
                        /\ a.content = Compressed(n)
                        /\ rows[n].file_size = Len(a.content)
                        /\ rows[n].nar_size = Len(n)
    BY DEF RowsDescribe
  <2>1. rows[n] = EntryOf(n) /\ Stored(n) \in artifacts
    BY DEF UploadInv
  <2>2. /\ Stored(n).name = rows[n].file_hash
        /\ Stored(n).content = Compressed(n)
        /\ rows[n].file_size = Len(Stored(n).content)
        /\ rows[n].nar_size = Len(n)
    BY <2>1 DEF Stored, EntryOf
  <2>3. QED BY <2>1, <2>2
<1>2. QED BY <1>1, UploadInvariant, PTL

\* Between two chunks an upload holds less than DRAIN_THRESHOLD of compressed
\* output, and with what the encoder keeps less than that and its window,
\* however long the body is (Upload::write).
THEOREM MemoryStaysBounded == Spec => []MemoryBounded
<1>1. TypeOK /\ UploadInv => MemoryBounded
  <2> SUFFICES ASSUME TypeOK, UploadInv, NEW u \in Requests, upload[u] # None
               PROVE  /\ Len(upload[u].out) < DrainThreshold
                      /\ Len(upload[u].out) + Len(upload[u].held)
                           < DrainThreshold + Window
    BY DEF MemoryBounded
  <2>1. upload[u] \in UploadState /\ Progress(u)
    BY OpenPair
  <2>2. Len(upload[u].out) \in Nat /\ Len(upload[u].held) \in Nat
    BY <2>1, LenProperties DEF UploadState
  <2>3. CASE upload[u].state = "Receiving"
    <3>1. Flowing(upload[u])
      BY <2>1, <2>3 DEF Progress
    <3>2. Len(upload[u].out) < DrainThreshold /\ Len(upload[u].held) <= Window
      BY <3>1, Zenon DEF Flowing
    <3>3. PICK o \in Nat, h \in Nat :
            o = Len(upload[u].out) /\ h = Len(upload[u].held)
      BY <2>2, Zenon
    <3>4. o < DrainThreshold /\ h <= Window
      BY <3>2, <3>3, Zenon
    <3>5. o + h < DrainThreshold + Window
      BY <3>4, SizesAssumption
    <3>6. QED BY <3>2, <3>3, <3>5, Zenon
  <2>4. CASE upload[u].state # "Receiving"
    <3>1. upload[u].out = <<>> /\ upload[u].held = <<>>
      BY <2>1, <2>4 DEF Progress, Complete
    <3>2. QED BY <3>1, SizesAssumption, EmptySeq
  <2>5. QED BY <2>3, <2>4
<1>2. QED BY <1>1, UploadInvariant, PTL

-----------------------------------------------------------------------------
(* The refinement.                                                         *)

\* The abstract state, as the refinement mapping of Upload has it.
Kept == {n \in Bodies : rows[n] # None}

LEMMA KeptStands == UNCHANGED rows => UNCHANGED Kept
  BY DEF Kept

LEMMA ReceiveAsks ==
  ASSUME TypeOK, UploadInv, NEW u \in Requests, Receive(u)
  PROVE  Abstract!Ask(u)
<1>1. PICK t \in Targets, b \in Bodies :
        /\ asked' = [asked EXCEPT ![u] = <<t, b>>]
        /\ \/ /\ t.compression = "none"
              /\ UNCHANGED told
           \/ \E error \in IF t.compression = "none"
                           THEN {"Stage", "Compress"} ELSE {"PreCompressed"} :
                  Tell(u, StatusOf(error))
  BY DEF Receive
<1>2. asked[u] = NoRequest /\ told[u] = Silence /\ UNCHANGED rows
  BY DEF Receive, UploadInv, OpenInv
<1>3. asked'[u] = <<t, b>> /\ asked'[u][1] = t
  BY <1>1 DEF TypeOK
<1>4. \E x \in {-1, 400, 500} :
         (x = 400 => ~Abstract!Acceptable(asked'[u])) /\ Tell(u, x)
  <2>1. CASE UNCHANGED told
    <3>1. Tell(u, -1)
      BY <1>2, <2>1 DEF TypeOK, Silence, Tell
    <3>2. QED BY <3>1
  <2>2. CASE \E error \in {"Stage", "Compress"} : Tell(u, StatusOf(error))
    <3>1. Tell(u, 500)
      <4>1. PICK error \in {"Stage", "Compress"} : Tell(u, StatusOf(error))
        BY <2>2
      <4>2. StatusOf(error) = 500
        BY StatusFacts
      <4>3. QED BY <4>1, <4>2
    <3>2. QED BY <3>1
  <2>3. CASE t.compression # "none" /\ Tell(u, StatusOf("PreCompressed"))
    <3>1. Tell(u, 400)
      BY <2>3, StatusFacts
    <3>2. ~Abstract!Acceptable(asked'[u])
      BY <1>3, <2>3 DEF Abstract!Acceptable
    <3>3. QED BY <3>1, <3>2
  <2>4. QED BY <1>1, <2>1, <2>2, <2>3
<1>5. /\ asked[u] = <<>>
      /\ \E x \in Targets, y \in Bodies : asked' = [asked EXCEPT ![u] = <<x, y>>]
      /\ UNCHANGED Kept
  BY <1>1, <1>2, KeptStands, Zenon DEF NoRequest
<1>6. QED
  BY <1>4, <1>5, Zenon DEF Abstract!Ask, Abstract!NoRequest, Abstract!Silence,
                           Kept, Tell

LEMMA RecordKeeps ==
  ASSUME TypeOK, UploadInv, NEW u \in Requests, Record(u)
  PROVE  Abstract!Keep(u)
<1>1. /\ upload[u] # None /\ upload[u].state = "Committed"
      /\ UNCHANGED <<asked, told>>
  BY DEF Record, InState
<1>2. /\ asked[u] # NoRequest /\ told[u] = Silence
      /\ asked[u][1].compression = "none"
      /\ asked[u][2] = asked[u][1].hash /\ asked[u][2] # <<>>
  BY <1>1, OpenPair DEF UploadInv, OpenInv, Progress
<1>3. PICK body \in Bodies :
        body = asked[u][2] /\ rows' = [rows EXCEPT ![body] = EntryOf(body)]
  BY RecordPuts
<1>4. Kept' = Kept \cup {body}
  BY <1>3, CompressedType DEF Kept, TypeOK
<1>5. QED
  BY <1>1, <1>2, <1>3, <1>4
     DEF Abstract!Keep, Abstract!Open, Abstract!Acceptable, Abstract!NoRequest,
         Abstract!Silence, NoRequest, Silence, Kept

LEMMA EndTells ==
  ASSUME TypeOK, UploadInv, NEW u \in Requests, Refuse(u) \/ Created(u) \/ Fail(u)
  PROVE  Abstract!Tell(u)
<1>1. UNCHANGED <<asked, rows>> /\ upload[u] # None
  BY DEF Refuse, Created, Fail, InState
<1>2. asked[u] # NoRequest /\ told[u] = Silence
  BY <1>1, OpenPair
<1>3. \E x \in {201, 400, 0} :
         /\ x = 201 => asked[u][2] \in Kept
         /\ x = 400 => ~Abstract!Acceptable(asked[u])
         /\ Tell(u, x)
  <2>1. CASE Refuse(u)
    <3>1. InState(u, "Compressed") /\ Mismatch(u) # {}
      BY <2>1 DEF Refuse
    <3>2. PICK error \in Mismatch(u) : Tell(u, StatusOf(error))
      BY <2>1 DEF Refuse
    <3>3. StatusOf(error) = 400
      BY <3>1, MismatchFacts, StatusFacts
    <3>4. ~Abstract!Acceptable(asked[u])
      BY <3>1, MismatchFacts DEF Abstract!Acceptable
    <3>5. QED BY <3>2, <3>3, <3>4
  <2>2. CASE Created(u)
    <3>1. Tell(u, 201) /\ upload[u].state = "Recorded"
      BY <2>2 DEF Created, InState
    <3>2. asked[u][2] \in Kept
      BY <1>1, <3>1, OpenPair DEF Progress, Kept
    <3>3. QED BY <3>1, <3>2
  <2>3. CASE Fail(u)
    BY <2>3 DEF Fail, Closed
  <2>4. QED BY <2>1, <2>2, <2>3
<1>4. Abstract!Open(u) /\ UNCHANGED <<asked, Kept>>
  BY <1>1, <1>2, KeptStands
     DEF Abstract!Open, Abstract!NoRequest, Abstract!Silence, NoRequest, Silence
<1>5. QED BY <1>3, <1>4, Zenon DEF Abstract!Tell, Kept, Tell

LEMMA RestartDies ==
  ASSUME TypeOK, UploadInv, Restart
  PROVE  Abstract!Die
<1>1. /\ told' = [u \in Requests |-> IF upload[u] # None THEN Closed ELSE told[u]]
      /\ UNCHANGED <<asked, rows>>
  BY DEF Restart
<1>2. \A u \in Requests : upload[u] # None <=> Abstract!Open(u)
  BY DEF UploadInv, OpenInv, Abstract!Open, Abstract!NoRequest,
         Abstract!Silence, NoRequest, Silence
<1>3. UNCHANGED Kept
  BY <1>1, KeptStands
<1>4. QED BY <1>1, <1>2, <1>3 DEF Abstract!Die, Closed, Kept

LEMMA StepImplements ==
  TypeOK /\ UploadInv /\ [Next]_vars => [Abstract!Next]_(Abstract!vars)
<1> SUFFICES ASSUME TypeOK, UploadInv, [Next]_vars
             PROVE  [Abstract!Next]_(Abstract!vars)
  OBVIOUS
<1>1. CASE \E u \in Requests : Receive(u)
  BY <1>1, ReceiveAsks DEF Abstract!Next
<1>2. CASE \E u \in Requests : Record(u)
  BY <1>2, RecordKeeps DEF Abstract!Next
<1>3. CASE \E u \in Requests : Refuse(u) \/ Created(u) \/ Fail(u)
  BY <1>3, EndTells DEF Abstract!Next
<1>4. CASE Restart
  BY <1>4, RestartDies DEF Abstract!Next
<1>5. CASE \/ \E u \in Requests :
                WriteChunk(u) \/ FinishUpload(u) \/ Verify(u) \/ Commit(u)
           \/ UNCHANGED vars
  <2>1. UNCHANGED <<asked, told, rows>>
    BY <1>5 DEF WriteChunk, FinishUpload, Verify, Commit, vars
  <2>2. UNCHANGED Kept
    BY <2>1, KeptStands
  <2>3. QED BY <2>1, <2>2 DEF Abstract!vars, Kept
<1>6. QED BY <1>1, <1>2, <1>3, <1>4, <1>5 DEF Next, Proceed

\* The pipeline is the abstract upload: a NAR is kept only when somebody sent
\* exactly its bytes, 201 is said only of a kept one, 400 only to a request that
\* could never have been accepted, and no failure or restart takes back what was
\* kept (Cache::receive over Upload<S> and Index::put_nar).
THEOREM UploadImplements == Spec => ImplementsUploadSpec
<1>1. Init => Abstract!Init
  BY DEF Init, Abstract!Init, Abstract!NoRequest, Abstract!Silence, NoRequest,
         Silence
<1>2. QED
  BY <1>1, StepImplements, UploadInvariant, PTL
     DEF Spec, ImplementsUploadSpec, Abstract!Spec

=============================================================================
