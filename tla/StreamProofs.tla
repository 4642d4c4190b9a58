---------------------------- MODULE StreamProofs ----------------------------
(***************************************************************************)
(* The theorems of Range and Stream: artifacts of any size, any Range      *)
(* header, reads of any length, drops and resumptions anywhere, a file     *)
(* that may lose its tail at any moment.                                   *)
(***************************************************************************)
EXTENDS Stream, SequenceTheorems, TLAPS

TypeOK ==
    /\ size \in 0 .. MaxSize /\ ondisk \in 0 .. MaxSize
    /\ pc \in {"idle", "asked", "pumping", "kept", "dropped"}
    /\ header \in Header(U64Max + 1)
    /\ span \in [first: Nat, last: Nat]
    /\ offset \in Nat
    /\ status \in {0, 200, 206, 416, 500}
    /\ declared \in Nat
    /\ expects \in 0 .. MaxSize
    /\ copy \in Seq(Nat)
    /\ resumed \in Nat
    /\ payload_bytes \in Nat
    /\ drops \in Nat

\* A body follows the head.
Begun == status \in {200, 206}

\* Where the server is, by what it has answered. The file never grows.
StatusInv ==
    /\ pc \in {"idle", "asked"} => status = 0
    /\ pc = "pumping" => Begun
    /\ pc = "kept" => status # 0
    /\ status \in {416, 500} => pc = "kept" /\ declared = 0
    /\ pc = "idle" => resumed = 0
    /\ ~Begun => Len(copy) = resumed
    /\ ondisk <= size
    /\ payload_bytes = IF pc = "kept" THEN Len(copy) - resumed ELSE 0

\* The span is the one `resolve` made of the header.
Answers(h, length, s) ==
    \/ /\ Resolve(h, length).kind = "Whole"
       /\ s = [first |-> 0, last |-> length - 1]
    \/ /\ Resolve(h, length).kind = "Partial"
       /\ s = Resolve(h, length).span

\* What the answer has put behind the bytes the client already had.
SentBehind(c, l, r, f, o) ==
    /\ l = r + (o - f)
    /\ \A i \in 1 .. l : i > r => c[i] = f + (i - r) - 1

Sent == SentBehind(copy, Len(copy), resumed, span.first, offset)

SpanInv ==
    Begun =>
        /\ span.first <= offset /\ offset <= span.last + 1
        /\ span.first <= span.last /\ span.last < size
        /\ declared = SpanLen(span)
        /\ Sent
        /\ pc = "kept" => offset > span.last \/ ondisk < size
        /\ Answers(header, size, span)

RefusedInv ==
    /\ status = 416 => size # 0 /\ Resolve(header, size).kind = "Unsatisfiable"
    /\ status = 500 => size = 0

\* The client is after the whole artifact.
Fetching == header.form = "absent" \/ resumed > 0

\* A resumed fetch goes on where it stopped, in a file no longer than the one
\* it began with.
FetchInv ==
    /\ Fetching =>
          /\ \A i \in 1 .. Len(copy) : copy[i] = i - 1
          /\ Begun => /\ span.first = resumed /\ span.last = size - 1
                      /\ size <= expects
    /\ resumed > 0 => header = From(resumed) /\ resumed < expects /\ size <= expects

StreamInv == StatusInv /\ SpanInv /\ RefusedInv /\ FetchInv

-----------------------------------------------------------------------------
(* range.rs, on any header and any length.                                 *)

\* What `resolve` may answer of an artifact that has a byte.
Resolved(r, h, n) ==
    \/ r.kind = "Whole"
    \/ r.kind = "Unsatisfiable"
    \/ /\ r.kind = "Partial"
       /\ r.span \in [first: Nat, last: Nat]
       /\ r.span.first <= r.span.last /\ r.span.last < n

\* And of a header that follows the grammar.
Honours(r, h, n) ==
    /\ r.kind = "Whole" => h.first > U64Max \/ h.last > U64Max
    /\ r.kind = "Unsatisfiable" => Asked(h, n) = {}
    /\ r.kind = "Partial" => Asked(h, n) = r.span.first .. r.span.last

LEMMA PartialFacts ==
  ASSUME NEW a, NEW z
  PROVE  /\ Partial(a, z).kind = "Partial"
         /\ Partial(a, z).span = [first |-> a, last |-> z]
         /\ Partial(a, z).span.first = a /\ Partial(a, z).span.last = z
         /\ Whole.kind = "Whole" /\ Unsatisfiable.kind = "Unsatisfiable"
  BY DEF Partial, Whole, Unsatisfiable

\* `bytes=-n`
LEMMA SuffixFacts ==
  ASSUME NEW h \in Header(U64Max + 1), NEW n \in Nat \ {0}, h.first = Blank,
         NEW r, r = Suffix(h.last, n)
  PROVE  Resolved(r, h, n) /\ (WellFormed(h) => Honours(r, h, n))
<1>1. /\ h.first \in Int /\ h.last \in Int
      /\ h.last \in -2 .. U64Max + 1 /\ U64Max \in Nat
  BY U64Assumption DEF Header, Junk
<1>2. CASE ~Parses(h.last)
  <2>1. r.kind = "Whole"
    BY <1>2, PartialFacts DEF Suffix
  <2>2. WellFormed(h) => h.last > U64Max
    BY <1>1, <1>2 DEF Parses, WellFormed, Blank, Junk
  <2>3. QED BY <2>1, <2>2 DEF Resolved, Honours
<1>3. CASE h.last = 0
  <2>0. Parses(h.last)
    BY <1>1, <1>3 DEF Parses
  <2>1. r.kind = "Unsatisfiable"
    BY <1>3, <2>0, PartialFacts DEF Suffix
  <2>2. Asked(h, n) = {}
    BY <1>3 DEF Asked
  <2>3. QED BY <2>1, <2>2 DEF Resolved, Honours
<1>4. CASE Parses(h.last) /\ h.last # 0
  <2>1. PICK a \in Nat : a = SuffixFirst(h.last, n) /\ a <= n - 1
    BY <1>1, <1>4 DEF SuffixFirst, Parses
  <2>2. /\ r.kind = "Partial" /\ r.span = [first |-> a, last |-> n - 1]
        /\ r.span.first = a /\ r.span.last = n - 1
    BY <1>4, <2>1, PartialFacts DEF Suffix
  <2>3. Asked(h, n) = a .. n - 1
    BY <1>1, <1>4, <2>1 DEF Asked, SuffixFirst, Parses
  <2>4. QED BY <2>1, <2>2, <2>3 DEF Resolved, Honours
<1>5. QED BY <1>2, <1>3, <1>4

\* `bytes=n-` and `bytes=n-m`, once n is inside the artifact
LEMMA ClosedFacts ==
  ASSUME NEW h \in Header(U64Max + 1), NEW n \in Nat \ {0},
         Parses(h.first), h.first < n, NEW r, r = Closed(h.first, h.last, n)
  PROVE  Resolved(r, h, n) /\ (WellFormed(h) => Honours(r, h, n))
<1>1. /\ h.first \in 0 .. U64Max /\ h.last \in Int
      /\ h.last \in -2 .. U64Max + 1 /\ U64Max \in Nat /\ h.first # -1
  BY U64Assumption DEF Header, Junk, Parses
<1>2. CASE h.last = Blank
  <2>1. /\ r.kind = "Partial" /\ r.span = [first |-> h.first, last |-> n - 1]
        /\ r.span.first = h.first /\ r.span.last = n - 1
    BY <1>2, PartialFacts DEF Closed
  <2>2. Asked(h, n) = h.first .. n - 1
    BY <1>1, <1>2 DEF Asked, Blank
  <2>3. QED BY <1>1, <2>1, <2>2 DEF Resolved, Honours
<1>3. CASE h.last # Blank /\ ~Parses(h.last)
  <2>1. r.kind = "Whole"
    BY <1>3, PartialFacts DEF Closed
  <2>2. WellFormed(h) => h.last > U64Max
    BY <1>1, <1>3 DEF Parses, WellFormed, Blank, Junk
  <2>3. QED BY <2>1, <2>2 DEF Resolved, Honours
<1>4. CASE Parses(h.last)
  <2>1. h.last \in Nat /\ h.last # Blank
    BY <1>1, <1>4 DEF Parses, Blank
  <2>2. PICK z \in Int : z = Clamp(h.last, n)
    BY <2>1 DEF Clamp, Min2
  <2>3. z <= n - 1 /\ z <= h.last /\ (z = n - 1 \/ z = h.last)
    BY <2>1, <2>2 DEF Clamp, Min2
  <2>4. CASE z < h.first
    <3>1. r.kind = "Unsatisfiable"
      BY <1>4, <2>1, <2>2, <2>4, PartialFacts DEF Closed
    <3>2. Asked(h, n) = {}
      BY <1>1, <2>1, <2>3, <2>4 DEF Asked, Blank
    <3>3. QED BY <3>1, <3>2 DEF Resolved, Honours
  <2>5. CASE h.first <= z
    <3>1. /\ r.kind = "Partial" /\ r.span = [first |-> h.first, last |-> z]
          /\ r.span.first = h.first /\ r.span.last = z
      BY <1>1, <1>4, <2>1, <2>2, <2>5, PartialFacts DEF Closed
    <3>2. Asked(h, n) = h.first .. z
      BY <1>1, <2>1, <2>3, <2>5 DEF Asked, Blank
    <3>3. QED BY <1>1, <2>3, <2>5, <3>1, <3>2 DEF Resolved, Honours
  <2>6. QED BY <1>1, <2>4, <2>5
<1>5. QED BY <1>2, <1>3, <1>4

\* `resolve` of range.rs, for every header and every artifact with a byte: it
\* selects a non-empty span inside the artifact, and of a header that follows
\* the grammar exactly the positions RFC 9110 asks for, none when it refuses,
\* and everything only when a number does not fit a u64.
THEOREM ResolveSelects ==
  ASSUME NEW h \in Header(U64Max + 1), NEW n \in Nat \ {0}
  PROVE  /\ Resolved(Resolve(h, n), h, n)
         /\ WellFormed(h) => Honours(Resolve(h, n), h, n)
<1>1. PICK r : r = Resolve(h, n)
  OBVIOUS
<1>2. /\ h.first \in Int /\ h.first \in -2 .. U64Max + 1 /\ U64Max \in Nat
      /\ h.last \in Int
  BY U64Assumption DEF Header, Junk
<1>3. CASE h.form # "range"
  BY <1>1, <1>3, PartialFacts DEF Resolve, Resolved, WellFormed
<1>4. CASE h.form = "range" /\ h.first = Blank
  BY <1>1, <1>4, SuffixFacts DEF Resolve
<1>5. CASE h.form = "range" /\ h.first # Blank /\ ~Parses(h.first)
  <2>1. r.kind = "Whole"
    BY <1>1, <1>5, PartialFacts DEF Resolve
  <2>2. WellFormed(h) => h.first > U64Max
    BY <1>2, <1>5 DEF Parses, WellFormed, Blank, Junk
  <2>3. QED BY <1>1, <2>1, <2>2 DEF Resolved, Honours
<1>6. CASE /\ h.form = "range" /\ h.first # Blank /\ Parses(h.first)
           /\ h.first >= n
  <2>1. r.kind = "Unsatisfiable"
    BY <1>1, <1>6, PartialFacts DEF Resolve
  <2>2. Asked(h, n) = {}
    BY <1>2, <1>6 DEF Asked
  <2>3. QED BY <1>1, <2>1, <2>2 DEF Resolved, Honours
<1>7. CASE /\ h.form = "range" /\ h.first # Blank /\ Parses(h.first)
           /\ h.first < n
  BY <1>1, <1>2, <1>7, ClosedFacts DEF Resolve
<1>8. QED BY <1>2, <1>3, <1>4, <1>5, <1>6, <1>7

\* What a resuming client sends is answered with the rest.
LEMMA FromResolves ==
  ASSUME NEW n \in Nat, NEW length \in Nat \ {0}, n <= U64Max
  PROVE  /\ From(n) \in Header(U64Max + 1)
         /\ n >= length => Resolve(From(n), length).kind = "Unsatisfiable"
         /\ n < length =>
              /\ Resolve(From(n), length).kind = "Partial"
              /\ Resolve(From(n), length).span = [first |-> n, last |-> length - 1]
<1>1. /\ From(n).form = "range" /\ From(n).first = n /\ From(n).last = Blank
      /\ n # Blank /\ Parses(n)
  BY U64Assumption DEF From, Blank, Parses
<1>2. From(n) \in Header(U64Max + 1)
  BY U64Assumption DEF From, Header, Form, Blank, Junk
<1>3. n >= length => Resolve(From(n), length) = Unsatisfiable
  BY <1>1 DEF Resolve
<1>4. n < length => Resolve(From(n), length) = Partial(n, length - 1)
  BY <1>1 DEF Resolve, Closed
<1>5. QED BY <1>2, <1>3, <1>4, PartialFacts

-----------------------------------------------------------------------------
(* The invariant.                                                          *)

\* A chunk behind a copy.
LEMMA SendFacts ==
  ASSUME NEW c \in Seq(Nat), NEW from \in Nat, NEW n \in Nat,
         NEW d, d = c \o [i \in 1 .. n |-> from + i - 1]
  PROVE  /\ d \in Seq(Nat)
         /\ Len(d) = Len(c) + n
         /\ \A i \in 1 .. Len(c) : d[i] = c[i]
         /\ \A i \in 1 .. Len(d) : i > Len(c) => d[i] = from + (i - Len(c)) - 1
<1>1. PICK chunk : chunk = [i \in 1 .. n |-> from + i - 1]
  OBVIOUS
<1>2. chunk \in [1 .. n -> Nat] /\ \A i \in 1 .. n : chunk[i] = from + i - 1
  BY <1>1
<1>3. chunk \in Seq(Nat) /\ Len(chunk) = n
  BY <1>2
<1>4. Len(c) \in Nat
  BY LenProperties
<1>5. /\ d \in Seq(Nat) /\ Len(d) = Len(c) + n
      /\ \A i \in 1 .. Len(c) + n :
            d[i] = IF i <= Len(c) THEN c[i] ELSE chunk[i - Len(c)]
  BY <1>1, <1>3, ConcatProperties
<1>6. ASSUME NEW i \in 1 .. Len(d), i > Len(c)
      PROVE  d[i] = from + (i - Len(c)) - 1
  BY <1>2, <1>4, <1>5, <1>6
<1>7. QED BY <1>4, <1>5, <1>6

LEMMA InitInv == Init => TypeOK /\ StreamInv
<1> SUFFICES ASSUME Init
             PROVE  TypeOK /\ StreamInv
  OBVIOUS
<1>1. header \in Header(U64Max + 1)
  BY U64Assumption DEF Init, NoHeader, Header, Form, Blank, Junk
<1>2. copy \in Seq(Nat) /\ Len(copy) = 0
  BY EmptySeq DEF Init
<1>3. TypeOK
  BY <1>1, <1>2, BoundAssumption DEF Init, TypeOK
<1>4. StatusInv
  BY <1>2, BoundAssumption DEF Init, StatusInv, Begun
<1>5. SpanInv /\ RefusedInv
  BY DEF Init, SpanInv, RefusedInv, Begun
<1>6. FetchInv
  BY <1>2 DEF Init, FetchInv, Fetching, Begun
<1>7. QED BY <1>3, <1>4, <1>5, <1>6 DEF StreamInv

LEMMA AskStep == TypeOK /\ StreamInv /\ Ask => TypeOK' /\ StreamInv'
<1> SUFFICES ASSUME TypeOK, StreamInv, Ask
             PROVE  TypeOK' /\ StreamInv'
  OBVIOUS
<1>1. /\ pc = "idle" /\ pc' = "asked" /\ header' \in Header(U64Max + 1)
      /\ UNCHANGED <<size, ondisk, span, offset, status, declared, expects, copy,
                     resumed, payload_bytes, drops>>
  BY DEF Ask
<1>2. status = 0 /\ resumed = 0 /\ Len(copy) = 0
  BY <1>1 DEF StreamInv, StatusInv, Begun
<1>3. TypeOK'
  BY <1>1 DEF TypeOK
<1>4. StatusInv'
  BY <1>1, <1>2 DEF StreamInv, StatusInv, Begun
<1>5. SpanInv' /\ RefusedInv'
  BY <1>1, <1>2 DEF SpanInv, RefusedInv, Begun
<1>6. FetchInv'
  BY <1>1, <1>2 DEF FetchInv, Fetching, Begun
<1>7. QED BY <1>3, <1>4, <1>5, <1>6 DEF StreamInv

LEMMA ResumeStep == TypeOK /\ StreamInv /\ Resume => TypeOK' /\ StreamInv'
<1> SUFFICES ASSUME TypeOK, StreamInv, Resume
             PROVE  TypeOK' /\ StreamInv'
  OBVIOUS
<1>1. PICK had \in Nat \ {0} : had = Len(copy)
  BY EmptySeq DEF Resume, TypeOK
<1>2. /\ Fetching /\ had < expects /\ header' = From(had) /\ resumed' = had
      /\ status' = 0 /\ pc = "dropped" /\ pc' = "asked"
      /\ UNCHANGED <<size, ondisk, span, offset, declared, expects, copy,
                     payload_bytes, drops>>
  BY <1>1 DEF Resume, Fetching
<1>3. had <= U64Max
  BY <1>2, BoundAssumption, FitsAssumption, U64Assumption DEF TypeOK
<1>4. header' \in Header(U64Max + 1)
  BY <1>2, <1>3, FromResolves
<1>5. TypeOK'
  BY <1>2, <1>4 DEF TypeOK
<1>6. StatusInv'
  BY <1>1, <1>2 DEF StreamInv, StatusInv, Begun
<1>7. SpanInv' /\ RefusedInv'
  BY <1>2 DEF SpanInv, RefusedInv, Begun
<1>8. size <= expects
  BY <1>1, <1>2 DEF StreamInv, StatusInv, FetchInv, TypeOK
<1>9. FetchInv'
  BY <1>1, <1>2, <1>8 DEF StreamInv, FetchInv, Begun
<1>10. QED BY <1>5, <1>6, <1>7, <1>9 DEF StreamInv

\* A head and no body.
LEMMA RefuseStep ==
  ASSUME TypeOK, StreamInv, pc = "asked", size' = ondisk, NEW code \in {416, 500},
         Refuse(code),
         UNCHANGED <<ondisk, header, copy, resumed, payload_bytes, drops>>,
         code = 416 =>
             ondisk # 0 /\ Resolve(header, ondisk).kind = "Unsatisfiable",
         code = 500 => ondisk = 0
  PROVE  TypeOK' /\ StreamInv'
<1>1. /\ status' = code /\ declared' = 0 /\ pc' = "kept"
      /\ UNCHANGED <<span, offset, expects>>
  BY DEF Refuse
<1>2. /\ status = 0 /\ Len(copy) = resumed /\ payload_bytes = 0 /\ ondisk <= size
  BY DEF StreamInv, StatusInv, Begun
<1>3. TypeOK'
  BY <1>1 DEF TypeOK
<1>4. StatusInv'
  BY <1>1, <1>2 DEF StatusInv, Begun, TypeOK
<1>5. SpanInv'
  BY <1>1 DEF SpanInv, Begun
<1>6. RefusedInv'
  BY <1>1 DEF RefusedInv
<1>7. FetchInv'
  BY <1>1, <1>2 DEF StreamInv, FetchInv, Fetching, Begun, TypeOK
<1>8. QED BY <1>3, <1>4, <1>5, <1>6, <1>7 DEF StreamInv

\* A head, and the body to come.
LEMMA BeginStep ==
  ASSUME TypeOK, StreamInv, pc = "asked", size' = ondisk,
         NEW s \in [first: Nat, last: Nat], Begin(s),
         UNCHANGED <<ondisk, header, copy, resumed, payload_bytes, drops>>,
         s.first <= s.last, s.last < ondisk,
         Answers(header, ondisk, s),
         Fetching => s.first = resumed /\ s.last = ondisk - 1
  PROVE  TypeOK' /\ StreamInv'
<1>1. /\ span' = s /\ offset' = s.first /\ status' \in {200, 206}
      /\ declared' = SpanLen(s)
      /\ expects' = IF resumed = 0 THEN SpanLen(s) ELSE expects
      /\ pc' = "pumping"
  BY DEF Begin
<1>2. /\ status = 0 /\ Len(copy) = resumed /\ payload_bytes = 0 /\ ondisk <= size
  BY DEF StreamInv, StatusInv, Begun
<1>3. PICK n \in Nat : n = SpanLen(s) /\ n <= ondisk /\ n = s.last - s.first + 1
  BY DEF SpanLen, TypeOK
<1>4. TypeOK'
  BY <1>1, <1>3, BoundAssumption DEF TypeOK
<1>5. StatusInv'
  BY <1>1, <1>2 DEF StatusInv, Begun, TypeOK
<1>6. SpanInv'
  <2>1. Sent'
    BY <1>1, <1>2 DEF Sent, SentBehind, TypeOK
  <2>2. QED BY <1>1, <2>1 DEF SpanInv, Begun, TypeOK
<1>7. RefusedInv'
  BY <1>1 DEF RefusedInv
<1>8. FetchInv'
  <2>1. CASE resumed = 0
    BY <1>1, <1>2, <1>3, <2>1 DEF StreamInv, FetchInv, Fetching, Begun, TypeOK
  <2>2. CASE resumed > 0
    BY <1>1, <1>2, <2>2 DEF StreamInv, FetchInv, Fetching, Begun, TypeOK
  <2>3. QED BY <2>1, <2>2 DEF TypeOK
<1>9. QED BY <1>4, <1>5, <1>6, <1>7, <1>8 DEF StreamInv

LEMMA RespondStep == TypeOK /\ StreamInv /\ Respond => TypeOK' /\ StreamInv'
<1> SUFFICES ASSUME TypeOK, StreamInv, Respond
             PROVE  TypeOK' /\ StreamInv'
  OBVIOUS
<1>1. /\ pc = "asked" /\ size' = ondisk
      /\ UNCHANGED <<ondisk, header, copy, resumed, payload_bytes, drops>>
  BY DEF Respond
<1>2. CASE ondisk = 0
  <2>1. Refuse(500)
    BY <1>2 DEF Respond
  <2>2. QED BY <1>1, <1>2, <2>1, RefuseStep
<1>3. CASE ondisk # 0
  <2>1. ondisk \in Nat \ {0} /\ header \in Header(U64Max + 1)
    BY <1>3, BoundAssumption DEF TypeOK
  <2>2. Resolved(Resolve(header, ondisk), header, ondisk)
    BY <2>1, ResolveSelects
  <2>3. ASSUME resumed > 0
        PROVE  /\ header = From(resumed) /\ resumed <= U64Max /\ resumed \in Nat
    BY <2>3, BoundAssumption, FitsAssumption, U64Assumption
       DEF StreamInv, FetchInv, TypeOK
  <2>4. CASE Resolve(header, ondisk).kind = "Unsatisfiable"
    <3>1. Refuse(416)
      BY <1>3, <2>4 DEF Respond
    <3>2. QED BY <1>1, <1>3, <2>4, <3>1, RefuseStep
  <2>5. CASE Resolve(header, ondisk).kind = "Whole"
    <3>0. PICK z \in Nat : z = ondisk - 1
      BY <2>1
    <3>1. PICK s \in [first: Nat, last: Nat] :
            s = [first |-> 0, last |-> z] /\ s.first = 0 /\ s.last = z
      <4>1. [first |-> 0, last |-> z] \in [first: Nat, last: Nat]
        OBVIOUS
      <4>2. QED BY <4>1
    <3>2. Begin(s)
      BY <1>3, <2>5, <3>0, <3>1 DEF Respond
    <3>3. Answers(header, ondisk, s)
      BY <2>5, <3>0, <3>1 DEF Answers
    <3>4. resumed = 0
      <4>1. ASSUME resumed > 0
            PROVE  FALSE
        <5>1. PICK r \in Nat, n \in Nat \ {0} :
                r = resumed /\ n = ondisk /\ r <= U64Max /\ header = From(r)
          BY <2>1, <2>3, <4>1
        <5>2. \/ Resolve(From(r), n).kind = "Unsatisfiable"
              \/ Resolve(From(r), n).kind = "Partial"
          <6>1. /\ r >= n => Resolve(From(r), n).kind = "Unsatisfiable"
                /\ r < n => Resolve(From(r), n).kind = "Partial"
            BY <5>1, FromResolves
          <6>2. r >= n \/ r < n
            OBVIOUS
          <6>3. QED BY <6>1, <6>2
        <5>3. Resolve(From(r), n).kind = "Whole"
          BY <2>5, <5>1
        <5>4. QED BY <5>2, <5>3
      <4>2. QED BY <4>1 DEF TypeOK
    <3>5. s.first <= s.last /\ s.last < ondisk
      BY <2>1, <3>0, <3>1
    <3>6. s.first = resumed /\ s.last = ondisk - 1
      BY <3>0, <3>1, <3>4
    <3>7. QED BY <1>1, <3>2, <3>3, <3>5, <3>6, BeginStep
  <2>6. CASE Resolve(header, ondisk).kind = "Partial"
    <3>1. PICK s \in [first: Nat, last: Nat] :
            /\ s = Resolve(header, ondisk).span
            /\ s.first <= s.last /\ s.last < ondisk
      BY <2>2, <2>6 DEF Resolved
    <3>2. Begin(s)
      BY <1>3, <2>6, <3>1 DEF Respond
    <3>3. Answers(header, ondisk, s)
      BY <2>6, <3>1 DEF Answers
    <3>4. Fetching => s.first = resumed /\ s.last = ondisk - 1
      <4>1. CASE resumed > 0
        <5>1. /\ resumed >= ondisk =>
                   Resolve(header, ondisk).kind = "Unsatisfiable"
              /\ resumed < ondisk =>
                   Resolve(header, ondisk).span
                     = [first |-> resumed, last |-> ondisk - 1]
          BY <2>1, <2>3, <4>1, FromResolves
        <5>2. QED BY <2>1, <2>3, <2>6, <3>1, <4>1, <5>1
      <4>2. CASE header.form = "absent"
        BY <2>6, <4>2, PartialFacts DEF Resolve
      <4>3. QED BY <4>1, <4>2 DEF Fetching
    <3>5. QED BY <1>1, <3>1, <3>2, <3>3, <3>4, BeginStep
  <2>7. QED BY <2>2, <2>4, <2>5, <2>6 DEF Resolved
<1>4. QED BY <1>2, <1>3

\* A copy that grows by a chunk is the longer answer.
LEMMA SentFacts ==
  ASSUME NEW c, NEW l \in Nat, NEW f \in Nat, NEW o \in Nat, NEW r \in Nat,
         NEW m \in Nat, NEW n \in Nat, f <= o, m = r + (o - f), l = m + n,
         \A i \in 1 .. l : i > m => c[i] = o + (i - m) - 1,
         \A i \in 1 .. m : i > r => c[i] = f + (i - r) - 1
  PROVE  SentBehind(c, l, r, f, o + n)
<1>1. l = r + (o + n - f)
  OBVIOUS
<1>2. ASSUME NEW i \in 1 .. l, i > r
      PROVE  c[i] = f + (i - r) - 1
  <2>1. CASE i <= m
    <3>1. i \in 1 .. m
      BY <2>1
    <3>2. QED BY <1>2, <3>1
  <2>2. CASE i > m
    <3>1. c[i] = o + (i - m) - 1
      BY <2>2
    <3>2. o + (i - m) - 1 = f + (i - r) - 1
      OBVIOUS
    <3>3. QED BY <3>1, <3>2
  <2>3. QED BY <2>1, <2>2
<1>3. QED BY <1>1, <1>2 DEF SentBehind

LEMMA PumpChunkStep == TypeOK /\ StreamInv /\ PumpChunk => TypeOK' /\ StreamInv'
<1> SUFFICES ASSUME TypeOK, StreamInv, PumpChunk
             PROVE  TypeOK' /\ StreamInv'
  OBVIOUS
<1>1. /\ pc = "pumping" /\ offset <= span.last /\ offset < ondisk
      /\ UNCHANGED <<size, ondisk, pc, header, span, status, declared, expects,
                     resumed, payload_bytes, drops>>
  BY DEF PumpChunk
<1>2. /\ offset \in Nat /\ ondisk \in Nat /\ span.last \in Nat /\ span.first \in Nat
      /\ copy \in Seq(Nat) /\ resumed \in Nat /\ Len(copy) \in Nat
  BY BoundAssumption, LenProperties DEF TypeOK
<1>3. PICK sent \in Nat \ {0} :
        /\ offset + sent <= span.last + 1
        /\ copy' = copy \o [i \in 1 .. sent |-> offset + i - 1]
        /\ offset' = offset + sent
  <2>1. PICK read \in 1 .. Min2(SendChunk, ondisk - offset) :
          LET wanted == Min2(span.last - offset + 1, SendChunk)
              sent == Filled(read, wanted)
          IN  /\ copy' = copy \o [i \in 1 .. sent |-> offset + i - 1]
              /\ offset' = offset + Advance(wanted, sent)
    BY DEF PumpChunk
  <2>2. PICK wanted \in Nat \ {0} :
          /\ wanted = Min2(span.last - offset + 1, SendChunk)
          /\ wanted <= span.last - offset + 1
    BY <1>1, <1>2, ChunkAssumption DEF Min2
  <2>3. read \in Nat \ {0}
    BY <1>1, <1>2, ChunkAssumption DEF Min2
  <2>4. PICK sent \in Nat \ {0} : sent = Filled(read, wanted) /\ sent <= wanted
    BY <2>2, <2>3 DEF Filled, Min2
  <2>5. /\ copy' = copy \o [i \in 1 .. sent |-> offset + i - 1]
        /\ offset' = offset + sent
    BY <2>1, <2>2, <2>4 DEF Advance
  <2>6. offset + sent <= span.last + 1
    BY <1>2, <2>2, <2>4
  <2>7. QED BY <2>5, <2>6
<1>4. PICK c \in Seq(Nat), m \in Nat : c = copy' /\ m = Len(copy)
  BY <1>2, <1>3, SendFacts
<1>5. /\ Len(c) = m + sent
      /\ \A i \in 1 .. m : c[i] = copy[i]
      /\ \A i \in 1 .. Len(c) : i > m => c[i] = offset + (i - m) - 1
  BY <1>2, <1>3, <1>4, SendFacts
<1>6. /\ Begun /\ Sent /\ span.first <= offset /\ span.first <= span.last
      /\ span.last < size /\ declared = SpanLen(span)
      /\ Answers(header, size, span) /\ payload_bytes = 0
  BY <1>1 DEF StreamInv, StatusInv, SpanInv
<1>7. m = resumed + (offset - span.first)
  BY <1>4, <1>6 DEF Sent, SentBehind
<1>8. TypeOK'
  BY <1>1, <1>2, <1>3, <1>4 DEF TypeOK
<1>9. StatusInv'
  BY <1>1, <1>6 DEF StreamInv, StatusInv, Begun
<1>10. Sent'
  <2>1. PICK f \in Nat, o \in Nat, r \in Nat :
          f = span.first /\ o = offset /\ r = resumed
    BY <1>2
  <2>2. /\ f <= o /\ m = r + (o - f) /\ Len(c) = m + sent
        /\ \A i \in 1 .. Len(c) : i > m => c[i] = o + (i - m) - 1
    BY <1>5, <1>6, <1>7, <2>1
  <2>3. ASSUME NEW i \in 1 .. m, i > r
        PROVE  c[i] = f + (i - r) - 1
    BY <1>4, <1>5, <1>6, <2>1, <2>3 DEF Sent, SentBehind
  <2>4. SentBehind(c, Len(c), r, f, o + sent)
    <3>1. PICK l \in Nat, n \in Nat :
            l = Len(c) /\ n = sent /\ l = m + n
      BY <1>4, <2>2
    <3>2. \A i \in 1 .. l : i > m => c[i] = o + (i - m) - 1
      BY ONLY <2>2, <3>1
    <3>3. \A i \in 1 .. m : i > r => c[i] = f + (i - r) - 1
      BY <2>3
    <3>4. f \in Nat /\ o \in Nat /\ r \in Nat /\ m \in Nat
      OBVIOUS
    <3>5. SentBehind(c, l, r, f, o + n)
      BY ONLY <2>2, <3>1, <3>2, <3>3, <3>4, SentFacts, Zenon
    <3>6. QED BY <3>1, <3>5
  <2>5. copy' = c /\ resumed' = r /\ offset' = o + sent /\ span'.first = f
    BY <1>1, <1>3, <1>4, <2>1
  <2>6. QED BY <2>4, <2>5 DEF Sent
<1>11. SpanInv'
  BY <1>1, <1>2, <1>3, <1>6, <1>10 DEF SpanInv, Begun
<1>12. RefusedInv'
  BY <1>1 DEF StreamInv, RefusedInv
<1>13. FetchInv'
  <2>1. ASSUME Fetching, NEW i \in 1 .. Len(c)
        PROVE  c[i] = i - 1
    <3>1. i \in Nat /\ i >= 1 /\ span.first = resumed
      BY <1>5, <1>6, <2>1 DEF StreamInv, FetchInv
    <3>2. CASE i <= m
      <4>1. c[i] = copy[i] /\ i \in 1 .. Len(copy)
        BY <1>4, <1>5, <3>1, <3>2
      <4>2. QED BY <2>1, <4>1 DEF StreamInv, FetchInv
    <3>3. CASE i > m
      BY <1>2, <1>5, <1>7, <3>1, <3>3
    <3>4. QED BY <3>1, <3>2, <3>3
  <2>2. QED BY <1>1, <1>4, <2>1 DEF StreamInv, FetchInv, Fetching, Begun
<1>14. QED BY <1>8, <1>9, <1>11, <1>12, <1>13 DEF StreamInv

\* The two ends of pump.
LEMMA PumpEndStep ==
  TypeOK /\ StreamInv /\ (PumpShort \/ PumpDone) => TypeOK' /\ StreamInv'
<1> SUFFICES ASSUME TypeOK, StreamInv, PumpShort \/ PumpDone
             PROVE  TypeOK' /\ StreamInv'
  OBVIOUS
<1>1. /\ pc = "pumping" /\ pc' = "kept"
      /\ UNCHANGED <<size, ondisk, header, span, offset, status, declared, expects,
                     copy, resumed, drops>>
  BY DEF PumpShort, PumpDone
<1>2. /\ Begun /\ Sent /\ span.first <= offset /\ offset <= span.last + 1
      /\ span.first <= span.last
      /\ span.last < size /\ declared = SpanLen(span)
      /\ Answers(header, size, span) /\ payload_bytes = 0 /\ ondisk <= size
  BY <1>1 DEF StreamInv, StatusInv, SpanInv
<1>3. /\ offset \in Nat /\ ondisk \in Nat /\ size \in Nat /\ span.last \in Nat
      /\ span.first \in Nat /\ resumed \in Nat
  BY BoundAssumption DEF TypeOK
<1>4. payload_bytes' = offset - span.first /\ (offset > span.last \/ ondisk < size)
  <2>1. CASE PumpShort
    BY <1>2, <1>3, <2>1 DEF PumpShort, ReadsNothing, Count
  <2>2. CASE PumpDone
    BY <1>2, <1>3, <2>2 DEF PumpDone, Pumped, Count, SpanLen
  <2>3. QED BY <2>1, <2>2
<1>5. TypeOK'
  BY <1>1, <1>2, <1>3, <1>4 DEF TypeOK
<1>6. StatusInv'
  <2>1. payload_bytes' = Len(copy) - resumed
    BY <1>2, <1>3, <1>4 DEF Sent, SentBehind
  <2>2. QED BY <1>1, <1>2, <2>1 DEF StatusInv, Begun
<1>7. SpanInv'
  BY <1>1, <1>2, <1>4 DEF SpanInv, Sent, SentBehind, Begun
<1>8. RefusedInv' /\ FetchInv'
  BY <1>1 DEF StreamInv, RefusedInv, FetchInv, Fetching, Begun
<1>9. QED BY <1>5, <1>6, <1>7, <1>8 DEF StreamInv

LEMMA WorldStep ==
  TypeOK /\ StreamInv /\ (Drop \/ Truncate \/ UNCHANGED vars)
    => TypeOK' /\ StreamInv'
<1> SUFFICES ASSUME TypeOK, StreamInv, Drop \/ Truncate \/ UNCHANGED vars
             PROVE  TypeOK' /\ StreamInv'
  OBVIOUS
<1>1. UNCHANGED <<size, header, span, offset, status, declared, expects, copy,
                  resumed, payload_bytes>>
  BY DEF Drop, Truncate, vars
<1>2. ondisk' \in 0 .. MaxSize /\ ondisk' <= ondisk /\ drops' \in Nat
  <2>1. CASE Drop
    BY <2>1, BoundAssumption DEF Drop, TypeOK
  <2>2. CASE Truncate
    <3>1. PICK n \in 0 .. MaxSize : n = ondisk
      BY DEF TypeOK
    <3>2. PICK m \in 0 .. n - 1 : m = ondisk'
      BY <2>2, <3>1 DEF Truncate
    <3>3. m \in 0 .. MaxSize /\ m <= n
      BY <3>1, <3>2, BoundAssumption
    <3>4. drops' \in Nat
      BY <2>2 DEF Truncate, TypeOK
    <3>5. QED BY <3>1, <3>2, <3>3, <3>4
  <2>3. CASE UNCHANGED vars
    BY <2>3, BoundAssumption DEF vars, TypeOK
  <2>4. QED BY <2>1, <2>2, <2>3
<1>3. /\ pc' \in {"idle", "asked", "pumping", "kept", "dropped"}
      /\ pc' # pc => pc \in {"asked", "pumping"} /\ pc' = "dropped"
  BY DEF Drop, Truncate, vars, TypeOK
<1>4. TypeOK'
  BY <1>1, <1>2, <1>3 DEF TypeOK
<1>5. /\ ondisk \in Nat /\ size \in Nat /\ ondisk' \in Nat
  BY <1>2, BoundAssumption DEF TypeOK
<1>6. StatusInv'
  BY <1>1, <1>2, <1>3, <1>5 DEF StreamInv, StatusInv, Begun
<1>7. SpanInv'
  BY <1>1, <1>2, <1>3, <1>5 DEF StreamInv, SpanInv, Sent, SentBehind, Begun
<1>8. RefusedInv' /\ FetchInv'
  BY <1>1 DEF StreamInv, RefusedInv, FetchInv, Fetching, Begun
<1>9. QED BY <1>4, <1>6, <1>7, <1>8 DEF StreamInv

LEMMA StreamInvariant == Spec => [](TypeOK /\ StreamInv)
<1>1. TypeOK /\ StreamInv /\ [Next]_vars => TypeOK' /\ StreamInv'
  BY AskStep, ResumeStep, RespondStep, PumpChunkStep, PumpEndStep, WorldStep
     DEF Next
<1>2. QED BY <1>1, InitInv, PTL DEF Spec

-----------------------------------------------------------------------------
(* What it shows.                                                          *)

LEMMA PositionsFacts ==
  ASSUME NEW a \in Nat, NEW z \in Int, NEW n \in Nat, z - a + 1 = n
  PROVE  \E p \in Seq(Nat) :
            /\ p = Positions(a, z) /\ Len(p) = n
            /\ \A i \in 1 .. n : p[i] = a + i - 1
<1>1. PICK p : p = Positions(a, z)
  OBVIOUS
<1>2. p = [i \in 1 .. n |-> a + i - 1]
  BY <1>1 DEF Positions
<1>3. p \in [1 .. n -> Nat] /\ \A i \in 1 .. n : p[i] = a + i - 1
  BY <1>2
<1>4. p \in Seq(Nat) /\ Len(p) = n
  BY <1>3
<1>5. QED BY <1>1, <1>3, <1>4

\* What lies behind the first r bytes of a copy.
LEMMA TailFacts ==
  ASSUME NEW c \in Seq(Nat), NEW f \in Nat, NEW o \in Nat, NEW r \in Nat, f <= o,
         Len(c) = r + (o - f),
         \A i \in 1 .. Len(c) : i > r => c[i] = f + (i - r) - 1
  PROVE  SubSeq(c, r + 1, Len(c)) = Positions(f, o - 1)
<1>1. PICK n \in Nat, a \in Nat, l \in Nat :
        n = o - f /\ a = r + 1 /\ l = Len(c) /\ l = r + n
  OBVIOUS
<1>2. PICK s : s = SubSeq(c, a, l)
  OBVIOUS
<1>3. \A i \in a .. l : c[i] \in Nat
  BY <1>1, ElementOfSeq
<1>4. /\ s \in Seq(Nat)
      /\ Len(s) = IF a <= l THEN l - a + 1 ELSE 0
      /\ \A i \in 1 .. l - a + 1 : s[i] = c[a + i - 1]
  BY <1>2, <1>3, SubSeqProperties
<1>5. Len(s) = n
  BY <1>1, <1>4
<1>6. ASSUME NEW i \in 1 .. n
      PROVE  s[i] = f + i - 1
  <2>1. PICK j \in Nat : j = a + i - 1 /\ j = r + i /\ j \in 1 .. l /\ j > r
    BY <1>1
  <2>2. i \in 1 .. l - a + 1
    BY <1>1
  <2>3. s[i] = c[j]
    BY <1>4, <2>1, <2>2
  <2>4. c[j] = f + (j - r) - 1
    BY <1>1, <2>1
  <2>5. f + (j - r) - 1 = f + i - 1
    BY <2>1
  <2>6. QED BY <2>3, <2>4, <2>5
<1>7. PICK y \in Int : y = o - 1 /\ y - f + 1 = n
  BY <1>1
<1>8. PICK p \in Seq(Nat) :
        p = Positions(f, y) /\ Len(p) = n /\ \A i \in 1 .. n : p[i] = f + i - 1
  BY ONLY <1>7, n \in Nat, f \in Nat, PositionsFacts
<1>9. s = p
  BY <1>4, <1>5, <1>6, <1>8, SeqEqual
<1>10. QED BY <1>1, <1>2, <1>7, <1>8, <1>9

\* The body on the wire is the span the header asked for, in order and without a
\* gap; a kept-alive connection carried exactly the declared Content-Length as
\* long as the file kept its length; the payload counter grew by what was sent
\* (stream and pump of handler.rs).
THEOREM BodiesAsDeclared == Spec => []BodyAsDeclared
<1>1. TypeOK /\ StreamInv => BodyAsDeclared
  <2> SUFFICES ASSUME TypeOK, StreamInv
               PROVE  BodyAsDeclared
    OBVIOUS
  <2>1. /\ offset \in Nat /\ ondisk \in Nat /\ size \in Nat /\ span.last \in Nat
        /\ span.first \in Nat /\ resumed \in Nat /\ copy \in Seq(Nat)
    BY BoundAssumption DEF TypeOK
  <2>2. PICK m \in Nat : m = Len(copy)
    BY <2>1, LenProperties
  <2>3. ASSUME Begun
        PROVE  SubSeq(copy, resumed + 1, Len(copy))
                 = Positions(span.first, offset - 1)
    <3>1. PICK c \in Seq(Nat), f \in Nat, o \in Nat, r \in Nat :
            c = copy /\ f = span.first /\ o = offset /\ r = resumed
      BY <2>1
    <3>2. /\ Len(c) = r + (o - f) /\ f <= o
          /\ \A i \in 1 .. Len(c) : i > r => c[i] = f + (i - r) - 1
      BY <2>3, <3>1 DEF StreamInv, SpanInv, Sent, SentBehind
    <3>3. SubSeq(c, r + 1, Len(c)) = Positions(f, o - 1)
      BY <3>2, TailFacts
    <3>4. QED BY <3>1, <3>3
  <2>4. pc = "kept" /\ Intact => Len(copy) - resumed = declared
    <3>1. CASE Begun
      <4>1. ASSUME pc = "kept", Intact
            PROVE  Len(copy) - resumed = declared
        <5>1. /\ m = resumed + (offset - span.first) /\ declared = SpanLen(span)
              /\ offset <= span.last + 1 /\ offset > span.last
          BY <2>1, <2>2, <3>1, <4>1 DEF StreamInv, SpanInv, Sent, SentBehind, Intact
        <5>2. PICK f \in Nat, z \in Nat, o \in Nat, r \in Nat :
                f = span.first /\ z = span.last /\ o = offset /\ r = resumed
          BY <2>1
        <5>3. m = r + (o - f) /\ declared = z - f + 1 /\ o <= z + 1 /\ o > z
          BY <5>1, <5>2 DEF SpanLen
        <5>4. m - r = z - f + 1
          BY <5>3
        <5>5. QED BY <2>2, <5>2, <5>3, <5>4
      <4>2. QED BY <4>1
    <3>2. CASE ~Begun
      BY <2>1, <3>2 DEF StreamInv, StatusInv, Begun, TypeOK
    <3>3. QED BY <3>1, <3>2
  <2>5. payload_bytes = IF pc = "kept" THEN Len(copy) - resumed ELSE 0
    BY DEF StreamInv, StatusInv
  <2>6. QED BY <2>3, <2>4, <2>5 DEF BodyAsDeclared, Begun
<1>2. QED BY <1>1, StreamInvariant, PTL

\* A well-formed range that is honoured brings the client the bytes RFC 9110
\* says, and one whose numbers fit a u64 is always honoured (resolve of
\* range.rs, stream of handler.rs).
THEOREM AskedBytesAreSent == Spec => []AskedBytesSent
<1>1. TypeOK /\ StreamInv => AskedBytesSent
  <2> SUFFICES ASSUME TypeOK, StreamInv, pc = "kept", Intact, resumed = 0,
                      size # 0, WellFormed(header)
               PROVE  \/ ToSet(copy) = Asked(header, size)
                      \/ /\ \E side \in {header.first, header.last} : side > U64Max
                         /\ ToSet(copy) = 0 .. size - 1
    BY DEF AskedBytesSent
  <2>1. /\ offset \in Nat /\ ondisk \in Nat /\ size \in Nat \ {0}
        /\ span.last \in Nat /\ span.first \in Nat /\ copy \in Seq(Nat)
        /\ header \in Header(U64Max + 1)
    BY BoundAssumption DEF TypeOK
  <2>2. PICK m \in Nat : m = Len(copy) /\ DOMAIN copy = 1 .. m
    BY <2>1, LenProperties
  <2>3. ToSet(copy) = {copy[i] : i \in 1 .. m}
    BY <2>2 DEF ToSet
  <2>4. Honours(Resolve(header, size), header, size)
    BY <2>1, ResolveSelects
  <2>5. CASE Begun
    <3>1. /\ m = offset - span.first /\ offset = span.last + 1
          /\ span.first <= span.last
          /\ \A i \in 1 .. m : copy[i] = span.first + i - 1
          /\ Answers(header, size, span)
      BY <2>1, <2>2, <2>5 DEF StreamInv, SpanInv, Sent, SentBehind, Intact
    <3>2. ToSet(copy) = span.first .. span.last
      <4>1. ASSUME NEW b \in span.first .. span.last
            PROVE  \E i \in 1 .. m : copy[i] = b
        <5>1. b - span.first + 1 \in 1 .. m
          BY <2>1, <3>1
        <5>2. copy[b - span.first + 1] = b
          BY <2>1, <3>1, <5>1
        <5>3. QED BY <5>1, <5>2
      <4>2. \A i \in 1 .. m : copy[i] \in span.first .. span.last
        BY <2>1, <3>1
      <4>3. QED BY <2>3, <4>1, <4>2
    <3>3. CASE Resolve(header, size).kind = "Whole"
      <4>1. span.first = 0 /\ span.last = size - 1
        BY <3>1, <3>3 DEF Answers
      <4>2. header.first > U64Max \/ header.last > U64Max
        BY <2>4, <3>3 DEF Honours
      <4>3. QED BY <3>2, <4>1, <4>2
    <3>4. CASE Resolve(header, size).kind = "Partial"
      BY <2>4, <3>1, <3>2, <3>4 DEF Answers, Honours
    <3>5. QED BY <3>1, <3>3, <3>4 DEF Answers
  <2>6. CASE ~Begun
    <3>1. status = 416 /\ m = 0
      BY <2>2, <2>6 DEF StreamInv, StatusInv, RefusedInv, Begun, TypeOK
    <3>2. Asked(header, size) = {}
      BY <2>4, <3>1 DEF StreamInv, RefusedInv, Honours
    <3>3. QED BY <2>3, <3>1, <3>2
  <2>7. QED BY <2>5, <2>6
<1>2. QED BY <1>1, StreamInvariant, PTL

\* A fetch resumed any number of times, at any byte, ends as the artifact it
\* began with, or the file was shortened meanwhile (the Range a resuming client
\* sends, and the answer stream gives it).
THEOREM ResumedFetchesWhole == Spec => []ResumedFetchWhole
<1>1. TypeOK /\ StreamInv => ResumedFetchWhole
  <2> SUFFICES ASSUME TypeOK, StreamInv, pc = "kept", ondisk = expects,
                      header.form = "absent" \/ resumed > 0
               PROVE  copy = Positions(0, size - 1)
    BY DEF ResumedFetchWhole
  <2>1. /\ offset \in Nat /\ ondisk \in Nat /\ size \in Nat /\ expects \in Nat
        /\ span.last \in Nat /\ span.first \in Nat /\ copy \in Seq(Nat)
        /\ resumed \in Nat /\ ondisk <= size
    BY BoundAssumption DEF TypeOK, StreamInv, StatusInv
  <2>2. PICK m \in Nat : m = Len(copy)
    BY <2>1, LenProperties
  <2>3. \A i \in 1 .. m : copy[i] = i - 1
    BY <2>2 DEF StreamInv, FetchInv, Fetching
  <2>4. m = size
    <3>1. CASE Begun
      BY <2>1, <2>2, <3>1
         DEF StreamInv, SpanInv, Sent, SentBehind, FetchInv, Fetching
    <3>2. CASE ~Begun
      <4>1. status \in {416, 500} /\ m = resumed
        BY <2>2, <3>2 DEF StreamInv, StatusInv, Begun, TypeOK
      <4>2. CASE resumed = 0
        <5>1. Resolve(header, size).kind = "Whole"
          <6>1. header.form = "absent"
            BY <4>2
          <6>2. Resolve(header, size) = Whole
            BY <6>1 DEF Resolve
          <6>3. QED BY <6>2, PartialFacts
        <5>2. QED BY <4>1, <4>2, <5>1 DEF StreamInv, RefusedInv
      <4>3. CASE resumed > 0
        <5>1. /\ header = From(resumed) /\ resumed < expects /\ size <= expects
              /\ resumed <= U64Max
          BY <2>1, <4>3, BoundAssumption, FitsAssumption, U64Assumption
             DEF StreamInv, FetchInv, TypeOK
        <5>2. size \in Nat \ {0} /\ resumed < size
          BY <2>1, <4>3, <5>1
        <5>3. Resolve(header, size).kind = "Partial"
          BY <2>1, <5>1, <5>2, FromResolves
        <5>4. QED BY <4>1, <5>2, <5>3 DEF StreamInv, RefusedInv
      <4>4. QED BY <2>1, <4>2, <4>3
    <3>3. QED BY <3>1, <3>2
  <2>5. PICK zero \in Nat, y \in Int : zero = 0 /\ y = size - 1 /\ y - zero + 1 = m
    BY <2>1, <2>4
  <2>6. PICK p \in Seq(Nat) :
          /\ p = Positions(zero, y) /\ Len(p) = m
          /\ \A i \in 1 .. m : p[i] = zero + i - 1
    BY <2>5, PositionsFacts
  <2>7. \A i \in 1 .. m : p[i] = copy[i]
    BY <2>3, <2>5, <2>6
  <2>8. copy = p
    BY <2>1, <2>2, <2>6, <2>7, SeqEqual
  <2>9. QED BY <2>5, <2>6, <2>8
<1>2. QED BY <1>1, StreamInvariant, PTL

=============================================================================
