--------------------------- MODULE SessionProofs ----------------------------
(***************************************************************************)
(* The theorems of Http and Session: any set of requests, heads with any   *)
(* number of fields in any order, bodies of any length, any number of      *)
(* pipelined messages, cut into reads anywhere.                            *)
(***************************************************************************)
EXTENDS Session, SequenceTheorems, FiniteSetTheorems, WellFoundedInduction, TLAPS

-----------------------------------------------------------------------------
(* Induction, in the form the provers can use: about sets of numbers.      *)

LEMMA LeastNumber ==
  ASSUME NEW T \in SUBSET Nat, T # {}
  PROVE  \E x \in T : \A y \in T : ~(y < x)
<1>1. PICK R : R = OpToRel(<, Nat)
  OBVIOUS
<1>2. IsWellFoundedOn(R, Nat)
  BY <1>1, NatLessThanWellFounded
<1>3. PICK x \in T : \A y \in T : ~(<<y, x>> \in R)
  BY <1>2, WFMin, Zenon
<1>4. \A y \in T : y < x => <<y, x>> \in R
  BY <1>1 DEF OpToRel
<1>5. QED BY <1>3, <1>4

LEMMA Induction ==
  ASSUME NEW n \in Nat, NEW S \in SUBSET (0 .. n), 0 \in S,
         \A i \in 0 .. n - 1 : i \in S => i + 1 \in S
  PROVE  n \in S
<1> SUFFICES ASSUME n \notin S
             PROVE  FALSE
  OBVIOUS
<1> DEFINE T == {i \in 0 .. n : i \notin S}
<1>1. T \in SUBSET Nat /\ T # {}
  OBVIOUS
<1>2. PICK x \in T : \A y \in T : ~(y < x)
  BY <1>1, LeastNumber
<1>3. x \in 1 .. n /\ x \notin S
  OBVIOUS
<1>4. x - 1 \in S
  BY <1>2, <1>3
<1>5. QED BY <1>3, <1>4

-----------------------------------------------------------------------------
(* http::parse, for a head with any number of fields.                      *)

\* What the loop over the lines defines.
Absorbs(f, h, m) ==
    f = [i \in 0 .. m |-> IF i = 0 THEN Fresh(h) ELSE Absorb(f[i - 1], h.headers[i])]

LEMMA AbsorbsNext ==
  ASSUME NEW h, NEW m \in Nat, NEW g, Absorbs(g, h, m)
  PROVE  \E f : Absorbs(f, h, m + 1)
<1>1. PICK f : f = [i \in 0 .. m + 1 |->
                      IF i <= m THEN g[i] ELSE Absorb(g[m], h.headers[m + 1])]
  OBVIOUS
<1>2. ASSUME NEW i \in 0 .. m + 1
      PROVE  f[i] = IF i = 0 THEN Fresh(h) ELSE Absorb(f[i - 1], h.headers[i])
  BY <1>1 DEF Absorbs
<1>3. f = [i \in 0 .. m + 1 |->
              IF i = 0 THEN Fresh(h) ELSE Absorb(f[i - 1], h.headers[i])]
  BY <1>1, <1>2
<1>4. QED BY <1>3 DEF Absorbs

LEMMA AbsorbedDef ==
  ASSUME NEW h, Len(h.headers) \in Nat
  PROVE  Absorbs(Absorbed(h), h, Len(h.headers))
<1>1. PICK n \in Nat : n = Len(h.headers)
  OBVIOUS
<1> DEFINE S == {m \in 0 .. n : \E f : Absorbs(f, h, m)}
<1>2. 0 \in S
  <2>1. PICK f : f = [i \in 0 .. 0 |-> Fresh(h)]
    OBVIOUS
  <2>2. Absorbs(f, h, 0)
    BY <2>1 DEF Absorbs
  <2>3. QED BY <2>2
<1>3. ASSUME NEW i \in 0 .. n - 1, i \in S
      PROVE  i + 1 \in S
  <2>1. PICK g : Absorbs(g, h, i)
    BY <1>3
  <2>2. \E f : Absorbs(f, h, i + 1)
    BY <2>1, AbsorbsNext
  <2>3. QED BY <2>2
<1>4. n \in S
  <2> HIDE DEF S
  <2>1. S \in SUBSET (0 .. n)
    BY DEF S
  <2>2. QED BY <1>2, <1>3, <2>1, Induction
<1>5. \E f : Absorbs(f, h, n)
  BY <1>4
<1>6. QED BY <1>1, <1>5 DEF Absorbed, Absorbs

\* Requests, as far as a head with the fields up to m can make them.
Parsed(h, m) ==
    [ok: BOOLEAN, method: {h.method}, target: {h.target},
     framing: {"Empty", "Length", "Chunked"},
     length: {0} \cup {h.headers[i].value : i \in 1 .. m},
     keep_alive: {"Keep", "Close"}, expectation: {"None", "Continue"},
     authorization: {NoCredential} \cup
        {h.headers[i].value : i \in {j \in 1 .. m : h.headers[j].name = "authorization"}}]

\* Of the fields up to m the i-th is the last to give a length, and p has it.
Declares(p, h, i, m) ==
    /\ h.headers[i].name = "content-length"
    /\ \A k \in 1 .. m : k > i => h.headers[k].name # "content-length"
    /\ p.length = h.headers[i].value
    /\ p.length # NotANumber

\* Which framing the fields up to m have declared, and that no two disagreed.
Framed(p, h, m) ==
    p.ok =>
        /\ h.line = "good"
        /\ p.framing = "Empty" => \A i \in 1 .. m : h.headers[i].name \notin Framing
        /\ p.framing = "Length" =>
              /\ \A i \in 1 .. m : h.headers[i].name # "transfer-encoding"
              /\ \E i \in 1 .. m : Declares(p, h, i, m)
        /\ p.framing = "Chunked" =>
              /\ \A i \in 1 .. m : h.headers[i].name # "content-length"
              /\ \E i \in 1 .. m : h.headers[i].name = "transfer-encoding"

LEMMA AbsorbFacts ==
  ASSUME NEW h, NEW m \in Nat, NEW p \in Parsed(h, m), Framed(p, h, m)
  PROVE  /\ Absorb(p, h.headers[m + 1]) \in Parsed(h, m + 1)
         /\ Framed(Absorb(p, h.headers[m + 1]), h, m + 1)
<1>1. PICK f : f = h.headers[m + 1]
  OBVIOUS
<1>2. PICK q : q = Absorb(p, f)
  OBVIOUS
<1>3. f.value \in {h.headers[i].value : i \in 1 .. m + 1}
  BY <1>1
<1>4. f.name = "authorization" =>
         f.value \in {h.headers[i].value :
                        i \in {j \in 1 .. m + 1 : h.headers[j].name = "authorization"}}
  BY <1>1
<1>5. p \in Parsed(h, m + 1)
  BY DEF Parsed
<1>6. q \in Parsed(h, m + 1)
  BY <1>2, <1>3, <1>4, <1>5 DEF Parsed, Absorb, Accept
<1>7. Framed(q, h, m + 1)
  <2> SUFFICES ASSUME q.ok
               PROVE  /\ h.line = "good"
                      /\ q.framing = "Empty" =>
                            \A i \in 1 .. m + 1 : h.headers[i].name \notin Framing
                      /\ q.framing = "Length" =>
                            /\ \A i \in 1 .. m + 1 :
                                  h.headers[i].name # "transfer-encoding"
                            /\ \E i \in 1 .. m + 1 : Declares(q, h, i, m + 1)
                      /\ q.framing = "Chunked" =>
                            /\ \A i \in 1 .. m + 1 :
                                  h.headers[i].name # "content-length"
                            /\ \E i \in 1 .. m + 1 :
                                  h.headers[i].name = "transfer-encoding"
    BY DEF Framed
  <2>1. p.ok /\ ~Refuses(p, f) /\ q = Accept(p, f)
    BY <1>2 DEF Absorb, Parsed
  <2>2. /\ h.line = "good"
        /\ p.framing = "Empty" => \A i \in 1 .. m : h.headers[i].name \notin Framing
        /\ p.framing = "Length" =>
              /\ \A i \in 1 .. m : h.headers[i].name # "transfer-encoding"
              /\ \E i \in 1 .. m : Declares(p, h, i, m)
        /\ p.framing = "Chunked" =>
              /\ \A i \in 1 .. m : h.headers[i].name # "content-length"
              /\ \E i \in 1 .. m : h.headers[i].name = "transfer-encoding"
    BY <2>1 DEF Framed
  <2>3. CASE f.name = "content-length"
    <3>1. q.framing = "Length" /\ q.length = f.value /\ f.value # NotANumber
          /\ p.framing # "Chunked"
      BY <2>1, <2>3 DEF Accept, Refuses, Parsed
    <3>2. p.framing \in {"Empty", "Length"}
      BY <3>1 DEF Parsed
    <3>3. \A i \in 1 .. m : h.headers[i].name # "transfer-encoding"
      BY <2>2, <3>2 DEF Framing
    <3>4. Declares(q, h, m + 1, m + 1)
      BY <1>1, <2>3, <3>1 DEF Declares
    <3>5. QED BY <1>1, <2>2, <2>3, <3>1, <3>3, <3>4
  <2>4. CASE f.name = "transfer-encoding"
    <3>1. q.framing = "Chunked" /\ p.framing # "Length"
      BY <2>1, <2>4 DEF Accept, Refuses, Parsed
    <3>2. p.framing \in {"Empty", "Chunked"}
      BY <3>1 DEF Parsed
    <3>3. \A i \in 1 .. m : h.headers[i].name # "content-length"
      BY <2>2, <3>2 DEF Framing
    <3>4. QED BY <1>1, <2>2, <2>4, <3>1, <3>3
  <2>5. CASE f.name \notin Framing
    <3>1. q.framing = p.framing /\ q.length = p.length
      BY <2>1, <2>5 DEF Accept, Parsed, Framing
    <3>2. \A i \in 1 .. m : Declares(p, h, i, m) => Declares(q, h, i, m + 1)
      BY <1>1, <2>5, <3>1 DEF Declares, Framing
    <3>3. QED BY <1>1, <2>2, <2>5, <3>1, <3>2 DEF Framing
  <2>6. QED BY <2>3, <2>4, <2>5 DEF Framing
<1>8. QED BY <1>1, <1>2, <1>6, <1>7

LEMMA ParseFramed ==
  ASSUME NEW h, Len(h.headers) \in Nat
  PROVE  Parse(h) \in Parsed(h, Len(h.headers)) /\ Framed(Parse(h), h, Len(h.headers))
<1>1. PICK n \in Nat : n = Len(h.headers)
  OBVIOUS
<1>2. PICK f : f = Absorbed(h)
  OBVIOUS
<1>3. Absorbs(f, h, n)
  BY <1>1, <1>2, AbsorbedDef
<1> DEFINE S == {m \in 0 .. n : f[m] \in Parsed(h, m) /\ Framed(f[m], h, m)}
<1>4. 0 \in S
  <2>1. f[0] = Fresh(h)
    BY <1>3 DEF Absorbs
  <2>2. Fresh(h) \in Parsed(h, 0)
    BY DEF Fresh, Parsed
  <2>3. Framed(Fresh(h), h, 0)
    <3>1. PICK p : p = Fresh(h)
      OBVIOUS
    <3>2. p.framing = "Empty" /\ p.ok = (h.line = "good")
      BY <3>1 DEF Fresh
    <3>3. p.framing # "Length" /\ p.framing # "Chunked" /\ (p.ok => h.line = "good")
      BY <3>2
    <3>4. \A i \in 1 .. 0 : h.headers[i].name \notin Framing
      OBVIOUS
    <3>5. Framed(p, h, 0)
      BY ONLY <3>3, <3>4, Zenon DEF Framed
    <3>6. QED BY <3>1, <3>5
  <2>4. QED BY <2>1, <2>2, <2>3
<1>5. ASSUME NEW i \in 0 .. n - 1, i \in S
      PROVE  i + 1 \in S
  <2>1. f[i] \in Parsed(h, i) /\ Framed(f[i], h, i)
    BY <1>5
  <2>2. f[i + 1] = Absorb(f[i], h.headers[i + 1])
    BY <1>3 DEF Absorbs
  <2>3. PICK p : p = f[i]
    OBVIOUS
  <2>4. /\ Absorb(p, h.headers[i + 1]) \in Parsed(h, i + 1)
        /\ Framed(Absorb(p, h.headers[i + 1]), h, i + 1)
    BY <2>1, <2>3, AbsorbFacts
  <2>5. QED BY <2>2, <2>3, <2>4
<1>6. n \in S
  <2> HIDE DEF S
  <2>1. S \in SUBSET (0 .. n)
    BY DEF S
  <2>2. QED BY <1>4, <1>5, <2>1, Induction
<1>7. QED BY <1>1, <1>2, <1>6 DEF Parse

\* A head that parses has one framing at most, whatever its fields and their
\* order: the length it declares is the number of the last content-length field,
\* chunks come with no content-length beside them, and without a framing field
\* it promises no body. No field changes what was asked.
THEOREM ParseFraming ==
  ASSUME NEW h, Len(h.headers) \in Nat, DOMAIN h.headers = 1 .. Len(h.headers),
         Parse(h).ok
  PROVE  /\ Parse(h).method = h.method /\ Parse(h).target = h.target
         /\ h.line = "good"
         /\ Parse(h).framing \in {"Empty", "Length", "Chunked"}
         /\ Parse(h).framing = "Empty" => FieldNames(h) \cap Framing = {}
         /\ Parse(h).framing = "Length" =>
               /\ FieldNames(h) \cap Framing = {"content-length"}
               /\ \E i \in DOMAIN h.headers :
                     /\ h.headers[i].name = "content-length" /\ LastOfName(h, i)
                     /\ Parse(h).length = h.headers[i].value
                     /\ Parse(h).length # NotANumber
         /\ Parse(h).framing = "Chunked" =>
               FieldNames(h) \cap Framing = {"transfer-encoding"}
<1>1. PICK p : p = Parse(h)
  OBVIOUS
<1>2. p \in Parsed(h, Len(h.headers)) /\ Framed(p, h, Len(h.headers)) /\ p.ok
  BY <1>1, ParseFramed
<1>3. PICK n \in Nat : n = Len(h.headers)
  OBVIOUS
<1>4. p \in Parsed(h, n) /\ Framed(p, h, n) /\ DOMAIN h.headers = 1 .. n
  BY <1>2, <1>3
<1>5. /\ p.method = h.method /\ p.target = h.target
      /\ p.framing \in {"Empty", "Length", "Chunked"}
  BY <1>4 DEF Parsed
<1>6. FieldNames(h) = {h.headers[i].name : i \in 1 .. n}
  BY <1>4 DEF FieldNames
<1>7. p.framing = "Empty" => FieldNames(h) \cap Framing = {}
  BY <1>2, <1>4, <1>6 DEF Framed
<1>8. p.framing = "Length" =>
         /\ FieldNames(h) \cap Framing = {"content-length"}
         /\ \E i \in DOMAIN h.headers :
               /\ h.headers[i].name = "content-length" /\ LastOfName(h, i)
               /\ p.length = h.headers[i].value
               /\ p.length # NotANumber
  BY <1>2, <1>4, <1>6 DEF Framed, Framing, Declares, LastOfName
<1>9. p.framing = "Chunked" => FieldNames(h) \cap Framing = {"transfer-encoding"}
  BY <1>2, <1>4, <1>6 DEF Framed, Framing
<1>10. h.line = "good"
  BY <1>2, <1>4 DEF Framed
<1>11. QED BY <1>1, <1>5, <1>7, <1>8, <1>9, <1>10

\* The request that a head of Requests becomes.
ParsedOf(p, r) ==
    /\ p.ok \in BOOLEAN /\ p.method = r.method /\ p.target = r.target
    /\ p.framing \in {"Empty", "Length", "Chunked"} /\ p.keep_alive \in {"Keep", "Close"}
    /\ p.expectation \in {"None", "Continue"}
    /\ p.ok => r.method \in {"Get", "Head", "Put"}
    /\ p.ok /\ p.framing = "Empty" => r.length = 0
    /\ p.ok /\ p.framing = "Length" => p.length = r.length
    /\ Admits(p.authorization) => Entitled(r)

LEMMA AdmitsEntitled ==
  ASSUME NEW r, NEW j \in DOMAIN r.headers, r.headers[j].name = "authorization",
         Admits(r.headers[j].value)
  PROVE  Entitled(r)
<1>1. PICK text \in Credential(r.headers[j].value) : text \in PushTokens
  BY DEF Admits
<1>2. Trim(text) \in {Trim(chosen) : chosen \in TokenFlags \cup TokenLines}
  <2>1. text \in TokenFlags \/ \E line \in TokenLines : text = Trim(line)
    BY <1>1 DEF PushTokens
  <2>2. CASE text \in TokenFlags
    BY <2>2
  <2>3. CASE \E line \in TokenLines : text = Trim(line)
    <3>1. PICK line \in TokenLines : text = Trim(line)
      BY <2>3
    <3>2. Trim(text) = Trim(line)
      BY <3>1 DEF Trim
    <3>3. QED BY <3>2
  <2>4. QED BY <2>1, <2>2, <2>3
<1>3. text # Blank
  BY <1>1 DEF PushTokens
<1>4. QED BY <1>1, <1>2, <1>3 DEF Entitled

LEMMA ParseFacts ==
  ASSUME NEW r \in Requests
  PROVE  ParsedOf(Parse(r), r)
<1>1. PICK p : p = Parse(r)
  OBVIOUS
<1>2. PICK n : n = Len(r.headers)
  OBVIOUS
<1>3. n \in Nat /\ DOMAIN r.headers = 1 .. n /\ r.length \in Nat
  BY <1>2, RequestsAssumption
<1>4. p \in Parsed(r, n)
  BY <1>1, <1>2, <1>3, ParseFramed
<1>5. /\ p.ok \in BOOLEAN /\ p.method = r.method /\ p.target = r.target
      /\ p.framing \in {"Empty", "Length", "Chunked"} /\ p.keep_alive \in {"Keep", "Close"}
      /\ p.expectation \in {"None", "Continue"}
  BY <1>4 DEF Parsed
<1>6. ASSUME p.ok, p.framing = "Empty"
      PROVE  r.length = 0
  <2>1. FieldNames(r) \cap Framing = {}
    BY <1>1, <1>2, <1>3, <1>6, ParseFraming
  <2>2. ~(r.length > 0)
    BY <2>1, RequestsAssumption
  <2>3. QED BY <1>3, <2>2
<1>7. ASSUME p.ok, p.framing = "Length"
      PROVE  p.length = r.length
  <2>1. FieldNames(r) \cap Framing = {"content-length"}
    BY <1>1, <1>2, <1>3, <1>7, ParseFraming
  <2>2. PICK i \in DOMAIN r.headers :
           /\ r.headers[i].name = "content-length" /\ LastOfName(r, i)
           /\ p.length = r.headers[i].value
           /\ p.length # NotANumber
    BY <1>1, <1>2, <1>3, <1>7, ParseFraming
  <2>3. "transfer-encoding" \notin FieldNames(r)
    BY <2>1 DEF Framing
  <2>4. r.headers[i].value \in {r.length, NotANumber}
    BY <2>2, <2>3, RequestsAssumption
  <2>5. QED BY <2>2, <2>4
<1>8. ASSUME Admits(p.authorization)
      PROVE  Entitled(r)
  <2>1. ~Admits(NoCredential)
    BY DEF Admits, Credential, NoCredential
  <2>2. p.authorization \in {NoCredential} \cup
          {r.headers[i].value : i \in {j \in 1 .. n : r.headers[j].name = "authorization"}}
    BY <1>4 DEF Parsed
  <2>3. PICK j \in 1 .. n : /\ r.headers[j].name = "authorization"
                            /\ p.authorization = r.headers[j].value
    BY <1>8, <2>1, <2>2
  <2>4. QED BY <1>3, <1>8, <2>3, AdmitsEntitled
<1>9. ASSUME p.ok
      PROVE  r.method \in {"Get", "Head", "Put"}
  <2>1. r.line = "good"
    BY <1>1, <1>2, <1>3, <1>9, ParseFraming
  <2>2. QED BY <2>1, RequestsAssumption
<1>10. QED BY <1>1, <1>5, <1>6, <1>7, <1>8, <1>9 DEF ParsedOf

-----------------------------------------------------------------------------
(* The inductive invariant.                                                *)

ItemType == [kind: {"line", "end", "body"}, of: Nat, at: Nat]

Answers == [to: Nat, status: Nat, keep_alive: {"Keep", "Close"},
            declared: Nat, written: Nat, pumped: {"Whole", "Short"}]

TypeOK ==
    /\ requests \in Seq(Requests)
    /\ unsent \in Seq(ItemType) /\ wire \in Seq(ItemType) /\ buffer \in Seq(ItemType)
    /\ fin \in BOOLEAN
    /\ pc \in {"head", "closed"} \cup Serving
    /\ head \in Seq(ItemType) /\ body \in Seq(ItemType)
    /\ remaining \in Nat
    /\ replies \in Seq(Answers)
    /\ counters \in [Counter -> Nat]

\* The items of a message.
Size(r) == r.lines + 1 + r.length

Belongs(x, reqs) ==
    /\ x.of \in 1 .. Len(reqs)
    /\ x.at \in 1 .. Size(reqs[x.of])
    /\ x = Item(x.of, reqs[x.of], x.at)

\* y comes after x: in the same message, or first in the next.
Follows(x, y, reqs) ==
    IF x.at < Size(reqs[x.of]) THEN y.of = x.of /\ y.at = x.at + 1
    ELSE y.of = x.of + 1 /\ y.at = 1

\* s is what there is to read of the messages reqs, from the j-th item of the
\* i-th on and without a gap.
Stream(s, i, j, reqs) ==
    /\ \A k \in 1 .. Len(s) : Belongs(s[k], reqs)
    /\ \A k \in 1 .. Len(s) - 1 : Follows(s[k], s[k + 1], reqs)
    /\ Len(s) = 0 => i = Len(reqs) + 1 /\ j = 1
    /\ Len(s) > 0 =>
          /\ s[1].of = i /\ s[1].at = j
          /\ s[Len(s)].of = Len(reqs) /\ s[Len(s)].at = Size(reqs[Len(reqs)])

\* The same when the head of the i-th and q units of its body were taken.
Inside(s, i, q, reqs) ==
    IF q < reqs[i].length THEN Stream(s, i, reqs[i].lines + 2 + q, reqs)
    ELSE Stream(s, i + 1, 1, reqs)

\* Everything the client wrote and the session has not taken.
Ahead == buffer \o (wire \o unsent)

\* Between requests the next item is the first of the request to answer.
\* Inside one it is what follows the part of its body that was read.
Place ==
    /\ pc = "head" => Stream(Ahead, Len(replies) + 1, 1, requests)
    /\ pc \in Serving => Inside(Ahead, Current, Len(body), requests)

HeadOf(h, reqs) ==
    h # <<>> => /\ Last(h).of \in 1 .. Len(reqs)
                /\ h = HeadItems(Last(h).of, reqs[Last(h).of])

\* The request in hand is the next to answer.
InHand ==
    pc \in Serving => /\ head # <<>>
                      /\ Current = Len(replies) + 1
                      /\ Current \in 1 .. Len(requests)
                      /\ request = Parse(sent)

Reading == {"receiving", "collecting", "finishing"}

\* What was read of the body, and what is left.
BodyRead ==
    pc \in Serving =>
        /\ Len(body) <= sent.length
        /\ \A j \in 1 .. Len(body) : body[j] = Item(Current, sent, sent.lines + 1 + j)
        /\ pc \in {"handling", "collecting"} => Len(body) = 0
        /\ pc \in Reading => Len(body) + remaining = sent.length
        /\ pc = "finishing" => remaining = 0

\* The session reads the bodies of pushes it has admitted.
Pushing ==
    pc \in Reading =>
        /\ request.ok /\ request.framing = "Length" /\ Admitted
        /\ request.method = "Put"
        /\ Route(request.target) = IF pc = "receiving" THEN "nar" ELSE "narinfo"

Frames == [declared: Nat, written: Nat, pumped: {"Whole", "Short"}]

\* What an answer to a request declares fits what is written after it: nothing
\* after a HEAD, all of it after any other, but for an artifact that ended early.
Fits(framed, r) ==
    \/ framed.written = IF r.method = "Head" THEN 0 ELSE framed.declared
    \/ framed.pumped = "Short" /\ r.method = "Get" /\ Route(r.target) = "nar"

\* AnsweredInOrder of given replies and requests.
InOrder(reps, reqs) ==
    \A j \in 1 .. Len(reps) :
        /\ reps[j].to = j
        /\ j < Len(reps) => reps[j].keep_alive = "Keep"
        /\ Fits(reps[j], reqs[j])

AllKeep(reps) == \A j \in 1 .. Len(reps) : reps[j].keep_alive = "Keep"

\* Requests told to continue were pushes: answered as such, or still in hand.
ContinuedOf(cont, reps, at) ==
    \A i \in cont :
        \/ i \in 1 .. Len(reps) /\ reps[i].status \in {201, 400, 500}
        \/ i = Len(reps) + 1 /\ at \in Reading \cup {"closed"}

AppliedOf(done, reqs) == \A i \in done : i \in 1 .. Len(reqs) /\ Entitled(reqs[i])

\* After an answer that closes nothing is read; what was handed to ingest was
\* entitled to it.
Inv ==
    /\ TypeOK /\ Place /\ HeadOf(head, requests) /\ InHand /\ BodyRead /\ Pushing
    /\ Len(replies) <= Len(requests) /\ InOrder(replies, requests)
    /\ pc # "closed" => AllKeep(replies)
    /\ ContinuedOf(continued, replies, pc)
    /\ AppliedOf(applied, requests)

-----------------------------------------------------------------------------
(* Streams.                                                                *)

LEMMA RequestFacts ==
  ASSUME NEW reqs \in Seq(Requests), NEW i \in 1 .. Len(reqs)
  PROVE  /\ reqs[i] \in Requests
         /\ reqs[i].lines \in Nat \ {0} /\ reqs[i].length \in Nat
         /\ Size(reqs[i]) = reqs[i].lines + 1 + reqs[i].length
<1>1. reqs[i] \in Requests
  OBVIOUS
<1>2. QED BY <1>1, RequestsAssumption DEF Size

LEMMA SizeNat ==
  ASSUME NEW reqs \in Seq(Requests), NEW i \in 1 .. Len(reqs)
  PROVE  Size(reqs[i]) \in Nat
<1>1. PICK r : r = reqs[i]
  OBVIOUS
<1>2. r \in Requests
  BY <1>1
<1>3. r.lines \in Nat /\ r.length \in Nat
  BY <1>2, RequestsAssumption
<1>4. QED BY <1>1, <1>3 DEF Size

\* m items further on in the same message.
RunsTo(s, m, i, j, reqs) ==
    /\ m < Len(s)
    /\ s[m + 1].of = i /\ s[m + 1].at = j + m
    /\ s[m + 1] = Item(i, reqs[i], j + m)

\* From the j-th item of a message on, the rest of it is there, in order.
LEMMA StreamRun ==
  ASSUME NEW reqs \in Seq(Requests), NEW s \in Seq(ItemType), NEW i, NEW j \in Nat \ {0},
         NEW m \in Nat, i \in 1 .. Len(reqs), Stream(s, i, j, reqs),
         j + m <= Size(reqs[i]), Len(s) > 0
  PROVE  RunsTo(s, m, i, j, reqs)
<1>1. PICK z : z = Size(reqs[i])
  OBVIOUS
<1>2. z \in Nat
  BY <1>1, SizeNat
<1>3. PICK n \in Nat : n = Len(s)
  OBVIOUS
<1> DEFINE S == {q \in 0 .. m : q < n /\ s[q + 1].of = i /\ s[q + 1].at = j + q}
<1>4. 0 \in S
  BY <1>3 DEF Stream
<1>5. ASSUME NEW q \in 0 .. m - 1, q \in S
      PROVE  q + 1 \in S
  <2>1. s[q + 1].of = i /\ s[q + 1].at = j + q /\ q < n
    BY <1>5
  <2>2. j + q < z
    BY <1>1, <1>2
  <2>3. q + 1 # n
    <3>1. SUFFICES ASSUME q + 1 = n
                   PROVE  FALSE
      OBVIOUS
    <3>2. s[q + 1].of = Len(reqs) /\ s[q + 1].at = Size(reqs[Len(reqs)])
      BY <1>3, <3>1 DEF Stream
    <3>3. j + q = z
      BY <1>1, <2>1, <3>2
    <3>4. QED BY <1>2, <2>2, <3>3
  <2>4. q + 1 \in 1 .. n - 1
    BY <2>1, <2>3
  <2>5. Follows(s[q + 1], s[(q + 1) + 1], reqs)
    BY <1>3, <2>4 DEF Stream
  <2>6. s[(q + 1) + 1].of = i /\ s[(q + 1) + 1].at = (j + q) + 1
    BY <1>1, <2>1, <2>2, <2>5 DEF Follows
  <2>7. QED BY <2>4, <2>6
<1>6. m \in S
  <2> HIDE DEF S
  <2>1. S \in SUBSET (0 .. m)
    BY DEF S
  <2>2. QED BY <1>4, <1>5, <2>1, Induction
<1>7. m < n /\ s[m + 1].of = i /\ s[m + 1].at = j + m
  BY <1>6
<1>8. Belongs(s[m + 1], reqs)
  BY <1>3, <1>7 DEF Stream
<1>9. s[m + 1] = Item(i, reqs[i], j + m)
  BY <1>7, <1>8, Zenon DEF Belongs
<1>10. QED BY <1>3, <1>7, <1>9 DEF RunsTo

\* Without the first n items, of one message, the stream goes on.
DropsTo(t, n, i, j, reqs) ==
    /\ j + n <= Size(reqs[i]) => Stream(t, i, j + n, reqs)
    /\ j + n = Size(reqs[i]) + 1 => Stream(t, i + 1, 1, reqs)

LEMMA StreamDrop ==
  ASSUME NEW reqs \in Seq(Requests), NEW s \in Seq(ItemType), NEW i, NEW j \in Nat \ {0},
         i \in 1 .. Len(reqs), Stream(s, i, j, reqs), Len(s) > 0,
         NEW n \in Nat \ {0}, j + n <= Size(reqs[i]) + 1
  PROVE  DropsTo(SubSeq(s, n + 1, Len(s)), n, i, j, reqs)
<1>1. PICK z : z = Size(reqs[i])
  OBVIOUS
<1>2. z \in Nat
  BY <1>1, SizeNat
<1>3. PICK l \in Nat : l = Len(s)
  OBVIOUS
<1>4. PICK m \in Nat : m = n - 1 /\ j + m <= z
  BY <1>1, <1>2
<1>5. m < l /\ s[m + 1].of = i /\ s[m + 1].at = j + m
  <2>1. /\ reqs \in Seq(Requests) /\ s \in Seq(ItemType) /\ j \in Nat \ {0}
        /\ i \in 1 .. Len(reqs) /\ Stream(s, i, j, reqs)
        /\ m \in Nat /\ j + m <= Size(reqs[i]) /\ Len(s) > 0
    BY <1>1, <1>4
  <2>2. RunsTo(s, m, i, j, reqs)
    BY ONLY <2>1, StreamRun, Zenon
  <2>3. QED BY <1>3, <2>2 DEF RunsTo
<1>6. n <= l /\ s[n].of = i /\ s[n].at = j + n - 1
  <2>1. m + 1 = n /\ j + m = j + n - 1 /\ (m < l => n <= l)
    BY <1>4
  <2>2. QED BY <1>5, <2>1
<1>7. PICK t : t = SubSeq(s, n + 1, Len(s))
  OBVIOUS
<1>8. /\ Len(t) = l - n
      /\ \A k \in 1 .. l - n : t[k] = s[n + k]
  BY ONLY <1>3, <1>6, <1>7, s \in Seq(ItemType), n \in Nat \ {0}, SMTT(60)
<1>9. \A k \in 1 .. Len(t) : Belongs(t[k], reqs)
  <2>1. \A k \in 1 .. l : Belongs(s[k], reqs)
    BY <1>3 DEF Stream
  <2>2. SUFFICES ASSUME NEW k \in 1 .. l - n
                 PROVE  Belongs(t[k], reqs)
    BY <1>8, Zenon
  <2>3. n + k \in 1 .. l
    BY ONLY <1>3, l \in Nat, n \in Nat \ {0}, k \in 1 .. l - n
  <2>4. t[k] = s[n + k]
    BY ONLY <1>8, k \in 1 .. l - n
  <2>5. QED BY ONLY <2>1, <2>3, <2>4
<1>10. \A k \in 1 .. Len(t) - 1 : Follows(t[k], t[k + 1], reqs)
  <2>1. SUFFICES ASSUME NEW k \in 1 .. (l - n) - 1
                 PROVE  Follows(t[k], t[k + 1], reqs)
    BY <1>8
  <2>2. n + k \in 1 .. l - 1 /\ (n + k) + 1 = n + (k + 1)
    OBVIOUS
  <2>3. Follows(s[n + k], s[(n + k) + 1], reqs)
    BY <1>3, <2>2 DEF Stream
  <2>4. t[k] = s[n + k] /\ t[k + 1] = s[n + (k + 1)]
    BY <1>8
  <2>5. QED BY <2>2, <2>3, <2>4
<1>11. s[l].of = Len(reqs) /\ s[l].at = Size(reqs[Len(reqs)])
  BY <1>3 DEF Stream
<1>12. CASE n = l
  <2>1. i = Len(reqs) /\ j + n - 1 = z
    BY <1>1, <1>6, <1>11, <1>12
  <2>2. j + n = z + 1 /\ ~(j + n <= z)
    BY <1>2, <2>1
  <2>3. Len(t) = 0
    BY <1>8, <1>12
  <2>4. Stream(t, i + 1, 1, reqs)
    BY <1>9, <1>10, <2>1, <2>3 DEF Stream
  <2>5. QED BY <1>1, <1>7, <2>2, <2>4 DEF DropsTo
<1>13. CASE n < l
  <2>1. Follows(s[n], s[n + 1], reqs)
    BY <1>3, <1>13 DEF Stream
  <2>2. t[1] = s[n + 1] /\ t[l - n] = s[l] /\ Len(t) > 0
    BY <1>8, <1>13
  <2>3. t[Len(t)].of = Len(reqs) /\ t[Len(t)].at = Size(reqs[Len(reqs)])
    BY <1>8, <1>11, <2>2
  <2>4. ASSUME j + n <= z
        PROVE  Stream(t, i, j + n, reqs)
    <3>1. j + n - 1 < z /\ (j + n - 1) + 1 = j + n
      BY <1>2, <2>4
    <3>2. t[1].of = i /\ t[1].at = j + n
      BY <1>1, <1>6, <2>1, <2>2, <3>1 DEF Follows
    <3>3. QED BY <1>9, <1>10, <2>2, <2>3, <3>2 DEF Stream
  <2>5. ASSUME j + n = z + 1
        PROVE  Stream(t, i + 1, 1, reqs)
    <3>1. ~(j + n - 1 < z)
      BY <1>2, <2>5
    <3>2. t[1].of = i + 1 /\ t[1].at = 1
      BY <1>1, <1>6, <2>1, <2>2, <3>1 DEF Follows
    <3>3. QED BY <1>9, <1>10, <2>2, <2>3, <3>2 DEF Stream
  <2>6. QED BY <1>1, <1>7, <2>4, <2>5 DEF DropsTo
<1>14. QED BY <1>6, <1>12, <1>13

LEMMA MessageFacts ==
  ASSUME NEW i \in Nat, NEW r \in Requests
  PROVE  /\ MessageItems(i, r) \in Seq(ItemType)
         /\ Len(MessageItems(i, r)) = Size(r)
         /\ Size(r) \in Nat \ {0}
         /\ \A k \in 1 .. Size(r) : MessageItems(i, r)[k] = Item(i, r, k)
<1>1. r.lines \in Nat \ {0} /\ r.length \in Nat
  BY RequestsAssumption
<1>2. PICK z \in Nat \ {0} : z = Size(r) /\ z = r.lines + 1 + r.length
  BY <1>1 DEF Size
<1>3. PICK m : m = MessageItems(i, r)
  OBVIOUS
<1>4. m = [k \in 1 .. z |-> Item(i, r, k)]
  BY <1>2, <1>3 DEF MessageItems
<1>5. \A k \in 1 .. z : Item(i, r, k) \in ItemType
  BY <1>1 DEF Item, ItemType
<1>6. m \in [1 .. z -> ItemType]
  BY <1>4, <1>5
<1>7. m \in Seq(ItemType) /\ Len(m) = z
  BY <1>6
<1>8. QED BY <1>2, <1>3, <1>4, <1>7

LEMMA ItemFields ==
  ASSUME NEW i, NEW r, NEW k
  PROVE  Item(i, r, k).of = i /\ Item(i, r, k).at = k
BY DEF Item

\* c is s followed by t.
IsCat(T, c, s, t) ==
    /\ c \in Seq(T) /\ c = s \o t
    /\ Len(c) = Len(s) + Len(t)
    /\ \A k \in 1 .. Len(s) : c[k] = s[k]
    /\ \A k \in 1 .. Len(t) : c[Len(s) + k] = t[k]

LEMMA Cat ==
  ASSUME NEW T, NEW s \in Seq(T), NEW t \in Seq(T)
  PROVE  \E c : IsCat(T, c, s, t)
<1>1. PICK c : c = s \o t
  OBVIOUS
<1>2. c \in Seq(T) /\ Len(c) = Len(s) + Len(t)
  BY <1>1
<1>3. /\ \A k \in 1 .. Len(s) : c[k] = s[k]
      /\ \A k \in 1 .. Len(t) : c[Len(s) + k] = t[k]
  BY <1>1
<1>4. QED BY ONLY <1>1, <1>2, <1>3, Zenon DEF IsCat

\* The next message goes to the end of the stream.
LEMMA StreamAsk ==
  ASSUME NEW reqs \in Seq(Requests), NEW s \in Seq(ItemType), NEW i, NEW j,
         NEW r \in Requests, Stream(s, i, j, reqs)
  PROVE  Stream(s \o MessageItems(Len(reqs) + 1, r), i, j, Append(reqs, r))
<1>1. PICK n \in Nat : n = Len(reqs)
  OBVIOUS
<1>2. PICK l \in Nat : l = Len(s)
  OBVIOUS
<1>3. PICK m \in Seq(ItemType) : m = MessageItems(n + 1, r)
  BY MessageFacts
<1>4. PICK z \in Nat \ {0} : /\ z = Size(r) /\ Len(m) = z
                             /\ \A k \in 1 .. z : m[k] = Item(n + 1, r, k)
  <2>1. PICK q \in Nat : q = n + 1
    OBVIOUS
  <2>2. /\ Len(MessageItems(q, r)) = Size(r)
        /\ Size(r) \in Nat \ {0}
        /\ \A k \in 1 .. Size(r) : MessageItems(q, r)[k] = Item(q, r, k)
    BY MessageFacts
  <2>3. m = MessageItems(q, r)
    BY <1>3, <2>1
  <2>4. /\ Size(r) \in Nat \ {0} /\ Len(m) = Size(r)
        /\ \A k \in 1 .. Size(r) : m[k] = Item(n + 1, r, k)
    BY <2>1, <2>2, <2>3
  <2>5. QED BY ONLY <2>4, Zenon
<1>5. PICK t : IsCat(ItemType, t, s, m)
  BY ONLY <1>3, s \in Seq(ItemType), Cat
<1>6. /\ t = s \o m
      /\ Len(t) = l + z
      /\ \A k \in 1 .. l : t[k] = s[k]
      /\ \A k \in 1 .. z : t[l + k] = m[k]
  <2>1. Len(m) = z
    BY ONLY <1>4
  <2>2. QED BY ONLY <1>2, <1>5, <2>1, Zenon DEF IsCat
<1>7. PICK R : R = Append(reqs, r)
  OBVIOUS
<1>8. Len(R) = n + 1 /\ R[n + 1] = r /\ \A k \in 1 .. n : R[k] = reqs[k]
  BY <1>1, <1>7
<1>9. /\ \A k \in 1 .. l : Belongs(s[k], reqs)
      /\ \A k \in 1 .. l - 1 : Follows(s[k], s[k + 1], reqs)
      /\ l = 0 => i = n + 1 /\ j = 1
      /\ l > 0 => /\ s[1].of = i /\ s[1].at = j
                  /\ s[l].of = n /\ s[l].at = Size(reqs[n])
  BY <1>1, <1>2 DEF Stream
<1>10. \A k \in 1 .. z : t[l + k] = Item(n + 1, r, k)
                         /\ t[l + k].of = n + 1 /\ t[l + k].at = k
  BY <1>4, <1>6, ItemFields
<1>11. \A k \in 1 .. l : Belongs(t[k], R)
  <2>1. TAKE k \in 1 .. l
  <2>2. t[k] = s[k] /\ Belongs(s[k], reqs) /\ s[k].of \in 1 .. n
    BY <1>1, <1>6, <1>9 DEF Belongs
  <2>3. R[s[k].of] = reqs[s[k].of] /\ s[k].of \in 1 .. Len(R)
    BY <1>8, <2>2
  <2>4. QED BY <2>2, <2>3 DEF Belongs
<1>12. \A k \in 1 .. z : Belongs(t[l + k], R)
  BY <1>4, <1>8, <1>10 DEF Belongs
<1>13. \A k \in 1 .. Len(t) : Belongs(t[k], R)
  <2>1. TAKE k \in 1 .. Len(t)
  <2>2. k \in 1 .. l \/ (k - l \in 1 .. z /\ k = l + (k - l))
    BY <1>6
  <2>3. QED BY <1>11, <1>12, <2>2
<1>14. \A k \in 1 .. Len(t) - 1 : Follows(t[k], t[k + 1], R)
  <2>1. TAKE k \in 1 .. Len(t) - 1
  <2>2. CASE k \in 1 .. l - 1
    <3>1. t[k] = s[k] /\ t[k + 1] = s[k + 1] /\ s[k].of \in 1 .. n
      BY <1>1, <1>6, <1>9, <2>2, SMTT(60) DEF Belongs
    <3>2. Follows(s[k], s[k + 1], reqs) /\ R[s[k].of] = reqs[s[k].of]
      BY <1>8, <1>9, <2>2, <3>1
    <3>3. QED BY <3>1, <3>2 DEF Follows
  <2>3. CASE k = l
    <3>1. l > 0 /\ t[k] = s[l] /\ s[l].of = n /\ s[l].at = Size(reqs[n])
      BY <1>6, <1>9, <2>3
    <3>2. t[k + 1].of = n + 1 /\ t[k + 1].at = 1
      BY <1>10, <2>3
    <3>3. s[l].of \in 1 .. n
      BY <1>1, <1>9, <3>1 DEF Belongs
    <3>4. Size(reqs[n]) \in Nat /\ R[n] = reqs[n]
      BY <1>1, <1>8, <3>1, <3>3, SizeNat
    <3>5. ~(t[k].at < Size(R[t[k].of]))
      BY <3>1, <3>4
    <3>6. QED BY <3>1, <3>2, <3>5 DEF Follows
  <2>4. CASE k - l \in 1 .. z - 1
    <3>1. PICK q \in 1 .. z - 1 : k = l + q
      BY <2>4
    <3>2. t[k].of = n + 1 /\ t[k].at = q
      BY <1>10, <3>1
    <3>3. t[k + 1].of = n + 1 /\ t[k + 1].at = q + 1
      <4>1. k + 1 = l + (q + 1) /\ q + 1 \in 1 .. z
        BY <3>1
      <4>2. QED BY <1>10, <4>1
    <3>4. t[k].at < Size(R[t[k].of])
      BY <1>4, <1>8, <3>2
    <3>5. QED BY <3>2, <3>3, <3>4 DEF Follows
  <2>5. k \in 1 .. l - 1 \/ k = l \/ k - l \in 1 .. z - 1
    BY <1>6
  <2>6. QED BY <2>2, <2>3, <2>4, <2>5
<1>15. t[Len(t)].of = n + 1 /\ t[Len(t)].at = Size(R[n + 1]) /\ Len(t) > 0
  BY <1>4, <1>6, <1>8, <1>10
<1>16. t[1].of = i /\ t[1].at = j
  <2>1. CASE l = 0
    <3>1. 1 = l + 1 /\ 1 \in 1 .. z
      BY <2>1
    <3>2. QED BY <1>9, <1>10, <2>1, <3>1
  <2>2. CASE l > 0
    BY <1>6, <1>9, <2>2
  <2>3. QED BY <2>1, <2>2
<1>17. Stream(t, i, j, R)
  BY <1>8, <1>13, <1>14, <1>15, <1>16 DEF Stream
<1>18. QED BY <1>1, <1>3, <1>6, <1>7, <1>17

-----------------------------------------------------------------------------
(* Sequences: what moves between the client, the socket and the buffer.    *)

LEMMA SameSeq ==
  ASSUME NEW T, NEW s \in Seq(T), NEW t \in Seq(T), Len(s) = Len(t),
         \A k \in 1 .. Len(s) : s[k] = t[k]
  PROVE  s = t
OBVIOUS

\* c is s from its m+1st element to its n-th.
IsCut(T, c, s, m, n) ==
    /\ c \in Seq(T) /\ c = SubSeq(s, m + 1, n)
    /\ Len(c) = n - m
    /\ \A k \in 1 .. n - m : c[k] = s[m + k]

LEMMA Cut ==
  ASSUME NEW T, NEW s \in Seq(T), NEW m \in Nat, NEW n \in Nat, m <= n, n <= Len(s)
  PROVE  \E c : IsCut(T, c, s, m, n)
<1>1. PICK c : c = SubSeq(s, m + 1, n)
  OBVIOUS
<1>2. m \in Int /\ n \in Int /\ m + 1 \in Int /\ m <= n
  OBVIOUS
<1>3. \A i \in m + 1 .. n : s[i] \in T
  OBVIOUS
<1>4. /\ c \in Seq(T)
      /\ Len(c) = IF m + 1 <= n THEN n - (m + 1) + 1 ELSE 0
      /\ \A i \in 1 .. n - (m + 1) + 1 : c[i] = s[(m + 1) + i - 1]
  BY ONLY <1>1, <1>2, <1>3, SubSeqProperties
<1>5. Len(c) = n - m
  BY ONLY <1>2, <1>4
<1>6. ASSUME NEW k \in 1 .. n - m
      PROVE  c[k] = s[m + k]
  <2>1. k \in 1 .. n - (m + 1) + 1 /\ (m + 1) + k - 1 = m + k
    BY <1>2
  <2>2. c[k] = s[(m + 1) + k - 1]
    BY ONLY <1>4, <2>1
  <2>3. QED BY ONLY <2>1, <2>2
<1>7. QED BY ONLY <1>1, <1>4, <1>5, <1>6, Zenon DEF IsCut

IsFirst(T, c, s, n) ==
    /\ c \in Seq(T) /\ c = SubSeq(s, 1, n)
    /\ Len(c) = n
    /\ \A k \in 1 .. n : c[k] = s[k]

LEMMA CutFirst ==
  ASSUME NEW T, NEW s \in Seq(T), NEW n \in Nat, n <= Len(s)
  PROVE  \E c : IsFirst(T, c, s, n)
<1>1. 0 \in Nat /\ 0 <= n
  OBVIOUS
<1>2. PICK c : IsCut(T, c, s, 0, n)
  BY <1>1, Cut
<1>3. c \in Seq(T) /\ c = SubSeq(s, 0 + 1, n) /\ Len(c) = n - 0
      /\ \A k \in 1 .. n - 0 : c[k] = s[0 + k]
  BY ONLY <1>2 DEF IsCut
<1>4. 0 + 1 = 1 /\ n - 0 = n
  OBVIOUS
<1>5. c = SubSeq(s, 1, n) /\ Len(c) = n
  BY ONLY <1>3, <1>4, Zenon
<1>6. \A k \in 1 .. n : c[k] = s[k]
  BY ONLY <1>3, n \in Nat
<1>7. QED BY ONLY <1>3, <1>5, <1>6, Zenon DEF IsFirst

Groups(s, t, u) == (s \o t) \o u = s \o (t \o u)

LEMMA Regroup ==
  ASSUME NEW T, NEW s \in Seq(T), NEW t \in Seq(T), NEW u \in Seq(T)
  PROVE  Groups(s, t, u)
BY ConcatAssociative DEF Groups

\* Three sequences in a row, divided in another way.
Moves(T, b, w, u, toB, toW, toU) ==
    /\ toB \in Seq(T) /\ toW \in Seq(T) /\ toU \in Seq(T)
    /\ toB \o (toW \o toU) = b \o (w \o u)

LEMMA MoveEmit ==
  ASSUME NEW T, NEW b \in Seq(T), NEW w \in Seq(T), NEW u \in Seq(T), u # <<>>
  PROVE  Moves(T, b, w, u, b, Append(w, Head(u)), Tail(u))
<1>1. Append(w, Head(u)) \in Seq(T) /\ Tail(u) \in Seq(T)
  OBVIOUS
<1>2. Append(w, Head(u)) \o Tail(u) = w \o u
  <2>1. PICK x : x = Append(w, Head(u)) \o Tail(u)
    OBVIOUS
  <2>2. PICK y : y = w \o u
    OBVIOUS
  <2>3. Len(x) = Len(y) /\ x \in Seq(T) /\ y \in Seq(T)
    BY <2>1, <2>2
  <2>4. \A k \in 1 .. Len(x) : x[k] = y[k]
    BY <2>1, <2>2
  <2>5. x = y
    BY ONLY <2>3, <2>4, SameSeq
  <2>6. QED BY <2>1, <2>2, <2>5
<1>3. QED BY <1>1, <1>2 DEF Moves

LEMMA MoveFill ==
  ASSUME NEW T, NEW b \in Seq(T), NEW w \in Seq(T), NEW u \in Seq(T), NEW n \in Nat,
         n <= Len(w)
  PROVE  Moves(T, b, w, u, b \o SubSeq(w, 1, n), SubSeq(w, n + 1, Len(w)), u)
<1>1. n \in Nat /\ Len(w) \in Nat /\ n <= Len(w) /\ Len(w) <= Len(w)
  OBVIOUS
<1>2. PICK p : IsFirst(T, p, w, n)
  BY <1>1, CutFirst
<1>3. PICK q : IsCut(T, q, w, n, Len(w))
  BY <1>1, Cut
<1>4. p \o q = w
  <2>1. PICK l \in Nat : l = Len(w) /\ n <= l
    BY <1>1
  <2>2. p \in Seq(T) /\ q \in Seq(T) /\ Len(p) = n /\ Len(q) = l - n
    BY ONLY <1>2, <1>3, <2>1 DEF IsCut, IsFirst
  <2>3. PICK x : IsCat(T, x, p, q)
    BY <2>2, Cat
  <2>4. Len(x) = n + (l - n)
    BY ONLY <2>2, <2>3 DEF IsCat
  <2>5. Len(x) = l
    BY <2>1, <2>4
  <2>6. ASSUME NEW k \in 1 .. l
        PROVE  x[k] = w[k]
    <3>1. CASE k <= n
      <4>1. k \in 1 .. n
        BY <3>1
      <4>2. x[k] = p[k]
        BY ONLY <2>2, <2>3, <4>1 DEF IsCat
      <4>3. p[k] = w[k]
        BY ONLY <1>2, <4>1 DEF IsFirst
      <4>4. QED BY ONLY <4>2, <4>3
    <3>2. CASE k > n
      <4>1. PICK m : m = k - n
        OBVIOUS
      <4>2. m \in 1 .. l - n /\ n + m = k
        BY <1>1, <3>2, <4>1
      <4>3. x[n + m] = q[m]
        BY ONLY <2>2, <2>3, <4>2 DEF IsCat
      <4>4. q[m] = w[n + m]
        BY ONLY <1>3, <2>1, <4>2 DEF IsCut
      <4>5. QED BY ONLY <4>2, <4>3, <4>4
    <3>3. QED BY <3>1, <3>2
  <2>7. x \in Seq(T) /\ x = p \o q
    BY ONLY <2>3 DEF IsCat
  <2>8. x = w
    BY <2>1, <2>5, <2>6, <2>7, SameSeq
  <2>9. QED BY ONLY <2>7, <2>8, Zenon
<1>5. p \in Seq(T) /\ q \in Seq(T)
  BY ONLY <1>2, <1>3 DEF IsFirst, IsCut
<1>6. (b \o p) \o (q \o u) = b \o (w \o u)
  <2>1. PICK c : c = q \o u
    OBVIOUS
  <2>2. c \in Seq(T)
    BY <1>5, <2>1, ConcatProperties
  <2>3. Groups(b, p, c)
    BY <1>5, <2>2, Regroup
  <2>4. (p \o q) \o u = p \o (q \o u)
    BY ONLY <1>5, u \in Seq(T), ConcatAssociative, SMTT(60)
  <2>5. QED BY ONLY <1>4, <2>1, <2>3, <2>4, Zenon DEF Groups
<1>7. b \o p \in Seq(T)
  BY ONLY <1>5, b \in Seq(T), ConcatProperties
<1>8. QED BY ONLY <1>2, <1>3, <1>6, <1>7, u \in Seq(T), Zenon DEF IsCut, IsFirst, Moves

LEMMA MoveAsk ==
  ASSUME NEW T, NEW b \in Seq(T), NEW w \in Seq(T), NEW m \in Seq(T)
  PROVE  b \o (w \o m) = (b \o (w \o << >>)) \o m
<1>1. w \o << >> = w
  OBVIOUS
<1>2. QED BY ONLY <1>1, b \in Seq(T), w \in Seq(T), m \in Seq(T), ConcatAssociative, SMTT(60)

\* The first n elements of b leave it.
IsTaken(T, s, h, d, b, w, u, n) ==
    /\ s \in Seq(T) /\ h \in Seq(T) /\ d \in Seq(T)
    /\ s = b \o (w \o u) /\ h = SubSeq(b, 1, n) /\ d = SubSeq(b, n + 1, Len(b))
    /\ d \o (w \o u) = SubSeq(s, n + 1, Len(s))
    /\ Len(h) = n /\ Len(s) >= Len(b)
    /\ \A k \in 1 .. Len(b) : s[k] = b[k]
    /\ \A k \in 1 .. n : h[k] = s[k]

LEMMA MoveTake ==
  ASSUME NEW T, NEW b \in Seq(T), NEW w \in Seq(T), NEW u \in Seq(T), NEW n \in Nat,
         n <= Len(b)
  PROVE  \E s : \E h : \E d : IsTaken(T, s, h, d, b, w, u, n)
<1>1. PICK lb \in Nat : lb = Len(b) /\ n <= lb /\ lb <= lb
  OBVIOUS
<1>2. PICK c : IsCat(T, c, w, u)
  BY Cat
<1>3. c \in Seq(T) /\ c = w \o u
  BY ONLY <1>2 DEF IsCat
<1>4. PICK s : IsCat(T, s, b, c)
  BY <1>3, Cat
<1>5. PICK lc \in Nat : lc = Len(c)
  BY <1>3
<1>6. s \in Seq(T) /\ s = b \o c /\ Len(s) = lb + lc
  BY ONLY <1>1, <1>4, <1>5 DEF IsCat
<1>7. PICK d : IsCut(T, d, b, n, lb)
  BY <1>1, Cut
<1>8. PICK t : IsCut(T, t, s, n, lb + lc)
  <2>1. lb + lc \in Nat /\ n <= lb + lc /\ lb + lc <= Len(s)
    BY <1>1, <1>6
  <2>2. QED BY <1>6, <2>1, Cut
<1>9. PICK h : IsFirst(T, h, b, n)
  BY CutFirst
<1>10. d \o c = t
  <2>1. d \in Seq(T) /\ t \in Seq(T) /\ Len(d) = lb - n /\ Len(t) = lb + lc - n
    BY ONLY <1>7, <1>8 DEF IsCut
  <2>2. PICK x : IsCat(T, x, d, c)
    BY <1>3, <2>1, Cat
  <2>3. x \in Seq(T) /\ x = d \o c /\ Len(x) = (lb - n) + lc
    BY ONLY <1>5, <2>1, <2>2 DEF IsCat
  <2>4. ASSUME NEW k \in 1 .. (lb - n) + lc
        PROVE  x[k] = t[k]
    <3>1. k \in 1 .. (lb + lc) - n
      BY <1>1
    <3>2. t[k] = s[n + k]
      BY ONLY <1>8, <3>1 DEF IsCut
    <3>3. CASE k <= lb - n
      <4>1. n + k \in 1 .. lb /\ k \in 1 .. lb - n
        BY <1>1, <3>3
      <4>2. x[k] = d[k]
        BY ONLY <2>1, <2>2, <4>1 DEF IsCat
      <4>3. d[k] = b[n + k]
        BY ONLY <1>7, <4>1 DEF IsCut
      <4>4. s[n + k] = b[n + k]
        BY ONLY <1>1, <1>4, <4>1 DEF IsCat
      <4>5. QED BY ONLY <3>2, <4>2, <4>3, <4>4, Zenon
    <3>4. CASE k > lb - n
      <4>1. PICK q : q = k - (lb - n)
        OBVIOUS
      <4>2. q \in 1 .. lc /\ k = (lb - n) + q /\ n + k = lb + q
        BY <1>1, <3>4, <4>1
      <4>3. x[(lb - n) + q] = c[q]
        BY ONLY <1>5, <2>1, <2>2, <4>2 DEF IsCat
      <4>4. s[lb + q] = c[q]
        BY ONLY <1>1, <1>4, <1>5, <4>2 DEF IsCat
      <4>5. QED BY ONLY <3>2, <4>2, <4>3, <4>4, Zenon
    <3>5. QED BY <1>1, <3>3, <3>4
  <2>5. Len(x) = Len(t) /\ \A k \in 1 .. Len(x) : x[k] = t[k]
    BY ONLY <1>1, <2>1, <2>3, <2>4, lc \in Nat, n \in Nat, SMTT(60)
  <2>6. x = t
    BY ONLY <2>1, <2>3, <2>5, SameSeq
  <2>7. QED BY ONLY <2>3, <2>6, Zenon
<1>11. \A k \in 1 .. Len(b) : s[k] = b[k]
  BY ONLY <1>4 DEF IsCat
<1>12. \A k \in 1 .. n : h[k] = s[k]
  BY ONLY <1>1, <1>9, <1>11, n \in Nat DEF IsFirst
<1>13. Len(s) >= Len(b)
  BY <1>1, <1>6
<1>14. d \in Seq(T) /\ d = SubSeq(b, n + 1, Len(b)) /\ t = SubSeq(s, n + 1, Len(s))
  BY ONLY <1>1, <1>6, <1>7, <1>8 DEF IsCut
<1>15. s = b \o (w \o u) /\ d \o (w \o u) = SubSeq(s, n + 1, Len(s))
  BY ONLY <1>3, <1>6, <1>10, <1>14, Zenon
<1>16. h \in Seq(T) /\ h = SubSeq(b, 1, n) /\ Len(h) = n
  BY ONLY <1>9 DEF IsFirst
<1>17. IsTaken(T, s, h, d, b, w, u, n)
  BY ONLY <1>6, <1>11, <1>12, <1>13, <1>14, <1>15, <1>16, Zenon DEF IsTaken
<1>18. QED BY ONLY <1>17, Zenon

-----------------------------------------------------------------------------
(* head(), body() and chunk(), on a stream.                                *)

LEMMA HeadLenFacts ==
  ASSUME NEW b \in Seq(ItemType), HeadLen(b) > 0
  PROVE  /\ HeadLen(b) \in 1 .. Len(b)
         /\ b[HeadLen(b)].kind = "end"
         /\ \A m \in 1 .. HeadLen(b) - 1 : b[m].kind # "end"
<1>1. DOMAIN b = 1 .. Len(b)
  OBVIOUS
<1>2. \E j \in DOMAIN b : b[j].kind = "end"
  BY DEF HeadLen
<1>3. \E j \in DOMAIN b : b[j].kind = "end" /\ \A m \in 1 .. j - 1 : b[m].kind # "end"
  <2>1. PICK l \in Nat : l = Len(b)
    OBVIOUS
  <2> DEFINE T == {j \in 1 .. l : b[j].kind = "end"}
  <2>2. T \in SUBSET Nat /\ T # {}
    BY <1>1, <1>2, <2>1
  <2>3. PICK x \in T : \A y \in T : ~(y < x)
    BY <2>2, LeastNumber
  <2>4. x \in 1 .. l /\ b[x].kind = "end"
    BY <2>3
  <2>5. \A m \in 1 .. x - 1 : b[m].kind # "end"
    BY <2>3, <2>4
  <2>6. QED BY <1>1, <2>1, <2>4, <2>5
<1>4. PICK n : n = CHOOSE j \in DOMAIN b :
                      b[j].kind = "end" /\ \A m \in 1 .. j - 1 : b[m].kind # "end"
  OBVIOUS
<1>5. n \in DOMAIN b /\ b[n].kind = "end" /\ \A m \in 1 .. n - 1 : b[m].kind # "end"
  BY <1>3, <1>4
<1>6. HeadLen(b) = n
  BY <1>2, <1>4 DEF HeadLen
<1>7. QED BY <1>1, <1>5, <1>6

\* h is the head of the i-th request, d what the buffer has left.
TookHead(h, d, i, w, u, reqs) ==
    /\ i \in 1 .. Len(reqs)
    /\ h \in Seq(ItemType) /\ d \in Seq(ItemType)
    /\ h # <<>> /\ Last(h).of = i /\ h = HeadItems(i, reqs[i])
    /\ Inside(d \o (w \o u), i, 0, reqs)

LEMMA ReadHead ==
  ASSUME NEW b \in Seq(ItemType), NEW w \in Seq(ItemType), NEW u \in Seq(ItemType),
         NEW reqs \in Seq(Requests), NEW i, Stream(b \o (w \o u), i, 1, reqs),
         HeadLen(b) > 0
  PROVE  TookHead(SubSeq(b, 1, HeadLen(b)), SubSeq(b, HeadLen(b) + 1, Len(b)),
                  i, w, u, reqs)
<1>1. PICK n : n = HeadLen(b)
  OBVIOUS
<1>2. n \in 1 .. Len(b) /\ b[n].kind = "end" /\ \A m \in 1 .. n - 1 : b[m].kind # "end"
  BY <1>1, HeadLenFacts
<1>3. n \in Nat \ {0} /\ n <= Len(b)
  BY <1>2
<1>4. PICK s, h, d : IsTaken(ItemType, s, h, d, b, w, u, n)
  BY <1>3, MoveTake
<1>5. /\ s \in Seq(ItemType) /\ h \in Seq(ItemType) /\ d \in Seq(ItemType)
      /\ s = b \o (w \o u) /\ h = SubSeq(b, 1, n) /\ d = SubSeq(b, n + 1, Len(b))
      /\ d \o (w \o u) = SubSeq(s, n + 1, Len(s))
      /\ Len(h) = n /\ Len(s) >= Len(b)
      /\ \A k \in 1 .. Len(b) : s[k] = b[k]
      /\ \A k \in 1 .. n : h[k] = s[k]
  BY ONLY <1>4 DEF IsTaken
<1>6. PICK lb \in Nat : lb = Len(b)
  OBVIOUS
<1>7. PICK l \in Nat : l = Len(s)
  BY <1>5
<1>8. l > 0 /\ l >= lb /\ lb >= n
  BY <1>3, <1>5, <1>6, <1>7
<1>9. Stream(s, i, 1, reqs)
  BY <1>5
<1>10. i \in 1 .. Len(reqs)
  <2>1. s[1].of = i /\ Belongs(s[1], reqs)
    BY <1>7, <1>8, <1>9 DEF Stream
  <2>2. QED BY <2>1 DEF Belongs
<1>11. PICK r : r = reqs[i]
  OBVIOUS
<1>12. /\ r.lines \in Nat \ {0} /\ r.length \in Nat
       /\ Size(r) = r.lines + 1 + r.length
  BY <1>10, <1>11, RequestFacts
<1>13. \A k \in 1 .. Size(r) : k <= l /\ s[k] = Item(i, r, k)
  <2>1. TAKE k \in 1 .. Size(r)
  <2>2. PICK m \in Nat : m = k - 1 /\ k = m + 1 /\ 1 + m <= Size(r) /\ 1 + m = k
    BY <1>12
  <2>3. RunsTo(s, m, i, 1, reqs)
    <3>1. /\ reqs \in Seq(Requests) /\ s \in Seq(ItemType) /\ 1 \in Nat \ {0}
          /\ m \in Nat /\ i \in 1 .. Len(reqs) /\ Stream(s, i, 1, reqs)
          /\ 1 + m <= Size(reqs[i]) /\ Len(s) > 0
      BY <1>5, <1>7, <1>8, <1>9, <1>10, <1>11, <2>2
    <3>2. QED BY ONLY <3>1, StreamRun, Zenon
  <2>4. QED BY <1>7, <1>11, <2>2, <2>3 DEF RunsTo
<1>14. n = r.lines + 1
  <2>1. CASE n < r.lines + 1
    <3>1. n \in 1 .. Size(r) /\ n <= r.lines
      BY ONLY <1>3, <1>12, <2>1, SMTT(60)
    <3>2. s[n] = Item(i, r, n) /\ s[n] = b[n]
      BY <1>2, <1>5, <1>13, <3>1
    <3>3. Item(i, r, n).kind = "line"
      BY <3>1 DEF Item
    <3>4. QED BY <1>2, <3>2, <3>3
  <2>2. CASE n > r.lines + 1
    <3>1. PICK q \in Nat : q = r.lines + 1
      BY <1>12
    <3>2. q \in 1 .. Size(r) /\ q \in 1 .. n - 1 /\ q \in 1 .. lb
      BY ONLY <1>3, <1>8, <1>12, <2>2, <3>1, lb \in Nat
    <3>3. s[q] = Item(i, r, q) /\ s[q] = b[q]
      BY <1>5, <1>6, <1>13, <3>2
    <3>4. Item(i, r, q).kind = "end"
      BY <1>12, <3>1 DEF Item
    <3>5. QED BY <1>2, <3>2, <3>3, <3>4
  <2>3. QED BY <1>3, <1>12, <2>1, <2>2
<1>15. n \in 1 .. Size(r) /\ 1 + n <= Size(r) + 1
  BY <1>12, <1>14
<1>16. h = HeadItems(i, r)
  <2>1. \A k \in 1 .. n : h[k] = Item(i, r, k)
    <3>1. TAKE k \in 1 .. n
    <3>2. k \in 1 .. Size(r)
      BY ONLY <1>3, <1>12, <1>15, k \in 1 .. n
    <3>3. s[k] = Item(i, r, k)
      BY ONLY <1>13, <3>2
    <3>4. h[k] = s[k]
      BY ONLY <1>5, k \in 1 .. n
    <3>5. QED BY ONLY <3>3, <3>4
  <2>2. h = [k \in 1 .. n |-> h[k]]
    <3>1. h \in Seq(ItemType) /\ Len(h) = n
      BY <1>5
    <3>2. h = [k \in 1 .. Len(h) |-> h[k]]
      BY ONLY <3>1
    <3>3. QED BY ONLY <3>1, <3>2
  <2>3. QED BY <1>14, <2>1, <2>2 DEF HeadItems
<1>17. h # <<>> /\ Last(h).of = i
  <2>1. h[n] = Item(i, r, n)
    BY <1>3, <1>5, <1>13, <1>15, SMTT(60)
  <2>2. h # <<>> /\ Last(h) = h[n]
    BY <1>3, <1>5 DEF Last
  <2>3. QED BY <2>1, <2>2, ItemFields
<1>18. Inside(SubSeq(s, n + 1, Len(s)), i, 0, reqs)
  <2>1. /\ reqs \in Seq(Requests) /\ s \in Seq(ItemType) /\ 1 \in Nat \ {0}
        /\ i \in 1 .. Len(reqs) /\ Stream(s, i, 1, reqs) /\ Len(s) > 0
        /\ n \in Nat \ {0} /\ 1 + n <= Size(reqs[i]) + 1
    BY <1>3, <1>5, <1>7, <1>8, <1>9, <1>10, <1>11, <1>15
  <2>2. DropsTo(SubSeq(s, n + 1, Len(s)), n, i, 1, reqs)
    BY ONLY <2>1, StreamDrop, Zenon
  <2>3. /\ 1 + n <= Size(r) => Stream(SubSeq(s, n + 1, Len(s)), i, 1 + n, reqs)
        /\ 1 + n = Size(r) + 1 => Stream(SubSeq(s, n + 1, Len(s)), i + 1, 1, reqs)
    BY ONLY <1>11, <2>2, Zenon DEF DropsTo
  <2>4. CASE 0 < r.length
    <3>1. 1 + n <= Size(r) /\ 1 + n = r.lines + 2 + 0
      BY ONLY <1>12, <1>14, <2>4
    <3>2. QED BY <1>11, <2>3, <2>4, <3>1 DEF Inside
  <2>5. CASE ~(0 < r.length)
    <3>1. 1 + n = Size(r) + 1
      BY ONLY <1>12, <1>14, <2>5
    <3>2. QED BY <1>11, <2>3, <2>5, <3>1 DEF Inside
  <2>6. QED BY <2>4, <2>5
<1>19. QED BY ONLY <1>1, <1>5, <1>10, <1>11, <1>16, <1>17, <1>18, Zenon DEF TookHead

\* c is n units of body after the first q, d what the buffer has left.
TookBody(c, d, i, q, n, w, u, reqs) ==
    /\ c \in Seq(ItemType) /\ d \in Seq(ItemType) /\ Len(c) = n
    /\ \A k \in 1 .. n : c[k] = Item(i, reqs[i], reqs[i].lines + 1 + q + k)
    /\ Inside(d \o (w \o u), i, q + n, reqs)

LEMMA ReadBody ==
  ASSUME NEW b \in Seq(ItemType), NEW w \in Seq(ItemType), NEW u \in Seq(ItemType),
         NEW reqs \in Seq(Requests), NEW i \in 1 .. Len(reqs), NEW q \in Nat,
         NEW n \in Nat, n <= Len(b), q + n <= reqs[i].length,
         Inside(b \o (w \o u), i, q, reqs)
  PROVE  TookBody(SubSeq(b, 1, n), SubSeq(b, n + 1, Len(b)), i, q, n, w, u, reqs)
<1>1. PICK s, c, d : IsTaken(ItemType, s, c, d, b, w, u, n)
  BY MoveTake
<1>2. /\ s \in Seq(ItemType) /\ c \in Seq(ItemType) /\ d \in Seq(ItemType)
      /\ s = b \o (w \o u) /\ c = SubSeq(b, 1, n) /\ d = SubSeq(b, n + 1, Len(b))
      /\ d \o (w \o u) = SubSeq(s, n + 1, Len(s))
      /\ Len(c) = n /\ Len(s) >= Len(b)
      /\ \A k \in 1 .. n : c[k] = s[k]
  BY ONLY <1>1 DEF IsTaken
<1>3. PICK r : r = reqs[i]
  OBVIOUS
<1>4. PICK L, z : L = r.lines /\ z = r.length
  OBVIOUS
<1>5. L \in Nat /\ z \in Nat /\ Size(r) = L + 1 + z /\ q + n <= z
  BY <1>3, <1>4, RequestFacts
<1>6. Inside(s, i, q, reqs)
  BY <1>2
<1>7. CASE n = 0
  <2>1. SubSeq(s, 1, Len(s)) = s
    BY <1>2, SubSeqFull
  <2>2. d \o (w \o u) = s
    <3>1. n + 1 = 1
      BY <1>7
    <3>2. QED BY ONLY <1>2, <2>1, <3>1, Zenon
  <2>3. q + n = q
    BY <1>7
  <2>4. Inside(d \o (w \o u), i, q + n, reqs)
    BY ONLY <1>6, <2>2, <2>3, Zenon
  <2>5. \A k \in 1 .. n : c[k] = Item(i, reqs[i], reqs[i].lines + 1 + q + k)
    BY ONLY <1>7
  <2>6. QED BY ONLY <1>2, <2>4, <2>5, Zenon DEF TookBody
<1>8. CASE n > 0
  <2>1. PICK j \in Nat \ {0} : j = L + 2 + q
    BY <1>5
  <2>2. q < z /\ n \in Nat \ {0} /\ j + n <= Size(r) + 1
    BY <1>5, <1>8, <2>1
  <2>3. Stream(s, i, j, reqs)
    BY ONLY <1>3, <1>4, <1>6, <2>1, <2>2 DEF Inside
  <2>4. Len(s) > 0
    <3>1. j # 1
      BY <1>5, <2>1
    <3>2. QED BY ONLY <1>2, <2>3, <3>1 DEF Stream
  <2>5. \A k \in 1 .. n : c[k] = Item(i, r, L + 1 + q + k)
    <3>1. TAKE k \in 1 .. n
    <3>2. PICK m : m = k - 1
      OBVIOUS
    <3>3. m \in Nat /\ m + 1 = k /\ j + m = L + 1 + q + k /\ j + m <= Size(r)
      BY <1>5, <2>1, <2>2, <3>2
    <3>4. /\ reqs \in Seq(Requests) /\ s \in Seq(ItemType) /\ j \in Nat \ {0}
          /\ m \in Nat /\ i \in 1 .. Len(reqs) /\ Stream(s, i, j, reqs)
          /\ j + m <= Size(reqs[i]) /\ Len(s) > 0
      BY <1>2, <1>3, <2>3, <2>4, <3>3
    <3>5. RunsTo(s, m, i, j, reqs)
      BY ONLY <3>4, StreamRun, Zenon
    <3>6. s[m + 1] = Item(i, r, j + m)
      BY ONLY <1>3, <3>5, Zenon DEF RunsTo
    <3>7. c[k] = s[k]
      BY ONLY <1>2, k \in 1 .. n
    <3>8. QED BY ONLY <3>3, <3>6, <3>7, Zenon
  <2>6. DropsTo(SubSeq(s, n + 1, Len(s)), n, i, j, reqs)
    <3>1. /\ reqs \in Seq(Requests) /\ s \in Seq(ItemType) /\ j \in Nat \ {0}
          /\ i \in 1 .. Len(reqs) /\ Stream(s, i, j, reqs) /\ Len(s) > 0
          /\ n \in Nat \ {0} /\ j + n <= Size(reqs[i]) + 1
      BY <1>2, <1>3, <2>2, <2>3, <2>4
    <3>2. QED BY ONLY <3>1, StreamDrop, Zenon
  <2>7. PICK t : t = SubSeq(s, n + 1, Len(s))
    OBVIOUS
  <2>8. Inside(t, i, q + n, reqs)
    <3>1. /\ j + n <= Size(r) => Stream(t, i, j + n, reqs)
          /\ j + n = Size(r) + 1 => Stream(t, i + 1, 1, reqs)
      BY ONLY <1>3, <2>6, <2>7, Zenon DEF DropsTo
    <3>2. CASE q + n < z
      <4>1. j + n <= Size(r) /\ j + n = L + 2 + (q + n)
        BY <1>5, <2>1, <3>2
      <4>2. QED BY ONLY <1>3, <1>4, <3>1, <3>2, <4>1, Zenon DEF Inside
    <3>3. CASE ~(q + n < z)
      <4>1. j + n = Size(r) + 1
        BY <1>5, <2>1, <3>3
      <4>2. QED BY ONLY <1>3, <1>4, <3>1, <3>3, <4>1, Zenon DEF Inside
    <3>4. QED BY <3>2, <3>3
  <2>9. QED BY ONLY <1>2, <1>3, <1>4, <2>5, <2>7, <2>8, Zenon DEF TookBody
<1>9. QED BY <1>7, <1>8

LEMMA InsideAsk ==
  ASSUME NEW reqs \in Seq(Requests), NEW s \in Seq(ItemType), NEW i \in 1 .. Len(reqs),
         NEW q \in Nat, NEW r \in Requests, Inside(s, i, q, reqs)
  PROVE  Inside(s \o MessageItems(Len(reqs) + 1, r), i, q, Append(reqs, r))
<1>1. PICK R : R = Append(reqs, r)
  OBVIOUS
<1>2. R[i] = reqs[i]
  BY <1>1
<1>3. PICK t : t = s \o MessageItems(Len(reqs) + 1, r)
  OBVIOUS
<1>4. \A a, b : Stream(s, a, b, reqs) => Stream(t, a, b, R)
  BY <1>1, <1>3, StreamAsk
<1>5. Inside(t, i, q, R)
  BY ONLY <1>2, <1>4, Inside(s, i, q, reqs), Zenon DEF Inside
<1>6. QED BY ONLY <1>1, <1>3, <1>5, Zenon

-----------------------------------------------------------------------------
(* Lists of requests and answers that grow at the end.                     *)

LEMMA MoreRequests ==
  ASSUME NEW reqs \in Seq(Requests), NEW r \in Requests
  PROVE  /\ Append(reqs, r) \in Seq(Requests)
         /\ Len(Append(reqs, r)) = Len(reqs) + 1
         /\ \A i \in 1 .. Len(reqs) : Append(reqs, r)[i] = reqs[i]
OBVIOUS

LEMMA AnsweringInOrder ==
  ASSUME NEW reps \in Seq(Answers), NEW answer \in Answers, NEW reqs,
         InOrder(reps, reqs), AllKeep(reps), answer.to = Len(reps) + 1,
         Fits(answer, reqs[Len(reps) + 1])
  PROVE  InOrder(Append(reps, answer), reqs)
<1>1. PICK n \in Nat : n = Len(reps)
  OBVIOUS
<1>2. PICK R : R = Append(reps, answer)
  OBVIOUS
<1>3. Len(R) = n + 1 /\ R[n + 1] = answer /\ \A j \in 1 .. n : R[j] = reps[j]
  BY <1>1, <1>2
<1>4. ASSUME NEW j \in 1 .. n + 1
      PROVE  /\ R[j].to = j
             /\ j < n + 1 => R[j].keep_alive = "Keep"
             /\ Fits(R[j], reqs[j])
  <2>1. CASE j = n + 1
    BY <1>1, <1>3, <2>1
  <2>2. CASE j \in 1 .. n
    BY <1>1, <1>3, <2>2 DEF InOrder, AllKeep
  <2>3. QED BY <2>1, <2>2
<1>5. QED BY <1>2, <1>3, <1>4 DEF InOrder

LEMMA AnsweringKeeps ==
  ASSUME NEW reps \in Seq(Answers), NEW answer \in Answers, AllKeep(reps),
         answer.keep_alive = "Keep"
  PROVE  AllKeep(Append(reps, answer))
BY DEF AllKeep

LEMMA AnsweringContinued ==
  ASSUME NEW reps \in Seq(Answers), NEW answer \in Answers, NEW cont, NEW at, NEW next,
         ContinuedOf(cont, reps, at), at \in Serving,
         at \in Reading => answer.status \in {201, 400, 500}
  PROVE  ContinuedOf(cont, Append(reps, answer), next)
<1>1. PICK n \in Nat : n = Len(reps)
  OBVIOUS
<1>2. PICK R : R = Append(reps, answer)
  OBVIOUS
<1>3. Len(R) = n + 1 /\ R[n + 1] = answer /\ \A j \in 1 .. n : R[j] = reps[j]
  BY <1>1, <1>2
<1>4. ASSUME NEW i \in cont
      PROVE  i \in 1 .. n + 1 /\ R[i].status \in {201, 400, 500}
  <2>1. CASE i \in 1 .. n /\ reps[i].status \in {201, 400, 500}
    BY <1>3, <2>1
  <2>2. CASE i = n + 1 /\ at \in Reading \cup {"closed"}
    <3>1. at \in Reading
      BY <2>2 DEF Serving
    <3>2. QED BY <1>3, <2>2, <3>1
  <2>3. QED BY <1>1, <2>1, <2>2 DEF ContinuedOf
<1>5. QED BY <1>2, <1>3, <1>4 DEF ContinuedOf

LEMMA InOrderAsk ==
  ASSUME NEW reps \in Seq(Answers), NEW reqs \in Seq(Requests), NEW r \in Requests,
         InOrder(reps, reqs), Len(reps) <= Len(reqs)
  PROVE  InOrder(reps, Append(reqs, r)) /\ Len(reps) <= Len(Append(reqs, r))
<1>1. PICK R : R = Append(reqs, r)
  OBVIOUS
<1>2. Len(R) = Len(reqs) + 1 /\ \A j \in 1 .. Len(reqs) : R[j] = reqs[j]
  BY <1>1
<1>3. \A j \in 1 .. Len(reps) : R[j] = reqs[j]
  BY <1>2
<1>4. QED BY <1>1, <1>2, <1>3 DEF InOrder

LEMMA AppliedAsk ==
  ASSUME NEW reqs \in Seq(Requests), NEW r \in Requests, NEW done, AppliedOf(done, reqs)
  PROVE  AppliedOf(done, Append(reqs, r))
<1>1. PICK R : R = Append(reqs, r)
  OBVIOUS
<1>2. Len(R) = Len(reqs) + 1 /\ \A j \in 1 .. Len(reqs) : R[j] = reqs[j]
  BY <1>1
<1>3. QED BY <1>1, <1>2 DEF AppliedOf

LEMMA HeadOfAsk ==
  ASSUME NEW reqs \in Seq(Requests), NEW r \in Requests, NEW h, HeadOf(h, reqs)
  PROVE  HeadOf(h, Append(reqs, r))
<1>1. PICK R : R = Append(reqs, r)
  OBVIOUS
<1>2. Len(R) = Len(reqs) + 1 /\ \A j \in 1 .. Len(reqs) : R[j] = reqs[j]
  BY <1>1
<1>3. PICK i : i = Last(h).of
  OBVIOUS
<1>4. h # <<>> => i \in 1 .. Len(reqs) /\ h = HeadItems(i, reqs[i])
  BY <1>3 DEF HeadOf
<1>5. h # <<>> => i \in 1 .. Len(R) /\ h = HeadItems(i, R[i])
  BY <1>2, <1>4
<1>6. QED BY ONLY <1>1, <1>3, <1>5, Zenon DEF HeadOf

-----------------------------------------------------------------------------
(* Steps.                                                                  *)

LEMMA HandFacts ==
  ASSUME Inv, pc \in Serving
  PROVE  /\ head # <<>> /\ Current = Len(replies) + 1 /\ Current \in 1 .. Len(requests)
         /\ Current \in Nat
         /\ sent \in Requests /\ sent.length \in Nat /\ sent.lines \in Nat
         /\ request = Parse(sent) /\ ParsedOf(request, sent)
<1>1. /\ head # <<>> /\ Current = Len(replies) + 1 /\ Current \in 1 .. Len(requests)
      /\ request = Parse(sent)
  BY DEF Inv, InHand
<1>2. requests \in Seq(Requests)
  BY DEF Inv, TypeOK
<1>3. sent \in Requests
  BY <1>1, <1>2 DEF sent
<1>4. ParsedOf(request, sent)
  BY ONLY <1>1, <1>3, ParseFacts
<1>5. sent.length \in Nat /\ sent.lines \in Nat
  BY <1>3, RequestsAssumption
<1>6. Current \in Nat
  BY ONLY <1>1
<1>7. QED BY ONLY <1>1, <1>3, <1>4, <1>5, <1>6

\* The session ends. It may have handed the body to ingest before.
LEMMA CloseStep ==
  ASSUME Inv, pc' = "closed", UNCHANGED <<readVars, replies>>,
         AppliedOf(applied', requests), counters' \in [Counter -> Nat]
  PROVE  Inv'
<1> USE DEF readVars, clientVars
<1>1. TypeOK'
  BY DEF Inv, TypeOK
<1>2. Place' /\ InHand' /\ BodyRead' /\ Pushing'
  BY DEF Place, InHand, BodyRead, Pushing, Serving, Reading
<1>3. HeadOf(head, requests)'
  BY DEF Inv
<1>4. (Len(replies) <= Len(requests))' /\ InOrder(replies, requests)'
  BY DEF Inv
<1>5. (pc # "closed" => AllKeep(replies))'
  OBVIOUS
<1>6. ContinuedOf(continued, replies, pc)'
  <2>1. PICK c, r, p : c = continued /\ r = replies /\ p = pc
    OBVIOUS
  <2>2. ContinuedOf(c, r, p)
    BY <2>1 DEF Inv
  <2>3. ContinuedOf(c, r, "closed")
    BY ONLY <2>2 DEF ContinuedOf
  <2>4. continued' = c /\ replies' = r /\ pc' = "closed"
    BY <2>1
  <2>5. QED BY ONLY <2>3, <2>4
<1>7. AppliedOf(applied, requests)'
  OBVIOUS
<1>8. QED BY <1>1, <1>2, <1>3, <1>4, <1>5, <1>6, <1>7 DEF Inv

\* An answer: it keeps the connection only when the body was read, and after a
\* 100 it is not a refusal by the head.
LEMMA ReplyStep ==
  ASSUME Inv, pc \in Serving, UNCHANGED readVars,
         NEW status \in Nat, NEW keep \in {"Keep", "Close"},
         NEW framed \in Frames,
         Reply(status, keep, framed),
         keep = "Keep" => Len(body) = sent.length,
         Fits(framed, sent),
         pc \in Reading => status \in {201, 400, 500},
         AppliedOf(applied', requests), counters' \in [Counter -> Nat]
  PROVE  Inv'
<1>1. PICK i : i = Current
  OBVIOUS
<1>2. /\ i = Len(replies) + 1 /\ i \in 1 .. Len(requests) /\ i \in Nat
      /\ sent.length \in Nat
  BY <1>1, HandFacts
<1>3. CASE pc' = "closed" /\ UNCHANGED replies
  BY <1>3, CloseStep
<1>4. CASE /\ replies' = Append(replies, Rendering(status, keep, framed))
           /\ pc' = IF keep = "Keep" THEN "head" ELSE "closed"
  <2>1. PICK answer : answer = Rendering(status, keep, framed)
    OBVIOUS
  <2>2. /\ answer \in Answers /\ answer.to = i /\ answer.status = status
        /\ answer.keep_alive = keep
        /\ answer.declared = framed.declared /\ answer.written = framed.written
        /\ answer.pumped = framed.pumped
    <3>1. answer = [to |-> i, status |-> status, keep_alive |-> keep,
                    declared |-> framed.declared, written |-> framed.written,
                    pumped |-> framed.pumped]
      BY <1>1, <2>1 DEF Rendering
    <3>2. /\ i \in Nat /\ framed.declared \in Nat /\ framed.written \in Nat
          /\ framed.pumped \in {"Whole", "Short"}
      BY <1>2 DEF Frames
    <3>3. QED BY ONLY <3>1, <3>2, status \in Nat, keep \in {"Keep", "Close"} DEF Answers
  <2>3. PICK reps : reps = replies
    OBVIOUS
  <2>4. reps \in Seq(Answers) /\ replies' = Append(reps, answer)
    BY <1>4, <2>1, <2>3 DEF Inv, TypeOK
  <2>5. Append(reps, answer) \in Seq(Answers) /\ Len(Append(reps, answer)) = i
    BY ONLY <1>2, <2>2, <2>3, <2>4
  <2>6. UNCHANGED <<requests, unsent, fin, wire, buffer, head, request, remaining, body,
                    continued>>
    BY DEF readVars, clientVars
  <2>7. TypeOK'
    <3>1. pc' \in {"head", "closed"} \cup Serving
      BY <1>4
    <3>2. replies' \in Seq(Answers)
      BY ONLY <2>4, <2>5, Zenon
    <3>3. QED BY <2>6, <3>1, <3>2 DEF Inv, TypeOK
  <2>8. Place'
    <3>1. pc' \notin Serving
      BY <1>4 DEF Serving
    <3>2. SUFFICES ASSUME pc' = "head"
                   PROVE  Stream(Ahead', Len(replies') + 1, 1, requests')
      BY <3>1 DEF Place
    <3>3. keep = "Keep"
      BY <1>4, <3>2
    <3>4. Inside(Ahead, i, Len(body), requests)
      BY <1>1 DEF Inv, Place
    <3>5. ~(Len(body) < requests[i].length)
      BY <1>1, <1>2, <3>3 DEF sent
    <3>6. Stream(Ahead, i + 1, 1, requests)
      BY ONLY <3>4, <3>5, Zenon DEF Inside
    <3>7. Ahead' = Ahead /\ requests' = requests
      BY <2>6 DEF Ahead
    <3>8. Len(replies') = i
      BY ONLY <2>4, <2>5, Zenon
    <3>9. QED BY ONLY <3>6, <3>7, <3>8, Zenon
  <2>9. InHand' /\ BodyRead' /\ Pushing'
    BY <1>4 DEF InHand, BodyRead, Pushing, Serving, Reading
  <2>10. HeadOf(head, requests)'
    BY <2>6 DEF Inv
  <2>11. (Len(replies) <= Len(requests))'
    <3>1. Len(replies') = i
      BY ONLY <2>4, <2>5, Zenon
    <3>2. QED BY <1>2, <2>6, <3>1
  <2>12. AllKeep(reps) /\ InOrder(reps, requests) /\ ContinuedOf(continued, reps, pc)
    BY <2>3 DEF Inv, Serving
  <2>13. InOrder(replies, requests)'
    <3>1. PICK reqs : reqs = requests
      OBVIOUS
    <3>2. Fits(answer, reqs[Len(reps) + 1])
      <4>1. sent = reqs[Len(reps) + 1]
        BY <1>1, <1>2, <2>3, <3>1 DEF sent
      <4>2. Fits(framed, sent)
        OBVIOUS
      <4>3. QED BY ONLY <2>2, <4>1, <4>2, Zenon DEF Fits
    <3>3. InOrder(Append(reps, answer), reqs)
      BY <1>2, <2>2, <2>3, <2>4, <2>12, <3>1, <3>2, AnsweringInOrder
    <3>4. replies' = Append(reps, answer) /\ requests' = reqs
      BY <2>4, <2>6, <3>1
    <3>5. QED BY ONLY <3>3, <3>4, Zenon
  <2>14. (pc # "closed" => AllKeep(replies))'
    <3>1. SUFFICES ASSUME pc' # "closed"
                   PROVE  AllKeep(replies')
      OBVIOUS
    <3>2. keep = "Keep"
      BY <1>4, <3>1
    <3>3. AllKeep(Append(reps, answer))
      BY <2>2, <2>4, <2>12, <3>2, AnsweringKeeps
    <3>4. QED BY ONLY <2>4, <3>3, Zenon
  <2>15. ContinuedOf(continued, replies, pc)'
    <3>1. PICK c, p, q : c = continued /\ p = pc /\ q = pc'
      OBVIOUS
    <3>2. /\ ContinuedOf(c, reps, p) /\ p \in Serving
          /\ p \in Reading => answer.status \in {201, 400, 500}
      BY <2>2, <2>12, <3>1
    <3>3. ContinuedOf(c, Append(reps, answer), q)
      BY <2>2, <2>4, <3>2, AnsweringContinued
    <3>4. continued' = c /\ pc' = q
      BY <2>6, <3>1
    <3>5. QED BY ONLY <2>4, <3>3, <3>4, Zenon
  <2>16. AppliedOf(applied, requests)'
    BY <2>6
  <2>17. QED BY <2>7, <2>8, <2>9, <2>10, <2>11, <2>13, <2>14, <2>15, <2>16 DEF Inv
<1>5. QED BY <1>3, <1>4 DEF Reply

\* Items move on towards the session.
LEMMA MoveStep ==
  ASSUME Inv, Ahead' = Ahead, unsent' \in Seq(ItemType), wire' \in Seq(ItemType),
         buffer' \in Seq(ItemType), fin' \in BOOLEAN,
         UNCHANGED <<requests, pc, head, request, remaining, body, continued, replies,
                     applied, counters>>
  PROVE  Inv'
<1>1. TypeOK'
  BY DEF Inv, TypeOK
<1>2. Current' = Current /\ sent' = sent
  BY DEF Current, sent
<1>3. Place'
  BY <1>2 DEF Inv, Place
<1>4. InHand' /\ BodyRead'
  BY <1>2 DEF Inv, InHand, BodyRead
<1>5. Pushing'
  BY DEF Inv, Pushing, Admitted
<1>6. /\ HeadOf(head, requests)' /\ (Len(replies) <= Len(requests))'
      /\ InOrder(replies, requests)' /\ (pc # "closed" => AllKeep(replies))'
      /\ ContinuedOf(continued, replies, pc)' /\ AppliedOf(applied, requests)'
  BY DEF Inv
<1>7. QED BY <1>1, <1>3, <1>4, <1>5, <1>6 DEF Inv

LEMMA EmitStep ==
  ASSUME Inv, Emit
  PROVE  Inv'
<1>1. PICK b, w, u : b = buffer /\ w = wire /\ u = unsent
  OBVIOUS
<1>2. b \in Seq(ItemType) /\ w \in Seq(ItemType) /\ u \in Seq(ItemType) /\ u # <<>>
  BY <1>1 DEF Inv, TypeOK, Emit
<1>3. Moves(ItemType, b, w, u, b, Append(w, Head(u)), Tail(u))
  BY ONLY <1>2, MoveEmit, Zenon
<1>4. buffer' = b /\ wire' = Append(w, Head(u)) /\ unsent' = Tail(u)
  BY <1>1 DEF Emit
<1>5. Ahead' = Ahead
  BY ONLY <1>1, <1>3, <1>4, Zenon DEF Ahead, Moves
<1>6. unsent' \in Seq(ItemType) /\ wire' \in Seq(ItemType) /\ buffer' \in Seq(ItemType)
  BY ONLY <1>3, <1>4, Zenon DEF Moves
<1>7. /\ fin' \in BOOLEAN
      /\ UNCHANGED <<requests, pc, head, request, remaining, body, continued, replies,
                     applied, counters>>
  BY DEF Inv, TypeOK, Emit
<1>8. QED BY <1>5, <1>6, <1>7, MoveStep

LEMMA HangUpStep ==
  ASSUME Inv, HangUp
  PROVE  Inv'
<1>1. Ahead' = Ahead
  BY DEF HangUp, Ahead
<1>2. /\ unsent' \in Seq(ItemType) /\ wire' \in Seq(ItemType)
      /\ buffer' \in Seq(ItemType) /\ fin' \in BOOLEAN
      /\ UNCHANGED <<requests, pc, head, request, remaining, body, continued, replies,
                     applied, counters>>
  BY DEF Inv, TypeOK, HangUp
<1>3. QED BY <1>1, <1>2, MoveStep

LEMMA FillStep ==
  ASSUME Inv, Fill
  PROVE  Inv'
<1>1. PICK b, w, u : b = buffer /\ w = wire /\ u = unsent
  OBVIOUS
<1>2. b \in Seq(ItemType) /\ w \in Seq(ItemType) /\ u \in Seq(ItemType)
  BY <1>1 DEF Inv, TypeOK
<1>3. PICK n \in 1 .. Len(wire) : /\ buffer' = buffer \o SubSeq(wire, 1, n)
                                  /\ wire' = SubSeq(wire, n + 1, Len(wire))
  BY DEF Fill
<1>4. n \in Nat /\ n <= Len(w)
  BY <1>1, <1>2, <1>3
<1>5. Moves(ItemType, b, w, u, b \o SubSeq(w, 1, n), SubSeq(w, n + 1, Len(w)), u)
  BY ONLY <1>2, <1>4, MoveFill, Zenon
<1>6. /\ buffer' = b \o SubSeq(w, 1, n) /\ wire' = SubSeq(w, n + 1, Len(w))
      /\ unsent' = u
  BY <1>1, <1>3 DEF Fill, clientVars
<1>7. Ahead' = Ahead
  BY ONLY <1>1, <1>5, <1>6, Zenon DEF Ahead, Moves
<1>8. unsent' \in Seq(ItemType) /\ wire' \in Seq(ItemType) /\ buffer' \in Seq(ItemType)
  BY ONLY <1>5, <1>6, Zenon DEF Moves
<1>9. /\ fin' \in BOOLEAN
      /\ UNCHANGED <<requests, pc, head, request, remaining, body, continued, replies,
                     applied, counters>>
  BY DEF Inv, TypeOK, Fill, clientVars
<1>10. QED BY <1>7, <1>8, <1>9, MoveStep

LEMMA AskStep ==
  ASSUME Inv, Ask
  PROVE  Inv'
<1>1. PICK r \in Requests : /\ requests' = Append(requests, r)
                            /\ unsent' = MessageItems(Len(requests) + 1, r)
  BY DEF Ask
<1>2. PICK reqs, b, w, a : reqs = requests /\ b = buffer /\ w = wire /\ a = Ahead
  OBVIOUS
<1>3. reqs \in Seq(Requests) /\ b \in Seq(ItemType) /\ w \in Seq(ItemType)
  BY <1>2 DEF Inv, TypeOK
<1>4. PICK m : m = MessageItems(Len(reqs) + 1, r)
  OBVIOUS
<1>5. m \in Seq(ItemType)
  BY <1>3, <1>4, MessageFacts
<1>6. /\ UNCHANGED <<fin, wire, pc, buffer, head, request, remaining, body, continued,
                     replies, applied, counters>>
      /\ unsent = <<>> /\ unsent' = m /\ requests' = Append(reqs, r)
  BY <1>1, <1>2, <1>4 DEF Ask
<1>7. PICK R : R = Append(reqs, r)
  OBVIOUS
<1>8. R \in Seq(Requests) /\ Len(R) = Len(reqs) + 1
      /\ \A i \in 1 .. Len(reqs) : R[i] = reqs[i]
  BY ONLY <1>3, <1>7, r \in Requests, MoreRequests
<1>9. a = b \o (w \o << >>) /\ Ahead' = b \o (w \o m)
  BY <1>2, <1>6 DEF Ahead
<1>10. a \in Seq(ItemType)
  BY ONLY <1>3, <1>9
<1>11. Ahead' = a \o m
  <2>1. b \o (w \o m) = (b \o (w \o << >>)) \o m
    BY ONLY <1>3, <1>5, MoveAsk
  <2>2. QED BY ONLY <1>9, <2>1, Zenon
<1>12. TypeOK'
  <2>1. requests' \in Seq(Requests) /\ unsent' \in Seq(ItemType)
    BY ONLY <1>5, <1>6, <1>7, <1>8, Zenon
  <2>2. QED BY <1>6, <2>1 DEF Inv, TypeOK
<1>13. Current' = Current
  BY <1>6 DEF Current
<1>14. pc \in Serving => sent' = sent
  BY <1>2, <1>6, <1>7, <1>8, <1>13 DEF sent, Inv, InHand
<1>15. Place'
  <2>1. ASSUME pc = "head"
        PROVE  Stream(Ahead', Len(replies') + 1, 1, requests')
    <3>1. PICK i : i = Len(replies) + 1
      OBVIOUS
    <3>2. Stream(a, i, 1, reqs)
      BY <1>2, <2>1, <3>1 DEF Inv, Place
    <3>3. Stream(a \o m, i, 1, Append(reqs, r))
      BY <1>3, <1>4, <1>10, <3>2, StreamAsk
    <3>4. QED BY <1>6, <1>11, <3>1, <3>3
  <2>2. ASSUME pc \in Serving
        PROVE  Inside(Ahead', Current', Len(body'), requests')
    <3>1. PICK i, q : i = Current /\ q = Len(body)
      OBVIOUS
    <3>2. Inside(a, i, q, reqs) /\ i \in 1 .. Len(reqs) /\ q \in Nat
      BY <1>2, <2>2, <3>1 DEF Inv, Place, InHand, TypeOK
    <3>3. Inside(a \o m, i, q, Append(reqs, r))
      BY <1>3, <1>4, <1>10, <3>2, InsideAsk
    <3>4. QED BY <1>6, <1>11, <1>13, <3>1, <3>3
  <2>3. QED BY <1>6, <2>1, <2>2 DEF Place
<1>16. InHand' /\ BodyRead'
  <2>1. Len(requests') = Len(requests) + 1 /\ Len(requests) \in Nat
    BY <1>2, <1>3, <1>6, <1>7, <1>8
  <2>2. pc \in Serving => Current \in 1 .. Len(requests')
    BY <2>1 DEF Inv, InHand
  <2>3. InHand'
    BY <1>6, <1>13, <1>14, <2>2 DEF Inv, InHand
  <2>4. BodyRead'
    BY <1>6, <1>13, <1>14 DEF Inv, BodyRead
  <2>5. QED BY <2>3, <2>4
<1>17. Pushing'
  BY <1>6 DEF Inv, Pushing, Admitted
<1>18. HeadOf(head, requests)'
  <2>1. PICK h : h = head
    OBVIOUS
  <2>2. HeadOf(h, reqs)
    BY <1>2, <2>1 DEF Inv
  <2>3. HeadOf(h, Append(reqs, r))
    BY <1>3, <2>2, HeadOfAsk
  <2>4. QED BY <1>6, <2>1, <2>3
<1>19. (Len(replies) <= Len(requests))' /\ InOrder(replies, requests)'
  <2>1. PICK reps : reps = replies
    OBVIOUS
  <2>2. InOrder(reps, reqs) /\ Len(reps) <= Len(reqs) /\ reps \in Seq(Answers)
    BY <1>2, <2>1 DEF Inv, TypeOK
  <2>3. InOrder(reps, Append(reqs, r)) /\ Len(reps) <= Len(Append(reqs, r))
    BY ONLY <1>3, <2>2, r \in Requests, InOrderAsk
  <2>4. replies' = reps /\ requests' = Append(reqs, r)
    BY <1>6, <2>1
  <2>5. QED BY ONLY <2>3, <2>4, Zenon
<1>20. (pc # "closed" => AllKeep(replies))' /\ ContinuedOf(continued, replies, pc)'
  BY <1>6 DEF Inv
<1>21. AppliedOf(applied, requests)'
  <2>1. PICK done : done = applied
    OBVIOUS
  <2>2. AppliedOf(done, reqs)
    BY <1>2, <2>1 DEF Inv
  <2>3. AppliedOf(done, Append(reqs, r))
    BY <1>3, <2>2, AppliedAsk
  <2>4. QED BY <1>6, <2>1, <2>3
<1>22. QED
  BY <1>12, <1>15, <1>16, <1>17, <1>18, <1>19, <1>20, <1>21 DEF Inv

LEMMA BumpType ==
  ASSUME NEW c \in Counter, counters \in [Counter -> Nat], Bump(c)
  PROVE  counters' \in [Counter -> Nat]
BY DEF Bump

LEMMA TakeHeadStep ==
  ASSUME Inv, TakeHead
  PROVE  Inv'
<1>1. PICK b, w, u, reqs, i : /\ b = buffer /\ w = wire /\ u = unsent
                              /\ reqs = requests /\ i = Len(replies) + 1
  OBVIOUS
<1>2. /\ b \in Seq(ItemType) /\ w \in Seq(ItemType) /\ u \in Seq(ItemType)
      /\ reqs \in Seq(Requests)
  BY <1>1 DEF Inv, TypeOK
<1>3. pc = "head" /\ pc' = "handling" /\ HeadLen(b) > 0
  BY <1>1 DEF TakeHead
<1>4. Stream(b \o (w \o u), i, 1, reqs)
  BY <1>1, <1>3 DEF Inv, Place, Ahead
<1>5. /\ UNCHANGED <<requests, unsent, fin, wire, continued, replies, applied>>
      /\ head' = SubSeq(b, 1, HeadLen(b))
      /\ buffer' = SubSeq(b, HeadLen(b) + 1, Len(b))
      /\ request' = Parse(reqs[Last(head').of])
      /\ body' = <<>> /\ remaining' = 0
  BY <1>1 DEF TakeHead, clientVars
<1>6. TookHead(SubSeq(b, 1, HeadLen(b)), SubSeq(b, HeadLen(b) + 1, Len(b)),
               i, w, u, reqs)
  BY <1>2, <1>3, <1>4, ReadHead
<1>7. TookHead(head', buffer', i, w, u, reqs)
  BY ONLY <1>5, <1>6, Zenon
<1>8. /\ i \in 1 .. Len(reqs)
      /\ head' \in Seq(ItemType) /\ buffer' \in Seq(ItemType)
      /\ head' # <<>> /\ Last(head').of = i /\ head' = HeadItems(i, reqs[i])
      /\ Inside(buffer' \o (w \o u), i, 0, reqs)
  BY ONLY <1>7, Zenon DEF TookHead
<1>9. Current' = i /\ sent' = reqs[i]
  BY <1>1, <1>5, <1>8 DEF Current, sent
<1>10. counters' \in [Counter -> Nat]
  <2>1. counters \in [Counter -> Nat]
    BY DEF Inv, TypeOK
  <2>2. Bump("requests") \/ UNCHANGED counters
    BY DEF TakeHead
  <2>3. QED BY <2>1, <2>2, BumpType DEF Counter
<1>11. TypeOK'
  <2>1. body' \in Seq(ItemType) /\ remaining' \in Nat
    BY <1>5
  <2>2. QED BY <1>3, <1>5, <1>8, <1>10, <2>1 DEF Inv, TypeOK, Serving
<1>12. Place'
  <2>1. Ahead' = buffer' \o (w \o u)
    BY <1>1, <1>5 DEF Ahead
  <2>2. Len(body') = 0 /\ requests' = reqs
    BY <1>1, <1>5
  <2>3. Inside(Ahead', Current', Len(body'), requests')
    BY ONLY <1>8, <1>9, <2>1, <2>2, Zenon
  <2>4. QED BY <1>3, <2>3 DEF Place
<1>13. HeadOf(head, requests)'
  BY <1>1, <1>5, <1>8 DEF HeadOf
<1>14. InHand'
  BY <1>1, <1>5, <1>8, <1>9 DEF InHand
<1>15. BodyRead' /\ Pushing'
  <2>1. reqs[i].length \in Nat
    BY <1>2, <1>8, RequestFacts
  <2>2. Len(body') = 0
    BY <1>5
  <2>3. BodyRead'
    BY <1>3, <1>9, <2>1, <2>2 DEF BodyRead, Reading
  <2>4. QED BY <1>3, <2>3 DEF Pushing, Reading
<1>16. (Len(replies) <= Len(requests))' /\ InOrder(replies, requests)'
       /\ (pc # "closed" => AllKeep(replies))' /\ AppliedOf(applied, requests)'
  BY <1>3, <1>5 DEF Inv
<1>17. ContinuedOf(continued, replies, pc)'
  <2>1. PICK c, r : c = continued /\ r = replies
    OBVIOUS
  <2>2. ContinuedOf(c, r, "head")
    BY <1>3, <2>1 DEF Inv
  <2>3. ContinuedOf(c, r, "handling")
    BY ONLY <2>2 DEF ContinuedOf, Reading
  <2>4. QED BY <1>3, <1>5, <2>1, <2>3
<1>18. QED BY <1>11, <1>12, <1>13, <1>14, <1>15, <1>16, <1>17 DEF Inv

\* receive and publish go on to the body.
LEMMA ProceedStep ==
  ASSUME Inv, pc = "handling", pc' \in {"receiving", "collecting"}, Proceed,
         request.ok, request.framing = "Length", Admitted, request.method = "Put",
         Route(request.target) = IF pc' = "receiving" THEN "nar" ELSE "narinfo",
         remaining' = request.length,
         UNCHANGED <<clientVars, wire, buffer, head, request, body, replies, applied,
                     counters>>
  PROVE  Inv'
<1>1. pc \in Serving /\ pc' \in Serving /\ pc' \in Reading
  BY DEF Serving, Reading
<1>2. /\ Current = Len(replies) + 1 /\ sent.length \in Nat /\ ParsedOf(request, sent)
  BY <1>1, HandFacts
<1>3. request.length = sent.length
  BY ONLY <1>2, request.ok, request.framing = "Length" DEF ParsedOf
<1>4. UNCHANGED <<requests, unsent, fin, wire, buffer, head, request, body, replies,
                  applied, counters>>
  BY DEF clientVars
<1>5. Current' = Current /\ sent' = sent /\ Ahead' = Ahead
  BY <1>4 DEF Current, sent, Ahead
<1>6. TypeOK'
  BY <1>1, <1>2, <1>3, <1>4 DEF Inv, TypeOK
<1>7. Place'
  <2>1. pc' # "head"
    OBVIOUS
  <2>2. Inside(Ahead, Current, Len(body), requests)
    BY <1>1 DEF Inv, Place
  <2>3. QED BY <1>4, <1>5, <2>1, <2>2 DEF Place
<1>8. InHand'
  BY <1>1, <1>4, <1>5 DEF Inv, InHand
<1>9. BodyRead'
  <2>1. /\ Len(body) = 0
        /\ \A j \in 1 .. Len(body) : body[j] = Item(Current, sent, sent.lines + 1 + j)
    BY <1>1 DEF Inv, BodyRead
  <2>2. Len(body) + remaining' = sent.length /\ Len(body) <= sent.length
    BY <1>2, <1>3, <2>1
  <2>3. QED BY <1>4, <1>5, <2>1, <2>2 DEF BodyRead
<1>10. Pushing'
  BY <1>4 DEF Pushing, Admitted
<1>11. HeadOf(head, requests)' /\ (Len(replies) <= Len(requests))'
       /\ InOrder(replies, requests)' /\ (pc # "closed" => AllKeep(replies))'
       /\ AppliedOf(applied, requests)'
  BY <1>4 DEF Inv
<1>12. ContinuedOf(continued, replies, pc)'
  <2>1. PICK c, r, p, i : c = continued /\ r = replies /\ p = pc' /\ i = Len(replies) + 1
    OBVIOUS
  <2>2. ContinuedOf(c, r, "handling") /\ p \in Reading
    BY <1>1, <2>1 DEF Inv
  <2>3. ContinuedOf(c \cup {i}, r, p)
    BY ONLY <2>1, <2>2 DEF ContinuedOf, Reading
  <2>4. continued' \subseteq c \cup {i}
    BY <1>2, <2>1 DEF Proceed
  <2>5. ContinuedOf(continued', r, p)
    BY ONLY <2>3, <2>4 DEF ContinuedOf
  <2>6. QED BY <1>4, <2>1, <2>5
<1>13. QED BY <1>6, <1>7, <1>8, <1>9, <1>10, <1>11, <1>12 DEF Inv

\* Some of the body, or all of it.
LEMMA BodyStep ==
  ASSUME Inv, NEW n \in Nat, n <= Len(buffer), n <= remaining,
         \/ pc = "receiving" /\ pc' = "receiving"
         \/ pc = "collecting" /\ pc' = "finishing" /\ n = remaining,
         body' = body \o SubSeq(buffer, 1, n),
         buffer' = SubSeq(buffer, n + 1, Len(buffer)),
         remaining' = remaining - n,
         UNCHANGED <<clientVars, wire, head, request, continued, replies, applied, counters>>
  PROVE  Inv'
<1>1. /\ pc \in Serving /\ pc' \in Serving /\ pc \in Reading /\ pc' \in Reading
      /\ pc' \notin {"head", "closed", "handling", "collecting"}
  BY DEF Serving, Reading
<1>2. PICK b, w, u, reqs, i, q, y : /\ b = buffer /\ w = wire /\ u = unsent
                                    /\ reqs = requests /\ i = Current
                                    /\ y = body /\ q = Len(body)
  OBVIOUS
<1>3. /\ b \in Seq(ItemType) /\ w \in Seq(ItemType) /\ u \in Seq(ItemType)
      /\ reqs \in Seq(Requests) /\ y \in Seq(ItemType) /\ q = Len(y) /\ n <= Len(b)
  BY <1>2 DEF Inv, TypeOK
<1>4. i \in 1 .. Len(reqs)
  BY <1>1, <1>2, HandFacts
<1>5. PICK r, z, m : r = reqs[i] /\ z = r.length /\ m = remaining
  OBVIOUS
<1>6. z \in Nat /\ r.lines \in Nat
  BY <1>3, <1>4, <1>5, RequestFacts
<1>7. sent = r
  BY <1>2, <1>5 DEF sent
<1>8. /\ q \in Nat /\ m \in Nat /\ q + m = z /\ n <= m
      /\ \A j \in 1 .. q : y[j] = Item(i, r, r.lines + 1 + j)
  BY <1>1, <1>2, <1>3, <1>5, <1>7 DEF Inv, BodyRead, TypeOK
<1>9. Inside(b \o (w \o u), i, q, reqs)
  BY <1>1, <1>2 DEF Inv, Place, Ahead
<1>10. TookBody(SubSeq(b, 1, n), SubSeq(b, n + 1, Len(b)), i, q, n, w, u, reqs)
  <2>1. q \in Nat /\ q + n <= reqs[i].length
    BY <1>5, <1>6, <1>8
  <2>2. QED BY ONLY <1>3, <1>4, <1>9, <2>1, n \in Nat, ReadBody, Zenon
<1>11. PICK c, d : c = SubSeq(b, 1, n) /\ d = SubSeq(b, n + 1, Len(b))
  OBVIOUS
<1>12. /\ c \in Seq(ItemType) /\ d \in Seq(ItemType) /\ Len(c) = n
       /\ \A k \in 1 .. n : c[k] = Item(i, r, r.lines + 1 + q + k)
       /\ Inside(d \o (w \o u), i, q + n, reqs)
  BY ONLY <1>5, <1>10, <1>11, Zenon DEF TookBody
<1>13. PICK x : IsCat(ItemType, x, y, c)
  BY <1>3, <1>12, Cat
<1>14. /\ x \in Seq(ItemType) /\ x = y \o c /\ Len(x) = q + n
       /\ \A k \in 1 .. q : x[k] = y[k]
       /\ \A k \in 1 .. n : x[q + k] = c[k]
  BY ONLY <1>3, <1>12, <1>13 DEF IsCat
<1>15. body' = x /\ buffer' = d /\ remaining' = m - n
  BY <1>2, <1>5, <1>11, <1>14
<1>16. \A j \in 1 .. q + n : x[j] = Item(i, r, r.lines + 1 + j)
  <2>1. TAKE j \in 1 .. q + n
  <2>2. CASE j \in 1 .. q
    BY ONLY <1>8, <1>14, <2>2
  <2>3. CASE j \notin 1 .. q
    <3>1. PICK k : k = j - q
      OBVIOUS
    <3>2. k \in 1 .. n /\ q + k = j /\ r.lines + 1 + q + k = r.lines + 1 + j
      <4>1. PICK L \in Nat : L = r.lines
        BY <1>6
      <4>2. j \in 1 .. q + n /\ q \in Nat /\ n \in Nat
        BY <1>8
      <4>3. k \in 1 .. n /\ q + k = j /\ L + 1 + q + k = L + 1 + j
        BY ONLY <2>3, <3>1, <4>2, L \in Nat
      <4>4. QED BY ONLY <4>1, <4>3
    <3>3. x[q + k] = c[k] /\ c[k] = Item(i, r, r.lines + 1 + q + k)
      BY ONLY <1>12, <1>14, <3>2
    <3>4. QED BY ONLY <3>2, <3>3, Zenon
  <2>4. QED BY <2>2, <2>3
<1>17. UNCHANGED <<requests, unsent, fin, wire, head, request, continued, replies,
                   applied, counters>>
  BY DEF clientVars
<1>18. Current' = i /\ sent' = r
  BY <1>2, <1>7, <1>17 DEF Current, sent
<1>19. TypeOK'
  <2>1. m - n \in Nat
    BY <1>8
  <2>2. body' \in Seq(ItemType) /\ buffer' \in Seq(ItemType) /\ remaining' \in Nat
    BY ONLY <1>12, <1>14, <1>15, <2>1, Zenon
  <2>3. QED BY <1>1, <1>17, <2>2 DEF Inv, TypeOK
<1>20. Place'
  <2>1. Ahead' = d \o (w \o u) /\ Len(body') = q + n /\ requests' = reqs
    BY <1>2, <1>14, <1>15, <1>17 DEF Ahead
  <2>2. Inside(Ahead', Current', Len(body'), requests')
    BY ONLY <1>12, <1>18, <2>1, Zenon
  <2>3. QED BY <1>1, <2>2 DEF Place
<1>21. InHand'
  BY <1>1, <1>2, <1>7, <1>17, <1>18 DEF Inv, InHand
<1>22. BodyRead'
  <2>1. Len(body') = q + n /\ q + n <= z /\ (q + n) + (m - n) = z
    <3>1. q + n <= z /\ (q + n) + (m - n) = z
      BY ONLY <1>6, <1>8, n \in Nat
    <3>2. QED BY ONLY <1>14, <1>15, <3>1, Zenon
  <2>2. pc' = "finishing" => m - n = 0
    BY <1>5, <1>8
  <2>3. QED BY <1>1, <1>5, <1>15, <1>16, <1>18, <2>1, <2>2 DEF BodyRead
<1>23. Pushing'
  BY <1>1, <1>17 DEF Inv, Pushing, Admitted
<1>24. HeadOf(head, requests)' /\ (Len(replies) <= Len(requests))'
       /\ InOrder(replies, requests)' /\ AppliedOf(applied, requests)'
  BY <1>17 DEF Inv
<1>25. (pc # "closed" => AllKeep(replies))'
  BY <1>1, <1>17 DEF Inv
<1>26. ContinuedOf(continued, replies, pc)'
  <2>1. PICK a, e, p, o : a = continued /\ e = replies /\ p = pc /\ o = pc'
    OBVIOUS
  <2>2. ContinuedOf(a, e, p) /\ p \in Reading /\ o \in Reading
    BY <1>1, <2>1 DEF Inv
  <2>3. ContinuedOf(a, e, o)
    BY ONLY <2>2 DEF ContinuedOf
  <2>4. QED BY <1>17, <2>1, <2>3
<1>27. QED BY <1>19, <1>20, <1>21, <1>22, <1>23, <1>24, <1>25, <1>26 DEF Inv

\* `?` on a fault, the end of the stream, a head too long, a peer that is gone.
LEMMA EndStep ==
  ASSUME Inv, Close
  PROVE  Inv'
<1>1. /\ pc' = "closed" /\ UNCHANGED <<readVars, replies>>
      /\ applied' = applied /\ counters' = counters
  BY DEF Close
<1>2. AppliedOf(applied', requests) /\ counters' \in [Counter -> Nat]
  BY <1>1 DEF Inv, TypeOK
<1>3. QED BY <1>1, <1>2, CloseStep

-----------------------------------------------------------------------------
(* Answers.                                                                *)

LEMMA FramesFit ==
  ASSUME NEW r
  PROVE  /\ Bare(0) \in Frames /\ Bare(Rendered) \in Frames
         /\ WithBody(Rendered) \in Frames /\ CutShort(Rendered) \in Frames
         /\ Fits(Bare(0), r)
         /\ r.method = "Head" => Fits(Bare(Rendered), r)
         /\ r.method # "Head" => Fits(WithBody(Rendered), r)
         /\ r.method = "Get" /\ Route(r.target) = "nar" => Fits(CutShort(Rendered), r)
BY DEF Fits, Frames, Bare, WithBody, CutShort, Rendered

LEMMA KeepFacts ==
  ASSUME Inv, pc \in Serving, NEW drained
  PROVE  /\ request.keep_alive \in {"Keep", "Close"}
         /\ KeepAfter(drained) \in {"Keep", "Close"}
<1>1. request.keep_alive \in {"Keep", "Close"}
  BY HandFacts DEF ParsedOf
<1>2. QED BY <1>1 DEF KeepAfter

\* `answer` and `refuse` before the body is read.
LEMMA UnreadReply ==
  ASSUME Inv, pc = "handling", request.ok, UNCHANGED readVars,
         NEW status \in Nat, NEW framed \in Frames, Fits(framed, sent),
         Reply(status, KeepAfter("Unread"), framed),
         applied' = applied, counters' \in [Counter -> Nat]
  PROVE  Inv'
<1>1. pc \in Serving /\ pc \notin Reading
  BY DEF Serving, Reading
<1>2. PICK keep : keep = KeepAfter("Unread")
  OBVIOUS
<1>3. keep \in {"Keep", "Close"}
  BY <1>1, <1>2, KeepFacts
<1>4. ASSUME keep = "Keep"
      PROVE  Len(body) = sent.length
  <2>1. PICK p, r : p = request /\ r = sent
    OBVIOUS
  <2>2. ParsedOf(p, r) /\ r.length \in Nat /\ p.ok
    BY <1>1, <2>1, HandFacts
  <2>3. ~CarriesBody(p)
    BY <1>2, <1>4, <2>1 DEF KeepAfter
  <2>4. p.framing = "Empty" \/ (p.framing = "Length" /\ ~(p.length > 0))
    BY ONLY <2>2, <2>3 DEF ParsedOf, CarriesBody
  <2>5. r.length = 0
    BY ONLY <2>2, <2>4 DEF ParsedOf
  <2>6. Len(body) = 0
    BY <1>1 DEF Inv, BodyRead
  <2>7. QED BY <2>1, <2>5, <2>6
<1>5. AppliedOf(applied', requests)
  BY DEF Inv
<1>6. QED BY <1>1, <1>2, <1>3, <1>4, <1>5, ReplyStep

\* `send`, `probe` and `stream`: they look at the request's wish alone.
LEMMA WishReply ==
  ASSUME BodiesWelcome(Requests), Inv, pc = "handling", request.ok,
         \/ Route(request.target) \in {"cacheinfo", "metrics"}
         \/ Route(request.target) \in {"nar", "narinfo"} /\ request.method # "Put",
         UNCHANGED readVars, NEW framed \in Frames, Fits(framed, sent),
         Reply(200, request.keep_alive, framed), applied' = applied,
         counters' \in [Counter -> Nat]
  PROVE  Inv'
<1>1. pc \in Serving /\ pc \notin Reading
  BY DEF Serving, Reading
<1>2. PICK p, r : p = request /\ r = sent
  OBVIOUS
<1>3. r \in Requests /\ ParsedOf(p, r) /\ r.length \in Nat
  BY <1>1, <1>2, HandFacts
<1>4. p.method = r.method /\ p.target = r.target
  BY <1>3 DEF ParsedOf
<1>5. r.length = 0
  <2>1. \/ Route(r.target) \in {"cacheinfo", "metrics"}
        \/ Route(r.target) \in {"nar", "narinfo"} /\ r.method # "Put"
    BY <1>2, <1>4
  <2>2. ~(r.length > 0)
    BY ONLY <1>3, <2>1, BodiesWelcome(Requests) DEF BodiesWelcome
  <2>3. QED BY <1>3, <2>2
<1>6. Len(body) = sent.length
  <2>1. Len(body) = 0
    BY <1>1 DEF Inv, BodyRead
  <2>2. QED BY <1>2, <1>5, <2>1
<1>7. request.keep_alive \in {"Keep", "Close"} /\ 200 \in Nat
  BY <1>1, KeepFacts
<1>8. AppliedOf(applied', requests)
  BY DEF Inv
<1>9. QED BY <1>1, <1>6, <1>7, <1>8, ReplyStep

LEMMA SendReply ==
  ASSUME BodiesWelcome(Requests), Inv, pc = "handling", request.ok,
         \/ Route(request.target) \in {"cacheinfo", "metrics"}
         \/ Route(request.target) \in {"nar", "narinfo"} /\ request.method # "Put",
         UNCHANGED readVars, Send(200), applied' = applied,
         counters' \in [Counter -> Nat]
  PROVE  Inv'
<1>1. PICK framed : framed = IF request.method = "Head" THEN Bare(Rendered)
                             ELSE WithBody(Rendered)
  OBVIOUS
<1>2. request.method = sent.method
  BY HandFacts DEF ParsedOf, Serving
<1>3. framed \in Frames /\ Fits(framed, sent)
  BY <1>1, <1>2, FramesFit
<1>4. Reply(200, request.keep_alive, framed)
  BY <1>1 DEF Send
<1>5. QED BY <1>3, <1>4, WishReply

\* `answer` and `refuse` once the body is in.
LEMMA ConsumedReply ==
  ASSUME Inv, pc \in {"receiving", "finishing"}, remaining = 0, UNCHANGED readVars,
         NEW status \in {201, 400, 500}, NEW framed \in Frames,
         framed.written = framed.declared,
         Reply(status, KeepAfter("Consumed"), framed),
         applied' \subseteq applied \cup {Current}, counters' \in [Counter -> Nat]
  PROVE  Inv'
<1>1. pc \in Serving /\ pc \in Reading
  BY DEF Serving, Reading
<1>2. PICK p, r, i : p = request /\ r = sent /\ i = Current
  OBVIOUS
<1>3. /\ ParsedOf(p, r) /\ r.length \in Nat /\ i \in 1 .. Len(requests)
      /\ r = requests[i]
  BY <1>1, <1>2, HandFacts DEF sent
<1>4. Len(body) = sent.length
  BY <1>1 DEF Inv, BodyRead, TypeOK
<1>5. p.method = "Put" /\ Admits(p.authorization)
  BY <1>1, <1>2 DEF Inv, Pushing, Admitted
<1>6. sent.method = "Put" /\ Entitled(r)
  BY <1>2, <1>3, <1>5 DEF ParsedOf
<1>7. Fits(framed, sent)
  BY <1>6 DEF Fits
<1>8. AppliedOf(applied', requests)
  <2>1. AppliedOf(applied, requests)
    BY DEF Inv
  <2>2. QED BY <1>2, <1>3, <1>6, <2>1 DEF AppliedOf
<1>9. KeepAfter("Consumed") \in {"Keep", "Close"} /\ status \in Nat
  BY <1>1, KeepFacts
<1>10. QED BY <1>1, <1>4, <1>7, <1>8, <1>9, ReplyStep

-----------------------------------------------------------------------------
(* handler.rs, route by route.                                             *)

LEMMA Counts ==
  ASSUME Inv, UNCHANGED counters \/ (\E c \in Counter : Bump(c))
  PROVE  counters' \in [Counter -> Nat]
<1>1. counters \in [Counter -> Nat]
  BY DEF Inv, TypeOK
<1>2. QED BY <1>1, BumpType

LEMMA UnparseableStep ==
  ASSUME Inv, Unparseable
  PROVE  Inv'
<1>1. /\ pc \in Serving /\ pc \notin Reading
      /\ Reply(400, "Close", Bare(0)) /\ UNCHANGED readVars /\ applied' = applied
      /\ UNCHANGED counters
  BY DEF Unparseable, Serving, Reading, exchangeFrame
<1>2. Bare(0) \in Frames /\ Fits(Bare(0), sent)
  BY FramesFit
<1>3. PICK framed : framed = Bare(0)
  OBVIOUS
<1>4. framed \in Frames /\ Fits(framed, sent)
  BY <1>2, <1>3
<1>5. AppliedOf(applied', requests) /\ counters' \in [Counter -> Nat]
  BY <1>1, Counts DEF Inv
<1>6. Reply(400, "Close", framed)
  BY <1>1, <1>3
<1>7. 400 \in Nat /\ "Close" \in {"Keep", "Close"} /\ "Close" # "Keep"
  OBVIOUS
<1>8. QED BY <1>1, <1>4, <1>5, <1>6, <1>7, ReplyStep

\* `answer` with an Unread body, and `refuse` likewise.
LEMMA AnswerUnread ==
  ASSUME Inv, pc = "handling", request.ok, UNCHANGED readVars, NEW status \in Nat,
         Answer(status, "Unread"), applied' = applied,
         UNCHANGED counters \/ (\E c \in Counter : Bump(c))
  PROVE  Inv'
<1>1. Bare(0) \in Frames /\ Fits(Bare(0), sent) /\ counters' \in [Counter -> Nat]
  BY FramesFit, Counts
<1>2. Reply(status, KeepAfter("Unread"), Bare(0))
  BY DEF Answer
<1>3. QED BY <1>1, <1>2, UnreadReply

LEMMA UnroutableStep ==
  ASSUME Inv, Unroutable
  PROVE  Inv'
<1>1. /\ pc = "handling" /\ request.ok /\ UNCHANGED readVars /\ applied' = applied
      /\ UNCHANGED counters
      /\ \E status \in {501, 404, 400} : Answer(status, "Unread")
  BY DEF Unroutable, exchangeFrame
<1>2. PICK status \in {501, 404, 400} : Answer(status, "Unread")
  BY <1>1
<1>3. status \in Nat
  OBVIOUS
<1>4. QED BY <1>1, <1>2, <1>3, AnswerUnread

LEMMA CacheInfoStep ==
  ASSUME BodiesWelcome(Requests), Inv, CacheInfo
  PROVE  Inv'
<1>1. /\ pc = "handling" /\ request.ok /\ Route(request.target) = "cacheinfo"
      /\ Send(200) /\ UNCHANGED readVars /\ applied' = applied /\ UNCHANGED counters
  BY DEF CacheInfo, At, exchangeFrame
<1>2. counters' \in [Counter -> Nat]
  BY <1>1, Counts
<1>3. QED BY <1>1, <1>2, SendReply

LEMMA MetricsStep ==
  ASSUME BodiesWelcome(Requests), Inv, Metrics
  PROVE  Inv'
<1>1. CASE Fault
  BY <1>1, EndStep DEF Fault
<1>2. CASE Send(200) /\ UNCHANGED <<exchangeFrame, counters>>
  <2>1. /\ pc = "handling" /\ request.ok /\ Route(request.target) = "metrics"
        /\ Send(200) /\ UNCHANGED readVars /\ applied' = applied /\ UNCHANGED counters
    BY <1>2 DEF Metrics, At, exchangeFrame
  <2>2. counters' \in [Counter -> Nat]
    BY <2>1, Counts
  <2>3. QED BY <2>1, <2>2, SendReply
<1>3. QED BY <1>1, <1>2 DEF Metrics

LEMMA ReadNarinfoStep ==
  ASSUME BodiesWelcome(Requests), Inv, ReadNarinfo
  PROVE  Inv'
<1>1. /\ pc = "handling" /\ request.ok /\ Route(request.target) = "narinfo"
      /\ request.method # "Put"
  BY DEF ReadNarinfo, At
<1>2. CASE Bump("metadata_hits") /\ Send(200) /\ UNCHANGED exchangeFrame
  <2>1. UNCHANGED readVars /\ applied' = applied
    BY <1>2 DEF exchangeFrame
  <2>2. counters' \in [Counter -> Nat]
    BY <1>2, Counts DEF Counter
  <2>3. QED BY <1>1, <1>2, <2>1, <2>2, SendReply
<1>3. CASE Bump("metadata_misses") /\ Answer(404, "Unread") /\ UNCHANGED exchangeFrame
  <2>1. UNCHANGED readVars /\ applied' = applied
    BY <1>3 DEF exchangeFrame
  <2>2. 404 \in Nat /\ \E c \in Counter : Bump(c)
    BY <1>3 DEF Counter
  <2>3. QED BY <1>1, <1>3, <2>1, <2>2, AnswerUnread
<1>4. CASE Fault
  BY <1>4, EndStep DEF Fault
<1>5. QED BY <1>2, <1>3, <1>4 DEF ReadNarinfo

LEMMA ReadNarStep ==
  ASSUME BodiesWelcome(Requests), Inv, ReadNar
  PROVE  Inv'
<1>1. /\ pc = "handling" /\ request.ok /\ Route(request.target) = "nar"
      /\ request.method # "Put"
  BY DEF ReadNar, At
<1>2. CASE Send(200) /\ UNCHANGED <<exchangeFrame, counters>>
  <2>1. UNCHANGED readVars /\ applied' = applied
    BY <1>2 DEF exchangeFrame
  <2>2. counters' \in [Counter -> Nat]
    BY <1>2, Counts
  <2>3. QED BY <1>1, <1>2, <2>1, <2>2, SendReply
<1>3. CASE (\E status \in {404, 500} : Answer(status, "Unread"))
           /\ UNCHANGED <<readVars, applied, counters>>
  <2>1. PICK status \in {404, 500} : Answer(status, "Unread")
    BY <1>3
  <2>2. status \in Nat
    OBVIOUS
  <2>3. QED BY <1>1, <1>3, <2>1, <2>2, AnswerUnread
<1>4. CASE /\ request.method = "Get"
           /\ Reply(200, request.keep_alive, CutShort(Rendered))
           /\ UNCHANGED <<exchangeFrame, counters>>
  <2>1. UNCHANGED readVars /\ applied' = applied
    BY <1>4 DEF exchangeFrame
  <2>2. counters' \in [Counter -> Nat]
    BY <1>4, Counts
  <2>3. sent.method = "Get" /\ Route(sent.target) = "nar"
    BY <1>1, <1>4, HandFacts DEF ParsedOf, Serving
  <2>4. CutShort(Rendered) \in Frames /\ Fits(CutShort(Rendered), sent)
    BY <2>3, FramesFit
  <2>5. QED BY <1>1, <1>4, <2>1, <2>2, <2>4, WishReply
<1>5. CASE Fault
  BY <1>5, EndStep DEF Fault
<1>6. QED BY <1>2, <1>3, <1>4, <1>5 DEF ReadNar, exchangeFrame

LEMMA DenyStep ==
  ASSUME Inv, Deny
  PROVE  Inv'
<1>1. /\ pc = "handling" /\ request.ok /\ UNCHANGED readVars /\ applied' = applied
  BY DEF Deny, Push, At, exchangeFrame
<1>2. /\ \E status \in {401, 411, 413} : Answer(status, "Unread")
      /\ UNCHANGED counters \/ Bump("rejections")
  BY DEF Deny
<1>3. PICK status \in {401, 411, 413} : Answer(status, "Unread")
  BY <1>2
<1>4. status \in Nat /\ (UNCHANGED counters \/ \E c \in Counter : Bump(c))
  BY <1>2 DEF Counter
<1>5. QED BY <1>1, <1>3, <1>4, AnswerUnread

LEMMA StartUploadStep ==
  ASSUME Inv, StartUpload
  PROVE  Inv'
<1>1. /\ pc = "handling" /\ request.ok /\ Route(request.target) = "nar"
      /\ request.method = "Put" /\ Admitted /\ request.framing = "Length"
  BY DEF StartUpload, Push, At
<1>2. CASE /\ Proceed
           /\ pc' = "receiving"
           /\ remaining' = request.length
           /\ UNCHANGED <<clientVars, wire, buffer, head, request, body, replies, faulted,
                          applied, counters>>
  BY <1>1, <1>2, ProceedStep
<1>3. CASE (\E status \in {400, 500} : RefuseWith(status, "Unread"))
           /\ UNCHANGED <<readVars, applied, counters>>
  <2>1. PICK status \in {400, 500} : RefuseWith(status, "Unread")
    BY <1>3
  <2>2. PICK framed : framed = IF status = 400 THEN WithBody(Rendered) ELSE Bare(0)
    OBVIOUS
  <2>3. sent.method # "Head"
    <3>1. pc \in Serving
      BY <1>1 DEF Serving
    <3>2. request.method = sent.method
      BY <3>1, HandFacts DEF ParsedOf
    <3>3. QED BY <1>1, <3>2
  <2>4. framed \in Frames /\ Fits(framed, sent) /\ counters' \in [Counter -> Nat]
    BY <1>3, <2>2, <2>3, FramesFit, Counts
  <2>5. Reply(status, KeepAfter("Unread"), framed) /\ status \in Nat
    BY <2>1, <2>2 DEF RefuseWith
  <2>6. QED BY <1>1, <1>3, <2>4, <2>5, UnreadReply
<1>4. QED BY <1>2, <1>3 DEF StartUpload, exchangeFrame

LEMMA ReceiveChunkStep ==
  ASSUME Inv, ReceiveChunk
  PROVE  Inv'
<1>1. CASE Fault
  BY <1>1, EndStep DEF Fault
<1>2. CASE \E n \in 1 .. Take :
             /\ body' = body \o SubSeq(buffer, 1, n)
             /\ buffer' = SubSeq(buffer, n + 1, Len(buffer))
             /\ remaining' = remaining - n
             /\ UNCHANGED <<clientVars, wire, pc, head, request, continued, replies, faulted,
                            applied, counters>>
  <2>1. PICK n \in 1 .. Take :
             /\ body' = body \o SubSeq(buffer, 1, n)
             /\ buffer' = SubSeq(buffer, n + 1, Len(buffer))
             /\ remaining' = remaining - n
             /\ UNCHANGED <<clientVars, wire, pc, head, request, continued, replies, faulted,
                            applied, counters>>
    BY <1>2
  <2>2. n \in Nat /\ n <= Len(buffer) /\ n <= remaining
    <3>1. PICK lb \in Nat, m \in Nat : lb = Len(buffer) /\ m = remaining
      BY DEF Inv, TypeOK
    <3>2. n \in 1 .. (IF lb < m THEN lb ELSE m)
      BY <3>1 DEF Take
    <3>3. QED BY ONLY <3>1, <3>2
  <2>3. pc = "receiving" /\ pc' = "receiving"
    BY <2>1 DEF ReceiveChunk
  <2>4. QED BY <2>1, <2>2, <2>3, BodyStep
<1>3. QED BY <1>1, <1>2 DEF ReceiveChunk

\* The ends of receive and publish.
LEMMA FinishStep ==
  ASSUME Inv, pc \in {"receiving", "finishing"}, remaining = 0, UNCHANGED readVars,
         \/ Answer(201, "Consumed") /\ applied' = applied \cup {Current}
         \/ Answer(400, "Consumed") /\ applied' = applied
         \/ (\E status \in {400, 500} : RefuseWith(status, "Consumed"))
            /\ applied' = applied,
         UNCHANGED counters \/ (\E c \in Counter : Bump(c))
  PROVE  Inv'
<1>1. /\ applied' \subseteq applied \cup {Current}
      /\ counters' \in [Counter -> Nat]
  BY Counts
<1>2. \E status \in {201, 400, 500} : \E framed \in {Bare(0), WithBody(Rendered)} :
         Reply(status, KeepAfter("Consumed"), framed)
  BY DEF Answer, RefuseWith
<1>3. PICK status \in {201, 400, 500}, framed \in {Bare(0), WithBody(Rendered)} :
         Reply(status, KeepAfter("Consumed"), framed)
  BY <1>2
<1>4. framed \in Frames /\ framed.written = framed.declared
  BY FramesFit DEF Bare, WithBody
<1>5. QED BY <1>1, <1>3, <1>4, ConsumedReply

LEMMA FinishUploadStep ==
  ASSUME Inv, FinishUpload
  PROVE  Inv'
<1>1. pc \in {"receiving", "finishing"} /\ remaining = 0
  BY DEF FinishUpload
<1>2. CASE Fault
  BY <1>2, EndStep DEF Fault
<1>3. CASE /\ Uploaded(201)
           /\ Answer(201, "Consumed")
           /\ applied' = applied \cup {Current}
           /\ UNCHANGED <<readVars, faulted>>
  <2>1. \E c \in Counter : Bump(c)
    BY <1>3 DEF Uploaded, Counter
  <2>2. QED BY <1>1, <1>3, <2>1, FinishStep
<1>4. CASE /\ RefuseWith(400, "Consumed")
           /\ Uploaded(400)
           /\ UNCHANGED exchangeFrame
  <2>1. UNCHANGED counters /\ UNCHANGED readVars /\ applied' = applied
    BY <1>4 DEF Uploaded, exchangeFrame
  <2>2. \E status \in {400, 500} : RefuseWith(status, "Consumed")
    BY <1>4
  <2>3. QED BY <1>1, <2>1, <2>2, FinishStep
<1>5. QED BY <1>2, <1>3, <1>4 DEF FinishUpload

LEMMA StartPublishStep ==
  ASSUME Inv, StartPublish
  PROVE  Inv'
<1>1. /\ pc = "handling" /\ request.ok /\ Route(request.target) = "narinfo"
      /\ request.method = "Put" /\ Admitted /\ request.framing = "Length"
      /\ Proceed /\ pc' = "collecting" /\ remaining' = request.length
      /\ UNCHANGED <<clientVars, wire, buffer, head, request, body, replies, applied,
                     counters>>
  BY DEF StartPublish, Push, At
<1>2. QED BY <1>1, ProceedStep

LEMMA CollectBodyStep ==
  ASSUME Inv, CollectBody
  PROVE  Inv'
<1>1. PICK n, b : n = remaining /\ b = buffer
  OBVIOUS
<1>2. /\ pc = "collecting" /\ pc' = "finishing" /\ Len(b) >= n /\ n \in Nat
      /\ b \in Seq(ItemType)
      /\ body' = SubSeq(b, 1, n) /\ buffer' = SubSeq(b, n + 1, Len(b))
      /\ remaining' = 0
      /\ UNCHANGED <<clientVars, wire, head, request, continued, replies, applied, counters>>
  BY <1>1 DEF CollectBody, BodyLen, Inv, TypeOK
<1>3. body = <<>>
  <2>1. Len(body) = 0
    BY <1>2 DEF Inv, BodyRead, Serving
  <2>2. body \in Seq(ItemType)
    BY DEF Inv, TypeOK
  <2>3. QED BY ONLY <2>1, <2>2, EmptySeq
<1>4. n <= Len(b) /\ n <= n /\ n - n = 0
  BY ONLY <1>2
<1>5. body' = body \o SubSeq(b, 1, n)
  <2>1. PICK c : IsFirst(ItemType, c, b, n)
    BY <1>2, <1>4, CutFirst
  <2>2. c \in Seq(ItemType) /\ c = SubSeq(b, 1, n)
    BY ONLY <2>1 DEF IsFirst
  <2>3. << >> \o c = c
    BY ONLY <2>2, ConcatEmptySeq
  <2>4. QED BY ONLY <1>2, <1>3, <2>2, <2>3, Zenon
<1>6. QED BY <1>1, <1>2, <1>4, <1>5, BodyStep

LEMMA FinishPublishStep ==
  ASSUME Inv, FinishPublish
  PROVE  Inv'
<1>1. pc \in {"receiving", "finishing"} /\ remaining = 0
  BY DEF FinishPublish, Inv, BodyRead, Serving
<1>2. UNCHANGED readVars /\ UNCHANGED counters
  BY DEF FinishPublish, exchangeFrame
<1>3. \/ Answer(201, "Consumed") /\ applied' = applied \cup {Current}
      \/ Answer(400, "Consumed") /\ applied' = applied
      \/ (\E status \in {400, 500} : RefuseWith(status, "Consumed"))
         /\ applied' = applied
  BY DEF FinishPublish, exchangeFrame
<1>4. QED BY <1>1, <1>2, <1>3, FinishStep

-----------------------------------------------------------------------------
(* The theorems.                                                           *)

LEMMA InitInv ==
  ASSUME Init
  PROVE  Inv
<1>1. TypeOK
  <2>1. counters \in [Counter -> Nat]
    BY DEF Init
  <2>2. /\ requests = <<>> /\ unsent = <<>> /\ wire = <<>> /\ buffer = <<>>
        /\ head = <<>> /\ body = <<>> /\ replies = <<>>
        /\ fin = FALSE /\ pc = "head" /\ remaining = 0
    BY DEF Init
  <2>3. \A T : << >> \in Seq(T)
    OBVIOUS
  <2>4. /\ requests \in Seq(Requests) /\ unsent \in Seq(ItemType) /\ wire \in Seq(ItemType)
        /\ buffer \in Seq(ItemType) /\ head \in Seq(ItemType) /\ body \in Seq(ItemType)
        /\ replies \in Seq(Answers)
    BY ONLY <2>2, <2>3, Zenon
  <2>5. fin \in BOOLEAN /\ pc \in {"head", "closed"} \cup Serving /\ remaining \in Nat
    BY ONLY <2>2
  <2>6. QED BY ONLY <2>1, <2>4, <2>5, Zenon DEF TypeOK
<1>2. Place
  <2>1. PICK e : e = Ahead
    OBVIOUS
  <2>2. e \in Seq(ItemType) /\ Len(e) = 0
    BY <2>1 DEF Init, Ahead
  <2>3. Len(replies) + 1 = 1 /\ Len(requests) + 1 = 1
    BY DEF Init
  <2>4. Stream(e, 1, 1, requests)
    BY <2>2, <2>3 DEF Stream
  <2>5. QED BY <2>1, <2>3, <2>4 DEF Place, Init, Serving
<1>3. InHand /\ BodyRead /\ Pushing
  BY DEF Init, InHand, BodyRead, Pushing, Serving, Reading
<1>4. HeadOf(head, requests) /\ Len(replies) <= Len(requests)
  BY DEF Init, HeadOf
<1>5. InOrder(replies, requests) /\ AllKeep(replies)
  BY DEF Init, InOrder, AllKeep
<1>6. ContinuedOf(continued, replies, pc) /\ AppliedOf(applied, requests)
  BY DEF Init, ContinuedOf, AppliedOf
<1>7. QED BY <1>1, <1>2, <1>3, <1>4, <1>5, <1>6 DEF Inv

LEMMA StutterInv ==
  ASSUME Inv, UNCHANGED vars
  PROVE  Inv'
<1>1. Ahead' = Ahead
  BY DEF vars, Ahead
<1>2. /\ unsent' \in Seq(ItemType) /\ wire' \in Seq(ItemType)
      /\ buffer' \in Seq(ItemType) /\ fin' \in BOOLEAN
      /\ UNCHANGED <<requests, pc, head, request, remaining, body, continued, replies,
                     applied, counters>>
  BY DEF vars, Inv, TypeOK
<1>3. QED BY <1>1, <1>2, MoveStep

LEMMA NextInv ==
  ASSUME BodiesWelcome(Requests), Inv, [Next]_vars
  PROVE  Inv'
<1>1. CASE Ask
  BY <1>1, AskStep
<1>2. CASE SendItem \/ SendUnasked
  BY <1>2, EmitStep DEF SendItem, SendUnasked
<1>3. CASE HangUp
  BY <1>3, HangUpStep
<1>4. CASE Fill
  BY <1>4, FillStep
<1>5. CASE Eof \/ HeadTooLong \/ PeerGone
  BY <1>5, EndStep DEF Eof, HeadTooLong, PeerGone
<1>6. CASE TakeHead
  BY <1>6, TakeHeadStep
<1>7. CASE Unparseable
  BY <1>7, UnparseableStep
<1>8. CASE Unroutable
  BY <1>8, UnroutableStep
<1>9. CASE CacheInfo
  BY <1>9, CacheInfoStep
<1>10. CASE Metrics
  BY <1>10, MetricsStep
<1>11. CASE ReadNarinfo
  BY <1>11, ReadNarinfoStep
<1>12. CASE ReadNar
  BY <1>12, ReadNarStep
<1>13. CASE Deny
  BY <1>13, DenyStep
<1>14. CASE StartUpload
  BY <1>14, StartUploadStep
<1>15. CASE ReceiveChunk
  BY <1>15, ReceiveChunkStep
<1>16. CASE FinishUpload
  BY <1>16, FinishUploadStep
<1>17. CASE StartPublish
  BY <1>17, StartPublishStep
<1>18. CASE CollectBody
  BY <1>18, CollectBodyStep
<1>19. CASE FinishPublish
  BY <1>19, FinishPublishStep
<1>20. CASE UNCHANGED vars
  BY <1>20, StutterInv
<1>21. QED
  BY <1>1, <1>2, <1>3, <1>4, <1>5, <1>6, <1>7, <1>8, <1>9, <1>10, <1>11, <1>12, <1>13,
     <1>14, <1>15, <1>16, <1>17, <1>18, <1>19, <1>20 DEF Next, ServerStep

LEMMA Invariance ==
  ASSUME BodiesWelcome(Requests)
  PROVE  Spec => []Inv
<1>1. Init => Inv
  BY InitInv
<1>2. Inv /\ [Next]_vars => Inv'
  BY NextInv
<1>3. QED BY <1>1, <1>2, PTL DEF Spec

\* MessageBoundary, where bodies go only to requests that read or refuse them:
\* however requests are pipelined and cut into reads, a head that the session
\* takes is one request's head and nothing else.
THEOREM BoundaryHolds ==
  ASSUME BodiesWelcome(Requests)
  PROVE  Spec => []MessageBoundary
<1>1. Inv => MessageBoundary
  BY DEF Inv, HeadOf, MessageBoundary, Current, sent
<1>2. QED BY <1>1, Invariance, PTL

\* BodyIsOwn: what receive and publish hand to ingest is the body of the
\* request in hand, unit for unit.
THEOREM BodyHolds ==
  ASSUME BodiesWelcome(Requests)
  PROVE  Spec => []BodyIsOwn
<1>1. ASSUME Inv
      PROVE  BodyIsOwn
  <2>1. SUFFICES ASSUME pc \in {"receiving", "finishing"}
                 PROVE  /\ Len(body) + remaining = sent.length
                        /\ \A j \in DOMAIN body : body[j] = BodyItems(Current, sent)[j]
    BY DEF BodyIsOwn
  <2>2. pc \in Serving /\ pc \in Reading
    BY <2>1 DEF Serving, Reading
  <2>3. PICK r, i, y, q : r = sent /\ i = Current /\ y = body /\ q = Len(body)
    OBVIOUS
  <2>4. /\ q + remaining = r.length /\ q <= r.length
        /\ \A j \in 1 .. q : y[j] = Item(i, r, r.lines + 1 + j)
        /\ y \in Seq(ItemType) /\ q = Len(y)
    BY <1>1, <2>2, <2>3 DEF Inv, BodyRead, TypeOK
  <2>5. r.length \in Nat
    BY <1>1, <2>2, <2>3, HandFacts
  <2>6. DOMAIN y = 1 .. q /\ q \in Nat
    BY ONLY <2>4
  <2>7. \A j \in 1 .. q : j \in 1 .. r.length
    BY ONLY <2>4, <2>5, <2>6
  <2>8. \A j \in 1 .. q : y[j] = BodyItems(i, r)[j]
    BY ONLY <2>4, <2>7 DEF BodyItems
  <2>9. QED BY <2>3, <2>4, <2>6, <2>8
<1>2. QED BY <1>1, Invariance, PTL

\* AnsweredInOrder: one answer for each request, in the order they came, none
\* after one that announced the close, each as long as it says but for a GET
\* whose artifact ended before its recorded length.
THEOREM OrderHolds ==
  ASSUME BodiesWelcome(Requests)
  PROVE  Spec => []AnsweredInOrder
<1>1. ASSUME Inv
      PROVE  AnsweredInOrder
  <2>1. DOMAIN replies = 1 .. Len(replies)
    BY <1>1 DEF Inv, TypeOK
  <2>2. InOrder(replies, requests)
    BY <1>1 DEF Inv
  <2>3. QED BY ONLY <2>1, <2>2 DEF InOrder, Fits, AnsweredInOrder
<1>2. QED BY <1>1, Invariance, PTL

\* AdmittedOnly: what reaches ingest names a credential the operator chose,
\* whatever blank flags and lines there are, and no client that was told to
\* continue is then refused by its head.
THEOREM AdmissionHolds ==
  ASSUME BodiesWelcome(Requests)
  PROVE  Spec => []AdmittedOnly
<1>1. ASSUME Inv
      PROVE  AdmittedOnly
  <2>1. PICK reps, cont : reps = replies /\ cont = continued
    OBVIOUS
  <2>2. /\ reps \in Seq(Answers) /\ InOrder(reps, requests)
        /\ \E at : ContinuedOf(cont, reps, at)
    BY <1>1, <2>1 DEF Inv, TypeOK
  <2>3. ASSUME NEW j \in DOMAIN reps, reps[j].to \in cont
        PROVE  reps[j].status \in {201, 400, 500}
    <3>1. j \in 1 .. Len(reps) /\ Len(reps) \in Nat
      BY <2>2, <2>3
    <3>2. reps[j].to = j
      BY ONLY <2>2, <3>1 DEF InOrder
    <3>3. j # Len(reps) + 1
      BY ONLY <3>1
    <3>4. QED BY ONLY <2>2, <2>3, <3>2, <3>3 DEF ContinuedOf
  <2>4. \A i \in applied : Entitled(requests[i])
    BY <1>1 DEF Inv, AppliedOf
  <2>5. QED BY <2>1, <2>3, <2>4 DEF AdmittedOnly
<1>2. QED BY <1>1, Invariance, PTL

-----------------------------------------------------------------------------
(* The counters. What a counter gained is what the answers bear out, but   *)
(* for one count that the client did not stay to read.                     *)

Names == {"metadata_hits", "metadata_misses", "uploads", "rejections"}

\* An answer of this status to this request is one for the counter.
Bears(c, status, r) ==
    \/ c = "metadata_hits" /\ status = 200 /\ r.method \in {"Get", "Head"}
       /\ Route(r.target) \in {"narinfo"}
    \/ c = "metadata_misses" /\ status = 404 /\ r.method \in {"Get", "Head"}
       /\ Route(r.target) \in {"narinfo"}
    \/ c = "uploads" /\ status = 201 /\ r.method \in {"Put"} /\ Route(r.target) \in {"nar"}
    \/ c = "rejections" /\ status = 401 /\ r.method \in {"Put"}
       /\ Route(r.target) \in {"nar", "narinfo"}

Borne(c, reps, reqs) == {j \in 1 .. Len(reps) : Bears(c, reps[j].status, reqs[j])}

Understood(reps, reqs) == {j \in 1 .. Len(reps) : Parse(reqs[j]).ok}

\* owed: the counts ahead of their answers.
Books(cnt, reps, reqs, owed) ==
    \A c \in Names :
        cnt[c] = Cardinality(Borne(c, reps, reqs)) + IF c \in owed THEN 1 ELSE 0

\* inHand: 1 for a request that was counted and not yet answered.
Tally(cnt, reps, reqs, inHand) ==
    cnt["requests"] = Cardinality(Understood(reps, reqs)) + inHand

Accounts ==
    /\ \E owed \in SUBSET Names :
          /\ owed # {} => pc = "closed" /\ fin
          /\ \A a, b \in owed : a = b
          /\ Books(counters, replies, requests, owed)
    /\ \E inHand \in {0, 1} :
          /\ pc = "head" => inHand = 0
          /\ pc \in Serving => inHand = IF request.ok THEN 1 ELSE 0
          /\ Tally(counters, replies, requests, inHand)

LEMMA CardinalityUpTo ==
  ASSUME NEW n \in Nat, NEW S \in SUBSET (1 .. n)
  PROVE  /\ Cardinality(S) \in Nat
         /\ Cardinality(S \cup {n + 1}) = Cardinality(S) + 1
<1>1. IsFiniteSet(1 .. n)
  BY FS_Interval
<1>2. IsFiniteSet(S)
  BY <1>1, FS_Subset
<1>3. n + 1 \notin S
  OBVIOUS
<1>4. Cardinality(S) \in Nat
  BY <1>2, FS_CardinalityType
<1>5. Cardinality(S \cup {n + 1}) = Cardinality(S) + 1
  BY <1>2, <1>3, FS_AddElement
<1>6. QED BY <1>4, <1>5

LEMMA BorneNext ==
  ASSUME NEW c, NEW reps \in Seq(Answers), NEW answer \in Answers, NEW reqs
  PROVE  /\ Cardinality(Borne(c, reps, reqs)) \in Nat
         /\ Cardinality(Borne(c, Append(reps, answer), reqs)) =
               Cardinality(Borne(c, reps, reqs)) +
               IF Bears(c, answer.status, reqs[Len(reps) + 1]) THEN 1 ELSE 0
<1>1. PICK n \in Nat : n = Len(reps)
  OBVIOUS
<1>2. PICK R : R = Append(reps, answer)
  OBVIOUS
<1>3. Len(R) = n + 1 /\ R[n + 1] = answer /\ \A j \in 1 .. n : R[j] = reps[j]
  BY <1>1, <1>2
<1>4. PICK S, T : S = Borne(c, reps, reqs) /\ T = Borne(c, R, reqs)
  OBVIOUS
<1>5. S = {j \in 1 .. n : Bears(c, reps[j].status, reqs[j])}
  BY <1>1, <1>4 DEF Borne
<1>6. T = {j \in 1 .. n + 1 : Bears(c, R[j].status, reqs[j])}
  BY <1>3, <1>4 DEF Borne
<1>7. T = S \cup (IF Bears(c, answer.status, reqs[n + 1]) THEN {n + 1} ELSE {})
  BY ONLY <1>3, <1>5, <1>6, n \in Nat
<1>8. /\ Cardinality(S) \in Nat
      /\ Cardinality(S \cup {n + 1}) = Cardinality(S) + 1
  BY <1>5, CardinalityUpTo
<1>9. Cardinality(T) = Cardinality(S) + IF Bears(c, answer.status, reqs[n + 1]) THEN 1 ELSE 0
  <2>1. CASE Bears(c, answer.status, reqs[n + 1])
    <3>1. T = S \cup {n + 1}
      BY ONLY <1>7, <2>1
    <3>2. QED BY ONLY <1>8, <2>1, <3>1
  <2>2. CASE ~Bears(c, answer.status, reqs[n + 1])
    <3>1. T = S
      BY ONLY <1>7, <2>2
    <3>2. Cardinality(S) + 0 = Cardinality(S)
      BY ONLY <1>8
    <3>3. QED BY ONLY <2>2, <3>1, <3>2
  <2>3. QED BY ONLY <2>1, <2>2
<1>10. QED BY ONLY <1>1, <1>2, <1>4, <1>8, <1>9, Zenon

LEMMA UnderstoodNext ==
  ASSUME NEW reps \in Seq(Answers), NEW answer \in Answers, NEW reqs
  PROVE  /\ Cardinality(Understood(reps, reqs)) \in Nat
         /\ Cardinality(Understood(Append(reps, answer), reqs)) =
               Cardinality(Understood(reps, reqs)) +
               IF Parse(reqs[Len(reps) + 1]).ok THEN 1 ELSE 0
<1>1. PICK n \in Nat : n = Len(reps)
  OBVIOUS
<1>2. PICK R : R = Append(reps, answer)
  OBVIOUS
<1>3. Len(R) = n + 1
  BY <1>1, <1>2
<1>4. PICK S, T : S = Understood(reps, reqs) /\ T = Understood(R, reqs)
  OBVIOUS
<1>5. S = {j \in 1 .. n : Parse(reqs[j]).ok}
  BY <1>1, <1>4 DEF Understood
<1>6. T = {j \in 1 .. n + 1 : Parse(reqs[j]).ok}
  BY <1>3, <1>4 DEF Understood
<1>7. T = S \cup (IF Parse(reqs[n + 1]).ok THEN {n + 1} ELSE {})
  BY ONLY <1>5, <1>6, n \in Nat
<1>8. /\ Cardinality(S) \in Nat
      /\ Cardinality(S \cup {n + 1}) = Cardinality(S) + 1
  BY <1>5, CardinalityUpTo
<1>9. Cardinality(T) = Cardinality(S) + IF Parse(reqs[n + 1]).ok THEN 1 ELSE 0
  <2>1. CASE Parse(reqs[n + 1]).ok
    <3>1. T = S \cup {n + 1}
      BY ONLY <1>7, <2>1
    <3>2. QED BY ONLY <1>8, <2>1, <3>1
  <2>2. CASE ~Parse(reqs[n + 1]).ok
    <3>1. T = S
      BY ONLY <1>7, <2>2
    <3>2. Cardinality(S) + 0 = Cardinality(S)
      BY ONLY <1>8
    <3>3. QED BY ONLY <2>2, <3>1, <3>2
  <2>3. QED BY ONLY <2>1, <2>2
<1>10. QED BY ONLY <1>1, <1>2, <1>4, <1>8, <1>9, Zenon

LEMMA AccountsAsk ==
  ASSUME NEW reps \in Seq(Answers), NEW reqs \in Seq(Requests), NEW r \in Requests,
         Len(reps) <= Len(reqs)
  PROVE  /\ \A c : Borne(c, reps, Append(reqs, r)) = Borne(c, reps, reqs)
         /\ Understood(reps, Append(reqs, r)) = Understood(reps, reqs)
<1>1. PICK R : R = Append(reqs, r)
  OBVIOUS
<1>2. \A j \in 1 .. Len(reps) : R[j] = reqs[j]
  BY <1>1
<1>3. QED BY <1>1, <1>2 DEF Borne, Understood

\* cnt gained what an answer of this status to r bears out.
Gained(cnt, from, status, r) ==
    /\ cnt["requests"] = from["requests"]
    /\ \A c \in Names : cnt[c] = from[c] + IF Bears(c, status, r) THEN 1 ELSE 0

LEMMA BooksAnswered ==
  ASSUME NEW reps \in Seq(Answers), NEW answer \in Answers, NEW reqs, NEW from, NEW cnt,
         Books(from, reps, reqs, {}),
         Gained(cnt, from, answer.status, reqs[Len(reps) + 1])
  PROVE  Books(cnt, Append(reps, answer), reqs, {})
<1>1. SUFFICES ASSUME NEW c \in Names
               PROVE  cnt[c] = Cardinality(Borne(c, Append(reps, answer), reqs)) + 0
  BY DEF Books
<1>2. PICK k, m, d : /\ k = Cardinality(Borne(c, reps, reqs))
                     /\ m = Cardinality(Borne(c, Append(reps, answer), reqs))
                     /\ d = IF Bears(c, answer.status, reqs[Len(reps) + 1]) THEN 1 ELSE 0
  OBVIOUS
<1>3. k \in Nat /\ m = k + d
  BY <1>2, BorneNext
<1>4. from[c] = k + 0
  BY <1>2 DEF Books
<1>5. cnt[c] = from[c] + d
  BY <1>2 DEF Gained
<1>6. d \in {0, 1}
  BY ONLY <1>2
<1>7. cnt[c] = m + 0
  BY ONLY <1>3, <1>4, <1>5, <1>6
<1>8. QED BY ONLY <1>2, <1>7, Zenon

LEMMA BooksOwed ==
  ASSUME NEW reps \in Seq(Answers), NEW reqs, NEW from, NEW cnt, NEW status, NEW r,
         Books(from, reps, reqs, {}), Gained(cnt, from, status, r)
  PROVE  \E owed \in SUBSET Names : /\ \A a, b \in owed : a = b
                                    /\ Books(cnt, reps, reqs, owed)
<1>1. PICK owed : owed = {c \in Names : Bears(c, status, r)}
  OBVIOUS
<1>2. owed \in SUBSET Names
  BY <1>1
<1>3. \A a, b \in owed : a = b
  BY <1>1 DEF Bears
<1>4. ASSUME NEW c \in Names
      PROVE  cnt[c] = Cardinality(Borne(c, reps, reqs)) + IF c \in owed THEN 1 ELSE 0
  <2>1. PICK k, d : k = Cardinality(Borne(c, reps, reqs))
                    /\ d = IF Bears(c, status, r) THEN 1 ELSE 0
    OBVIOUS
  <2>2. k \in Nat
    <3>1. PICK n \in Nat : n = Len(reps)
      OBVIOUS
    <3>2. Borne(c, reps, reqs) \in SUBSET (1 .. n)
      BY <3>1 DEF Borne
    <3>3. QED BY <2>1, <3>2, CardinalityUpTo
  <2>3. from[c] = k + 0 /\ cnt[c] = from[c] + d
    BY <2>1 DEF Books, Gained
  <2>4. d = IF c \in owed THEN 1 ELSE 0
    BY <1>1, <2>1
  <2>5. d \in {0, 1}
    BY ONLY <2>1
  <2>6. cnt[c] = k + d
    BY ONLY <2>2, <2>3, <2>5
  <2>7. QED BY ONLY <2>1, <2>4, <2>6
<1>5. Books(cnt, reps, reqs, owed)
  BY ONLY <1>4 DEF Books
<1>6. QED BY ONLY <1>2, <1>3, <1>5, Zenon

LEMMA TallyAnswered ==
  ASSUME NEW reps \in Seq(Answers), NEW answer \in Answers, NEW reqs, NEW from, NEW cnt,
         NEW p, p = Parse(reqs[Len(reps) + 1]), cnt["requests"] = from["requests"],
         Tally(from, reps, reqs, IF p.ok THEN 1 ELSE 0)
  PROVE  Tally(cnt, Append(reps, answer), reqs, 0)
<1>1. PICK k, m, d : /\ k = Cardinality(Understood(reps, reqs))
                     /\ m = Cardinality(Understood(Append(reps, answer), reqs))
                     /\ d = IF p.ok THEN 1 ELSE 0
  OBVIOUS
<1>2. k \in Nat /\ m = k + d
  BY <1>1, UnderstoodNext
<1>3. cnt["requests"] = k + d /\ d \in {0, 1}
  BY <1>1 DEF Tally
<1>4. cnt["requests"] = m + 0
  BY ONLY <1>2, <1>3
<1>5. QED BY ONLY <1>1, <1>4, Zenon DEF Tally

\* The parts of Accounts, for a session that is at work.
LEMMA AccountsOpen ==
  ASSUME Accounts, pc # "closed"
  PROVE  Books(counters, replies, requests, {})
BY DEF Accounts

LEMMA AccountsReply ==
  ASSUME Inv, Inv', Accounts, pc \in Serving, UNCHANGED readVars,
         NEW status, NEW keep, NEW framed, Reply(status, keep, framed),
         Gained(counters', counters, status, sent)
  PROVE  Accounts'
<1>1. PICK reps, reqs, from, cnt, i, p : /\ reps = replies /\ reqs = requests
                                         /\ from = counters /\ cnt = counters'
                                         /\ i = Len(replies) + 1 /\ p = request
  OBVIOUS
<1>2. reps \in Seq(Answers) /\ requests' = reqs /\ fin' = fin /\ i = Len(reps) + 1
  BY <1>1 DEF Inv, TypeOK, readVars, clientVars
<1>3. Books(from, reps, reqs, {})
  BY <1>1, AccountsOpen DEF Serving
<1>4. sent = reqs[i] /\ p = Parse(reqs[i]) /\ Current = i
  BY <1>1, HandFacts DEF sent
<1>5. Gained(cnt, from, status, reqs[i])
  BY <1>1, <1>4
<1>6. cnt["requests"] = from["requests"]
  BY ONLY <1>5 DEF Gained
<1>7. Tally(from, reps, reqs, IF p.ok THEN 1 ELSE 0)
  BY <1>1 DEF Accounts
<1>8. CASE /\ replies' = Append(replies, Rendering(status, keep, framed))
           /\ pc' = IF keep = "Keep" THEN "head" ELSE "closed"
  <2>1. PICK answer : answer = Rendering(status, keep, framed)
    OBVIOUS
  <2>2. replies' = Append(reps, answer) /\ answer.status = status
    BY <1>1, <1>8, <2>1 DEF Rendering
  <2>3. answer \in Answers
    <3>1. PICK R : R = replies'
      OBVIOUS
    <3>2. R \in Seq(Answers) /\ R = Append(reps, answer)
      BY <2>2, <3>1 DEF Inv, TypeOK
    <3>3. Len(R) = Len(reps) + 1 /\ R[Len(reps) + 1] = answer
      BY ONLY <1>2, <3>2
    <3>4. QED BY ONLY <1>2, <3>2, <3>3
  <2>4. Books(cnt, Append(reps, answer), reqs, {})
    BY <1>2, <1>3, <1>5, <2>2, <2>3, BooksAnswered
  <2>5. Tally(cnt, Append(reps, answer), reqs, 0)
    BY <1>2, <1>4, <1>6, <1>7, <2>3, TallyAnswered
  <2>6. Books(counters', replies', requests', {}) /\ Tally(counters', replies', requests', 0)
    BY ONLY <1>1, <1>2, <2>2, <2>4, <2>5, Zenon
  <2>7. pc' \notin Serving
    BY <1>8 DEF Serving
  <2>8. QED BY <2>6, <2>7 DEF Accounts
<1>9. CASE fin /\ pc' = "closed" /\ UNCHANGED replies
  <2>1. PICK owed \in SUBSET Names : /\ \A a, b \in owed : a = b
                                     /\ Books(cnt, reps, reqs, owed)
    BY <1>2, <1>3, <1>5, BooksOwed
  <2>2. PICK d \in {0, 1} : Tally(cnt, reps, reqs, d)
    BY <1>6, <1>7 DEF Tally
  <2>3. replies' = reps /\ counters' = cnt /\ pc' = "closed" /\ fin' /\ pc' \notin Serving
    BY <1>1, <1>2, <1>9 DEF Serving
  <2>4. QED BY <1>2, <2>1, <2>2, <2>3 DEF Accounts
<1>10. QED BY <1>8, <1>9 DEF Reply

LEMMA AccountsClose ==
  ASSUME Accounts, Close
  PROVE  Accounts'
<1>1. UNCHANGED <<requests, fin, replies, counters>> /\ pc' = "closed"
  BY DEF Close, readVars, clientVars
<1>2. QED BY <1>1 DEF Accounts, Serving

\* Steps that neither count nor answer.
LEMMA AccountsMove ==
  ASSUME Inv, Accounts, pc' = pc \/ (pc \in Serving /\ pc' \in Serving), fin => fin',
         requests' = requests \/ \E r \in Requests : requests' = Append(requests, r),
         UNCHANGED <<request, replies, counters>>
  PROVE  Accounts'
<1>1. PICK reps, reqs, R : reps = replies /\ reqs = requests /\ R = requests'
  OBVIOUS
<1>2. reps \in Seq(Answers) /\ reqs \in Seq(Requests) /\ Len(reps) <= Len(reqs)
  BY <1>1 DEF Inv, TypeOK
<1>3. /\ \A c : Borne(c, reps, R) = Borne(c, reps, reqs)
      /\ Understood(reps, R) = Understood(reps, reqs)
  <2>1. CASE R = reqs
    BY ONLY <2>1
  <2>2. CASE R # reqs
    <3>1. PICK r \in Requests : R = Append(reqs, r)
      BY <1>1, <2>2
    <3>2. /\ \A c : Borne(c, reps, Append(reqs, r)) = Borne(c, reps, reqs)
          /\ Understood(reps, Append(reqs, r)) = Understood(reps, reqs)
      BY ONLY <1>2, AccountsAsk, r \in Requests
    <3>3. QED BY ONLY <3>1, <3>2
  <2>3. QED BY ONLY <2>1, <2>2
<1>4. /\ \A cnt, owed : Books(cnt, reps, reqs, owed) => Books(cnt, reps, R, owed)
      /\ \A cnt, d : Tally(cnt, reps, reqs, d) => Tally(cnt, reps, R, d)
  BY ONLY <1>3 DEF Books, Tally
<1>5. replies' = reps /\ counters' = counters /\ request' = request
  BY <1>1
<1>6. pc' = "head" => pc = "head"
  BY DEF Serving
<1>7. pc = "closed" <=> pc' = "closed"
  BY DEF Serving
<1>8. QED BY <1>1, <1>4, <1>5, <1>6, <1>7 DEF Accounts

LEMMA AccountsTakeHead ==
  ASSUME Inv, Accounts, TakeHead
  PROVE  Accounts'
<1>1. /\ pc = "head" /\ pc' = "handling"
      /\ UNCHANGED <<requests, fin, replies>>
      /\ IF request'.ok THEN Bump("requests") ELSE UNCHANGED counters
  BY DEF TakeHead, clientVars
<1>2. counters \in [Counter -> Nat]
  BY DEF Inv, TypeOK
<1>3. PICK reps, reqs : reps = replies /\ reqs = requests
  OBVIOUS
<1>4. Books(counters, reps, reqs, {}) /\ Tally(counters, reps, reqs, 0)
  BY <1>1, <1>3 DEF Accounts
<1>5. \A c \in Names : counters'[c] = counters[c]
  BY <1>1, <1>2 DEF Bump, Names, Counter
<1>6. counters'["requests"] = counters["requests"] + IF request'.ok THEN 1 ELSE 0
  BY <1>1, <1>2 DEF Bump, Counter
<1>7. Books(counters', reps, reqs, {})
  BY ONLY <1>4, <1>5 DEF Books
<1>8. Tally(counters', reps, reqs, IF request'.ok THEN 1 ELSE 0)
  <2>1. PICK k, d : k = Cardinality(Understood(reps, reqs))
                    /\ d = IF request'.ok THEN 1 ELSE 0
    OBVIOUS
  <2>2. k \in Nat
    <3>1. reps \in Seq(Answers)
      BY <1>3 DEF Inv, TypeOK
    <3>2. PICK n \in Nat : n = Len(reps)
      BY <3>1
    <3>3. Understood(reps, reqs) \in SUBSET (1 .. n)
      BY <3>2 DEF Understood
    <3>4. QED BY <2>1, <3>3, CardinalityUpTo
  <2>3. counters["requests"] = k + 0 /\ counters'["requests"] = counters["requests"] + d
    BY <1>4, <1>6, <2>1 DEF Tally
  <2>4. counters'["requests"] = k + d
    <3>1. PICK a, b : a = counters["requests"] /\ b = counters'["requests"]
      OBVIOUS
    <3>2. a = k + 0 /\ b = a + d /\ d \in {0, 1}
      BY <2>1, <2>3, <3>1
    <3>3. b = k + d
      BY ONLY <2>2, <3>2
    <3>4. QED BY ONLY <3>1, <3>3
  <2>5. QED BY <2>1, <2>4 DEF Tally
<1>9. QED BY <1>1, <1>3, <1>7, <1>8 DEF Accounts

\* An answer, however it is framed.
Replied(status) == \E keep, framed : Reply(status, keep, framed)

LEMMA BearsOf ==
  ASSUME Inv, pc \in Serving, NEW c, NEW status
  PROVE  Bears(c, status, sent) <=> Bears(c, status, request)
<1>1. request.method = sent.method /\ request.target = sent.target
  BY HandFacts DEF ParsedOf
<1>2. QED BY ONLY <1>1 DEF Bears

\* An answer that is nobody's count.
LEMMA AccountsUncounted ==
  ASSUME Inv, Inv', Accounts, pc \in Serving, UNCHANGED readVars, UNCHANGED counters,
         NEW status, Replied(status), \A c \in Names : ~Bears(c, status, request)
  PROVE  Accounts'
<1>1. \A c \in Names : ~Bears(c, status, sent)
  BY BearsOf
<1>2. counters \in [Counter -> Nat]
  BY DEF Inv, TypeOK
<1>3. \A c \in Names : counters[c] \in Nat
  BY <1>2 DEF Names, Counter
<1>4. \A c \in Names : counters[c] = counters[c] + 0
  BY <1>3
<1>5. \A c \in Names : counters'[c] = counters[c] + IF Bears(c, status, sent) THEN 1 ELSE 0
  BY <1>1, <1>4
<1>6. Gained(counters', counters, status, sent)
  BY <1>5 DEF Gained
<1>7. PICK keep, framed : Reply(status, keep, framed)
  BY DEF Replied
<1>8. QED BY <1>6, <1>7, AccountsReply

\* An answer and its count.
LEMMA AccountsCounted ==
  ASSUME Inv, Inv', Accounts, pc \in Serving, UNCHANGED readVars,
         NEW x \in Names, Bump(x), NEW status, Replied(status), Bears(x, status, request)
  PROVE  Accounts'
<1>1. Bears(x, status, sent)
  BY BearsOf
<1>2. \A c \in Names : Bears(c, status, sent) => c = x
  BY <1>1 DEF Bears
<1>3. counters \in [Counter -> Nat] /\ counters' = [counters EXCEPT ![x] = @ + 1]
  BY DEF Inv, TypeOK, Bump
<1>4. x \in Counter /\ x # "requests" /\ \A c \in Names : c \in Counter
  BY DEF Names, Counter
<1>5. counters'["requests"] = counters["requests"]
  BY ONLY <1>3, <1>4 DEF Counter
<1>6. ASSUME NEW c \in Names
      PROVE  counters'[c] = counters[c] + IF Bears(c, status, sent) THEN 1 ELSE 0
  <2>1. CASE c = x
    BY <1>1, <1>3, <1>4, <2>1
  <2>2. CASE c # x
    <3>1. ~Bears(c, status, sent)
      BY <1>2, <2>2
    <3>2. counters'[c] = counters[c] /\ counters[c] \in Nat
      BY <1>3, <1>4, <2>2
    <3>3. counters[c] + 0 = counters[c]
      BY ONLY <3>2
    <3>4. QED BY <3>1, <3>2, <3>3
  <2>3. QED BY <2>1, <2>2
<1>7. Gained(counters', counters, status, sent)
  BY <1>5, <1>6 DEF Gained
<1>8. PICK keep, framed : Reply(status, keep, framed)
  BY DEF Replied
<1>9. QED BY <1>7, <1>8, AccountsReply

\* Statuses that no counter is about.
LEMMA Uncounted ==
  ASSUME NEW status \in {400, 411, 413, 500, 501}, NEW c \in Names
  PROVE  ~Bears(c, status, request)
BY DEF Bears

LEMMA AccountsPlain ==
  ASSUME Inv, Inv', Accounts, pc \in Serving, UNCHANGED readVars, UNCHANGED counters,
         NEW status \in {400, 411, 413, 500, 501}, Replied(status)
  PROVE  Accounts'
BY Uncounted, AccountsUncounted

LEMMA Replies ==
  ASSUME NEW status, NEW drained
  PROVE  /\ Answer(status, drained) => Replied(status)
         /\ RefuseWith(status, drained) => Replied(status)
         /\ Send(status) => Replied(status)
BY DEF Answer, RefuseWith, Send, Replied

LEMMA AccountsUnroutable ==
  ASSUME Inv, Inv', Accounts, Unroutable
  PROVE  Accounts'
<1>1. pc \in Serving /\ UNCHANGED readVars /\ UNCHANGED counters
  BY DEF Unroutable, Serving, exchangeFrame
<1>2. CASE \E status \in {501, 400} : Answer(status, "Unread")
  BY <1>1, <1>2, Replies, AccountsPlain
<1>3. CASE At("unknown") /\ Answer(404, "Unread")
  <2>1. Route(request.target) = "unknown"
    BY <1>3 DEF At
  <2>2. \A c \in Names : ~Bears(c, 404, request)
    BY ONLY <2>1 DEF Bears
  <2>3. Replied(404)
    BY <1>3, Replies
  <2>4. QED BY <1>1, <2>2, <2>3, AccountsUncounted
<1>4. QED BY <1>2, <1>3 DEF Unroutable

\* 200 on a route without a counter.
LEMMA AccountsSend ==
  ASSUME Inv, Inv', Accounts, pc = "handling", Send(200), UNCHANGED readVars,
         UNCHANGED counters, Route(request.target) # "narinfo"
  PROVE  Accounts'
<1>1. \A c \in Names : ~Bears(c, 200, request)
  BY DEF Bears
<1>2. pc \in Serving /\ Replied(200)
  BY Replies DEF Serving
<1>3. QED BY <1>1, <1>2, AccountsUncounted

LEMMA AccountsCacheInfo ==
  ASSUME Inv, Inv', Accounts, CacheInfo
  PROVE  Accounts'
<1>1. /\ pc = "handling" /\ Route(request.target) # "narinfo" /\ Send(200)
      /\ UNCHANGED readVars /\ UNCHANGED counters
  BY DEF CacheInfo, At, exchangeFrame
<1>2. QED BY <1>1, AccountsSend

LEMMA AccountsMetrics ==
  ASSUME Inv, Inv', Accounts, Metrics
  PROVE  Accounts'
<1>1. CASE Fault
  BY <1>1, AccountsClose DEF Fault
<1>2. CASE Send(200) /\ UNCHANGED <<exchangeFrame, counters>>
  <2>1. /\ pc = "handling" /\ Route(request.target) # "narinfo" /\ Send(200)
        /\ UNCHANGED readVars /\ UNCHANGED counters
    BY <1>2 DEF Metrics, At, exchangeFrame
  <2>2. QED BY <2>1, AccountsSend
<1>3. QED BY <1>1, <1>2 DEF Metrics

LEMMA AccountsReadNarinfo ==
  ASSUME Inv, Inv', Accounts, ReadNarinfo
  PROVE  Accounts'
<1>1. CASE Fault
  BY <1>1, AccountsClose DEF Fault
<1>2. pc \in Serving /\ request.ok /\ Route(request.target) = "narinfo"
      /\ request.method # "Put"
  BY DEF ReadNarinfo, At, Serving
<1>3. request.method \in {"Get", "Head"}
  <2>1. ParsedOf(request, sent)
    BY <1>2, HandFacts
  <2>2. QED BY ONLY <1>2, <2>1 DEF ParsedOf
<1>4. Bears("metadata_hits", 200, request) /\ Bears("metadata_misses", 404, request)
  BY ONLY <1>2, <1>3 DEF Bears
<1>5. CASE Bump("metadata_hits") /\ Send(200) /\ UNCHANGED exchangeFrame
  <2>1. "metadata_hits" \in Names /\ UNCHANGED readVars
    BY <1>5 DEF Names, exchangeFrame
  <2>2. Replied(200)
    BY <1>5, Replies
  <2>3. QED BY <1>2, <1>4, <1>5, <2>1, <2>2, AccountsCounted
<1>6. CASE Bump("metadata_misses") /\ Answer(404, "Unread") /\ UNCHANGED exchangeFrame
  <2>1. "metadata_misses" \in Names /\ UNCHANGED readVars
    BY <1>6 DEF Names, exchangeFrame
  <2>2. Replied(404)
    BY <1>6, Replies
  <2>3. QED BY <1>2, <1>4, <1>6, <2>1, <2>2, AccountsCounted
<1>7. QED BY <1>1, <1>5, <1>6 DEF ReadNarinfo

LEMMA AccountsReadNar ==
  ASSUME Inv, Inv', Accounts, ReadNar
  PROVE  Accounts'
<1>1. CASE Fault
  BY <1>1, AccountsClose DEF Fault
<1>2. pc = "handling" /\ pc \in Serving /\ Route(request.target) = "nar"
      /\ request.method # "Put"
  BY DEF ReadNar, At, Serving
<1>3. CASE Send(200) /\ UNCHANGED <<exchangeFrame, counters>>
  <2>1. UNCHANGED readVars /\ UNCHANGED counters /\ Route(request.target) # "narinfo"
    BY <1>2, <1>3 DEF exchangeFrame
  <2>2. QED BY <1>2, <1>3, <2>1, AccountsSend
<1>4. CASE Answer(404, "Unread") /\ UNCHANGED <<exchangeFrame, counters>>
  <2>1. UNCHANGED readVars /\ UNCHANGED counters
    BY <1>4 DEF exchangeFrame
  <2>2. \A c \in Names : ~Bears(c, 404, request)
    BY ONLY <1>2 DEF Bears
  <2>3. Replied(404)
    BY <1>4, Replies
  <2>4. QED BY <1>2, <2>1, <2>2, <2>3, AccountsUncounted
<1>5. CASE Answer(500, "Unread") /\ UNCHANGED <<readVars, applied, counters>>
  BY <1>2, <1>5, Replies, AccountsPlain
<1>6. CASE Reply(200, request.keep_alive, CutShort(Rendered))
           /\ UNCHANGED <<exchangeFrame, counters>>
  <2>1. UNCHANGED readVars /\ UNCHANGED counters
    BY <1>6 DEF exchangeFrame
  <2>2. \A c \in Names : ~Bears(c, 200, request)
    BY ONLY <1>2 DEF Bears
  <2>3. Replied(200)
    BY <1>6 DEF Replied
  <2>4. QED BY <1>2, <2>1, <2>2, <2>3, AccountsUncounted
<1>7. QED BY <1>1, <1>3, <1>4, <1>5, <1>6 DEF ReadNar

LEMMA AccountsDeny ==
  ASSUME Inv, Inv', Accounts, Deny
  PROVE  Accounts'
<1>1. /\ pc \in Serving /\ UNCHANGED readVars /\ request.method = "Put"
      /\ Route(request.target) \in {"nar", "narinfo"}
  BY DEF Deny, Push, At, Serving, exchangeFrame
<1>2. CASE Bump("rejections") /\ Answer(401, "Unread")
  <2>1. "rejections" \in Names
    BY DEF Names
  <2>2. Bears("rejections", 401, request)
    BY ONLY <1>1 DEF Bears
  <2>3. Replied(401)
    BY <1>2, Replies
  <2>4. QED BY <1>1, <1>2, <2>1, <2>2, <2>3, AccountsCounted
<1>3. CASE (\E status \in {411, 413} : Answer(status, "Unread")) /\ UNCHANGED counters
  BY <1>1, <1>3, Replies, AccountsPlain
<1>4. QED BY <1>2, <1>3 DEF Deny

LEMMA AccountsStartUpload ==
  ASSUME Inv, Inv', Accounts, StartUpload
  PROVE  Accounts'
<1>1. pc \in Serving
  BY DEF StartUpload, Push, At, Serving
<1>2. CASE /\ pc' = "receiving"
           /\ UNCHANGED <<clientVars, request, replies, counters>>
  <2>1. pc' \in Serving /\ fin' = fin /\ requests' = requests
    BY <1>2 DEF Serving, clientVars
  <2>2. QED BY <1>1, <1>2, <2>1, AccountsMove
<1>3. CASE (\E status \in {400, 500} : RefuseWith(status, "Unread"))
           /\ UNCHANGED <<readVars, counters>>
  BY <1>1, <1>3, Replies, AccountsPlain
<1>4. QED BY <1>2, <1>3 DEF StartUpload, exchangeFrame

LEMMA AccountsReceiveChunk ==
  ASSUME Inv, Accounts, ReceiveChunk
  PROVE  Accounts'
<1>1. CASE Fault
  BY <1>1, AccountsClose DEF Fault
<1>2. CASE UNCHANGED <<clientVars, pc, request, replies, counters>>
  <2>1. pc' = pc /\ fin' = fin /\ requests' = requests
    BY <1>2 DEF clientVars
  <2>2. QED BY <1>2, <2>1, AccountsMove
<1>3. QED BY <1>1, <1>2 DEF ReceiveChunk

LEMMA AccountsFinishUpload ==
  ASSUME Inv, Inv', Accounts, FinishUpload
  PROVE  Accounts'
<1>1. CASE Fault
  BY <1>1, AccountsClose DEF Fault
<1>2. pc = "receiving" /\ pc \in Serving /\ pc \in Reading
  BY DEF FinishUpload, Serving, Reading
<1>3. request.method = "Put" /\ Route(request.target) = "nar"
  BY <1>2 DEF Inv, Pushing
<1>4. CASE Uploaded(201) /\ Answer(201, "Consumed") /\ UNCHANGED <<readVars, faulted>>
  <2>1. "uploads" \in Names /\ Bump("uploads")
    BY <1>4 DEF Names, Uploaded
  <2>2. Bears("uploads", 201, request)
    BY ONLY <1>3 DEF Bears
  <2>3. Replied(201)
    BY <1>4, Replies
  <2>4. QED BY <1>2, <1>4, <2>1, <2>2, <2>3, AccountsCounted
<1>5. CASE RefuseWith(400, "Consumed") /\ Uploaded(400) /\ UNCHANGED exchangeFrame
  <2>1. UNCHANGED counters /\ UNCHANGED readVars
    BY <1>5 DEF Uploaded, exchangeFrame
  <2>2. QED BY <1>2, <1>5, <2>1, Replies, AccountsPlain
<1>6. QED BY <1>1, <1>4, <1>5 DEF FinishUpload

LEMMA AccountsFinishPublish ==
  ASSUME Inv, Inv', Accounts, FinishPublish
  PROVE  Accounts'
<1>1. /\ pc = "finishing" /\ pc \in Serving /\ pc \in Reading
      /\ UNCHANGED readVars /\ UNCHANGED counters
  BY DEF FinishPublish, Serving, Reading, exchangeFrame
<1>2. Route(request.target) = "narinfo"
  BY <1>1 DEF Inv, Pushing
<1>3. CASE Answer(201, "Consumed")
  <2>1. \A c \in Names : ~Bears(c, 201, request)
    BY ONLY <1>2 DEF Bears
  <2>2. Replied(201)
    BY <1>3, Replies
  <2>3. QED BY <1>1, <2>1, <2>2, AccountsUncounted
<1>4. CASE \E status \in {400, 500} : Replied(status)
  BY <1>1, <1>4, AccountsPlain
<1>5. QED BY <1>3, <1>4, Replies DEF FinishPublish

LEMMA InitAccounts ==
  ASSUME Init
  PROVE  Accounts
<1>1. /\ replies = <<>> /\ pc = "head" /\ pc \notin Serving
      /\ counters = [c \in Counter |-> 0]
  BY DEF Init, Serving
<1>2. 1 .. Len(replies) = {}
  BY <1>1
<1>3. Cardinality({}) = 0
  BY FS_EmptySet
<1>4. \A c : Borne(c, replies, requests) = {}
  BY ONLY <1>2 DEF Borne
<1>5. Understood(replies, requests) = {}
  BY ONLY <1>2 DEF Understood
<1>6. \A c \in Counter : counters[c] = 0
  BY <1>1
<1>7. "requests" \in Counter /\ \A c \in Names : c \in Counter
  BY DEF Names, Counter
<1>8. Books(counters, replies, requests, {})
  BY ONLY <1>3, <1>4, <1>6, <1>7 DEF Books
<1>9. Tally(counters, replies, requests, 0)
  BY ONLY <1>3, <1>5, <1>6, <1>7 DEF Tally
<1>10. QED BY <1>1, <1>8, <1>9 DEF Accounts

LEMMA NextAccounts ==
  ASSUME Inv, Inv', Accounts, [Next]_vars
  PROVE  Accounts'
<1>1. CASE Ask \/ SendItem \/ SendUnasked \/ HangUp \/ Fill \/ UNCHANGED vars
  <2>1. /\ pc' = pc
        /\ fin => fin'
        /\ requests' = requests \/ \E r \in Requests : requests' = Append(requests, r)
        /\ UNCHANGED <<request, replies, counters>>
    BY <1>1 DEF Ask, SendItem, SendUnasked, Emit, HangUp, Fill, vars, clientVars
  <2>2. QED BY <2>1, AccountsMove
<1>2. CASE Eof \/ HeadTooLong \/ PeerGone
  BY <1>2, AccountsClose DEF Eof, HeadTooLong, PeerGone
<1>3. CASE TakeHead
  BY <1>3, AccountsTakeHead
<1>4. CASE Unparseable
  <2>1. pc \in Serving /\ UNCHANGED readVars /\ UNCHANGED counters /\ Replied(400)
    BY <1>4 DEF Unparseable, Serving, exchangeFrame, Replied
  <2>2. QED BY <2>1, AccountsPlain
<1>5. CASE Unroutable
  BY <1>5, AccountsUnroutable
<1>6. CASE CacheInfo
  BY <1>6, AccountsCacheInfo
<1>7. CASE Metrics
  BY <1>7, AccountsMetrics
<1>8. CASE ReadNarinfo
  BY <1>8, AccountsReadNarinfo
<1>9. CASE ReadNar
  BY <1>9, AccountsReadNar
<1>10. CASE Deny
  BY <1>10, AccountsDeny
<1>11. CASE StartUpload
  BY <1>11, AccountsStartUpload
<1>12. CASE ReceiveChunk
  BY <1>12, AccountsReceiveChunk
<1>13. CASE FinishUpload
  BY <1>13, AccountsFinishUpload
<1>14. CASE StartPublish \/ CollectBody
  <2>1. /\ pc \in Serving /\ pc' \in Serving /\ fin' = fin /\ requests' = requests
        /\ UNCHANGED <<request, replies, counters>>
    BY <1>14 DEF StartPublish, CollectBody, Push, At, Serving, clientVars
  <2>2. QED BY <2>1, AccountsMove
<1>15. CASE FinishPublish
  BY <1>15, AccountsFinishPublish
<1>16. QED
  BY <1>1, <1>2, <1>3, <1>4, <1>5, <1>6, <1>7, <1>8, <1>9, <1>10, <1>11, <1>12, <1>13,
     <1>14, <1>15 DEF Next, ServerStep

\* What Untold subtracts is what Borne counts.
LEMMA UntoldOf ==
  ASSUME Inv
  PROVE  /\ DOMAIN Untold = Names
         /\ \A c \in Names :
               Untold[c] = counters[c] - Cardinality(Borne(c, replies, requests))
<1>1. DOMAIN replies = 1 .. Len(replies)
  BY DEF Inv, TypeOK
<1>2. DOMAIN Untold = Names
  BY DEF Untold, Names
<1>3. Told(200, {"Get", "Head"}, {"narinfo"}) =
         Cardinality(Borne("metadata_hits", replies, requests))
  BY ONLY <1>1 DEF Told, Borne, Bears
<1>4. Told(404, {"Get", "Head"}, {"narinfo"}) =
         Cardinality(Borne("metadata_misses", replies, requests))
  BY ONLY <1>1 DEF Told, Borne, Bears
<1>5. Told(201, {"Put"}, {"nar"}) = Cardinality(Borne("uploads", replies, requests))
  BY ONLY <1>1 DEF Told, Borne, Bears
<1>6. Told(401, {"Put"}, {"nar", "narinfo"}) =
         Cardinality(Borne("rejections", replies, requests))
  BY ONLY <1>1 DEF Told, Borne, Bears
<1>7. QED BY ONLY <1>2, <1>3, <1>4, <1>5, <1>6 DEF Untold, Names

\* CountersAccount: what the shard's counters gained is what the answers on
\* the connection bear out, but for the last count of a client that left.
THEOREM CountersHold ==
  ASSUME BodiesWelcome(Requests)
  PROVE  Spec => []CountersAccount
<1>1. ASSUME Inv, Accounts
      PROVE  CountersAccount
  <2>1. PICK owed \in SUBSET Names : /\ owed # {} => pc = "closed" /\ fin
                                     /\ \A a, b \in owed : a = b
                                     /\ Books(counters, replies, requests, owed)
    BY <1>1 DEF Accounts
  <2>2. PICK n \in Nat : n = Len(replies)
    BY <1>1 DEF Inv, TypeOK
  <2>3. ASSUME NEW c \in Names
        PROVE  Untold[c] = IF c \in owed THEN 1 ELSE 0
    <3>1. PICK k, d : k = Cardinality(Borne(c, replies, requests))
                      /\ d = IF c \in owed THEN 1 ELSE 0
      OBVIOUS
    <3>2. k \in Nat
      <4>1. Borne(c, replies, requests) \in SUBSET (1 .. n)
        BY <2>2 DEF Borne
      <4>2. QED BY <3>1, <4>1, CardinalityUpTo
    <3>3. Untold[c] = counters[c] - k /\ counters[c] = k + d
      BY <1>1, <2>1, <3>1, UntoldOf DEF Books
    <3>4. d \in {0, 1}
      BY ONLY <3>1
    <3>5. (k + d) - k = d
      BY ONLY <3>2, <3>4
    <3>6. QED BY ONLY <3>1, <3>3, <3>5
  <2>4. DOMAIN Untold = Names
    BY <1>1, UntoldOf
  <2>5. \A c \in DOMAIN Untold : Untold[c] \in {0, IF pc = "closed" /\ fin THEN 1 ELSE 0}
    BY ONLY <2>1, <2>3, <2>4
  <2>6. Cardinality({c \in DOMAIN Untold : Untold[c] # 0}) <= 1
    <3>1. {c \in DOMAIN Untold : Untold[c] # 0} = owed
      BY ONLY <2>1, <2>3, <2>4
    <3>2. CASE owed = {}
      <4>1. Cardinality(owed) = 0
        BY <3>2, FS_EmptySet
      <4>2. QED BY ONLY <3>1, <4>1
    <3>3. CASE owed # {}
      <4>1. PICK a : owed = {a}
        BY ONLY <2>1, <3>3
      <4>2. Cardinality(owed) = 1
        BY <4>1, FS_Singleton
      <4>3. QED BY ONLY <3>1, <4>2
    <3>4. QED BY <3>2, <3>3
  <2>7. counters["requests"] - Cardinality({j \in DOMAIN replies : Parse(requests[j]).ok})
          \in IF pc \in Serving /\ request.ok THEN {1} ELSE IF pc = "closed" THEN {0, 1} ELSE {0}
    <3>1. PICK d \in {0, 1} : /\ pc = "head" => d = 0
                              /\ pc \in Serving => d = IF request.ok THEN 1 ELSE 0
                              /\ Tally(counters, replies, requests, d)
      BY <1>1 DEF Accounts
    <3>2. PICK k : k = Cardinality(Understood(replies, requests))
      OBVIOUS
    <3>3. k \in Nat
      <4>1. Understood(replies, requests) \in SUBSET (1 .. n)
        BY <2>2 DEF Understood
      <4>2. QED BY <3>2, <4>1, CardinalityUpTo
    <3>4. DOMAIN replies = 1 .. Len(replies)
      BY <1>1 DEF Inv, TypeOK
    <3>5. Cardinality({j \in DOMAIN replies : Parse(requests[j]).ok}) = k
      BY ONLY <3>2, <3>4 DEF Understood
    <3>6. counters["requests"] = k + d
      BY ONLY <3>1, <3>2 DEF Tally
    <3>7. (k + d) - k = d
      BY ONLY <3>3, d \in {0, 1}
    <3>8. d \in IF pc \in Serving /\ request.ok THEN {1} ELSE IF pc = "closed" THEN {0, 1} ELSE {0}
      <4>1. pc \in {"head", "closed"} \cup Serving
        BY <1>1 DEF Inv, TypeOK
      <4>2. QED BY ONLY <3>1, <4>1, d \in {0, 1}
    <3>9. QED BY ONLY <3>5, <3>6, <3>7, <3>8
  <2>8. QED BY ONLY <2>5, <2>6, <2>7 DEF CountersAccount
<1>2. Init => Inv /\ Accounts
  BY InitInv, InitAccounts
<1>3. Inv /\ Accounts /\ [Next]_vars => (Inv /\ Accounts)'
  BY NextInv, NextAccounts
<1>4. QED BY <1>1, <1>2, <1>3, PTL DEF Spec

=============================================================================
