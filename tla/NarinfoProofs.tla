--------------------------- MODULE NarinfoProofs ----------------------------
(***************************************************************************)
(* The theorems of Base32 and Narinfo.                                     *)
(***************************************************************************)
EXTENDS Narinfo, SequenceTheorems, FiniteSetTheorems, WellFoundedInduction, TLAPS

-----------------------------------------------------------------------------
(* Induction, in the form the provers can use: about sets of numbers.      *)

LEMMA LeastNumber ==
  ASSUME NEW T \in SUBSET Nat, T # {}
  PROVE  \E x \in T : \A y \in T : ~(y < x)
<1>1. PICK R : R = OpToRel(<, Nat)
  OBVIOUS
<1>2. IsWellFoundedOn(R, Nat)
  BY <1>1, NatLessThanWellFounded
<1>3. PICK x \in T : \A y \in T : ~(<<y, x>> \in R)
  BY <1>2, WFMin, Zenon
<1>4. \A y \in T : y < x => <<y, x>> \in R
  BY <1>1 DEF OpToRel
<1>5. QED BY <1>3, <1>4

LEMMA Induction ==
  ASSUME NEW n \in Nat, NEW S \in SUBSET (0 .. n), 0 \in S,
         \A i \in 0 .. n - 1 : i \in S => i + 1 \in S
  PROVE  n \in S
<1> SUFFICES ASSUME n \notin S
             PROVE  FALSE
  OBVIOUS
<1> DEFINE T == {i \in 0 .. n : i \notin S}
<1>1. T \in SUBSET Nat /\ T # {}
  OBVIOUS
<1>2. PICK x \in T : \A y \in T : ~(y < x)
  BY <1>1, LeastNumber
<1>3. x \in 1 .. n /\ x \notin S
  OBVIOUS
<1>4. x - 1 \in S
  BY <1>2, <1>3
<1>5. QED BY <1>3, <1>4

-----------------------------------------------------------------------------
(* Base32, for values of any width.                                        *)

Byte == 0 .. 255

LEMMA Powers ==
  /\ 2 ^ 0 = 1 /\ 2 ^ 1 = 2 /\ 2 ^ 2 = 4 /\ 2 ^ 3 = 8
  /\ 2 ^ 4 = 16 /\ 2 ^ 5 = 32 /\ 2 ^ 6 = 64 /\ 2 ^ 7 = 128
OBVIOUS

\* Where the next digit goes.
LEMMA Places ==
  ASSUME NEW i \in Nat
  PROVE  /\ ByteAt(i) \in Nat /\ Shift(i) \in 0 .. 7
         /\ 5 * i = 8 * ByteAt(i) + Shift(i)
         /\ Shift(i) < 3 => ByteAt(i + 1) = ByteAt(i) /\ Shift(i + 1) = Shift(i) + 5
         /\ Shift(i) >= 3 => ByteAt(i + 1) = ByteAt(i) + 1 /\ Shift(i + 1) = Shift(i) - 3
BY DEF ByteAt, Shift, BITS

\* The digits of a value reach its last byte and go no further.
LEMMA Reach ==
  ASSUME NEW w \in Nat \ {0}
  PROVE  /\ TextLen(w) \in Nat \ {0}
         /\ \A i \in 0 .. TextLen(w) - 1 : ByteAt(i) < w
         /\ ByteAt(TextLen(w)) >= w
BY DEF TextLen, ByteAt, BITS

LEMMA Remainders ==
  ASSUME NEW x \in Byte, NEW s \in 0 .. 7
  PROVE  x % 2 ^ s \in Nat /\ 0 % 2 ^ s = 0 /\ x % 2 ^ 0 = 0
<1> USE Powers DEF Byte
<1>1. CASE s = 0
  BY <1>1
<1>2. CASE s = 1
  BY <1>2
<1>3. CASE s = 2
  BY <1>3
<1>4. CASE s = 3
  BY <1>4
<1>5. CASE s = 4
  BY <1>5
<1>6. CASE s = 5
  BY <1>6
<1>7. CASE s = 6
  BY <1>7
<1>8. CASE s = 7
  BY <1>8
<1>9. QED BY <1>1, <1>2, <1>3, <1>4, <1>5, <1>6, <1>7, <1>8

\* A digit that was cut out of two bytes, put back.
Cut(x, y, s, d) ==
    /\ d \in Digits
    /\ s < 3 => /\ (x % 2 ^ s) + ((d * 2 ^ s) % 256) = x % 2 ^ (s + 5)
                /\ (d * 2 ^ s) \div 256 = 0
    /\ s >= 3 => /\ (x % 2 ^ s) + ((d * 2 ^ s) % 256) = x
                 /\ (d * 2 ^ s) \div 256 = y % 2 ^ (s - 3)

LEMMA CutDigit ==
  ASSUME NEW x \in Byte, NEW y \in Byte, NEW s \in 0 .. 7, NEW d,
         d = ((x + 256 * y) \div 2 ^ s) % 32
  PROVE  Cut(x, y, s, d)
<1> USE Powers DEF Byte, Digits, Cut
<1>1. CASE s = 0
  BY <1>1
<1>2. CASE s = 1
  BY <1>2
<1>3. CASE s = 2
  BY <1>3
<1>4. CASE s = 3
  BY <1>4
<1>5. CASE s = 4
  BY <1>5
<1>6. CASE s = 5
  BY <1>6
<1>7. CASE s = 6
  BY <1>7
<1>8. CASE s = 7
  BY <1>8
<1>9. QED BY <1>1, <1>2, <1>3, <1>4, <1>5, <1>6, <1>7, <1>8

\* A digit put onto the bits below it: no byte overflows, and no bit above the
\* digit is set.
Laid(u, d, s) ==
    /\ u + ((d * 2 ^ s) % 256) \in Byte /\ (d * 2 ^ s) \div 256 \in Byte
    /\ s < 3 => u + ((d * 2 ^ s) % 256) < 2 ^ (s + 5) /\ (d * 2 ^ s) \div 256 = 0
    /\ s >= 3 => (d * 2 ^ s) \div 256 < 2 ^ (s - 3)

LEMMA PutDigit ==
  ASSUME NEW u \in Nat, NEW d \in Digits, NEW s \in 0 .. 7, u < 2 ^ s
  PROVE  Laid(u, d, s)
<1> USE Powers DEF Byte, Digits, Laid
<1>1. CASE s = 0
  BY <1>1
<1>2. CASE s = 1
  BY <1>2
<1>3. CASE s = 2
  BY <1>3
<1>4. CASE s = 3
  BY <1>4
<1>5. CASE s = 4
  BY <1>5
<1>6. CASE s = 5
  BY <1>6
<1>7. CASE s = 6
  BY <1>7
<1>8. CASE s = 7
  BY <1>8
<1>9. QED BY <1>1, <1>2, <1>3, <1>4, <1>5, <1>6, <1>7, <1>8

\* What the loop of decode defines.
Decodes(f, text, w, m) ==
    f = [i \in 0 .. m |->
            IF i = 0 THEN Zeros(w)
            ELSE SetDigit(f[i - 1], DigitOf(text, i - 1), i - 1)]

LEMMA DecodesNext ==
  ASSUME NEW text, NEW w, NEW m \in Nat, NEW g, Decodes(g, text, w, m)
  PROVE  \E f : Decodes(f, text, w, m + 1)
<1>1. PICK f : f = [i \in 0 .. m + 1 |->
                      IF i <= m THEN g[i] ELSE SetDigit(g[m], DigitOf(text, m), m)]
  OBVIOUS
<1>2. ASSUME NEW i \in 0 .. m + 1
      PROVE  f[i] = IF i = 0 THEN Zeros(w)
                    ELSE SetDigit(f[i - 1], DigitOf(text, i - 1), i - 1)
  BY <1>1 DEF Decodes
<1>3. f = [i \in 0 .. m + 1 |->
             IF i = 0 THEN Zeros(w)
             ELSE SetDigit(f[i - 1], DigitOf(text, i - 1), i - 1)]
  BY <1>1, <1>2
<1>4. QED BY <1>3 DEF Decodes

LEMMA DecodedDef ==
  ASSUME NEW text, NEW w, Len(text) \in Nat
  PROVE  Decodes(Decoded(text, w), text, w, Len(text))
<1>1. PICK n \in Nat : n = Len(text)
  OBVIOUS
<1> DEFINE S == {m \in 0 .. n : \E f : Decodes(f, text, w, m)}
<1>2. 0 \in S
  <2>1. PICK f : f = [i \in 0 .. 0 |-> Zeros(w)]
    OBVIOUS
  <2>2. Decodes(f, text, w, 0)
    BY <2>1 DEF Decodes
  <2>3. QED BY <2>2
<1>3. ASSUME NEW i \in 0 .. n - 1, i \in S
      PROVE  i + 1 \in S
  <2>1. PICK g : Decodes(g, text, w, i)
    BY <1>3
  <2>2. \E f : Decodes(f, text, w, i + 1)
    BY <2>1, DecodesNext
  <2>3. QED BY <2>2
<1>4. n \in S
  <2> HIDE DEF S
  <2>1. S \in SUBSET (0 .. n)
    BY DEF S
  <2>2. QED BY <1>2, <1>3, <2>1, Induction
<1>5. \E f : Decodes(f, text, w, n)
  BY <1>4
<1>6. QED BY <1>1, <1>5 DEF Decoded, Decodes

\* One turn of the loop: the bytes v become v2 with digit d at place i.
Turn(v, v2, d, i, w) ==
    /\ DOMAIN v2 = 1 .. w /\ v2 = [b \in 1 .. w |-> v2[b]]
    /\ \A b \in 1 .. w : b # ByteAt(i) + 1 /\ b # ByteAt(i) + 2 => v2[b] = v[b] + 0
    /\ ByteAt(i) + 1 \in 1 .. w =>
          v2[ByteAt(i) + 1] = v[ByteAt(i) + 1] + ((d * 2 ^ Shift(i)) % 256)
    /\ ByteAt(i) + 2 \in 1 .. w =>
          v2[ByteAt(i) + 2] = v[ByteAt(i) + 2] + ((d * 2 ^ Shift(i)) \div 256)

LEMMA TurnOf ==
  ASSUME NEW v, NEW d, NEW i \in Nat, NEW w \in Nat, DOMAIN v = 1 .. w
  PROVE  Turn(v, SetDigit(v, d, i), d, i, w)
<1>1. PICK v2, B : v2 = SetDigit(v, d, i) /\ B = ByteAt(i)
  OBVIOUS
<1>2. B \in Nat /\ B + 1 # B + 2
  BY <1>1, Places
<1>3. v2 = [b \in 1 .. w |-> v[b] + CASE b = B + 1 -> Low(d, i)
                                      [] b = B + 2 -> High(d, i)
                                      [] OTHER -> 0]
  BY ONLY <1>1, DOMAIN v = 1 .. w DEF SetDigit
<1>4. ASSUME NEW b \in 1 .. w
      PROVE  /\ b # B + 1 /\ b # B + 2 => v2[b] = v[b] + 0
             /\ b = B + 1 => v2[b] = v[b] + Low(d, i)
             /\ b = B + 2 => v2[b] = v[b] + High(d, i)
  BY ONLY <1>2, <1>3, b \in 1 .. w
<1>5. DOMAIN v2 = 1 .. w /\ v2 = [b \in 1 .. w |-> v2[b]]
  BY ONLY <1>3
<1>6. QED BY ONLY <1>1, <1>4, <1>5 DEF Turn, Low, High

LEMMA DecodeTurns ==
  ASSUME NEW text, NEW w \in Nat, NEW n \in Nat, NEW f, Decodes(f, text, w, n)
  PROVE  /\ f[0] = Zeros(w)
         /\ \A i \in 0 .. n - 1 : DOMAIN f[i] = 1 .. w =>
               Turn(f[i], f[i + 1], DigitOf(text, i), i, w)
<1>1. f[0] = Zeros(w)
  BY DEF Decodes
<1>2. ASSUME NEW i \in 0 .. n - 1, DOMAIN f[i] = 1 .. w
      PROVE  Turn(f[i], f[i + 1], DigitOf(text, i), i, w)
  <2>1. f[i + 1] = SetDigit(f[i], DigitOf(text, i), i)
    BY DEF Decodes
  <2>2. QED BY <1>2, <2>1, TurnOf
<1>3. QED BY <1>1, <1>2

LEMMA LenOf ==
  ASSUME NEW n \in Nat, NEW T, NEW f \in [1 .. n -> T]
  PROVE  f \in Seq(T) /\ Len(f) = n
OBVIOUS

\* The bits below digit i are those of the value, the others are clear.
Filled(v, bytes, i, w) ==
    /\ DOMAIN v = 1 .. w /\ v = [b \in 1 .. w |-> v[b]]
    /\ \A b \in 1 .. w : /\ b <= ByteAt(i) => v[b] = bytes[b]
                         /\ b = ByteAt(i) + 1 => v[b] = bytes[b] % 2 ^ Shift(i)
                         /\ b > ByteAt(i) + 1 => v[b] = 0

LEMMA FilledNext ==
  ASSUME NEW w \in Nat \ {0}, NEW bytes \in [1 .. w -> Byte], NEW i \in Nat, ByteAt(i) < w,
         NEW v, NEW v2, Filled(v, bytes, i, w),
         Turn(v, v2, Window(bytes, i), i, w)
  PROVE  /\ Window(bytes, i) \in Digits
         /\ Fits(Window(bytes, i), i, w)
         /\ Filled(v2, bytes, i + 1, w)
<1>1. PICK B, s, d, B2, s2 : /\ B = ByteAt(i) /\ s = Shift(i) /\ d = Window(bytes, i)
                             /\ B2 = ByteAt(i + 1) /\ s2 = Shift(i + 1)
  OBVIOUS
<1>2. /\ B \in Nat /\ s \in 0 .. 7 /\ B < w
      /\ s < 3 => B2 = B /\ s2 = s + 5
      /\ s >= 3 => B2 = B + 1 /\ s2 = s - 3
  BY <1>1, Places
<1>3. PICK x, y : x = bytes[B + 1] /\ y = IF B + 1 < w THEN bytes[B + 2] ELSE 0
  OBVIOUS
<1>4. Len(bytes) = w
  BY LenOf
<1>5. d = ((x + 256 * y) \div 2 ^ s) % 32
  BY <1>1, <1>3, <1>4 DEF Window
<1>6. x \in Byte /\ y \in Byte
  BY <1>2, <1>3 DEF Byte
<1>7. PICK lo, hi : lo = (d * 2 ^ s) % 256 /\ hi = (d * 2 ^ s) \div 256
  OBVIOUS
<1>8. /\ d \in Digits
      /\ s < 3 => (x % 2 ^ s) + lo = x % 2 ^ (s + 5) /\ hi = 0
      /\ s >= 3 => (x % 2 ^ s) + lo = x /\ hi = y % 2 ^ (s - 3)
  <2>1. /\ d \in Digits
        /\ s < 3 => /\ (x % 2 ^ s) + ((d * 2 ^ s) % 256) = x % 2 ^ (s + 5)
                    /\ (d * 2 ^ s) \div 256 = 0
        /\ s >= 3 => /\ (x % 2 ^ s) + ((d * 2 ^ s) % 256) = x
                     /\ (d * 2 ^ s) \div 256 = y % 2 ^ (s - 3)
    <3>1. x \in Byte /\ y \in Byte /\ s \in 0 .. 7 /\ d = ((x + 256 * y) \div 2 ^ s) % 32
      BY ONLY <1>2, <1>5, <1>6
    <3>2. Cut(x, y, s, d)
      BY ONLY <3>1, CutDigit, Zenon
    <3>3. QED BY ONLY <3>2, Zenon DEF Cut
  <2>2. QED BY ONLY <1>7, <2>1, Zenon
<1>9. /\ DOMAIN v = 1 .. w
      /\ \A b \in 1 .. w : /\ b <= B => v[b] = bytes[b]
                           /\ b = B + 1 => v[b] = bytes[b] % 2 ^ s
                           /\ b > B + 1 => v[b] = 0
  BY <1>1 DEF Filled
<1>10. /\ DOMAIN v2 = 1 .. w /\ v2 = [b \in 1 .. w |-> v2[b]]
       /\ \A b \in 1 .. w : b # B + 1 /\ b # B + 2 => v2[b] = v[b] + 0
       /\ B + 1 \in 1 .. w => v2[B + 1] = v[B + 1] + lo
       /\ B + 2 \in 1 .. w => v2[B + 2] = v[B + 2] + hi
  BY ONLY <1>1, <1>7, Turn(v, v2, Window(bytes, i), i, w) DEF Turn
<1>11. \A b \in 1 .. w : bytes[b] \in Nat
  <2>1. \A b \in 1 .. w : bytes[b] \in Byte
    OBVIOUS
  <2>2. TAKE b \in 1 .. w
  <2>3. PICK z \in Byte : z = bytes[b]
    BY <2>1
  <2>4. z \in Nat
    BY DEF Byte
  <2>5. QED BY ONLY <2>3, <2>4, Zenon
<1>12. \A b \in 1 .. w : b <= B => v2[b] = bytes[b]
  <2>1. TAKE b \in 1 .. w
  <2>2. HAVE b <= B
  <2>3. v2[b] = v[b] + 0 /\ v[b] = bytes[b]
    BY ONLY <1>2, <1>9, <1>10, <2>2, b \in 1 .. w, w \in Nat
  <2>4. QED BY ONLY <1>11, <2>3
<1>13. \A b \in 1 .. w : b > B + 2 => v2[b] = 0
  <2>1. TAKE b \in 1 .. w
  <2>2. HAVE b > B + 2
  <2>3. v2[b] = v[b] + 0 /\ v[b] = 0
    BY ONLY <1>2, <1>9, <1>10, <2>2, b \in 1 .. w, w \in Nat
  <2>4. QED BY ONLY <2>3
<1>14. B + 1 \in 1 .. w /\ v2[B + 1] = (x % 2 ^ s) + lo
  BY ONLY <1>2, <1>3, <1>9, <1>10, w \in Nat
<1>15. B + 2 \in 1 .. w => v2[B + 2] = 0 + hi /\ y = bytes[B + 2]
  BY ONLY <1>2, <1>3, <1>9, <1>10, w \in Nat
<1>16. Fits(d, i, w)
  <2>1. CASE B + 1 < w
    BY <1>1, <2>1 DEF Fits
  <2>2. CASE ~(B + 1 < w)
    <3>1. y = 0
      BY <1>3, <2>2
    <3>2. hi = 0
      <4>1. CASE s < 3
        BY <1>8, <4>1
      <4>2. CASE s >= 3
        <5>1. s - 3 \in 0 .. 7 /\ 0 \in Byte
          BY <1>2, <4>2 DEF Byte
        <5>2. 0 % 2 ^ (s - 3) = 0
          BY ONLY <5>1, Remainders
        <5>3. QED BY ONLY <1>8, <3>1, <4>2, <5>2
      <4>3. QED BY <1>2, <4>1, <4>2
    <3>3. QED BY <1>1, <1>7, <3>2 DEF Fits, High
  <2>3. QED BY <2>1, <2>2
<1>17. CASE s < 3
  <2>1. B2 = B /\ s2 = s + 5 /\ hi = 0 /\ v2[B + 1] = x % 2 ^ s2
    BY ONLY <1>2, <1>8, <1>14, <1>17
  <2>2. ASSUME NEW b \in 1 .. w
        PROVE  /\ b <= B2 => v2[b] = bytes[b]
               /\ b = B2 + 1 => v2[b] = bytes[b] % 2 ^ s2
               /\ b > B2 + 1 => v2[b] = 0
    <3>1. b <= B2 => v2[b] = bytes[b]
      BY ONLY <1>12, <2>1, b \in 1 .. w
    <3>2. b = B2 + 1 => v2[b] = bytes[b] % 2 ^ s2
      BY ONLY <1>3, <2>1
    <3>3. b > B2 + 1 => b = B + 2 \/ b > B + 2
      BY ONLY <1>2, <2>1, b \in 1 .. w, w \in Nat
    <3>4. b > B2 + 1 => v2[b] = 0
      BY ONLY <1>13, <1>15, <2>1, <3>3, b \in 1 .. w
    <3>5. QED BY <3>1, <3>2, <3>4
  <2>3. Filled(v2, bytes, i + 1, w)
    BY ONLY <1>1, <1>10, <2>2 DEF Filled
  <2>4. QED BY ONLY <1>1, <1>8, <1>16, <2>3
<1>18. CASE s >= 3
  <2>1. B2 = B + 1 /\ s2 = s - 3 /\ hi = y % 2 ^ s2 /\ v2[B + 1] = x
    BY ONLY <1>2, <1>8, <1>14, <1>18
  <2>2. hi \in Nat
    <3>1. s2 \in 0 .. 7
      BY ONLY <1>2, <1>18, <2>1
    <3>2. QED BY ONLY <1>6, <2>1, <3>1, Remainders
  <2>3. ASSUME NEW b \in 1 .. w
        PROVE  /\ b <= B2 => v2[b] = bytes[b]
               /\ b = B2 + 1 => v2[b] = bytes[b] % 2 ^ s2
               /\ b > B2 + 1 => v2[b] = 0
    <3>1. b <= B2 => b <= B \/ b = B + 1
      BY ONLY <1>2, <2>1, b \in 1 .. w, w \in Nat
    <3>2. b <= B2 => v2[b] = bytes[b]
      BY ONLY <1>3, <1>12, <2>1, <3>1, b \in 1 .. w
    <3>3. b = B2 + 1 => b = B + 2
      BY ONLY <1>2, <2>1, b \in 1 .. w, w \in Nat
    <3>4. 0 + hi = hi
      BY ONLY <2>2
    <3>5. b = B2 + 1 => v2[b] = bytes[b] % 2 ^ s2
      BY ONLY <1>15, <2>1, <3>3, <3>4, b \in 1 .. w
    <3>6. b > B2 + 1 => b > B + 2
      BY ONLY <1>2, <2>1, b \in 1 .. w, w \in Nat
    <3>7. b > B2 + 1 => v2[b] = 0
      BY ONLY <1>13, <3>6, b \in 1 .. w
    <3>8. QED BY <3>2, <3>5, <3>7
  <2>4. Filled(v2, bytes, i + 1, w)
    BY ONLY <1>1, <1>10, <2>3 DEF Filled
  <2>5. QED BY ONLY <1>1, <1>8, <1>16, <2>4
<1>19. QED BY <1>2, <1>17, <1>18

\* decode reads back what encode wrote, for values of any width.
THEOREM DecodeEncode ==
  ASSUME NEW w \in Nat \ {0}, NEW bytes \in [1 .. w -> Byte]
  PROVE  /\ Decodable(Encode(bytes), w)
         /\ Decode(Encode(bytes), w) = bytes
<1>1. PICK text, n : text = Encode(bytes) /\ n = TextLen(w)
  OBVIOUS
<1>2. n \in Nat \ {0} /\ (\A i \in 0 .. n - 1 : ByteAt(i) < w) /\ ByteAt(n) >= w
  BY <1>1, Reach
<1>3. text = [k \in 1 .. n |-> Window(bytes, n - k)]
  BY <1>1, LenOf DEF Encode
<1>4. Len(text) = n
  <2>1. PICK T : T = {Window(bytes, n - k) : k \in 1 .. n}
    OBVIOUS
  <2>2. text \in [1 .. n -> T]
    BY ONLY <1>3, <2>1
  <2>3. QED BY ONLY <1>2, <2>2, LenOf
<1>5. \A i \in 0 .. n - 1 : DigitOf(text, i) = Window(bytes, i)
  <2>1. TAKE i \in 0 .. n - 1
  <2>2. n - i \in 1 .. n /\ n - (n - i) = i
    BY <1>2
  <2>3. QED BY ONLY <1>3, <1>4, <2>2 DEF DigitOf
<1>6. PICK f : f = Decoded(text, w)
  OBVIOUS
<1>7. Decodes(f, text, w, n)
  BY <1>2, <1>4, <1>6, DecodedDef
<1>8. /\ f[0] = Zeros(w)
      /\ \A i \in 0 .. n - 1 : DOMAIN f[i] = 1 .. w =>
            Turn(f[i], f[i + 1], DigitOf(text, i), i, w)
  BY <1>2, <1>7, DecodeTurns
<1> DEFINE S == {m \in 0 .. n : Filled(f[m], bytes, m, w)}
<1>9. 0 \in S
  <2>1. ByteAt(0) = 0 /\ Shift(0) = 0
    BY DEF ByteAt, Shift, BITS
  <2>2. \A b \in 1 .. w : bytes[b] % 2 ^ 0 = 0
    <3>1. \A b \in 1 .. w : bytes[b] \in Byte
      OBVIOUS
    <3>2. QED BY ONLY <3>1, Remainders
  <2>3. Filled(f[0], bytes, 0, w)
    <3>1. PICK v : v = Zeros(w)
      OBVIOUS
    <3>2. DOMAIN v = 1 .. w /\ v = [b \in 1 .. w |-> v[b]] /\ \A b \in 1 .. w : v[b] = 0
      BY ONLY <3>1 DEF Zeros
    <3>3. ASSUME NEW b \in 1 .. w
          PROVE  /\ b <= 0 => v[b] = bytes[b]
                 /\ b = 0 + 1 => v[b] = bytes[b] % 2 ^ 0
                 /\ b > 0 + 1 => v[b] = 0
      <4>1. ~(b <= 0)
        OBVIOUS
      <4>2. QED BY ONLY <2>2, <3>2, <4>1, b \in 1 .. w
    <3>4. Filled(v, bytes, 0, w)
      BY ONLY <2>1, <3>2, <3>3, Zenon DEF Filled
    <3>5. QED BY <1>8, <3>1, <3>4
  <2>4. QED BY <1>2, <2>3
<1>10. \A i \in 0 .. n - 1 : Filled(f[i], bytes, i, w) =>
          /\ Window(bytes, i) \in Digits /\ Fits(Window(bytes, i), i, w)
          /\ Filled(f[i + 1], bytes, i + 1, w)
  <2>1. TAKE i \in 0 .. n - 1
  <2>2. HAVE Filled(f[i], bytes, i, w)
  <2>3. Turn(f[i], f[i + 1], Window(bytes, i), i, w)
    BY <1>5, <1>8, <2>2 DEF Filled
  <2>4. i \in Nat /\ ByteAt(i) < w
    BY <1>2
  <2>5. QED BY <2>2, <2>3, <2>4, FilledNext
<1>11. \A m \in 0 .. n : m \in S
  <2>1. TAKE m \in 0 .. n
  <2>2. PICK S2 : S2 = {k \in 0 .. m : k \in S}
    OBVIOUS
  <2>3. S2 \in SUBSET (0 .. m) /\ 0 \in S2
    BY <1>2, <1>9, <2>2
  <2>4. \A i \in 0 .. m - 1 : i \in S2 => i + 1 \in S2
    BY <1>2, <1>10, <2>2
  <2>5. m \in S2
    BY <2>3, <2>4, Induction
  <2>6. QED BY <2>2, <2>5
<1>12. \A i \in 0 .. n - 1 : DigitOf(text, i) \in Digits /\ Fits(DigitOf(text, i), i, w)
  BY <1>2, <1>5, <1>10, <1>11
<1>13. \A k \in 1 .. n : text[k] \in Digits
  <2>1. TAKE k \in 1 .. n
  <2>2. n - k \in 0 .. n - 1 /\ n - (n - k) = k
    BY <1>2
  <2>3. DigitOf(text, n - k) = text[k]
    BY <1>4, <2>2 DEF DigitOf
  <2>4. QED BY <1>12, <2>2, <2>3
<1>14. Decodable(text, w)
  BY <1>1, <1>4, <1>12, <1>13 DEF Decodable
<1>15. f[n] = bytes
  <2>1. Filled(f[n], bytes, n, w)
    BY <1>2, <1>11
  <2>2. \A b \in 1 .. w : f[n][b] = bytes[b]
    <3>1. ByteAt(n) \in Nat
      BY <1>2, Places
    <3>2. \A b \in 1 .. w : b <= ByteAt(n)
      BY <1>2, <3>1
    <3>3. QED BY <2>1, <3>2 DEF Filled
  <2>3. f[n] = [b \in 1 .. w |-> f[n][b]]
    BY <2>1 DEF Filled
  <2>4. bytes = [b \in 1 .. w |-> bytes[b]]
    OBVIOUS
  <2>5. QED BY ONLY <2>2, <2>3, <2>4
<1>16. QED BY <1>1, <1>4, <1>6, <1>14, <1>15 DEF Decode

\* What is left of two bytes when a digit is taken off.
Peels(x, y, u, d, s) ==
    /\ s < 3 => u + ((d * 2 ^ s) % 256) = x % 2 ^ (s + 5)
    /\ s >= 3 => /\ u + ((d * 2 ^ s) % 256) = x
                 /\ (d * 2 ^ s) \div 256 = y % 2 ^ (s - 3)

Peeled(x, y, u, d, s) == x % 2 ^ s = u /\ d = ((x + 256 * y) \div 2 ^ s) % 32

LEMMA PeelDigit ==
  ASSUME NEW x \in Byte, NEW y \in Byte, NEW u \in Nat, NEW d \in Digits, NEW s \in 0 .. 7,
         u < 2 ^ s,
         Peels(x, y, u, d, s)
  PROVE  Peeled(x, y, u, d, s)
<1> USE Powers DEF Byte, Digits, Peels, Peeled
<1>1. CASE s = 0
  BY <1>1
<1>2. CASE s = 1
  BY <1>2
<1>3. CASE s = 2
  BY <1>3
<1>4. CASE s = 3
  BY <1>4
<1>5. CASE s = 4
  BY <1>5
<1>6. CASE s = 5
  BY <1>6
<1>7. CASE s = 6
  BY <1>7
<1>8. CASE s = 7
  BY <1>8
<1>9. QED BY <1>1, <1>2, <1>3, <1>4, <1>5, <1>6, <1>7, <1>8

\* The bits from digit i on are clear.
Clean(v, i, w) ==
    /\ DOMAIN v = 1 .. w /\ v = [b \in 1 .. w |-> v[b]]
    /\ \A b \in 1 .. w : /\ v[b] \in Byte
                         /\ b = ByteAt(i) + 1 => v[b] < 2 ^ Shift(i)
                         /\ b > ByteAt(i) + 1 => v[b] = 0

LEMMA CleanNext ==
  ASSUME NEW w \in Nat \ {0}, NEW i \in Nat, ByteAt(i) < w, NEW d \in Digits,
         NEW v, NEW v2, Clean(v, i, w), Turn(v, v2, d, i, w)
  PROVE  Clean(v2, i + 1, w)
<1>1. PICK B, s, B2, s2 : /\ B = ByteAt(i) /\ s = Shift(i)
                          /\ B2 = ByteAt(i + 1) /\ s2 = Shift(i + 1)
  OBVIOUS
<1>2. /\ B \in Nat /\ s \in 0 .. 7 /\ B < w /\ B + 1 \in 1 .. w
      /\ s < 3 => B2 = B /\ s2 = s + 5
      /\ s >= 3 => B2 = B + 1 /\ s2 = s - 3
  <2>1. /\ B \in Nat /\ s \in 0 .. 7
        /\ s < 3 => B2 = B /\ s2 = s + 5
        /\ s >= 3 => B2 = B + 1 /\ s2 = s - 3
    <3>1. /\ ByteAt(i) \in Nat /\ Shift(i) \in 0 .. 7
          /\ Shift(i) < 3 => ByteAt(i + 1) = ByteAt(i) /\ Shift(i + 1) = Shift(i) + 5
          /\ Shift(i) >= 3 => ByteAt(i + 1) = ByteAt(i) + 1 /\ Shift(i + 1) = Shift(i) - 3
      BY Places
    <3>2. QED BY ONLY <1>1, <3>1
  <2>2. B < w
    BY ONLY <1>1, ByteAt(i) < w
  <2>3. QED BY ONLY <2>1, <2>2, w \in Nat \ {0}
<1>3. PICK lo, hi, u : /\ lo = (d * 2 ^ s) % 256 /\ hi = (d * 2 ^ s) \div 256
                       /\ u = v[B + 1]
  OBVIOUS
<1>4. /\ DOMAIN v = 1 .. w
      /\ \A b \in 1 .. w : /\ v[b] \in Byte
                           /\ b = B + 1 => v[b] < 2 ^ s
                           /\ b > B + 1 => v[b] = 0
  BY <1>1 DEF Clean
<1>5. u \in Byte /\ u < 2 ^ s
  BY ONLY <1>2, <1>3, <1>4
<1>6. Laid(u, d, s)
  <2>1. u \in Nat
    BY <1>5 DEF Byte
  <2>2. QED BY ONLY <1>2, <1>5, <2>1, d \in Digits, PutDigit
<1>7. /\ u + lo \in Byte /\ hi \in Byte
      /\ s < 3 => u + lo < 2 ^ (s + 5) /\ hi = 0
      /\ s >= 3 => hi < 2 ^ (s - 3)
  BY ONLY <1>3, <1>6, Zenon DEF Laid
<1>8. /\ DOMAIN v2 = 1 .. w /\ v2 = [b \in 1 .. w |-> v2[b]]
      /\ \A b \in 1 .. w : b # B + 1 /\ b # B + 2 => v2[b] = v[b] + 0
      /\ B + 1 \in 1 .. w => v2[B + 1] = v[B + 1] + lo
      /\ B + 2 \in 1 .. w => v2[B + 2] = v[B + 2] + hi
  BY ONLY <1>1, <1>3, Turn(v, v2, d, i, w) DEF Turn
<1>9. v2[B + 1] = u + lo
  BY ONLY <1>2, <1>3, <1>8
<1>10. B + 2 \in 1 .. w => v2[B + 2] = hi
  <2>1. B + 2 \in 1 .. w => v[B + 2] = 0
    BY ONLY <1>2, <1>4
  <2>2. 0 + hi = hi
    BY ONLY <1>7 DEF Byte
  <2>3. QED BY ONLY <1>8, <2>1, <2>2
<1>11. \A b \in 1 .. w : b # B + 1 /\ b # B + 2 => v2[b] = v[b]
  <2>1. TAKE b \in 1 .. w
  <2>2. PICK z : z = v[b]
    OBVIOUS
  <2>3. z \in Byte
    BY <1>4, <2>2
  <2>4. z + 0 = z
    BY ONLY <2>3 DEF Byte
  <2>5. QED BY ONLY <1>8, <2>2, <2>4, b \in 1 .. w
<1>12. ASSUME NEW b \in 1 .. w
       PROVE  /\ v2[b] \in Byte
              /\ b = B2 + 1 => v2[b] < 2 ^ s2
              /\ b > B2 + 1 => v2[b] = 0
  <2>1. CASE b = B + 1
    <3>1. v2[b] \in Byte
      BY ONLY <1>7, <1>9, <2>1
    <3>2. s < 3 => v2[b] < 2 ^ s2 /\ ~(b > B2 + 1)
      BY ONLY <1>2, <1>7, <1>9, <2>1
    <3>3. s >= 3 => b # B2 + 1 /\ ~(b > B2 + 1)
      BY ONLY <1>2, <2>1
    <3>4. QED BY ONLY <1>2, <3>1, <3>2, <3>3
  <2>2. CASE b = B + 2
    <3>1. v2[b] = hi
      BY ONLY <1>10, <2>2, b \in 1 .. w
    <3>2. s < 3 => hi = 0 /\ b # B2 + 1
      BY ONLY <1>2, <1>7, <2>2
    <3>3. s >= 3 => hi < 2 ^ s2 /\ ~(b > B2 + 1)
      BY ONLY <1>2, <1>7, <2>2
    <3>4. QED BY ONLY <1>2, <1>7, <3>1, <3>2, <3>3
  <2>3. CASE b # B + 1 /\ b # B + 2
    <3>1. v2[b] = v[b] /\ v[b] \in Byte /\ (b > B + 1 => v[b] = 0)
      BY ONLY <1>4, <1>11, <2>3, b \in 1 .. w
    <3>2. b # B2 + 1 /\ (b > B2 + 1 => b > B + 1)
      BY ONLY <1>2, <2>3, b \in 1 .. w, w \in Nat
    <3>3. QED BY ONLY <3>1, <3>2
  <2>4. QED BY ONLY <2>1, <2>2, <2>3
<1>13. QED BY ONLY <1>1, <1>8, <1>12 DEF Clean

\* One turn backwards: what the turn left is what the final bytes have there, so
\* what it started from is, and the digit is theirs.
LEMMA FilledBack ==
  ASSUME NEW w \in Nat \ {0}, NEW bytes \in [1 .. w -> Byte], NEW i \in Nat, ByteAt(i) < w,
         NEW d \in Digits, Fits(d, i, w), NEW v, NEW v2, Clean(v, i, w),
         Filled(v2, bytes, i + 1, w), Turn(v, v2, d, i, w)
  PROVE  Filled(v, bytes, i, w) /\ Window(bytes, i) = d
<1>1. PICK B, s, B2, s2 : /\ B = ByteAt(i) /\ s = Shift(i)
                          /\ B2 = ByteAt(i + 1) /\ s2 = Shift(i + 1)
  OBVIOUS
<1>2. /\ B \in Nat /\ s \in 0 .. 7 /\ B < w /\ B + 1 \in 1 .. w
      /\ s < 3 => B2 = B /\ s2 = s + 5
      /\ s >= 3 => B2 = B + 1 /\ s2 = s - 3
  <2>1. /\ B \in Nat /\ s \in 0 .. 7
        /\ s < 3 => B2 = B /\ s2 = s + 5
        /\ s >= 3 => B2 = B + 1 /\ s2 = s - 3
    <3>1. /\ ByteAt(i) \in Nat /\ Shift(i) \in 0 .. 7
          /\ Shift(i) < 3 => ByteAt(i + 1) = ByteAt(i) /\ Shift(i + 1) = Shift(i) + 5
          /\ Shift(i) >= 3 => ByteAt(i + 1) = ByteAt(i) + 1 /\ Shift(i + 1) = Shift(i) - 3
      BY Places
    <3>2. QED BY ONLY <1>1, <3>1
  <2>2. B < w
    BY ONLY <1>1, ByteAt(i) < w
  <2>3. QED BY ONLY <2>1, <2>2, w \in Nat \ {0}
<1>3. PICK lo, hi, u : /\ lo = (d * 2 ^ s) % 256 /\ hi = (d * 2 ^ s) \div 256
                       /\ u = v[B + 1]
  OBVIOUS
<1>4. PICK x, y : x = bytes[B + 1] /\ y = IF B + 1 < w THEN bytes[B + 2] ELSE 0
  OBVIOUS
<1>5. x \in Byte /\ y \in Byte
  BY <1>2, <1>4 DEF Byte
<1>6. /\ DOMAIN v = 1 .. w /\ v = [b \in 1 .. w |-> v[b]]
      /\ \A b \in 1 .. w : /\ v[b] \in Byte
                           /\ b = B + 1 => v[b] < 2 ^ s
                           /\ b > B + 1 => v[b] = 0
  BY <1>1 DEF Clean
<1>7. \A b \in 1 .. w : /\ b <= B2 => v2[b] = bytes[b]
                        /\ b = B2 + 1 => v2[b] = bytes[b] % 2 ^ s2
                        /\ b > B2 + 1 => v2[b] = 0
  BY ONLY <1>1, Filled(v2, bytes, i + 1, w) DEF Filled
<1>8. /\ \A b \in 1 .. w : b # B + 1 /\ b # B + 2 => v2[b] = v[b] + 0
      /\ B + 1 \in 1 .. w => v2[B + 1] = v[B + 1] + lo
      /\ B + 2 \in 1 .. w => v2[B + 2] = v[B + 2] + hi
  BY ONLY <1>1, <1>3, Turn(v, v2, d, i, w) DEF Turn
<1>9. u \in Nat /\ u < 2 ^ s
  <2>1. u \in Byte /\ u < 2 ^ s
    BY ONLY <1>2, <1>3, <1>6
  <2>2. QED BY <2>1 DEF Byte
<1>10. v2[B + 1] = u + lo
  BY ONLY <1>2, <1>3, <1>8
<1>11. hi \in Byte
  <2>1. Laid(u, d, s)
    BY ONLY <1>2, <1>9, d \in Digits, PutDigit
  <2>2. QED BY ONLY <1>3, <2>1, Zenon DEF Laid
<1>12. B + 2 \in 1 .. w => v2[B + 2] = hi
  <2>1. B + 2 \in 1 .. w => v[B + 2] = 0
    BY ONLY <1>2, <1>6
  <2>2. 0 + hi = hi
    BY ONLY <1>11 DEF Byte
  <2>3. QED BY ONLY <1>8, <2>1, <2>2
<1>13. s < 3 => u + lo = x % 2 ^ (s + 5)
  BY ONLY <1>2, <1>4, <1>7, <1>10
<1>14. s >= 3 => u + lo = x
  BY ONLY <1>2, <1>4, <1>7, <1>10
<1>15. s >= 3 => hi = y % 2 ^ (s - 3)
  <2> HAVE s >= 3
  <2>1. CASE B + 1 < w
    <3>1. B + 2 \in 1 .. w /\ y = bytes[B + 2] /\ B + 2 = B2 + 1
      BY <1>2, <1>4, <2>1
    <3>2. v2[B + 2] = bytes[B + 2] % 2 ^ s2 /\ s2 = s - 3
      BY ONLY <1>2, <1>7, <3>1, s >= 3
    <3>3. QED BY ONLY <1>12, <3>1, <3>2
  <2>2. CASE ~(B + 1 < w)
    <3>1. y = 0 /\ s - 3 \in 0 .. 7 /\ 0 \in Byte
      BY <1>2, <1>4, <2>2 DEF Byte
    <3>2. 0 % 2 ^ (s - 3) = 0
      BY ONLY <3>1, Remainders
    <3>3. hi = 0
      BY <1>1, <1>3, <2>2 DEF Fits, High
    <3>4. QED BY ONLY <3>1, <3>2, <3>3
  <2>3. QED BY <2>1, <2>2
<1>16. x % 2 ^ s = u /\ d = ((x + 256 * y) \div 2 ^ s) % 32
  <2>1. Peels(x, y, u, d, s)
    BY ONLY <1>3, <1>13, <1>14, <1>15 DEF Peels
  <2>2. Peeled(x, y, u, d, s)
    BY ONLY <1>2, <1>5, <1>9, <2>1, d \in Digits, PeelDigit
  <2>3. QED BY ONLY <2>2 DEF Peeled
<1>17. Window(bytes, i) = d
  <2>1. Len(bytes) = w
    BY LenOf
  <2>2. QED BY ONLY <1>1, <1>4, <1>16, <2>1 DEF Window
<1>18. ASSUME NEW b \in 1 .. w
       PROVE  /\ b <= B => v[b] = bytes[b]
              /\ b = B + 1 => v[b] = bytes[b] % 2 ^ s
              /\ b > B + 1 => v[b] = 0
  <2>1. b = B + 1 => v[b] = bytes[b] % 2 ^ s
    BY ONLY <1>3, <1>4, <1>16
  <2>2. b > B + 1 => v[b] = 0
    BY ONLY <1>6, b \in 1 .. w
  <2>3. b <= B => v[b] = bytes[b]
    <3> HAVE b <= B
    <3>1. v2[b] = bytes[b]
      BY ONLY <1>2, <1>7, b <= B, b \in 1 .. w, w \in Nat
    <3>2. v2[b] = v[b] + 0 /\ v[b] \in Byte
      <4>1. b # B + 1 /\ b # B + 2
        BY ONLY <1>2, b <= B, b \in 1 .. w, w \in Nat
      <4>2. QED BY ONLY <1>6, <1>8, <4>1, b \in 1 .. w, Zenon
    <3>3. PICK z \in Byte : z = v[b]
      BY <3>2
    <3>4. z + 0 = z
      BY DEF Byte
    <3>5. QED BY ONLY <3>1, <3>2, <3>3, <3>4
  <2>4. QED BY <2>1, <2>2, <2>3
<1>19. Filled(v, bytes, i, w)
  BY ONLY <1>1, <1>6, <1>18 DEF Filled
<1>20. QED BY <1>17, <1>19

\* encode writes again what decode read: a text that decode accepts is the one
\* spelling of its value.
THEOREM EncodeDecode ==
  ASSUME NEW w \in Nat \ {0}, NEW text, Decodable(text, w),
         text = [k \in 1 .. Len(text) |-> text[k]]
  PROVE  /\ Decode(text, w) \in [1 .. w -> Byte]
         /\ Encode(Decode(text, w)) = text
<1>1. PICK n : n = TextLen(w)
  OBVIOUS
<1>2. n \in Nat \ {0} /\ (\A i \in 0 .. n - 1 : ByteAt(i) < w) /\ ByteAt(n) >= w
  BY <1>1, Reach
<1>3. Len(text) = n
  BY <1>1 DEF Decodable
<1>4. \A i \in 0 .. n - 1 : DigitOf(text, i) \in Digits /\ Fits(DigitOf(text, i), i, w)
  <2>1. TAKE i \in 0 .. n - 1
  <2>2. n - i \in 1 .. n
    BY <1>2
  <2>3. QED BY <1>3, <2>2 DEF Decodable, DigitOf
<1>5. PICK f : f = Decoded(text, w)
  OBVIOUS
<1>6. Decodes(f, text, w, n)
  BY <1>2, <1>3, <1>5, DecodedDef
<1>7. /\ f[0] = Zeros(w)
      /\ \A i \in 0 .. n - 1 : DOMAIN f[i] = 1 .. w =>
            Turn(f[i], f[i + 1], DigitOf(text, i), i, w)
  BY <1>2, <1>6, DecodeTurns
<1>8. Clean(f[0], 0, w)
  <2>1. ByteAt(0) = 0 /\ Shift(0) = 0
    BY DEF ByteAt, Shift, BITS
  <2>2. PICK v : v = Zeros(w)
    OBVIOUS
  <2>3. DOMAIN v = 1 .. w /\ v = [b \in 1 .. w |-> v[b]] /\ \A b \in 1 .. w : v[b] = 0
    BY ONLY <2>2 DEF Zeros
  <2>4. 0 \in Byte /\ 0 < 2 ^ 0
    BY Powers DEF Byte
  <2>5. ASSUME NEW b \in 1 .. w
        PROVE  /\ v[b] \in Byte
               /\ b = 0 + 1 => v[b] < 2 ^ 0
               /\ b > 0 + 1 => v[b] = 0
    BY ONLY <2>3, <2>4, b \in 1 .. w
  <2>6. Clean(v, 0, w)
    BY ONLY <2>1, <2>3, <2>5, Zenon DEF Clean
  <2>7. QED BY ONLY <1>7, <2>2, <2>6
<1>9. \A i \in 0 .. n - 1 : Clean(f[i], i, w) => Turn(f[i], f[i + 1], DigitOf(text, i), i, w)
  BY <1>7 DEF Clean
<1>10. \A i \in 0 .. n - 1 : Clean(f[i], i, w) => Clean(f[i + 1], i + 1, w)
  <2>1. TAKE i \in 0 .. n - 1
  <2>2. HAVE Clean(f[i], i, w)
  <2>3. Turn(f[i], f[i + 1], DigitOf(text, i), i, w)
    BY <1>9, <2>2
  <2>4. i \in Nat /\ ByteAt(i) < w /\ DigitOf(text, i) \in Digits
    BY <1>2, <1>4
  <2>5. QED BY <2>2, <2>3, <2>4, CleanNext
<1>11. \A m \in 0 .. n : Clean(f[m], m, w)
  <2>1. TAKE m \in 0 .. n
  <2>2. PICK S : S = {k \in 0 .. m : Clean(f[k], k, w)}
    OBVIOUS
  <2>3. S \in SUBSET (0 .. m) /\ 0 \in S
    BY <1>2, <1>8, <2>2
  <2>4. \A i \in 0 .. m - 1 : i \in S => i + 1 \in S
    BY <1>2, <1>10, <2>2
  <2>5. m \in S
    BY <2>3, <2>4, Induction
  <2>6. QED BY <2>2, <2>5
<1>12. PICK bytes : bytes = f[n]
  OBVIOUS
<1>13. Clean(bytes, n, w)
  BY <1>2, <1>11, <1>12
<1>14. bytes \in [1 .. w -> Byte]
  <2>1. bytes = [b \in 1 .. w |-> bytes[b]] /\ \A b \in 1 .. w : bytes[b] \in Byte
    BY <1>13 DEF Clean
  <2>2. QED BY ONLY <2>1
<1>15. Filled(f[n], bytes, n, w)
  <2>1. ByteAt(n) \in Nat
    BY <1>2, Places
  <2>2. \A b \in 1 .. w : b <= ByteAt(n) /\ ~(b = ByteAt(n) + 1) /\ ~(b > ByteAt(n) + 1)
    BY ONLY <1>2, <2>1, w \in Nat
  <2>3. DOMAIN bytes = 1 .. w /\ bytes = [b \in 1 .. w |-> bytes[b]]
    BY <1>13 DEF Clean
  <2>4. Filled(bytes, bytes, n, w)
    BY ONLY <2>2, <2>3, Zenon DEF Filled
  <2>5. QED BY ONLY <1>12, <2>4
<1>16. \A i \in 0 .. n - 1 : Filled(f[i + 1], bytes, i + 1, w) =>
          Filled(f[i], bytes, i, w) /\ Window(bytes, i) = DigitOf(text, i)
  <2>1. TAKE i \in 0 .. n - 1
  <2>2. HAVE Filled(f[i + 1], bytes, i + 1, w)
  <2>3. Clean(f[i], i, w) /\ Turn(f[i], f[i + 1], DigitOf(text, i), i, w)
    BY <1>2, <1>9, <1>11
  <2>4. /\ i \in Nat /\ ByteAt(i) < w
        /\ DigitOf(text, i) \in Digits /\ Fits(DigitOf(text, i), i, w)
    BY <1>2, <1>4
  <2>5. QED BY <1>14, <2>2, <2>3, <2>4, FilledBack
<1>17. \A m \in 0 .. n : Filled(f[n - m], bytes, n - m, w)
  <2>1. TAKE m \in 0 .. n
  <2>2. PICK S : S = {k \in 0 .. m : Filled(f[n - k], bytes, n - k, w)}
    OBVIOUS
  <2>3. S \in SUBSET (0 .. m) /\ 0 \in S
    <3>1. n - 0 = n /\ 0 \in 0 .. m
      BY <1>2
    <3>2. QED BY ONLY <1>15, <2>2, <3>1
  <2>4. \A i \in 0 .. m - 1 : i \in S => i + 1 \in S
    <3>1. TAKE i \in 0 .. m - 1
    <3>2. HAVE i \in S
    <3>3. PICK j \in 0 .. n - 1 : j = n - (i + 1)
      BY <1>2
    <3>4. j + 1 = n - i /\ i + 1 \in 0 .. m
      BY <1>2, <3>3
    <3>5. Filled(f[j + 1], bytes, j + 1, w)
      BY ONLY <2>2, <3>2, <3>4
    <3>6. Filled(f[j], bytes, j, w)
      BY ONLY <1>16, <3>5, j \in 0 .. n - 1
    <3>7. QED BY ONLY <2>2, <3>3, <3>4, <3>6
  <2>5. m \in S
    BY <2>3, <2>4, Induction
  <2>6. QED BY <2>2, <2>5
<1>18. \A i \in 0 .. n - 1 : Window(bytes, i) = DigitOf(text, i)
  <2>1. TAKE i \in 0 .. n - 1
  <2>2. PICK m \in 0 .. n : n - m = i + 1
    <3>1. n - (i + 1) \in 0 .. n /\ n - (n - (i + 1)) = i + 1
      BY <1>2
    <3>2. QED BY ONLY <3>1
  <2>3. Filled(f[i + 1], bytes, i + 1, w)
    BY ONLY <1>17, <2>2, m \in 0 .. n
  <2>4. QED BY <1>16, <2>3
<1>19. Encode(bytes) = text
  <2>1. Len(bytes) = w
    BY <1>14, LenOf
  <2>2. Encode(bytes) = [k \in 1 .. n |-> Window(bytes, n - k)]
    BY ONLY <1>1, <2>1 DEF Encode
  <2>3. \A k \in 1 .. n : Window(bytes, n - k) = text[k]
    <3>1. TAKE k \in 1 .. n
    <3>2. n - k \in 0 .. n - 1 /\ n - (n - k) = k
      BY <1>2
    <3>3. QED BY ONLY <1>3, <1>18, <3>2 DEF DigitOf
  <2>4. QED BY ONLY <1>3, <2>2, <2>3, text = [k \in 1 .. Len(text) |-> text[k]]
<1>20. Decode(text, w) = bytes
  BY <1>3, <1>5, <1>12 DEF Decode
<1>21. QED BY <1>14, <1>19, <1>20

-----------------------------------------------------------------------------
(* Words: every spelling that render writes is read back.                  *)

Digest == [1 .. DigestWidth -> Byte]
Path == [hash : [1 .. HashWidth -> Byte], name : Names]

LEMMA HashText ==
  ASSUME NEW p \in Path
  PROVE  Decodable(Encode(p.hash), HashWidth) /\ Decode(Encode(p.hash), HashWidth) = p.hash
<1>1. p.hash \in [1 .. HashWidth -> Byte] /\ HashWidth \in Nat \ {0}
  BY WidthAssumption DEF Path
<1>2. QED BY ONLY <1>1, DecodeEncode

LEMMA PathShape ==
  ASSUME NEW p \in Path
  PROVE  p.name \in Names /\ p = [hash |-> p.hash, name |-> p.name]
BY DEF Path

LEMMA BaseReads ==
  ASSUME NEW p \in Path
  PROVE  IsBase(Base(p)) /\ PathOf(Base(p)) = p
<1>1. PICK t, h : t = Encode(p.hash) /\ h = p.hash
  OBVIOUS
<1>2. Decodable(t, HashWidth) /\ Decode(t, HashWidth) = h
  BY <1>1, HashText
<1>3. PICK w : w = Base(p)
  OBVIOUS
<1>4. w = Word("", t, p.name)
  BY ONLY <1>1, <1>3 DEF Base
<1>5. w.prefix = "" /\ w.digits = t /\ w.rest = p.name
  BY ONLY <1>4 DEF Word
<1>6. p.name \in Names /\ p = [hash |-> h, name |-> p.name]
  BY <1>1, PathShape
<1>7. QED BY ONLY <1>2, <1>3, <1>5, <1>6 DEF IsBase, PathOf

LEMMA FullPathReads ==
  ASSUME NEW dir, NEW p \in Path
  PROVE  IsFullPath(dir, FullPath(dir, p)) /\ PathOf(FullPath(dir, p)) = p
<1>1. PICK t, h : t = Encode(p.hash) /\ h = p.hash
  OBVIOUS
<1>2. Decodable(t, HashWidth) /\ Decode(t, HashWidth) = h
  BY <1>1, HashText
<1>3. PICK w : w = FullPath(dir, p)
  OBVIOUS
<1>4. w = Word(dir, t, p.name)
  BY ONLY <1>1, <1>3 DEF FullPath
<1>5. w.prefix = dir /\ w.digits = t /\ w.rest = p.name
  BY ONLY <1>4 DEF Word
<1>6. p.name \in Names /\ p = [hash |-> h, name |-> p.name]
  BY <1>1, PathShape
<1>7. PICK w2 : w2 = [w EXCEPT !.prefix = ""]
  OBVIOUS
<1>8. w2.prefix = "" /\ w2.digits = t /\ w2.rest = p.name
  BY ONLY <1>4, <1>7 DEF Word
<1>9. IsBase(w2)
  BY ONLY <1>2, <1>6, <1>8 DEF IsBase
<1>10. IsFullPath(dir, w)
  BY ONLY <1>5, <1>7, <1>9 DEF IsFullPath
<1>11. PathOf(w) = p
  BY ONLY <1>2, <1>6, <1>5 DEF PathOf
<1>12. QED BY ONLY <1>3, <1>10, <1>11

LEMMA DigestText ==
  ASSUME NEW d \in Digest
  PROVE  Decodable(Encode(d), DigestWidth) /\ Decode(Encode(d), DigestWidth) = d
<1>1. d \in [1 .. DigestWidth -> Byte] /\ DigestWidth \in Nat \ {0}
  BY WidthAssumption DEF Digest
<1>2. QED BY ONLY <1>1, DecodeEncode

LEMMA DigestReads ==
  ASSUME NEW d \in Digest
  PROVE  IsDigest(PrintDigest(d)) /\ DigestOf(PrintDigest(d)) = d
<1>1. PICK t : t = Encode(d)
  OBVIOUS
<1>2. Decodable(t, DigestWidth) /\ Decode(t, DigestWidth) = d
  BY <1>1, DigestText
<1>3. PICK w : w = PrintDigest(d)
  OBVIOUS
<1>4. w = Word("sha256:", t, "")
  BY ONLY <1>1, <1>3 DEF PrintDigest
<1>5. w.prefix = "sha256:" /\ w.digits = t /\ w.rest = ""
  BY ONLY <1>4 DEF Word
<1>6. QED BY ONLY <1>2, <1>3, <1>5 DEF IsDigest, DigestOf

LEMMA Extensions ==
  /\ Compression = {"none", "zstd", "xz", "bzip2", "br"}
  /\ \A c, e \in Compression : Extension[c] = Extension[e] => c = e
<1>1. Compression = {"none", "zstd", "xz", "bzip2", "br"}
  BY DEF Compression, Extension
<1>2. /\ Extension["none"] = "" /\ Extension["zstd"] = ".zst" /\ Extension["xz"] = ".xz"
      /\ Extension["bzip2"] = ".bz2" /\ Extension["br"] = ".br"
  BY DEF Extension
<1>3. QED BY ONLY <1>1, <1>2

\* NarUrl::parse and NarUrl::url are inverse.
LEMMA UrlReads ==
  ASSUME NEW r, r.file_hash \in Digest, r.compression \in Compression
  PROVE  /\ IsNarUrl(Url(r))
         /\ NarUrlOf(Url(r)) = [file_hash |-> r.file_hash, compression |-> r.compression]
<1>1. PICK t, d, c, e : /\ t = Encode(r.file_hash) /\ d = r.file_hash
                        /\ c = r.compression /\ e = Extension[r.compression]
  OBVIOUS
<1>2. Decodable(t, DigestWidth) /\ Decode(t, DigestWidth) = d
  BY <1>1, DigestText
<1>3. PICK w : w = Url(r)
  OBVIOUS
<1>4. w = Word("nar/", t, e)
  BY ONLY <1>1, <1>3 DEF Url
<1>5. w.prefix = "nar/" /\ w.digits = t /\ w.rest = e
  BY ONLY <1>4 DEF Word
<1>6. c \in Compression /\ Extension[c] = e
  BY <1>1
<1>7. (CHOOSE x \in Compression : Extension[x] = e) = c
  BY ONLY <1>6, Extensions
<1>8. IsNarUrl(w)
  BY ONLY <1>2, <1>5, <1>6 DEF IsNarUrl
<1>9. NarUrlOf(w) = [file_hash |-> d, compression |-> c]
  BY ONLY <1>2, <1>5, <1>7, Zenon DEF NarUrlOf
<1>10. QED BY ONLY <1>1, <1>3, <1>8, <1>9

-----------------------------------------------------------------------------
(* What a body of any number of lines makes of each field.                 *)

\* What one line makes of a draft.
Pass(draft, line) == IF line.key \in Field THEN Absorb(draft, line) ELSE draft

Drafts(f, body, m) ==
    f = [i \in 0 .. m |-> IF i = 0 THEN Fresh ELSE Pass(f[i - 1], body[i])]

LEMMA DraftsNext ==
  ASSUME NEW body, NEW m \in Nat, NEW g, Drafts(g, body, m)
  PROVE  \E f : Drafts(f, body, m + 1)
<1>1. PICK f : f = [i \in 0 .. m + 1 |-> IF i <= m THEN g[i] ELSE Pass(g[m], body[m + 1])]
  OBVIOUS
<1>2. ASSUME NEW i \in 0 .. m + 1
      PROVE  f[i] = IF i = 0 THEN Fresh ELSE Pass(f[i - 1], body[i])
  BY <1>1 DEF Drafts
<1>3. f = [i \in 0 .. m + 1 |-> IF i = 0 THEN Fresh ELSE Pass(f[i - 1], body[i])]
  BY <1>1, <1>2
<1>4. QED BY <1>3 DEF Drafts

LEMMA DraftedDef ==
  ASSUME NEW body, Len(body) \in Nat
  PROVE  Drafts(Drafted(body), body, Len(body))
<1>1. PICK n \in Nat : n = Len(body)
  OBVIOUS
<1> DEFINE S == {m \in 0 .. n : \E f : Drafts(f, body, m)}
<1>2. 0 \in S
  <2>1. PICK f : f = [i \in 0 .. 0 |-> Fresh]
    OBVIOUS
  <2>2. Drafts(f, body, 0)
    BY <2>1 DEF Drafts
  <2>3. QED BY <2>2
<1>3. ASSUME NEW i \in 0 .. n - 1, i \in S
      PROVE  i + 1 \in S
  <2>1. PICK g : Drafts(g, body, i)
    BY <1>3
  <2>2. \E f : Drafts(f, body, i + 1)
    BY <2>1, DraftsNext
  <2>3. QED BY <2>2
<1>4. n \in S
  <2> HIDE DEF S
  <2>1. S \in SUBSET (0 .. n)
    BY DEF S
  <2>2. QED BY <1>2, <1>3, <2>1, Induction
<1>5. \E f : Drafts(f, body, n)
  BY <1>4
<1>6. QED BY <1>1, <1>5 DEF Drafted, Drafts, Pass

Effect(d, line, d2) ==
    /\ DOMAIN d2 = Field
    /\ \A f \in Field : f # line.key => d2[f] = d[f]
    /\ line.key \in Field =>
         d2[line.key] =
           IF line.key = "Deriver" /\ line.value = UnknownDeriver THEN d[line.key]
           ELSE IF line.key \in {"References", "Sig"} THEN d[line.key] \o Spelled(line)
           ELSE Spelled(line)

LEMMA Absorption ==
  ASSUME NEW d, NEW line, NEW d2, DOMAIN d = Field, d2 = Pass(d, line)
  PROVE  Effect(d, line, d2)
<1>1. PICK k, new : /\ k = line.key
                    /\ new = IF line.key = "Deriver" /\ line.value = UnknownDeriver
                             THEN d[line.key]
                             ELSE IF line.key \in {"References", "Sig"}
                                  THEN d[line.key] \o Spelled(line)
                             ELSE Spelled(line)
  OBVIOUS
<1>2. k \in Field => d2 = [d EXCEPT ![k] = new]
  BY ONLY <1>1, d2 = Pass(d, line) DEF Pass, Absorb
<1>3. k \notin Field => d2 = d
  BY ONLY <1>1, d2 = Pass(d, line) DEF Pass
<1>4. /\ DOMAIN d2 = Field
      /\ \A f \in Field : f # k => d2[f] = d[f]
      /\ k \in Field => d2[k] = new
  BY ONLY <1>2, <1>3, DOMAIN d = Field
<1>5. QED BY ONLY <1>1, <1>4, Zenon DEF Effect

\* f[m] is the draft after m lines of the body.
Reading(f, body) ==
    /\ Len(body) \in Nat
    /\ f[0] = Fresh /\ f[Len(body)] = Draft(body)
    /\ \A i \in 1 .. Len(body) : f[i] = Pass(f[i - 1], body[i])
    /\ \A i \in 0 .. Len(body) : DOMAIN f[i] = Field

LEMMA Reads ==
  ASSUME NEW body, Len(body) \in Nat
  PROVE  \E f : Reading(f, body)
<1>1. PICK n, f : n = Len(body) /\ f = Drafted(body)
  OBVIOUS
<1>2. Drafts(f, body, n) /\ n \in Nat
  BY <1>1, DraftedDef
<1>3. f[0] = Fresh /\ \A i \in 1 .. n : f[i] = Pass(f[i - 1], body[i])
  BY ONLY <1>2 DEF Drafts
<1>4. \A i \in 0 .. n - 1 : DOMAIN f[i] = Field => DOMAIN f[i + 1] = Field
  <2>1. TAKE i \in 0 .. n - 1
  <2>2. HAVE DOMAIN f[i] = Field
  <2>3. i + 1 \in 1 .. n /\ (i + 1) - 1 = i
    BY ONLY <1>2, i \in 0 .. n - 1
  <2>4. f[i + 1] = Pass(f[i], body[i + 1])
    BY ONLY <1>3, <2>3
  <2>5. QED BY ONLY <2>2, <2>4, Absorption DEF Effect
<1>5. \A m \in 0 .. n : DOMAIN f[m] = Field
  <2>1. TAKE m \in 0 .. n
  <2>2. PICK S : S = {k \in 0 .. m : DOMAIN f[k] = Field}
    OBVIOUS
  <2>3. DOMAIN f[0] = Field
    BY <1>3 DEF Fresh
  <2>4. S \in SUBSET (0 .. m) /\ 0 \in S
    BY <1>2, <2>2, <2>3
  <2>5. \A i \in 0 .. m - 1 : i \in S => i + 1 \in S
    BY <1>2, <1>4, <2>2
  <2>6. m \in S
    BY <2>4, <2>5, Induction
  <2>7. QED BY <2>2, <2>6
<1>6. f[n] = Draft(body)
  BY ONLY <1>1 DEF Draft
<1>7. QED BY ONLY <1>1, <1>2, <1>3, <1>5, <1>6 DEF Reading

\* A field is kept while no line names it.
LEMMA Kept ==
  ASSUME NEW body, NEW f, Reading(f, body), NEW k \in Field,
         NEW a \in 0 .. Len(body), NEW c \in a .. Len(body),
         \A j \in a + 1 .. c : body[j].key # k
  PROVE  f[c][k] = f[a][k]
<1>1. PICK n, m \in Nat : n = Len(body) /\ m = c - a
  BY DEF Reading
<1>2. a \in Nat /\ c = a + m /\ a + m <= n
  BY <1>1 DEF Reading
<1>3. PICK S : S = {t \in 0 .. m : f[a + t][k] = f[a][k]}
  OBVIOUS
<1>4. S \in SUBSET (0 .. m) /\ 0 \in S
  <2>1. a + 0 = a
    BY <1>2
  <2>2. QED BY <1>1, <1>3, <2>1
<1>5. \A t \in 0 .. m - 1 : t \in S => t + 1 \in S
  <2>1. TAKE t \in 0 .. m - 1
  <2>2. HAVE t \in S
  <2>3. PICK i : i = a + t + 1
    OBVIOUS
  <2>4. /\ i \in 1 .. n /\ i - 1 = a + t /\ i = a + (t + 1) /\ i \in a + 1 .. c
        /\ i - 1 \in 0 .. n /\ t + 1 \in 0 .. m
    BY ONLY <1>1, <1>2, <2>3, t \in 0 .. m - 1, n \in Nat, m \in Nat
  <2>5. f[i] = Pass(f[i - 1], body[i]) /\ DOMAIN f[i - 1] = Field /\ body[i].key # k
    BY <1>1, <2>4 DEF Reading
  <2>6. f[i][k] = f[i - 1][k]
    BY ONLY <2>5, Absorption, k \in Field DEF Effect
  <2>7. QED BY ONLY <1>3, <2>2, <2>4, <2>6
<1>6. m \in S
  BY <1>1, <1>4, <1>5, Induction
<1>7. QED BY <1>2, <1>3, <1>6

LEMMA Unnamed ==
  ASSUME NEW body, Len(body) \in Nat, NEW k \in Field,
         \A j \in 1 .. Len(body) : body[j].key # k
  PROVE  Draft(body)[k] = <<>>
<1>1. PICK f : Reading(f, body)
  BY Reads
<1>2. f[0][k] = <<>> /\ f[Len(body)] = Draft(body)
  BY <1>1 DEF Reading, Fresh
<1>3. /\ 0 \in 0 .. Len(body) /\ Len(body) \in 0 .. Len(body)
      /\ \A j \in 0 + 1 .. Len(body) : body[j].key # k
  OBVIOUS
<1>4. f[Len(body)][k] = f[0][k]
  BY ONLY <1>1, <1>3, Kept, k \in Field
<1>5. QED BY ONLY <1>2, <1>4

\* i is the last line of field k.
Final(body, k, i) ==
    /\ i \in 1 .. Len(body) /\ body[i].key = k
    /\ \A j \in i + 1 .. Len(body) : body[j].key # k

LEMMA LastNamed ==
  ASSUME NEW body, Len(body) \in Nat, NEW k, \E j \in 1 .. Len(body) : body[j].key = k
  PROVE  \E i : Final(body, k, i)
<1>1. PICK n \in Nat : n = Len(body)
  OBVIOUS
<1>2. PICK T : T = {t \in 0 .. n - 1 : body[n - t].key = k}
  OBVIOUS
<1>3. T \in SUBSET Nat /\ T # {}
  <2>1. PICK j \in 1 .. n : body[j].key = k
    BY <1>1
  <2>2. n - j \in 0 .. n - 1 /\ n - (n - j) = j
    BY <1>1
  <2>3. n - j \in T
    BY ONLY <1>2, <2>1, <2>2
  <2>4. \A t \in 0 .. n - 1 : t \in Nat
    OBVIOUS
  <2>5. QED BY ONLY <1>2, <2>3, <2>4, Zenon
<1>4. PICK x \in T : \A y \in T : ~(y < x)
  BY <1>3, LeastNumber
<1>5. PICK i : i = n - x
  OBVIOUS
<1>6. x \in 0 .. n - 1 /\ i \in 1 .. n /\ body[i].key = k
  BY ONLY <1>2, <1>4, <1>5, n \in Nat
<1>7. ASSUME NEW j \in i + 1 .. n, body[j].key = k
      PROVE  FALSE
  <2>1. n - j \in 0 .. n - 1 /\ n - (n - j) = j /\ n - j < x
    BY ONLY <1>5, <1>6, n \in Nat, j \in i + 1 .. n
  <2>2. n - j \in T
    BY ONLY <1>2, <1>7, <2>1
  <2>3. QED BY ONLY <1>4, <2>1, <2>2
<1>8. QED BY ONLY <1>1, <1>6, <1>7 DEF Final

\* The last line of a field stands.
LEMMA Stands ==
  ASSUME NEW body, Len(body) \in Nat, NEW k \in Field, NEW i, Final(body, k, i),
         k \notin {"References", "Sig"}, ~(k = "Deriver" /\ body[i].value = UnknownDeriver)
  PROVE  Draft(body)[k] = Spelled(body[i])
<1>1. PICK f : Reading(f, body)
  BY Reads
<1>2. i \in 1 .. Len(body) /\ body[i].key = k /\ \A j \in i + 1 .. Len(body) : body[j].key # k
  BY DEF Final
<1>3. f[i] = Pass(f[i - 1], body[i]) /\ DOMAIN f[i - 1] = Field /\ f[Len(body)] = Draft(body)
  BY <1>1, <1>2 DEF Reading
<1>4. f[i][k] = Spelled(body[i])
  <2>1. Effect(f[i - 1], body[i], f[i])
    BY ONLY <1>3, Absorption, Zenon
  <2>2. QED BY ONLY <1>2, <2>1, k \in Field, k \notin {"References", "Sig"},
               ~(k = "Deriver" /\ body[i].value = UnknownDeriver) DEF Effect
<1>5. i \in 0 .. Len(body) /\ Len(body) \in i .. Len(body)
  BY <1>2
<1>6. f[Len(body)][k] = f[i][k]
  BY ONLY <1>1, <1>2, <1>5, Kept, k \in Field
<1>7. QED BY ONLY <1>3, <1>4, <1>6

\* A list of one line is what that line spells.
LEMMA SoleList ==
  ASSUME NEW body, Len(body) \in Nat, NEW k \in {"References", "Sig"}, NEW i,
         Final(body, k, i), \A j \in 1 .. i - 1 : body[j].key # k
  PROVE  Draft(body)[k] = <<>> \o Spelled(body[i])
<1>1. PICK f : Reading(f, body)
  BY Reads
<1>2. i \in 1 .. Len(body) /\ body[i].key = k /\ \A j \in i + 1 .. Len(body) : body[j].key # k
  BY DEF Final
<1>3. k \in Field /\ k # "Deriver"
  BY DEF Field
<1>4. /\ f[i] = Pass(f[i - 1], body[i]) /\ DOMAIN f[i - 1] = Field /\ f[Len(body)] = Draft(body)
      /\ f[0] = Fresh
  BY <1>1, <1>2 DEF Reading
<1>5. f[i][k] = f[i - 1][k] \o Spelled(body[i])
  <2>1. PICK d, d2, l : d = f[i - 1] /\ d2 = f[i] /\ l = body[i]
    OBVIOUS
  <2>2. DOMAIN d = Field /\ d2 = Pass(d, l) /\ l.key = k
    BY ONLY <1>2, <1>4, <2>1
  <2>3. d2[l.key] = IF l.key = "Deriver" /\ l.value = UnknownDeriver THEN d[l.key]
                    ELSE IF l.key \in {"References", "Sig"} THEN d[l.key] \o Spelled(l)
                    ELSE Spelled(l)
    <3>1. Effect(d, l, d2)
      BY ONLY <2>2, Absorption, Zenon
    <3>2. QED BY ONLY <1>3, <2>2, <3>1, Zenon DEF Effect
  <2>4. d2[k] = d[k] \o Spelled(l)
    BY ONLY <1>3, <2>2, <2>3, k \in {"References", "Sig"}
  <2>5. QED BY ONLY <2>1, <2>4
<1>6. /\ i \in 0 .. Len(body) /\ Len(body) \in i .. Len(body)
      /\ 0 \in 0 .. Len(body) /\ i - 1 \in 0 .. Len(body)
      /\ \A j \in 0 + 1 .. i - 1 : body[j].key # k
  BY <1>2
<1>7. f[Len(body)][k] = f[i][k]
  BY ONLY <1>1, <1>2, <1>3, <1>6, Kept
<1>8. f[i - 1][k] = f[0][k]
  <2>1. PICK c : c = i - 1
    OBVIOUS
  <2>2. c \in 0 .. Len(body) /\ \A j \in 0 + 1 .. c : body[j].key # k
    BY ONLY <1>6, <2>1
  <2>3. f[c][k] = f[0][k]
    BY ONLY <1>1, <1>3, <1>6, <2>2, Kept
  <2>4. QED BY ONLY <2>1, <2>3
<1>9. f[0][k] = <<>>
  BY ONLY <1>3, <1>4 DEF Fresh
<1>10. QED BY ONLY <1>4, <1>5, <1>7, <1>8, <1>9

-----------------------------------------------------------------------------
(* What a body that publish accepts makes of each field.                   *)

\* The lines of a body that parse went through without an error.
Accepted(dir, body) ==
    /\ Len(body) \in Nat /\ DOMAIN body = 1 .. Len(body)
    /\ \A i \in DOMAIN body : body[i].value \in Seq(Words)
    /\ \A i \in DOMAIN body : Empty(body[i]) \/ (Splits(body[i]) /\ Absorbs(dir, body[i]))

LEMMA HashTyped ==
  ASSUME NEW w \in Words, NEW n \in Nat \ {0}, Decodable(w.digits, n)
  PROVE  Decode(w.digits, n) \in [1 .. n -> Byte] /\ Encode(Decode(w.digits, n)) = w.digits
<1>1. PICK t : t = w.digits
  OBVIOUS
<1>2. t \in Seq(Nat)
  BY <1>1 DEF Words
<1>3. t = [k \in 1 .. Len(t) |-> t[k]]
  BY ONLY <1>2
<1>4. QED BY ONLY <1>1, <1>3, EncodeDecode, n \in Nat \ {0}, Decodable(w.digits, n)

LEMMA PathTyped ==
  ASSUME NEW w \in Words, IsBase(w) \/ \E dir : IsFullPath(dir, w)
  PROVE  PathOf(w) \in Path
<1>1. Decodable(w.digits, HashWidth) /\ w.rest \in Names
  <2>1. CASE IsBase(w)
    BY <2>1 DEF IsBase
  <2>2. CASE \E dir : IsFullPath(dir, w)
    <3>1. PICK v : v = [w EXCEPT !.prefix = ""]
      OBVIOUS
    <3>2. v.digits = w.digits /\ v.rest = w.rest
      BY <3>1 DEF Words
    <3>3. IsBase(v)
      BY <2>2, <3>1 DEF IsFullPath
    <3>4. QED BY ONLY <3>2, <3>3 DEF IsBase
  <2>3. QED BY <2>1, <2>2
<1>2. Decode(w.digits, HashWidth) \in [1 .. HashWidth -> Byte]
  BY <1>1, WidthAssumption, HashTyped
<1>3. QED BY ONLY <1>1, <1>2 DEF PathOf, Path

LEMMA LineAccepted ==
  ASSUME NEW dir, NEW body, Accepted(dir, body), NEW i \in 1 .. Len(body), body[i].key \in Field
  PROVE  Absorbs(dir, body[i]) /\ body[i].value \in Seq(Words)
<1>1. ~Empty(body[i])
  BY DEF Empty, Field
<1>2. QED BY <1>1 DEF Accepted

LEMMA StorePathSpells ==
  ASSUME NEW dir, NEW l, l.key = "StorePath", l.value \in Seq(Words), Absorbs(dir, l)
  PROVE  Spelled(l) = <<PathOf(l.value[1])>> /\ PathOf(l.value[1]) \in Path
<1>1. PICK v : v = l.value
  OBVIOUS
<1>2. v \in Seq(Words) /\ Len(v) = 1 /\ IsFullPath(dir, v[1])
  BY <1>1 DEF Absorbs
<1>3. v[1] \in Words
  BY ONLY <1>2
<1>4. PathOf(v[1]) \in Path
  BY ONLY <1>2, <1>3, PathTyped
<1>5. Spelled(l) = [i \in DOMAIN v |-> PathOf(v[i])]
  BY <1>1 DEF Spelled
<1>6. DOMAIN v = 1 .. 1
  BY ONLY <1>2
<1>7. Spelled(l) = <<PathOf(v[1])>>
  BY ONLY <1>5, <1>6
<1>8. QED BY ONLY <1>1, <1>4, <1>7

LEMMA ReferencesSpell ==
  ASSUME NEW dir, NEW l, l.key = "References", l.value \in Seq(Words), Absorbs(dir, l)
  PROVE  /\ Spelled(l) \in Seq(Path)
         /\ ToSet(Spelled(l)) = {PathOf(w) : w \in ToSet(l.value)}
<1>1. PICK v, n, s : v = l.value /\ n = Len(v) /\ s = Spelled(l)
  OBVIOUS
<1>2. v \in Seq(Words) /\ n \in Nat /\ DOMAIN v = 1 .. n /\ \A i \in 1 .. n : IsBase(v[i])
  BY <1>1 DEF Absorbs
<1>3. s = [i \in 1 .. n |-> PathOf(v[i])]
  BY <1>1, <1>2 DEF Spelled
<1>4. ASSUME NEW i \in 1 .. n
      PROVE  PathOf(v[i]) \in Path
  <2>1. v[i] \in Words
    BY ONLY <1>1, <1>2, i \in 1 .. n
  <2>2. IsBase(v[i])
    BY ONLY <1>2, i \in 1 .. n
  <2>3. QED BY ONLY <2>1, <2>2, PathTyped
<1>5. s \in [1 .. n -> Path]
  BY ONLY <1>3, <1>4
<1>6. s \in Seq(Path)
  BY ONLY <1>2, <1>5, LenOf
<1>7. ToSet(s) = {PathOf(w) : w \in ToSet(v)}
  <2>1. ToSet(s) = {s[i] : i \in 1 .. n} /\ ToSet(v) = {v[i] : i \in 1 .. n}
    BY ONLY <1>2, <1>5 DEF ToSet
  <2>2. \A i \in 1 .. n : s[i] = PathOf(v[i])
    BY ONLY <1>3
  <2>3. QED BY ONLY <2>1, <2>2
<1>8. QED BY ONLY <1>1, <1>6, <1>7

LEMMA DeriverSpells ==
  ASSUME NEW dir, NEW l, l.key = "Deriver", l.value \in Seq(Words), Absorbs(dir, l),
         l.value # UnknownDeriver
  PROVE  Spelled(l) \in Seq(Path) /\ Len(Spelled(l)) = 1
<1>1. PICK v, s : v = l.value /\ s = Spelled(l)
  OBVIOUS
<1>2. v \in Seq(Words) /\ Len(v) = 1 /\ IsBase(v[1])
  BY <1>1 DEF Absorbs
<1>3. v[1] \in Words /\ DOMAIN v = 1 .. 1
  BY ONLY <1>2
<1>4. PathOf(v[1]) \in Path
  BY ONLY <1>2, <1>3, PathTyped
<1>5. s = [i \in DOMAIN v |-> PathOf(v[i])]
  BY <1>1 DEF Spelled
<1>6. s \in [1 .. 1 -> Path]
  BY ONLY <1>3, <1>4, <1>5
<1>7. s \in Seq(Path) /\ Len(s) = 1
  BY ONLY <1>6, LenOf
<1>8. QED BY ONLY <1>1, <1>7

LEMMA OthersSpell ==
  ASSUME NEW dir, NEW l, l.value \in Seq(Words), Absorbs(dir, l)
  PROVE  /\ l.key = "NarHash" => Spelled(l) = <<DigestOf(l.value[1])>>
         /\ l.key = "NarSize" => /\ Spelled(l) = l.value[1].digits
                                 /\ l.value[1].digits \in Seq(Nat)
                                 /\ Len(l.value[1].digits) = 1
         /\ l.key = "CA" => Spelled(l) = <<l.value>>
<1>1. l.key = "NarHash" => Spelled(l) = <<DigestOf(l.value[1])>>
  BY DEF Spelled
<1>2. l.key = "CA" => Spelled(l) = <<l.value>>
  BY DEF Spelled
<1>3. ASSUME l.key = "NarSize"
      PROVE  /\ Spelled(l) = l.value[1].digits
             /\ l.value[1].digits \in Seq(Nat)
             /\ Len(l.value[1].digits) = 1
  <2>1. Spelled(l) = l.value[1].digits
    BY <1>3 DEF Spelled
  <2>2. PICK v : v = l.value
    OBVIOUS
  <2>3. v \in Seq(Words) /\ Len(v) = 1 /\ IsNumber(v[1])
    BY <1>3, <2>2 DEF Absorbs
  <2>4. v[1] \in Words
    BY ONLY <2>3
  <2>5. v[1].digits \in Seq(Nat) /\ Len(v[1].digits) = 1
    BY ONLY <2>3, <2>4 DEF Words, IsNumber
  <2>6. QED BY ONLY <2>1, <2>2, <2>5
<1>4. QED BY <1>1, <1>2, <1>3

\* Option<Path>
Known(s) == s \in Seq(Path) /\ Len(s) \in {0, 1}

LEMMA DeriverDraft ==
  ASSUME NEW dir, NEW body, Accepted(dir, body)
  PROVE  Known(Draft(body)["Deriver"])
<1>1. PICK n \in Nat : n = Len(body)
  BY DEF Accepted
<1>2. PICK f : Reading(f, body)
  BY <1>1, Reads
<1>3. PICK S : S = {m \in 0 .. n : Known(f[m]["Deriver"])}
  OBVIOUS
<1>4. S \in SUBSET (0 .. n) /\ 0 \in S
  <2>1. f[0]["Deriver"] = <<>>
    BY <1>2 DEF Reading, Fresh, Field
  <2>2. Known(<<>>)
    BY DEF Known
  <2>3. QED BY <1>3, <2>1, <2>2
<1>5. ASSUME NEW i \in 0 .. n - 1, i \in S
      PROVE  i + 1 \in S
  <2>1. PICK d, d2, l : d = f[i] /\ d2 = f[i + 1] /\ l = body[i + 1]
    OBVIOUS
  <2>2. i + 1 \in 1 .. n /\ (i + 1) - 1 = i /\ i \in 0 .. n /\ i + 1 \in 0 .. n
    BY ONLY i \in 0 .. n - 1, n \in Nat
  <2>3. DOMAIN d = Field /\ d2 = Pass(d, l)
    BY <1>1, <1>2, <2>1, <2>2 DEF Reading
  <2>4. Effect(d, l, d2)
    BY ONLY <2>3, Absorption, Zenon
  <2>5. Known(d["Deriver"])
    BY <1>3, <1>5, <2>1
  <2>6. CASE l.key # "Deriver"
    <3>1. d2["Deriver"] = d["Deriver"]
      BY ONLY <2>4, <2>6 DEF Effect, Field
    <3>2. QED BY ONLY <1>3, <2>1, <2>2, <2>5, <3>1
  <2>7. CASE l.key = "Deriver" /\ l.value = UnknownDeriver
    <3>1. d2["Deriver"] = d["Deriver"]
      BY ONLY <2>4, <2>7 DEF Effect, Field
    <3>2. QED BY ONLY <1>3, <2>1, <2>2, <2>5, <3>1
  <2>8. CASE l.key = "Deriver" /\ l.value # UnknownDeriver
    <3>1. d2["Deriver"] = Spelled(l)
      BY ONLY <2>4, <2>8 DEF Effect, Field
    <3>2. l.key \in Field
      BY <2>8 DEF Field
    <3>3. l.value \in Seq(Words) /\ Absorbs(dir, l)
      BY ONLY <1>1, <2>1, <2>2, <3>2, LineAccepted, Accepted(dir, body)
    <3>4. Known(Spelled(l))
      BY ONLY <2>8, <3>3, DeriverSpells DEF Known
    <3>5. QED BY ONLY <1>3, <2>1, <2>2, <3>1, <3>4
  <2>9. QED BY <2>6, <2>7, <2>8
<1>6. n \in S
  BY <1>4, <1>5, Induction
<1>7. QED BY <1>1, <1>2, <1>3, <1>6 DEF Reading

\* The paths that the first m lines refer to.
Referred(body, m) ==
    UNION {{PathOf(w) : w \in ToSet(body[i].value)} :
              i \in {j \in 1 .. m : body[j].key = "References"}}

LEMMA ReferredNext ==
  ASSUME NEW body, NEW m \in Nat
  PROVE  Referred(body, m + 1) =
            IF body[m + 1].key = "References"
            THEN Referred(body, m) \cup {PathOf(w) : w \in ToSet(body[m + 1].value)}
            ELSE Referred(body, m)
<1>1. PICK I, J, P : /\ I = {j \in 1 .. m : body[j].key = "References"}
                     /\ J = {j \in 1 .. m + 1 : body[j].key = "References"}
                     /\ P = [i \in 1 .. m + 1 |-> {PathOf(w) : w \in ToSet(body[i].value)}]
  OBVIOUS
<1>2. J = IF body[m + 1].key = "References" THEN I \cup {m + 1} ELSE I
  BY <1>1
<1>3. Referred(body, m) = UNION {P[i] : i \in I}
  BY <1>1 DEF Referred
<1>4. Referred(body, m + 1) = UNION {P[i] : i \in J}
  BY <1>1 DEF Referred
<1>5. P[m + 1] = {PathOf(w) : w \in ToSet(body[m + 1].value)}
  BY <1>1
<1>6. CASE body[m + 1].key = "References"
  <2>1. J = I \cup {m + 1}
    BY <1>2, <1>6
  <2>2. UNION {P[i] : i \in J} = (UNION {P[i] : i \in I}) \cup P[m + 1]
    BY ONLY <2>1
  <2>3. QED BY ONLY <1>3, <1>4, <1>5, <1>6, <2>2
<1>7. CASE body[m + 1].key # "References"
  BY ONLY <1>2, <1>3, <1>4, <1>7
<1>8. QED BY ONLY <1>6, <1>7

LEMMA ToSetConcat ==
  ASSUME NEW T, NEW s \in Seq(T), NEW t \in Seq(T)
  PROVE  s \o t \in Seq(T) /\ ToSet(s \o t) = ToSet(s) \cup ToSet(t)
<1>1. PICK u, n, m : u = s \o t /\ n = Len(s) /\ m = Len(t)
  OBVIOUS
<1>2. /\ u \in Seq(T) /\ n \in Nat /\ m \in Nat /\ DOMAIN u = 1 .. n + m
      /\ DOMAIN s = 1 .. n /\ DOMAIN t = 1 .. m
  BY <1>1
<1>3. (\A i \in 1 .. n : u[i] = s[i]) /\ (\A i \in 1 .. m : u[n + i] = t[i])
  BY <1>1
<1>4. ToSet(s) \cup ToSet(t) \subseteq ToSet(u)
  <2>1. \A i \in 1 .. m : n + i \in 1 .. n + m
    BY ONLY <1>2
  <2>2. \A i \in 1 .. n : i \in 1 .. n + m
    BY ONLY <1>2
  <2>3. QED BY ONLY <1>2, <1>3, <2>1, <2>2 DEF ToSet
<1>5. ToSet(u) \subseteq ToSet(s) \cup ToSet(t)
  <2>1. ASSUME NEW i \in 1 .. n + m
        PROVE  u[i] \in ToSet(s) \cup ToSet(t)
    <3>1. CASE i \in 1 .. n
      BY ONLY <1>2, <1>3, <3>1 DEF ToSet
    <3>2. CASE i \notin 1 .. n
      <4>1. PICK j : j = i - n
        OBVIOUS
      <4>2. j \in 1 .. m /\ i = n + j
        BY ONLY <1>2, <3>2, <4>1, i \in 1 .. n + m
      <4>3. QED BY ONLY <1>2, <1>3, <4>2 DEF ToSet
    <3>3. QED BY ONLY <3>1, <3>2
  <2>2. QED BY ONLY <1>2, <2>1 DEF ToSet
<1>6. QED BY ONLY <1>1, <1>2, <1>4, <1>5

LEMMA ReferencesDraft ==
  ASSUME NEW dir, NEW body, Accepted(dir, body)
  PROVE  /\ Draft(body)["References"] \in Seq(Path)
         /\ ToSet(Draft(body)["References"]) = Referred(body, Len(body))
<1>1. PICK n \in Nat : n = Len(body)
  BY DEF Accepted
<1>2. PICK f : Reading(f, body)
  BY <1>1, Reads
<1>3. PICK S : S = {m \in 0 .. n : /\ f[m]["References"] \in Seq(Path)
                                   /\ ToSet(f[m]["References"]) = Referred(body, m)}
  OBVIOUS
<1>4. S \in SUBSET (0 .. n) /\ 0 \in S
  <2>1. f[0]["References"] = <<>>
    BY <1>2 DEF Reading, Fresh, Field
  <2>2. <<>> \in Seq(Path) /\ ToSet(<<>>) = {}
    BY DEF ToSet
  <2>3. Referred(body, 0) = {}
    BY DEF Referred
  <2>4. 0 \in 0 .. n
    OBVIOUS
  <2>5. f[0]["References"] \in Seq(Path) /\ ToSet(f[0]["References"]) = Referred(body, 0)
    BY ONLY <2>1, <2>2, <2>3
  <2>6. QED BY ONLY <1>3, <2>4, <2>5
<1>5. ASSUME NEW i \in 0 .. n - 1, i \in S
      PROVE  i + 1 \in S
  <2>1. PICK d, d2, l : d = f[i] /\ d2 = f[i + 1] /\ l = body[i + 1]
    OBVIOUS
  <2>2. i + 1 \in 1 .. n /\ (i + 1) - 1 = i /\ i \in 0 .. n /\ i + 1 \in 0 .. n /\ i \in Nat
    BY ONLY i \in 0 .. n - 1, n \in Nat
  <2>3. DOMAIN d = Field /\ d2 = Pass(d, l)
    BY <1>1, <1>2, <2>1, <2>2 DEF Reading
  <2>4. Effect(d, l, d2)
    BY ONLY <2>3, Absorption, Zenon
  <2>5. d["References"] \in Seq(Path) /\ ToSet(d["References"]) = Referred(body, i)
    BY <1>3, <1>5, <2>1
  <2>6. CASE l.key # "References"
    <3>1. d2["References"] = d["References"]
      BY ONLY <2>4, <2>6 DEF Effect, Field
    <3>2. Referred(body, i + 1) = Referred(body, i)
      BY ONLY <2>1, <2>2, <2>6, ReferredNext
    <3>3. QED BY ONLY <1>3, <2>1, <2>2, <2>5, <3>1, <3>2
  <2>7. CASE l.key = "References"
    <3>1. d2["References"] = d["References"] \o Spelled(l)
      BY ONLY <2>4, <2>7 DEF Effect, Field
    <3>2. l.key \in Field
      BY <2>7 DEF Field
    <3>3. l.value \in Seq(Words) /\ Absorbs(dir, l)
      BY ONLY <1>1, <2>1, <2>2, <3>2, LineAccepted, Accepted(dir, body)
    <3>4. /\ Spelled(l) \in Seq(Path)
          /\ ToSet(Spelled(l)) = {PathOf(w) : w \in ToSet(l.value)}
      BY ONLY <2>7, <3>3, ReferencesSpell
    <3>5. /\ d["References"] \o Spelled(l) \in Seq(Path)
          /\ ToSet(d["References"] \o Spelled(l)) = ToSet(d["References"]) \cup ToSet(Spelled(l))
      BY ONLY <2>5, <3>4, ToSetConcat
    <3>6. Referred(body, i + 1) = Referred(body, i) \cup {PathOf(w) : w \in ToSet(l.value)}
      BY ONLY <2>1, <2>2, <2>7, ReferredNext
    <3>7. ToSet(d2["References"]) = Referred(body, i + 1)
      BY ONLY <2>5, <3>1, <3>4, <3>5, <3>6
    <3>8. QED BY ONLY <1>3, <2>1, <2>2, <3>1, <3>5, <3>7
  <2>8. QED BY <2>6, <2>7
<1>6. n \in S
  BY <1>4, <1>5, Induction
<1>7. QED BY <1>1, <1>2, <1>3, <1>6 DEF Reading

\* A body as clients send it.
Typed(body) ==
    /\ Len(body) \in Nat /\ DOMAIN body = 1 .. Len(body)
    /\ \A i \in DOMAIN body : body[i].value \in Seq(Words)

\* A record has these fields and no others.
Shape(r) ==
    [store_path |-> r.store_path, compression |-> r.compression,
     file_hash |-> r.file_hash, file_size |-> r.file_size,
     nar_hash |-> r.nar_hash, nar_size |-> r.nar_size,
     references |-> r.references, deriver |-> r.deriver,
     sigs |-> r.sigs, ca |-> r.ca]

\* What the record r has from the body.
Declares(body, r) ==
    /\ r = Shape(r)
    /\ r.store_path \in Path
    /\ \E i : Final(body, "StorePath", i) /\ r.store_path = PathOf(body[i].value[1])
    /\ \E i : Final(body, "NarHash", i) /\ r.nar_hash = DigestOf(body[i].value[1])
    /\ \E i : Final(body, "NarSize", i) /\ <<r.nar_size>> = body[i].value[1].digits
    /\ r.nar_size \in Nat \ {0}
    /\ r.references \in Seq(Path) /\ ToSet(r.references) = Referred(body, Len(body))
    /\ Known(r.deriver)
    /\ \/ r.ca = <<>> /\ \A j \in 1 .. Len(body) : body[j].key # "CA"
       \/ \E i : Final(body, "CA", i) /\ r.ca = <<body[i].value>>

LEMMA Named ==
  ASSUME NEW dir, NEW body, Accepted(dir, body), NEW k \in Field \ {"References", "Sig", "Deriver"},
         Draft(body)[k] # <<>>
  PROVE  \E i : /\ Final(body, k, i) /\ Draft(body)[k] = Spelled(body[i])
                /\ body[i].key = k /\ Absorbs(dir, body[i]) /\ body[i].value \in Seq(Words)
<1>1. Len(body) \in Nat
  BY DEF Accepted
<1>2. \E j \in 1 .. Len(body) : body[j].key = k
  BY <1>1, Unnamed
<1>3. PICK i : Final(body, k, i)
  BY ONLY <1>1, <1>2, LastNamed
<1>4. Draft(body)[k] = Spelled(body[i])
  BY <1>1, <1>3, Stands
<1>5. i \in 1 .. Len(body) /\ body[i].key = k
  BY <1>3 DEF Final
<1>6. Absorbs(dir, body[i]) /\ body[i].value \in Seq(Words)
  BY <1>5, LineAccepted
<1>7. QED BY ONLY <1>3, <1>4, <1>5, <1>6

LEMMA ParseDeclares ==
  ASSUME NEW dir, NEW body, Typed(body), Parses(dir, body)
  PROVE  Declares(body, Parse(body))
<1>1. Accepted(dir, body)
  BY DEF Typed, Parses, Accepted
<1>2. PICK d, r : d = Draft(body) /\ r = Parse(body)
  OBVIOUS
<1>3. d["StorePath"] # <<>> /\ d["NarHash"] # <<>> /\ d["NarSize"] # <<>> /\ d["NarSize"][1] # 0
  BY <1>2 DEF Parses, Finishes
<1>4. r = Finish(d)
  BY <1>2 DEF Parse
<1>5. /\ r.store_path = d["StorePath"][1] /\ r.nar_hash = d["NarHash"][1]
      /\ r.nar_size = d["NarSize"][1] /\ r.references = d["References"]
      /\ r.deriver = d["Deriver"] /\ r.ca = d["CA"]
  BY ONLY <1>4 DEF Finish
<1>6. r = Shape(r)
  BY ONLY <1>4 DEF Finish, Shape
<1>7. PICK i : /\ Final(body, "StorePath", i) /\ d["StorePath"] = Spelled(body[i])
               /\ body[i].key = "StorePath" /\ Absorbs(dir, body[i]) /\ body[i].value \in Seq(Words)
  <2>1. "StorePath" \in Field \ {"References", "Sig", "Deriver"}
    BY DEF Field
  <2>2. QED BY ONLY <1>1, <1>2, <1>3, <2>1, Named
<1>8. r.store_path = PathOf(body[i].value[1]) /\ r.store_path \in Path
  <2>1. Spelled(body[i]) = <<PathOf(body[i].value[1])>> /\ PathOf(body[i].value[1]) \in Path
    BY ONLY <1>7, StorePathSpells
  <2>2. QED BY ONLY <1>5, <1>7, <2>1
<1>9. PICK j : /\ Final(body, "NarHash", j) /\ d["NarHash"] = Spelled(body[j])
               /\ body[j].key = "NarHash" /\ Absorbs(dir, body[j]) /\ body[j].value \in Seq(Words)
  <2>1. "NarHash" \in Field \ {"References", "Sig", "Deriver"}
    BY DEF Field
  <2>2. QED BY ONLY <1>1, <1>2, <1>3, <2>1, Named
<1>10. r.nar_hash = DigestOf(body[j].value[1])
  <2>1. Spelled(body[j]) = <<DigestOf(body[j].value[1])>>
    BY ONLY <1>9, OthersSpell
  <2>2. QED BY ONLY <1>5, <1>9, <2>1
<1>11. PICK k : /\ Final(body, "NarSize", k) /\ d["NarSize"] = Spelled(body[k])
                /\ body[k].key = "NarSize" /\ Absorbs(dir, body[k]) /\ body[k].value \in Seq(Words)
  <2>1. "NarSize" \in Field \ {"References", "Sig", "Deriver"}
    BY DEF Field
  <2>2. QED BY ONLY <1>1, <1>2, <1>3, <2>1, Named
<1>12. <<r.nar_size>> = body[k].value[1].digits /\ r.nar_size \in Nat \ {0}
  <2>1. PICK t : t = body[k].value[1].digits
    OBVIOUS
  <2>2. Spelled(body[k]) = t /\ t \in Seq(Nat) /\ Len(t) = 1
    BY ONLY <1>11, <2>1, OthersSpell
  <2>3. d["NarSize"] = t /\ t[1] # 0 /\ r.nar_size = t[1]
    BY ONLY <1>3, <1>5, <1>11, <2>2
  <2>4. t[1] \in Nat /\ t = <<t[1]>>
    BY ONLY <2>2
  <2>5. QED BY ONLY <2>1, <2>3, <2>4
<1>13. r.references \in Seq(Path) /\ ToSet(r.references) = Referred(body, Len(body))
  BY ONLY <1>1, <1>2, <1>5, ReferencesDraft
<1>14. Known(r.deriver)
  BY ONLY <1>1, <1>2, <1>5, DeriverDraft
<1>15. \/ r.ca = <<>> /\ \A m \in 1 .. Len(body) : body[m].key # "CA"
       \/ \E m : Final(body, "CA", m) /\ r.ca = <<body[m].value>>
  <2>1. "CA" \in Field \ {"References", "Sig", "Deriver"} /\ Len(body) \in Nat
    BY <1>1 DEF Field, Accepted
  <2>2. CASE \A m \in 1 .. Len(body) : body[m].key # "CA"
    <3>1. Draft(body)["CA"] = <<>>
      BY ONLY <2>1, <2>2, Unnamed
    <3>2. QED BY ONLY <1>2, <1>5, <2>2, <3>1
  <2>3. CASE \E m \in 1 .. Len(body) : body[m].key = "CA"
    <3>1. PICK m : Final(body, "CA", m)
      BY ONLY <2>1, <2>3, LastNamed
    <3>2. Draft(body)["CA"] = Spelled(body[m])
      BY ONLY <2>1, <3>1, Stands
    <3>3. Spelled(body[m]) = <<body[m].value>>
      BY ONLY <3>1 DEF Final, Spelled
    <3>4. QED BY ONLY <1>2, <1>5, <3>1, <3>2, <3>3
  <2>4. QED BY ONLY <2>2, <2>3
<1>16. Declares(body, r)
  BY ONLY <1>6, <1>7, <1>8, <1>9, <1>10, <1>11, <1>12, <1>13, <1>14, <1>15, Zenon DEF Declares
<1>17. QED BY ONLY <1>2, <1>16

-----------------------------------------------------------------------------
(* Records.                                                                *)

\* What every record of the table is, whatever body it came from.
Sound(r) ==
    /\ r = Shape(r)
    /\ r.store_path \in Path
    /\ r.nar_hash \in Digest /\ r.nar_size \in 1 .. U64Max
    /\ r.file_hash \in Digest /\ r.file_size \in 0 .. U64Max
    /\ r.compression \in Compression
    /\ r.references \in Seq(Path)
    /\ Known(r.deriver)
    /\ r.ca = <<>> \/ \E v : r.ca = <<v>>

\* The record's payload is that of the upload.
Holds(u, r) ==
    /\ r.nar_hash = u.nar_hash /\ r.nar_size = u.nar_size
    /\ r.file_hash = u.file_hash /\ r.file_size = u.file_size
    /\ r.compression = u.compression

\* The name and the seed of a file that parses: nothing around the name, and
\* no colon in it.
GoodKey(k) ==
    /\ k.name = [lead |-> "", parts |-> k.name.parts]
    /\ Len(k.name.parts) = 1 /\ k.name.parts[1] # ""

\* The record's one signature.
Signs(r, k, f) == r.sigs = <<Signature(k, f)>> /\ GoodKey(k)

SignedBy(dir, r, k) == Signs(r, k, Fingerprint(dir, r))

\* Two records but for what the payload and the signature say.
SameClaim(r, q) ==
    /\ r.store_path = q.store_path /\ r.nar_hash = q.nar_hash /\ r.nar_size = q.nar_size
    /\ r.references = q.references /\ r.deriver = q.deriver /\ r.ca = q.ca

LEMMA SameFingerprint ==
  ASSUME NEW dir, NEW r, NEW q, SameClaim(r, q)
  PROVE  Fingerprint(dir, r) = Fingerprint(dir, q)
BY DEF SameClaim, Fingerprint

LEMMA Resigned ==
  ASSUME NEW dir, NEW r, NEW k, r = Shape(r), NEW q, q = Resign(dir, r, k)
  PROVE  /\ q = Shape(q) /\ SameClaim(q, r)
         /\ q.compression = r.compression /\ q.file_hash = r.file_hash
         /\ q.file_size = r.file_size
         /\ q.sigs = <<Signature(k, Fingerprint(dir, q))>>
<1>1. PICK s : s = <<Signature(k, Fingerprint(dir, r))>>
  OBVIOUS
<1>2. q = [Shape(r) EXCEPT !.sigs = s]
  BY <1>1 DEF Resign
<1>3. /\ q = Shape(q) /\ SameClaim(q, r)
      /\ q.compression = r.compression /\ q.file_hash = r.file_hash
      /\ q.file_size = r.file_size /\ q.sigs = s
  BY ONLY <1>2 DEF Shape, SameClaim
<1>4. Fingerprint(dir, q) = Fingerprint(dir, r)
  BY ONLY <1>3, SameFingerprint
<1>5. QED BY ONLY <1>1, <1>3, <1>4

LEMMA ResignedSound ==
  ASSUME NEW dir, NEW r, Sound(r), NEW k, GoodKey(k), NEW q, q = Resign(dir, r, k)
  PROVE  /\ Sound(q) /\ SignedBy(dir, q, k) /\ SameClaim(q, r)
         /\ \A u : Holds(u, r) => Holds(u, q)
<1>1. /\ q = Shape(q) /\ SameClaim(q, r)
      /\ q.compression = r.compression /\ q.file_hash = r.file_hash
      /\ q.file_size = r.file_size
      /\ q.sigs = <<Signature(k, Fingerprint(dir, q))>>
  BY Resigned DEF Sound
<1>2. Sound(q)
  BY ONLY <1>1, Sound(r) DEF Sound, SameClaim
<1>3. SignedBy(dir, q, k)
  BY ONLY <1>1, GoodKey(k) DEF SignedBy, Signs
<1>4. \A u : Holds(u, r) => Holds(u, q)
  BY ONLY <1>1 DEF Holds, SameClaim
<1>5. QED BY ONLY <1>1, <1>2, <1>3, <1>4

LEMMA UploadTyped ==
  ASSUME NEW u \in Uploads
  PROVE  /\ u.nar_hash \in Digest /\ u.nar_size \in 1 .. U64Max
         /\ u.file_hash \in Digest /\ u.file_size \in 0 .. U64Max
         /\ u.compression \in Compression
BY UploadsAssumption DEF Digest, Byte

\* What publish makes of a body it accepts.
LEMMA RecordSound ==
  ASSUME NEW body, NEW r, Declares(body, r), NEW u \in Uploads,
         u.nar_hash = r.nar_hash, u.nar_size = r.nar_size,
         NEW k, GoodKey(k), NEW dir, NEW p, p = Resign(dir, Placed(r, u), k)
  PROVE  Sound(p) /\ SignedBy(dir, p, k) /\ SameClaim(p, r) /\ Holds(u, p)
<1>1. PICK q : q = Placed(r, u)
  OBVIOUS
<1>2. r = Shape(r)
  BY DEF Declares
<1>3. /\ q = Shape(q) /\ SameClaim(q, r) /\ q.compression = u.compression
      /\ q.file_hash = u.file_hash /\ q.file_size = u.file_size
  <2>1. q = [Shape(r) EXCEPT !.compression = u.compression,
                             !.file_hash = u.file_hash,
                             !.file_size = u.file_size]
    BY ONLY <1>1, <1>2 DEF Placed
  <2>2. QED BY ONLY <2>1 DEF Shape, SameClaim
<1>4. /\ u.nar_hash \in Digest /\ u.nar_size \in 1 .. U64Max
      /\ u.file_hash \in Digest /\ u.file_size \in 0 .. U64Max
      /\ u.compression \in Compression
  BY UploadTyped
<1>5. /\ r.store_path \in Path /\ r.references \in Seq(Path) /\ Known(r.deriver)
      /\ r.ca = <<>> \/ \E v : r.ca = <<v>>
  BY DEF Declares
<1>6. Sound(q) /\ Holds(u, q)
  BY ONLY <1>3, <1>4, <1>5, u.nar_hash = r.nar_hash, u.nar_size = r.nar_size
     DEF Sound, SameClaim, Holds
<1>7. p = Resign(dir, q, k)
  BY ONLY <1>1, p = Resign(dir, Placed(r, u), k)
<1>8. Sound(p) /\ SignedBy(dir, p, k) /\ SameClaim(p, q) /\ Holds(u, p)
  BY ONLY <1>6, <1>7, ResignedSound, GoodKey(k)
<1>9. SameClaim(p, r)
  BY ONLY <1>3, <1>8 DEF SameClaim
<1>10. QED BY ONLY <1>8, <1>9

-----------------------------------------------------------------------------
(* render, line by line.                                                   *)

Joined(s, t, u, T) ==
    /\ u \in Seq(T) /\ Len(u) = Len(s) + Len(t)
    /\ \A i \in 1 .. Len(s) : u[i] = s[i]
    /\ \A i \in 1 .. Len(t) : u[Len(s) + i] = t[i]

LEMMA Join ==
  ASSUME NEW T, NEW s \in Seq(T), NEW t \in Seq(T)
  PROVE  Joined(s, t, s \o t, T)
BY DEF Joined

\* The eight lines every record has.
Always(dir, r, b) ==
    /\ b[1] = Line("StorePath", <<FullPath(dir, r.store_path)>>)
    /\ b[2] = Line("URL", <<Url(r)>>)
    /\ b[3] = Line("Compression", <<Plain(r.compression)>>)
    /\ b[4] = Line("FileHash", <<PrintDigest(r.file_hash)>>)
    /\ b[5] = Line("FileSize", <<Number(r.file_size)>>)
    /\ b[6] = Line("NarHash", <<PrintDigest(r.nar_hash)>>)
    /\ b[7] = Line("NarSize", <<Number(r.nar_size)>>)
    /\ b[8] = References(r)

\* The lines behind them.
Rendered(dir, r, b) ==
    /\ Len(r.deriver) \in {0, 1} /\ Len(r.ca) \in {0, 1}
    /\ Len(b) = 9 + Len(r.deriver) + Len(r.ca) /\ DOMAIN b = 1 .. Len(b)
    /\ Always(dir, r, b)
    /\ Len(r.deriver) = 1 => b[9] = Line("Deriver", <<Base(r.deriver[1])>>)
    /\ b[9 + Len(r.deriver)] = SigLine(r.sigs[1])
    /\ Len(r.ca) = 1 => b[10 + Len(r.deriver)] = Line("CA", r.ca[1])

LEMMA RenderLines ==
  ASSUME NEW dir, NEW r, Sound(r), NEW s, r.sigs = <<s>>
  PROVE  Rendered(dir, r, Render(dir, r))
<1>1. PICK a, d, g, c :
        /\ a = << Line("StorePath", <<FullPath(dir, r.store_path)>>),
                  Line("URL", <<Url(r)>>),
                  Line("Compression", <<Plain(r.compression)>>),
                  Line("FileHash", <<PrintDigest(r.file_hash)>>),
                  Line("FileSize", <<Number(r.file_size)>>),
                  Line("NarHash", <<PrintDigest(r.nar_hash)>>),
                  Line("NarSize", <<Number(r.nar_size)>>),
                  References(r) >>
        /\ d = Deriver(r)
        /\ g = [i \in DOMAIN r.sigs |-> SigLine(r.sigs[i])]
        /\ c = [i \in DOMAIN r.ca |-> Line("CA", r.ca[i])]
  OBVIOUS
<1>2. Render(dir, r) = ((a \o d) \o g) \o c
  BY ONLY <1>1 DEF Render
<1>3. PICK nd, nc : nd = Len(r.deriver) /\ nc = Len(r.ca)
  OBVIOUS
<1>4. r.deriver \in Seq(Path) /\ nd \in {0, 1} /\ DOMAIN r.deriver = 1 .. nd
  BY <1>3 DEF Sound, Known
<1>5. nc \in {0, 1} /\ DOMAIN r.ca = 1 .. nc
  <2>1. CASE r.ca = <<>>
    BY <1>3, <2>1
  <2>2. CASE \E v : r.ca = <<v>>
    BY <1>3, <2>2
  <2>3. QED BY <2>1, <2>2 DEF Sound
<1>6. PICK T : T = {a[i] : i \in 1 .. 8} \cup {d[i] : i \in 1 .. nd} \cup {g[1]}
                   \cup {c[i] : i \in 1 .. nc}
  OBVIOUS
<1>7. a \in Seq(T) /\ Len(a) = 8 /\ Always(dir, r, a)
  <2>1. Len(a) = 8 /\ DOMAIN a = 1 .. 8
    BY ONLY <1>1
  <2>2. Always(dir, r, a)
    BY ONLY <1>1 DEF Always
  <2>3. a \in Seq({a[i] : i \in 1 .. 8})
    BY ONLY <1>1
  <2>4. a \in [1 .. 8 -> T]
    BY ONLY <1>6, <2>1, <2>3
  <2>5. QED BY ONLY <2>1, <2>2, <2>4, LenOf
<1>8. d \in Seq(T) /\ Len(d) = nd /\ \A i \in 1 .. nd : d[i] = Line("Deriver", <<Base(r.deriver[i])>>)
  <2>1. d = [i \in 1 .. nd |-> Line("Deriver", <<Base(r.deriver[i])>>)]
    BY ONLY <1>1, <1>4 DEF Deriver
  <2>2. d \in [1 .. nd -> T]
    BY ONLY <1>6, <2>1
  <2>3. nd \in Nat
    BY ONLY <1>4
  <2>4. QED BY ONLY <2>1, <2>2, <2>3, LenOf
<1>9. g \in Seq(T) /\ Len(g) = 1 /\ g[1] = SigLine(r.sigs[1])
  <2>1. DOMAIN r.sigs = 1 .. 1
    OBVIOUS
  <2>2. g = [i \in 1 .. 1 |-> SigLine(r.sigs[i])]
    BY ONLY <1>1, <2>1
  <2>3. g \in [1 .. 1 -> T]
    BY ONLY <1>6, <2>2
  <2>4. QED BY ONLY <2>2, <2>3, LenOf
<1>10. c \in Seq(T) /\ Len(c) = nc /\ \A i \in 1 .. nc : c[i] = Line("CA", r.ca[i])
  <2>1. c = [i \in 1 .. nc |-> Line("CA", r.ca[i])]
    BY ONLY <1>1, <1>5
  <2>2. c \in [1 .. nc -> T]
    BY ONLY <1>6, <2>1
  <2>3. nc \in Nat
    BY ONLY <1>5
  <2>4. QED BY ONLY <2>1, <2>2, <2>3, LenOf
<1>11. PICK x, y, b : x = a \o d /\ y = x \o g /\ b = y \o c
  OBVIOUS
<1>12. /\ x \in Seq(T) /\ Len(x) = 8 + nd /\ (\A i \in 1 .. 8 : x[i] = a[i])
       /\ (\A i \in 1 .. nd : x[8 + i] = d[i])
  <2>1. Joined(a, d, x, T)
    BY ONLY <1>7, <1>8, <1>11, Join, Zenon
  <2>2. QED BY ONLY <1>7, <1>8, <2>1 DEF Joined
<1>13. /\ y \in Seq(T) /\ Len(y) = 8 + nd + 1 /\ (\A i \in 1 .. 8 + nd : y[i] = x[i])
       /\ y[8 + nd + 1] = g[1]
  <2>1. /\ y \in Seq(T) /\ Len(y) = Len(x) + Len(g) /\ (\A i \in 1 .. Len(x) : y[i] = x[i])
        /\ (\A i \in 1 .. Len(g) : y[Len(x) + i] = g[i])
    <3>1. Joined(x, g, y, T)
      BY ONLY <1>9, <1>11, <1>12, Join, Zenon
    <3>2. QED BY ONLY <3>1 DEF Joined
  <2>2. QED BY ONLY <1>4, <1>9, <1>12, <2>1
<1>14. /\ b \in Seq(T) /\ Len(b) = 8 + nd + 1 + nc
       /\ (\A i \in 1 .. 8 + nd + 1 : b[i] = y[i])
       /\ (\A i \in 1 .. nc : b[8 + nd + 1 + i] = c[i])
  <2>1. /\ b \in Seq(T) /\ Len(b) = Len(y) + Len(c) /\ (\A i \in 1 .. Len(y) : b[i] = y[i])
        /\ (\A i \in 1 .. Len(c) : b[Len(y) + i] = c[i])
    <3>1. Joined(y, c, b, T)
      BY ONLY <1>10, <1>11, <1>13, Join, Zenon
    <3>2. QED BY ONLY <3>1 DEF Joined
  <2>2. QED BY ONLY <1>4, <1>5, <1>10, <1>13, <2>1
<1>15. \A i \in 1 .. 8 : b[i] = a[i]
  <2>1. TAKE i \in 1 .. 8
  <2>2. i \in 1 .. 8 + nd /\ i \in 1 .. 8 + nd + 1
    BY ONLY <1>4, i \in 1 .. 8
  <2>3. b[i] = y[i] /\ y[i] = x[i] /\ x[i] = a[i]
    BY ONLY <1>12, <1>13, <1>14, <2>2, i \in 1 .. 8, Zenon
  <2>4. QED BY ONLY <2>3
<1>16. Always(dir, r, b)
  BY ONLY <1>7, <1>15 DEF Always
<1>17. nd = 1 => b[9] = Line("Deriver", <<Base(r.deriver[1])>>)
  BY ONLY <1>8, <1>12, <1>13, <1>14
<1>18. b[9 + nd] = SigLine(r.sigs[1])
  BY ONLY <1>4, <1>9, <1>13, <1>14
<1>19. nc = 1 => b[10 + nd] = Line("CA", r.ca[1])
  BY ONLY <1>4, <1>10, <1>14
<1>20. Len(b) = 9 + nd + nc /\ DOMAIN b = 1 .. Len(b)
  BY ONLY <1>4, <1>5, <1>14
<1>21. b = Render(dir, r)
  BY ONLY <1>2, <1>11
<1>22. QED BY ONLY <1>3, <1>4, <1>5, <1>16, <1>17, <1>18, <1>19, <1>20, <1>21 DEF Rendered

\* The line is read, and as this.
ReadAs(dir, l, s) == l.sep = ": " /\ Absorbs(dir, l) /\ Spelled(l) = s

LEMMA StorePathRead ==
  ASSUME NEW dir, NEW p \in Path
  PROVE  ReadAs(dir, Line("StorePath", <<FullPath(dir, p)>>), <<p>>)
<1>1. PICK w, v, l : w = FullPath(dir, p) /\ v = <<w>> /\ l = Line("StorePath", v)
  OBVIOUS
<1>2. l.key = "StorePath" /\ l.sep = ": " /\ l.value = v
  BY ONLY <1>1 DEF Line
<1>3. /\ Len(v) = 1 /\ DOMAIN v = 1 .. 1 /\ v[1] = w
       /\ [i \in DOMAIN v |-> PathOf(v[i])] = <<PathOf(w)>>
  BY ONLY <1>1
<1>4. IsFullPath(dir, w) /\ PathOf(w) = p
  BY <1>1, FullPathReads
<1>5. Absorbs(dir, l)
  BY ONLY <1>2, <1>4, <1>3 DEF Absorbs
<1>6. Spelled(l) = [i \in DOMAIN v |-> PathOf(v[i])]
  BY ONLY <1>2 DEF Spelled
<1>7. QED BY ONLY <1>1, <1>2, <1>4, <1>5, <1>6, <1>3 DEF ReadAs

LEMMA DigestRead ==
  ASSUME NEW dir, NEW d \in Digest, NEW k \in {"FileHash", "NarHash"}
  PROVE  ReadAs(dir, Line(k, <<PrintDigest(d)>>), <<d>>)
<1>1. PICK w, v, l : w = PrintDigest(d) /\ v = <<w>> /\ l = Line(k, v)
  OBVIOUS
<1>2. l.key = k /\ l.sep = ": " /\ l.value = v
  BY ONLY <1>1 DEF Line
<1>3. /\ Len(v) = 1 /\ DOMAIN v = 1 .. 1 /\ v[1] = w
       /\ [i \in DOMAIN v |-> PathOf(v[i])] = <<PathOf(w)>>
  BY ONLY <1>1
<1>4. IsDigest(w) /\ DigestOf(w) = d
  BY <1>1, DigestReads
<1>5. Absorbs(dir, l)
  BY ONLY <1>2, <1>4, <1>3, k \in {"FileHash", "NarHash"} DEF Absorbs
<1>6. Spelled(l) = <<DigestOf(w)>>
  BY ONLY <1>2, <1>3, k \in {"FileHash", "NarHash"} DEF Spelled
<1>7. QED BY ONLY <1>1, <1>2, <1>4, <1>5, <1>6 DEF ReadAs

LEMMA SizeRead ==
  ASSUME NEW dir, NEW n \in 0 .. U64Max, NEW k \in {"FileSize", "NarSize"}
  PROVE  ReadAs(dir, Line(k, <<Number(n)>>), <<n>>)
<1>1. PICK w, v, l : w = Number(n) /\ v = <<w>> /\ l = Line(k, v)
  OBVIOUS
<1>2. l.key = k /\ l.sep = ": " /\ l.value = v
  BY ONLY <1>1 DEF Line
<1>3. /\ Len(v) = 1 /\ DOMAIN v = 1 .. 1 /\ v[1] = w
       /\ [i \in DOMAIN v |-> PathOf(v[i])] = <<PathOf(w)>>
  BY ONLY <1>1
<1>4. w.prefix = "" /\ w.digits = <<n>> /\ w.rest = ""
  BY ONLY <1>1 DEF Number, Word
<1>5. Len(<<n>>) = 1 /\ <<n>>[1] = n /\ n <= U64Max
  BY WidthAssumption
<1>6. IsNumber(w)
  BY ONLY <1>4, <1>5 DEF IsNumber
<1>7. Absorbs(dir, l)
  BY ONLY <1>2, <1>6, <1>3, k \in {"FileSize", "NarSize"} DEF Absorbs
<1>8. Spelled(l) = <<n>>
  BY ONLY <1>2, <1>4, <1>3, k \in {"FileSize", "NarSize"} DEF Spelled
<1>9. QED BY ONLY <1>1, <1>2, <1>7, <1>8 DEF ReadAs

LEMMA CompressionRead ==
  ASSUME NEW dir, NEW c \in Compression
  PROVE  ReadAs(dir, Line("Compression", <<Plain(c)>>), <<c>>)
<1>1. PICK w, v, l : w = Plain(c) /\ v = <<w>> /\ l = Line("Compression", v)
  OBVIOUS
<1>2. l.key = "Compression" /\ l.sep = ": " /\ l.value = v
  BY ONLY <1>1 DEF Line
<1>3. /\ Len(v) = 1 /\ DOMAIN v = 1 .. 1 /\ v[1] = w
       /\ [i \in DOMAIN v |-> PathOf(v[i])] = <<PathOf(w)>>
  BY ONLY <1>1
<1>4. Absorbs(dir, l)
  BY ONLY <1>1, <1>2, c \in Compression DEF Absorbs
<1>5. w.rest = c
  BY ONLY <1>1 DEF Plain, Word
<1>6. Spelled(l) = <<c>>
  BY ONLY <1>2, <1>5, <1>3 DEF Spelled
<1>7. QED BY ONLY <1>1, <1>2, <1>4, <1>6 DEF ReadAs

LEMMA TextRead ==
  ASSUME NEW dir, NEW v
  PROVE  ReadAs(dir, Line("URL", v), v) /\ ReadAs(dir, Line("CA", v), <<v>>)
<1>1. PICK u, l : u = Line("URL", v) /\ l = Line("CA", v)
  OBVIOUS
<1>2. u.key = "URL" /\ u.sep = ": " /\ u.value = v
  BY ONLY <1>1 DEF Line
<1>3. l.key = "CA" /\ l.sep = ": " /\ l.value = v
  BY ONLY <1>1 DEF Line
<1>4. Absorbs(dir, u) /\ Absorbs(dir, l)
  BY ONLY <1>2, <1>3 DEF Absorbs
<1>5. Spelled(u) = v /\ Spelled(l) = <<v>>
  BY ONLY <1>2, <1>3 DEF Spelled
<1>6. QED BY ONLY <1>1, <1>2, <1>3, <1>4, <1>5 DEF ReadAs

LEMMA ReferencesRead ==
  ASSUME NEW dir, NEW r, r.references \in Seq(Path)
  PROVE  ReadAs(dir, References(r), r.references)
<1>1. PICK s, n, v, l : /\ s = r.references /\ n = Len(s)
                        /\ v = [i \in DOMAIN r.references |-> Base(r.references[i])]
                        /\ l = References(r)
  OBVIOUS
<1>2. s \in Seq(Path) /\ n \in Nat /\ DOMAIN s = 1 .. n
  BY <1>1
<1>3. l = Line("References", v)
  BY ONLY <1>1 DEF References
<1>4. l.key = "References" /\ l.sep = ": " /\ l.value = v
  BY ONLY <1>3 DEF Line
<1>5. v = [i \in 1 .. n |-> Base(s[i])]
  BY ONLY <1>1, <1>2
<1>6. ASSUME NEW i \in 1 .. n
      PROVE  IsBase(v[i]) /\ PathOf(v[i]) = s[i]
  <2>1. s[i] \in Path
    BY ONLY <1>1, <1>2, i \in 1 .. n
  <2>2. v[i] = Base(s[i])
    BY ONLY <1>5, i \in 1 .. n
  <2>3. QED BY ONLY <2>1, <2>2, BaseReads
<1>7. DOMAIN v = 1 .. n
  BY ONLY <1>5
<1>8. Absorbs(dir, l)
  BY ONLY <1>4, <1>6, <1>7 DEF Absorbs
<1>9. Spelled(l) = [i \in DOMAIN v |-> PathOf(v[i])]
  BY ONLY <1>4 DEF Spelled
<1>10. Spelled(l) = [i \in 1 .. n |-> s[i]]
  BY ONLY <1>6, <1>7, <1>9
<1>11. s = [i \in 1 .. n |-> s[i]]
  BY ONLY <1>1, <1>2
<1>12. QED BY ONLY <1>1, <1>4, <1>8, <1>10, <1>11 DEF ReadAs

LEMMA DeriverRead ==
  ASSUME NEW dir, NEW p \in Path
  PROVE  /\ ReadAs(dir, Line("Deriver", <<Base(p)>>), <<p>>)
         /\ <<Base(p)>> # UnknownDeriver
<1>1. PICK w, v, l : w = Base(p) /\ v = <<w>> /\ l = Line("Deriver", v)
  OBVIOUS
<1>2. l.key = "Deriver" /\ l.sep = ": " /\ l.value = v
  BY ONLY <1>1 DEF Line
<1>3. /\ Len(v) = 1 /\ DOMAIN v = 1 .. 1 /\ v[1] = w
       /\ [i \in DOMAIN v |-> PathOf(v[i])] = <<PathOf(w)>>
  BY ONLY <1>1
<1>4. IsBase(w) /\ PathOf(w) = p
  BY <1>1, BaseReads
<1>5. Absorbs(dir, l)
  BY ONLY <1>2, <1>4, <1>3 DEF Absorbs
<1>6. Spelled(l) = [i \in DOMAIN v |-> PathOf(v[i])]
  BY ONLY <1>2 DEF Spelled
<1>7. <<w>> # UnknownDeriver
  <2>1. Len(w.digits) = TextLen(HashWidth) /\ TextLen(HashWidth) # 0
    BY <1>4, WidthAssumption, Reach DEF IsBase, Decodable
  <2>2. Plain("unknown-deriver").digits = <<>> /\ Len(<<>>) = 0
    BY DEF Plain, Word
  <2>3. w # Plain("unknown-deriver")
    BY ONLY <2>1, <2>2
  <2>4. QED BY ONLY <2>3 DEF UnknownDeriver
<1>8. QED BY ONLY <1>1, <1>2, <1>4, <1>5, <1>6, <1>7, <1>3 DEF ReadAs

LEMMA SigRead ==
  ASSUME NEW dir, NEW k, GoodKey(k), NEW f
  PROVE  ReadAs(dir, SigLine(Signature(k, f)), <<Signature(k, f)>>)
<1>1. PICK s, l : s = Signature(k, f) /\ l = SigLine(s)
  OBVIOUS
<1>2. l.key = "Sig" /\ l.sep = ": " /\ l.sig = <<s>>
  BY ONLY <1>1 DEF SigLine
<1>3. IsSignature(s)
  <2>1. s.name = k.name
    BY <1>1 DEF Signature
  <2>2. PICK u : u = Spell(s.name, <<>>)
    OBVIOUS
  <2>3. u.padded = FALSE
    BY ONLY <2>1, <2>2 DEF Spell
  <2>4. u.name = k.name
    BY ONLY <2>1, <2>2 DEF Spell
  <2>5. Len(k.name.parts) = 1 /\ k.name.parts[1] # ""
    BY DEF GoodKey
  <2>6. IsMaterial(u)
    <3>1. ~u.padded
      BY ONLY <2>3, Zenon
    <3>2. Len(u.name.parts) >= 1 /\ Len(u.name.parts) = 1 /\ u.name.parts[1] # ""
      <4>1. Len(u.name.parts) = 1 /\ u.name.parts[1] # ""
        BY ONLY <2>4, <2>5, Zenon
      <4>2. 1 >= 1
        OBVIOUS
      <4>3. QED BY ONLY <4>1, <4>2, Zenon
    <3>3. QED BY ONLY <3>1, <3>2, Zenon DEF IsMaterial
  <2>7. QED BY ONLY <2>2, <2>6 DEF IsSignature
<1>4. <<s>> # <<>> /\ <<s>>[1] = s
  OBVIOUS
<1>5. Absorbs(dir, l)
  BY ONLY <1>2, <1>3, <1>4 DEF Absorbs
<1>6. Spelled(l) = <<s>>
  BY ONLY <1>2 DEF Spelled
<1>7. QED BY ONLY <1>1, <1>2, <1>5, <1>6 DEF ReadAs

\* Line i, and no other, has the key k.
Sole(b, k, i) == i \in 1 .. Len(b) /\ \A j \in 1 .. Len(b) : b[j].key = k <=> j = i

LEMMA SoleIsLast ==
  ASSUME NEW b, Len(b) \in Nat, NEW k, NEW i, Sole(b, k, i)
  PROVE  Final(b, k, i) /\ \A j \in 1 .. i - 1 : b[j].key # k
<1>1. i \in 1 .. Len(b) /\ \A j \in 1 .. Len(b) : b[j].key = k <=> j = i
  BY DEF Sole
<1>2. \A j \in i + 1 .. Len(b) : j \in 1 .. Len(b) /\ j # i
  BY ONLY <1>1, Len(b) \in Nat
<1>3. \A j \in 1 .. i - 1 : j \in 1 .. Len(b) /\ j # i
  BY ONLY <1>1, Len(b) \in Nat
<1>4. QED BY ONLY <1>1, <1>2, <1>3 DEF Final

LEMMA LineKey ==
  ASSUME NEW k, NEW v
  PROVE  Line(k, v).key = k /\ SigLine(v).key = "Sig"
BY DEF Line, SigLine

LEMMA RenderKeys ==
  ASSUME NEW dir, NEW r, NEW b, Rendered(dir, r, b)
  PROVE  /\ Sole(b, "StorePath", 1) /\ Sole(b, "URL", 2) /\ Sole(b, "Compression", 3)
         /\ Sole(b, "FileHash", 4) /\ Sole(b, "FileSize", 5) /\ Sole(b, "NarHash", 6)
         /\ Sole(b, "NarSize", 7) /\ Sole(b, "References", 8)
         /\ Sole(b, "Sig", 9 + Len(r.deriver))
         /\ Len(r.deriver) = 1 => Sole(b, "Deriver", 9)
         /\ Len(r.deriver) = 0 => \A j \in 1 .. Len(b) : b[j].key # "Deriver"
         /\ Len(r.ca) = 1 => Sole(b, "CA", 10 + Len(r.deriver))
         /\ Len(r.ca) = 0 => \A j \in 1 .. Len(b) : b[j].key # "CA"
<1>1. PICK n, nd, nc, key :
        /\ n = Len(b) /\ nd = Len(r.deriver) /\ nc = Len(r.ca)
        /\ key = [j \in 1 .. n |-> b[j].key]
  OBVIOUS
<1>2. nd \in {0, 1} /\ nc \in {0, 1} /\ n = 9 + nd + nc
  BY ONLY <1>1, Rendered(dir, r, b) DEF Rendered
<1>3. /\ b[1].key = "StorePath" /\ b[2].key = "URL" /\ b[3].key = "Compression"
      /\ b[4].key = "FileHash" /\ b[5].key = "FileSize" /\ b[6].key = "NarHash"
      /\ b[7].key = "NarSize" /\ b[8].key = "References"
  BY ONLY Rendered(dir, r, b), LineKey DEF Rendered, Always, References
<1>4. b[9 + nd].key = "Sig" /\ (nd = 1 => b[9].key = "Deriver") /\ (nc = 1 => b[10 + nd].key = "CA")
  <2>1. /\ nd = 1 => b[9] = Line("Deriver", <<Base(r.deriver[1])>>)
        /\ b[9 + nd] = SigLine(r.sigs[1])
        /\ nc = 1 => b[10 + nd] = Line("CA", r.ca[1])
    BY ONLY <1>1, Rendered(dir, r, b) DEF Rendered
  <2>2. QED BY ONLY <2>1, LineKey
<1>5. \A j \in 1 .. n : \/ j \in 1 .. 8
                        \/ nd = 1 /\ j = 9
                        \/ j = 9 + nd
                        \/ nc = 1 /\ j = 10 + nd
  BY ONLY <1>2
<1>6. \A j \in 1 .. 8 : j = 1 \/ j = 2 \/ j = 3 \/ j = 4 \/ j = 5 \/ j = 6 \/ j = 7 \/ j = 8
  OBVIOUS
<1>7. \A j \in 1 .. n :
         \/ j = 1 /\ b[j].key = "StorePath"
         \/ j = 2 /\ b[j].key = "URL"
         \/ j = 3 /\ b[j].key = "Compression"
         \/ j = 4 /\ b[j].key = "FileHash"
         \/ j = 5 /\ b[j].key = "FileSize"
         \/ j = 6 /\ b[j].key = "NarHash"
         \/ j = 7 /\ b[j].key = "NarSize"
         \/ j = 8 /\ b[j].key = "References"
         \/ nd = 1 /\ j = 9 /\ b[j].key = "Deriver"
         \/ j = 9 + nd /\ b[j].key = "Sig"
         \/ nc = 1 /\ j = 10 + nd /\ b[j].key = "CA"
  BY ONLY <1>3, <1>4, <1>5, <1>6
<1>8. (1 .. 8) \subseteq 1 .. n /\ (nd = 1 => 9 \in 1 .. n) /\ 9 + nd \in 1 .. n
      /\ (nc = 1 => 10 + nd \in 1 .. n) /\ n \in Nat
  BY ONLY <1>2
<1>9. ASSUME NEW i \in 1 .. 8
      PROVE  Sole(b, b[i].key, i)
  <2>1. i \in 1 .. n
    BY ONLY <1>8, i \in 1 .. 8
  <2>2. \A j \in 1 .. n : b[j].key = b[i].key <=> j = i
    BY ONLY <1>2, <1>7, <2>1, i \in 1 .. 8
  <2>3. QED BY ONLY <1>1, <2>1, <2>2 DEF Sole
<1>10. /\ Sole(b, "StorePath", 1) /\ Sole(b, "URL", 2) /\ Sole(b, "Compression", 3)
       /\ Sole(b, "FileHash", 4) /\ Sole(b, "FileSize", 5) /\ Sole(b, "NarHash", 6)
       /\ Sole(b, "NarSize", 7) /\ Sole(b, "References", 8)
  <2>1. {1, 2, 3, 4, 5, 6, 7, 8} \subseteq 1 .. 8
    OBVIOUS
  <2>2. QED BY ONLY <1>3, <1>9, <2>1
<1>11. Sole(b, "Sig", 9 + nd)
  BY ONLY <1>1, <1>2, <1>4, <1>7, <1>8 DEF Sole
<1>12. nd = 1 => Sole(b, "Deriver", 9)
  BY ONLY <1>1, <1>2, <1>4, <1>7, <1>8 DEF Sole
<1>13. nc = 1 => Sole(b, "CA", 10 + nd)
  BY ONLY <1>1, <1>2, <1>4, <1>7, <1>8 DEF Sole
<1>14. nd = 0 => \A j \in 1 .. n : b[j].key # "Deriver"
  BY ONLY <1>7
<1>15. nc = 0 => \A j \in 1 .. n : b[j].key # "CA"
  BY ONLY <1>7
<1>16. QED BY ONLY <1>1, <1>10, <1>11, <1>12, <1>13, <1>14, <1>15

LEMMA Option ==
  ASSUME NEW T, NEW s \in Seq(T)
  PROVE  /\ Len(s) = 0 => s = <<>>
         /\ Len(s) = 1 => s[1] \in T /\ s = <<s[1]>>
OBVIOUS

LEMMA SoleField ==
  ASSUME NEW dir, NEW b, Len(b) \in Nat, NEW k \in Field \ {"References", "Sig"}, NEW i, NEW s,
         Sole(b, k, i), ReadAs(dir, b[i], s), ~(k = "Deriver" /\ b[i].value = UnknownDeriver)
  PROVE  Draft(b)[k] = s
<1>1. Final(b, k, i)
  BY SoleIsLast
<1>2. Draft(b)[k] = Spelled(b[i])
  BY <1>1, Stands
<1>3. QED BY <1>2 DEF ReadAs

LEMMA SoleListField ==
  ASSUME NEW dir, NEW b, Len(b) \in Nat, NEW k \in {"References", "Sig"}, NEW i, NEW T, NEW s \in Seq(T),
         Sole(b, k, i), ReadAs(dir, b[i], s)
  PROVE  Draft(b)[k] = s
<1>1. Final(b, k, i) /\ \A j \in 1 .. i - 1 : b[j].key # k
  BY SoleIsLast
<1>2. Draft(b)[k] = <<>> \o Spelled(b[i])
  BY <1>1, SoleList
<1>3. Spelled(b[i]) = s
  BY DEF ReadAs
<1>4. <<>> \o s = s
  OBVIOUS
<1>5. QED BY ONLY <1>2, <1>3, <1>4

LEMMA RenderParses ==
  ASSUME NEW dir, NEW r, Sound(r), NEW k, NEW f, Signs(r, k, f)
  PROVE  /\ Parses(dir, Render(dir, r)) /\ Parse(Render(dir, r)) = r
         /\ ClientReads(Render(dir, r)) /\ Rendered(dir, r, Render(dir, r))
<1>1. PICK b, d, nd, nc, g : /\ b = Render(dir, r) /\ d = Draft(b) /\ nd = Len(r.deriver)
                             /\ nc = Len(r.ca) /\ g = Signature(k, f)
  OBVIOUS
<1>2. r.sigs = <<g>> /\ r.sigs[1] = g /\ GoodKey(k)
  <2>1. r.sigs = <<g>> /\ GoodKey(k)
    BY <1>1 DEF Signs
  <2>2. QED BY <2>1
<1>3. Rendered(dir, r, b)
  BY ONLY <1>1, <1>2, RenderLines, Sound(r)
<1>4. /\ nd \in {0, 1} /\ nc \in {0, 1} /\ Len(b) = 9 + nd + nc /\ DOMAIN b = 1 .. Len(b)
      /\ Always(dir, r, b)
      /\ nd = 1 => b[9] = Line("Deriver", <<Base(r.deriver[1])>>)
      /\ b[9 + nd] = SigLine(g)
      /\ nc = 1 => b[10 + nd] = Line("CA", r.ca[1])
  BY ONLY <1>1, <1>2, <1>3 DEF Rendered
<1>5. Len(b) \in Nat
  BY ONLY <1>4
<1>6. /\ Sole(b, "StorePath", 1) /\ Sole(b, "URL", 2) /\ Sole(b, "Compression", 3)
      /\ Sole(b, "FileHash", 4) /\ Sole(b, "FileSize", 5) /\ Sole(b, "NarHash", 6)
      /\ Sole(b, "NarSize", 7) /\ Sole(b, "References", 8)
      /\ Sole(b, "Sig", 9 + nd)
      /\ nd = 1 => Sole(b, "Deriver", 9)
      /\ nd = 0 => \A j \in 1 .. Len(b) : b[j].key # "Deriver"
      /\ nc = 1 => Sole(b, "CA", 10 + nd)
      /\ nc = 0 => \A j \in 1 .. Len(b) : b[j].key # "CA"
  BY ONLY <1>1, <1>3, RenderKeys
<1>7. /\ r = Shape(r) /\ r.store_path \in Path /\ r.nar_hash \in Digest
      /\ r.compression \in Compression /\ r.file_hash \in Digest
      /\ r.file_size \in 0 .. U64Max /\ r.nar_size \in 0 .. U64Max /\ r.nar_size # 0
      /\ r.references \in Seq(Path) /\ Known(r.deriver)
      /\ r.ca = <<>> \/ \E v : r.ca = <<v>>
  BY WidthAssumption DEF Sound
<1>8. ReadAs(dir, b[1], <<r.store_path>>)
  BY ONLY <1>4, <1>7, StorePathRead DEF Always
<1>9. ReadAs(dir, b[2], <<Url(r)>>)
  BY ONLY <1>4, TextRead DEF Always
<1>10. ReadAs(dir, b[3], <<r.compression>>)
  BY ONLY <1>4, <1>7, CompressionRead DEF Always
<1>11. ReadAs(dir, b[4], <<r.file_hash>>)
  BY ONLY <1>4, <1>7, DigestRead DEF Always
<1>12. ReadAs(dir, b[5], <<r.file_size>>)
  BY ONLY <1>4, <1>7, SizeRead DEF Always
<1>13. ReadAs(dir, b[6], <<r.nar_hash>>)
  BY ONLY <1>4, <1>7, DigestRead DEF Always
<1>14. ReadAs(dir, b[7], <<r.nar_size>>)
  BY ONLY <1>4, <1>7, SizeRead DEF Always
<1>15. ReadAs(dir, b[8], r.references)
  BY ONLY <1>4, <1>7, ReferencesRead DEF Always
<1>16. ReadAs(dir, b[9 + nd], <<g>>)
  BY ONLY <1>1, <1>2, <1>4, SigRead
<1>17. nd = 1 => /\ ReadAs(dir, b[9], r.deriver) /\ b[9].value # UnknownDeriver
  <2> HAVE nd = 1
  <2>1. r.deriver[1] \in Path /\ r.deriver = <<r.deriver[1]>>
    <3>1. r.deriver \in Seq(Path) /\ Len(r.deriver) = 1
      BY ONLY <1>1, <1>7, nd = 1 DEF Known
    <3>2. QED BY ONLY <3>1, Option
  <2>2. b[9] = Line("Deriver", <<Base(r.deriver[1])>>)
    BY <1>4
  <2>3. ReadAs(dir, b[9], <<r.deriver[1]>>) /\ <<Base(r.deriver[1])>> # UnknownDeriver
    BY ONLY <2>1, <2>2, DeriverRead
  <2>4. b[9].value = <<Base(r.deriver[1])>>
    <3>1. ASSUME NEW x, NEW v
          PROVE  Line(x, v).value = v
      BY DEF Line
    <3>2. QED BY ONLY <2>2, <3>1
  <2>5. QED BY ONLY <2>1, <2>3, <2>4
<1>18. nc = 1 => ReadAs(dir, b[10 + nd], r.ca)
  <2> HAVE nc = 1
  <2>1. r.ca = <<r.ca[1]>>
    <3>1. Len(<<>>) # 1
      OBVIOUS
    <3>2. PICK v : r.ca = <<v>>
      BY ONLY <1>1, <1>7, <3>1, nc = 1
    <3>3. QED BY ONLY <3>2
  <2>2. ReadAs(dir, b[10 + nd], <<r.ca[1]>>)
    BY ONLY <1>4, TextRead, nc = 1
  <2>3. QED BY ONLY <2>1, <2>2
<1>19. {"StorePath", "URL", "Compression", "FileHash", "FileSize", "NarHash", "NarSize", "CA"}
          \subseteq Field \ {"References", "Sig", "Deriver"}
       /\ "Deriver" \in Field \ {"References", "Sig"}
  BY DEF Field
<1>20. /\ d["StorePath"] = <<r.store_path>> /\ d["URL"] = <<Url(r)>>
       /\ d["Compression"] = <<r.compression>> /\ d["FileHash"] = <<r.file_hash>>
  <2>1. d["StorePath"] = <<r.store_path>>
    BY ONLY <1>1, <1>5, <1>6, <1>8, <1>19, SoleField
  <2>2. d["URL"] = <<Url(r)>>
    BY ONLY <1>1, <1>5, <1>6, <1>9, <1>19, SoleField
  <2>3. d["Compression"] = <<r.compression>>
    BY ONLY <1>1, <1>5, <1>6, <1>10, <1>19, SoleField
  <2>4. d["FileHash"] = <<r.file_hash>>
    BY ONLY <1>1, <1>5, <1>6, <1>11, <1>19, SoleField
  <2>5. QED BY ONLY <2>1, <2>2, <2>3, <2>4
<1>21. /\ d["FileSize"] = <<r.file_size>> /\ d["NarHash"] = <<r.nar_hash>>
       /\ d["NarSize"] = <<r.nar_size>>
  <2>1. d["FileSize"] = <<r.file_size>>
    BY ONLY <1>1, <1>5, <1>6, <1>12, <1>19, SoleField
  <2>2. d["NarHash"] = <<r.nar_hash>>
    BY ONLY <1>1, <1>5, <1>6, <1>13, <1>19, SoleField
  <2>3. d["NarSize"] = <<r.nar_size>>
    BY ONLY <1>1, <1>5, <1>6, <1>14, <1>19, SoleField
  <2>4. QED BY ONLY <2>1, <2>2, <2>3
<1>22. d["References"] = r.references
  BY ONLY <1>1, <1>5, <1>6, <1>7, <1>15, SoleListField
<1>23. d["Sig"] = r.sigs
  <2>1. <<g>> \in Seq({g})
    OBVIOUS
  <2>2. QED BY ONLY <1>1, <1>2, <1>5, <1>6, <1>16, <2>1, SoleListField
<1>24. d["Deriver"] = r.deriver
  <2>1. CASE nd = 1
    BY ONLY <1>1, <1>5, <1>6, <1>17, <1>19, <2>1, SoleField
  <2>2. CASE nd = 0
    <3>1. d["Deriver"] = <<>>
      BY ONLY <1>1, <1>5, <1>6, <1>19, <2>2, Unnamed
    <3>2. r.deriver = <<>>
      <4>1. r.deriver \in Seq(Path) /\ Len(r.deriver) = 0
        BY ONLY <1>1, <1>7, <2>2 DEF Known
      <4>2. QED BY ONLY <4>1, Option
    <3>3. QED BY ONLY <3>1, <3>2
  <2>3. QED BY ONLY <1>4, <2>1, <2>2
<1>25. d["CA"] = r.ca
  <2>1. CASE nc = 1
    BY ONLY <1>1, <1>5, <1>6, <1>18, <1>19, <2>1, SoleField
  <2>2. CASE nc = 0
    <3>1. d["CA"] = <<>>
      BY ONLY <1>1, <1>5, <1>6, <1>19, <2>2, Unnamed
    <3>2. r.ca = <<>>
      <4>1. ASSUME NEW v
            PROVE  Len(<<v>>) # 0
        OBVIOUS
      <4>2. QED BY ONLY <1>1, <1>7, <2>2, <4>1
    <3>3. QED BY ONLY <3>1, <3>2
  <2>3. QED BY ONLY <1>4, <2>1, <2>2
<1>26. \A i \in DOMAIN b : Splits(b[i]) /\ Absorbs(dir, b[i])
  <2>1. TAKE i \in DOMAIN b
  <2>2. \/ i = 1 \/ i = 2 \/ i = 3 \/ i = 4 \/ i = 5 \/ i = 6 \/ i = 7 \/ i = 8
        \/ nd = 1 /\ i = 9
        \/ i = 9 + nd
        \/ nc = 1 /\ i = 10 + nd
    BY ONLY <1>4, i \in DOMAIN b
  <2>3. \E s : ReadAs(dir, b[i], s)
    BY ONLY <1>8, <1>9, <1>10, <1>11, <1>12, <1>13, <1>14, <1>15, <1>16, <1>17, <1>18, <2>2
  <2>4. QED BY ONLY <2>3 DEF ReadAs, Splits
<1>27. ClientReads(b)
  <2>1. ASSUME NEW i \in DOMAIN b
        PROVE  b[i].sep = ": "
    <3>1. \/ i = 1 \/ i = 2 \/ i = 3 \/ i = 4 \/ i = 5 \/ i = 6 \/ i = 7 \/ i = 8
          \/ nd = 1 /\ i = 9
          \/ i = 9 + nd
          \/ nc = 1 /\ i = 10 + nd
      BY ONLY <1>4, i \in DOMAIN b
    <3>2. \E s : ReadAs(dir, b[i], s)
      BY ONLY <1>8, <1>9, <1>10, <1>11, <1>12, <1>13, <1>14, <1>15, <1>16, <1>17, <1>18, <3>1
    <3>3. QED BY ONLY <3>2 DEF ReadAs
  <2>2. QED BY ONLY <2>1 DEF ClientReads
<1>28. Finishes(d)
  <2>1. <<r.nar_size>>[1] # 0
    BY ONLY <1>7
  <2>2. ASSUME NEW x
        PROVE  <<x>> # <<>>
    OBVIOUS
  <2>3. d["StorePath"] # <<>> /\ d["URL"] # <<>> /\ d["FileHash"] # <<>>
    BY ONLY <1>20, <2>2
  <2>4. d["FileSize"] # <<>> /\ d["NarHash"] # <<>> /\ d["NarSize"] # <<>>
    BY ONLY <1>21, <2>2
  <2>5. d["NarSize"][1] # 0
    BY ONLY <1>21, <2>1
  <2>6. QED BY ONLY <2>3, <2>4, <2>5 DEF Finishes
<1>29. Parses(dir, b)
  BY ONLY <1>1, <1>26, <1>28 DEF Parses
<1>30. Finish(d) = Shape(r)
  BY ONLY <1>20, <1>21, <1>22, <1>23, <1>24, <1>25 DEF Finish, Shape
<1>31. QED BY ONLY <1>1, <1>3, <1>7, <1>29, <1>30, <1>27 DEF Parse

\* The "render round-trip property", of records and not of states: parse is the
\* inverse of render, whatever the references, the deriver, the CA and the key
\* of the record, whatever it was signed for and whatever the store directory,
\* for hashes of any width and sizes of any bound.
THEOREM RoundTrip ==
  ASSUME NEW dir, NEW r, Sound(r), NEW k, NEW f, Signs(r, k, f)
  PROVE  Parses(dir, Render(dir, r)) /\ Parse(Render(dir, r)) = r
BY RenderParses

-----------------------------------------------------------------------------
(* The invariant.                                                          *)

\* A record of the table is sound, is where its path says, has the payload of
\* an artifact that was stored, and is signed for some directory with a key
\* whose public half was shown.
Held(r, h, keys, arts) ==
    /\ Sound(r) /\ r.store_path.hash = h
    /\ \E u \in arts : Holds(u, r)
    /\ \E k, dir : SignedBy(dir, r, k) /\ PublicText(k) \in keys

\* Every row is that of an artifact that was stored.
Rows(rows, arts) ==
    /\ arts \subseteq Uploads
    /\ \A n \in DOMAIN rows : rows[n] \in arts /\ rows[n].nar_hash = n

\* A server runs with a key that a file holds and that was shown.
Running(key, keys) ==
    /\ GoodKey(key) /\ PublicText(key) \in keys
    /\ \E file \in Usable : SecretKeyOf(file) = key

\* What was served is the record the key spells.
Fetched(asked, body) ==
    /\ asked.key \in Keys
    /\ \E r, k, f, dir : /\ Sound(r) /\ Signs(r, k, f) /\ body = Render(dir, r)
                         /\ r.store_path.hash = Decode(asked.key, HashWidth)

\* What was pushed is in the table.
Stored(asked, tab) ==
    /\ Typed(asked.body) /\ \E dir : Parses(dir, asked.body)
    /\ LET declared == Parse(asked.body)
       IN  /\ declared.store_path.hash \in DOMAIN tab
           /\ SameClaim(tab[declared.store_path.hash], declared)

Inv ==
    /\ \A h \in DOMAIN table : Held(table[h], h, shown, stored)
    /\ Rows(nars, stored)
    /\ signer # NoKey => Running(signer, shown)
    /\ refused \subseteq KeyFiles \ Usable
    /\ signer = NoKey => answer = 0
    /\ answer = 200 => Fetched(request, served)
    /\ answer = 201 => Stored(request, table)

LEMMA HeldKept ==
  ASSUME NEW r, NEW h, NEW keys, NEW more, NEW arts, NEW others, Held(r, h, keys, arts),
         keys \subseteq more, arts \subseteq others
  PROVE  Held(r, h, more, others)
BY DEF Held

LEMMA AcceptedDeclares ==
  ASSUME NEW body \in Bodies, Errors(body) = {}
  PROVE  /\ Typed(body) /\ Parses(store_dir, body) /\ Declares(body, Parse(body))
         /\ Parse(body).nar_hash \in DOMAIN nars
         /\ nars[Parse(body).nar_hash].nar_size = Parse(body).nar_size
<1>1. Typed(body)
  BY BodiesAssumption DEF Typed
<1>2. Parses(store_dir, body)
  BY DEF Errors
<1>3. /\ Parse(body).nar_hash \in DOMAIN nars
      /\ nars[Parse(body).nar_hash].nar_size = Parse(body).nar_size
  BY <1>2 DEF Errors
<1>4. QED BY <1>1, <1>2, <1>3, ParseDeclares

LEMMA NameParts ==
  ASSUME NEW n, NEW lead, NEW parts, n = [lead |-> lead, parts |-> parts]
  PROVE  n.parts = parts /\ n.lead = lead
OBVIOUS

\* The text has this name, and something after it.
HasName(text, lead, parts) ==
    \E n, halves, padded : /\ n = [lead |-> lead, parts |-> parts]
                           /\ text = [name |-> n, halves |-> halves, padded |-> padded]

LEMMA TrimOf ==
  ASSUME NEW text, NEW lead, NEW parts, HasName(text, lead, parts)
  PROVE  /\ text.name = [lead |-> lead, parts |-> parts] /\ text.name.parts = parts
         /\ ~Trim(text).padded
         /\ Trim(text).name = [lead |-> "", parts |-> parts]
         /\ Trim(text).name.parts = parts /\ Trim(text).name.lead = ""
<1>1. PICK n, halves, padded : /\ n = [lead |-> lead, parts |-> parts]
                               /\ text = [name |-> n, halves |-> halves, padded |-> padded]
  BY DEF HasName
<1>2. PICK m : m = [n EXCEPT !.lead = ""]
  OBVIOUS
<1>3. m = [lead |-> "", parts |-> parts]
  BY ONLY <1>1, <1>2
<1>4. text.name = n
  BY ONLY <1>1
<1>5. PICK t : t = [text EXCEPT !.padded = FALSE, !.name = m]
  OBVIOUS
<1>6. t = [name |-> m, halves |-> halves, padded |-> FALSE]
  BY ONLY <1>1, <1>5
<1>7. t = Trim(text)
  BY ONLY <1>1, <1>2, <1>4, <1>5 DEF Trim
<1>8. t.name = m
  BY ONLY <1>6
<1>9. ~t.padded
  <2>1. t.padded = FALSE
    BY ONLY <1>6
  <2>2. QED BY ONLY <2>1, Zenon
<1>10. m.parts = parts /\ m.lead = "" /\ n.parts = parts
  BY ONLY <1>1, <1>3, NameParts
<1>11. n = [lead |-> lead, parts |-> parts]
  BY <1>1
<1>12. QED BY ONLY <1>3, <1>4, <1>7, <1>8, <1>9, <1>10, <1>11, Zenon

LEMMA FileShape ==
  ASSUME NEW file \in KeyFiles
  PROVE  \E lead, parts : HasName(file, lead, parts)
<1>1. file = [name |-> file.name, halves |-> file.halves, padded |-> file.padded]
  BY KeyFilesAssumption
<1>2. file.name = [lead |-> file.name.lead, parts |-> file.name.parts]
  BY KeyFilesAssumption
<1>3. QED BY ONLY <1>1, <1>2 DEF HasName

LEMMA UsableKey ==
  ASSUME NEW file \in Usable
  PROVE  GoodKey(SecretKeyOf(file)) /\ SecretKeyOf(file) # NoKey
<1>1. PICK k, t : k = SecretKeyOf(file) /\ t = Trim(file)
  OBVIOUS
<1>2. file \in KeyFiles /\ IsMaterial(t)
  BY <1>1 DEF Usable, IsSecretKey
<1>3. PICK lead, parts : HasName(file, lead, parts)
  BY ONLY <1>2, FileShape
<1>4. t.name = [lead |-> "", parts |-> parts] /\ t.name.parts = parts /\ t.name.lead = ""
  BY ONLY <1>1, <1>3, TrimOf, Zenon
<1>5. k.name = t.name
  BY ONLY <1>1 DEF SecretKeyOf
<1>6. Len(parts) = 1 /\ parts[1] # ""
  BY ONLY <1>2, <1>4 DEF IsMaterial
<1>7. GoodKey(k)
  BY ONLY <1>4, <1>5, <1>6, Zenon DEF GoodKey
<1>8. k # NoKey
  <2>1. NoKey.name = [lead |-> "", parts |-> <<>>]
    BY DEF NoKey, NoName, Generate
  <2>2. NoKey.name.parts = <<>> /\ Len(<<>>) = 0
    BY ONLY <2>1, NameParts
  <2>3. Len(k.name.parts) = 1
    BY ONLY <1>4, <1>5, <1>6, Zenon
  <2>4. 0 # 1
    OBVIOUS
  <2>5. QED BY ONLY <2>2, <2>3, <2>4, Zenon
<1>9. QED BY ONLY <1>1, <1>7, <1>8

LEMMA InvInit ==
  Init => Inv
<1> SUFFICES ASSUME Init PROVE Inv
  OBVIOUS
<1>1. DOMAIN table = {} /\ DOMAIN nars = {} /\ stored = {}
  BY DEF Init
<1>2. signer = NoKey /\ refused = {} /\ answer = 0
  BY DEF Init
<1>3. Rows(nars, stored)
  BY ONLY <1>1 DEF Rows
<1>4. QED BY ONLY <1>1, <1>2, <1>3 DEF Inv

\* What leaves the tables and the process alone.
LEMMA InvAsk ==
  ASSUME Inv, signer # NoKey, UNCHANGED <<table, uploaded, process>>,
         answer' = 200 => Fetched(request', served'),
         answer' # 201
  PROVE  Inv'
<1>1. /\ table' = table /\ signer' = signer /\ refused' = refused /\ shown' = shown
      /\ nars' = nars /\ stored' = stored
  BY DEF process, uploaded
<1>2. QED BY ONLY <1>1, Inv, signer # NoKey, answer' = 200 => Fetched(request', served'),
             answer' # 201 DEF Inv

LEMMA InvBadKey ==
  ASSUME Inv, NEW text \in KeyTexts, BadKey(text)
  PROVE  Inv'
BY InvAsk DEF BadKey, Ask, Answer

LEMMA InvMiss ==
  ASSUME Inv, NEW text \in KeyTexts, Miss(text)
  PROVE  Inv'
BY InvAsk DEF Miss, Ask, Answer

LEMMA InvRefuse ==
  ASSUME Inv, NEW body \in Bodies, Refuse(body)
  PROVE  Inv'
<1>1. answer' # 200 /\ answer' # 201
  BY DEF Refuse, StatusOf, Answer
<1>2. QED BY <1>1, InvAsk DEF Refuse, Ask

LEMMA InvHit ==
  ASSUME Inv, NEW text \in KeyTexts, Hit(text)
  PROVE  Inv'
<1>1. PICK h, r : h = Decode(text, HashWidth) /\ r = table[h]
  OBVIOUS
<1>2. h \in DOMAIN table /\ text \in Keys /\ served' = Render(store_dir, r) /\ answer' = 200
  BY <1>1 DEF Hit, Answer
<1>3. request' = [key |-> text, body |-> <<>>] /\ signer # NoKey
  BY DEF Hit, Ask
<1>4. Held(r, h, shown, stored)
  BY <1>1, <1>2 DEF Inv
<1>5. Fetched(request', served')
  <2>1. request'.key = text
    BY <1>3
  <2>2. QED BY ONLY <1>1, <1>2, <1>4, <2>1 DEF Fetched, Held, SignedBy
<1>6. QED BY <1>2, <1>3, <1>5, InvAsk DEF Hit

LEMMA InvPut ==
  ASSUME Inv, NEW body \in Bodies, Put(body)
  PROVE  Inv'
<1>1. PICK declared, u, r, h : /\ declared = Parse(body) /\ u = nars[declared.nar_hash]
                               /\ r = Resign(store_dir, Placed(declared, u), signer)
                               /\ h = r.store_path.hash
  OBVIOUS
<1>2. r = RecordFor(Parse(body))
  BY ONLY <1>1 DEF RecordFor
<1>3. /\ Errors(body) = {} /\ signer # NoKey /\ request' = [key |-> <<>>, body |-> body]
      /\ answer' = 201 /\ signer' = signer /\ refused' = refused /\ shown' = shown
      /\ nars' = nars /\ stored' = stored
  BY DEF Put, Ask, Answer, process, uploaded
<1>4. table' = [x \in DOMAIN table \cup {h} |-> IF x = h THEN r ELSE table[x]]
  BY <1>1, <1>2 DEF Put, With
<1>5. Running(signer, shown) /\ Rows(nars, stored)
  BY <1>3 DEF Inv
<1>6. /\ Typed(body) /\ Parses(store_dir, body) /\ Declares(body, declared)
      /\ declared.nar_hash \in DOMAIN nars /\ u.nar_size = declared.nar_size
  BY <1>1, <1>3, AcceptedDeclares
<1>7. u \in stored /\ u \in Uploads /\ u.nar_hash = declared.nar_hash
  BY ONLY <1>1, <1>5, <1>6 DEF Rows
<1>8. Sound(r) /\ SignedBy(store_dir, r, signer) /\ SameClaim(r, declared) /\ Holds(u, r)
  BY ONLY <1>1, <1>5, <1>6, <1>7, RecordSound DEF Running
<1>9. Held(r, h, shown, stored)
  BY ONLY <1>1, <1>5, <1>7, <1>8 DEF Held, Running
<1>10. \A x \in DOMAIN table' : Held(table'[x], x, shown', stored')
  BY ONLY <1>3, <1>4, <1>9, Inv DEF Inv
<1>11. declared.store_path.hash = h
  BY ONLY <1>1, <1>8 DEF SameClaim
<1>12. h \in DOMAIN table' /\ table'[h] = r
  BY ONLY <1>4
<1>13. request'.body = body
  BY ONLY <1>3
<1>14. Stored(request', table')
  BY ONLY <1>1, <1>6, <1>8, <1>11, <1>12, <1>13 DEF Stored
<1>15. QED BY ONLY <1>3, <1>5, <1>10, <1>14, Inv DEF Inv

LEMMA InvStoreNar ==
  ASSUME Inv, NEW upload \in Uploads, StoreNar(upload)
  PROVE  Inv'
<1>1. PICK n : n = upload.nar_hash
  OBVIOUS
<1>2. /\ signer # NoKey /\ stored' = stored \cup {upload}
      /\ nars' = [x \in DOMAIN nars \cup {n} |-> IF x = n THEN upload ELSE nars[x]]
      /\ table' = table /\ request' = request /\ answer' = answer /\ served' = served
      /\ signer' = signer /\ refused' = refused /\ shown' = shown
  BY <1>1 DEF StoreNar, With, exchange, process
<1>3. Rows(nars, stored)
  BY DEF Inv
<1>4. Rows(nars', stored')
  BY ONLY <1>1, <1>2, <1>3, upload \in Uploads DEF Rows
<1>5. \A h \in DOMAIN table' : Held(table'[h], h, shown', stored')
  BY ONLY <1>2, HeldKept, Inv DEF Inv
<1>6. QED BY ONLY <1>2, <1>4, <1>5, Inv DEF Inv

LEMMA InvDelete ==
  ASSUME Inv, NEW text \in KeyTexts, Delete(text)
  PROVE  Inv'
<1>1. PICK h, n : h = Decode(text, HashWidth) /\ n = table[h].nar_hash
  OBVIOUS
<1>2. /\ signer = NoKey /\ stored' = stored
      /\ table' = [x \in DOMAIN table \ {h} |-> table[x]]
      /\ nars' = [x \in DOMAIN nars \ {n} |-> nars[x]]
      /\ answer' = answer /\ signer' = signer /\ refused' = refused /\ shown' = shown
  BY <1>1 DEF Delete, exchange, process
<1>3. Rows(nars', stored')
  <2>1. Rows(nars, stored)
    BY DEF Inv
  <2>2. QED BY ONLY <1>2, <2>1 DEF Rows
<1>4. \A x \in DOMAIN table' : Held(table'[x], x, shown', stored')
  BY ONLY <1>2, Inv DEF Inv
<1>5. answer' = 0
  BY <1>2 DEF Inv
<1>6. QED BY ONLY <1>2, <1>3, <1>4, <1>5, Inv DEF Inv

LEMMA InvMalformed ==
  ASSUME Inv, NEW file \in KeyFiles, Malformed(file)
  PROVE  Inv'
<1>1. /\ signer = NoKey /\ file \notin Usable /\ refused' = {file} /\ table' = table
      /\ signer' = signer /\ shown' = shown /\ answer' = answer
      /\ nars' = nars /\ stored' = stored
  BY DEF Malformed, exchange, uploaded
<1>2. answer' = 0
  BY <1>1 DEF Inv
<1>3. QED BY ONLY <1>1, <1>2, Inv, file \in KeyFiles DEF Inv

LEMMA InvServe ==
  ASSUME Inv, NEW file \in KeyFiles, NEW dir \in Dirs, Serve(file, dir)
  PROVE  Inv'
<1>1. PICK k, text : k = SecretKeyOf(file) /\ text = Showing(file)
  OBVIOUS
<1>2. /\ signer = NoKey /\ file \in Usable /\ signer' = k /\ refused' = {}
      /\ shown' = shown \cup {text} /\ table' = table /\ answer' = answer
      /\ nars' = nars /\ stored' = stored
  BY <1>1 DEF Serve, exchange, uploaded
<1>3. text = PublicText(k)
  BY <1>1 DEF Showing
<1>4. GoodKey(k) /\ k # NoKey
  BY <1>1, <1>2, UsableKey
<1>5. Running(signer', shown')
  BY ONLY <1>1, <1>2, <1>3, <1>4 DEF Running
<1>6. answer' = 0
  BY <1>2 DEF Inv
<1>7. \A h \in DOMAIN table' : Held(table'[h], h, shown', stored')
  BY ONLY <1>2, HeldKept, Inv DEF Inv
<1>8. QED BY ONLY <1>2, <1>5, <1>6, <1>7, Inv DEF Inv

LEMMA InvRotate ==
  ASSUME Inv, NEW file \in KeyFiles, NEW dir \in Dirs, Rotate(file, dir)
  PROVE  Inv'
<1>1. PICK k, text : k = SecretKeyOf(file) /\ text = Showing(file)
  OBVIOUS
<1>2. /\ signer = NoKey /\ file \in Usable /\ signer' = signer /\ refused' = {}
      /\ shown' = shown \cup {text} /\ answer' = answer
      /\ table' = [h \in DOMAIN table |-> Resign(dir, table[h], k)]
      /\ nars' = nars /\ stored' = stored
  BY <1>1 DEF Rotate, exchange, uploaded
<1>3. text = PublicText(k)
  BY <1>1 DEF Showing
<1>4. GoodKey(k)
  BY <1>1, <1>2, UsableKey
<1>5. answer' = 0
  BY <1>2 DEF Inv
<1>6. ASSUME NEW h \in DOMAIN table'
      PROVE  Held(table'[h], h, shown', stored')
  <2>1. PICK r, q : r = table[h] /\ q = Resign(dir, r, k)
    OBVIOUS
  <2>2. h \in DOMAIN table /\ table'[h] = q
    BY ONLY <1>2, <2>1, h \in DOMAIN table'
  <2>3. Sound(r) /\ r.store_path.hash = h /\ \E u \in stored : Holds(u, r)
    BY ONLY <2>1, <2>2, Inv DEF Inv, Held
  <2>4. Sound(q) /\ SignedBy(dir, q, k) /\ SameClaim(q, r) /\ \A u : Holds(u, r) => Holds(u, q)
    BY ONLY <1>4, <2>1, <2>3, ResignedSound
  <2>5. q.store_path.hash = h
    BY ONLY <2>3, <2>4 DEF SameClaim
  <2>6. QED BY ONLY <1>2, <1>3, <2>2, <2>3, <2>4, <2>5 DEF Held
<1>7. QED BY ONLY <1>2, <1>5, <1>6, Inv DEF Inv

LEMMA InvStop ==
  ASSUME Inv, Stop
  PROVE  Inv'
<1>1. /\ signer' = NoKey /\ answer' = 0 /\ table' = table /\ refused' = refused
      /\ shown' = shown /\ nars' = nars /\ stored' = stored
  BY DEF Stop, Answer, uploaded
<1>2. QED BY ONLY <1>1, Inv DEF Inv

LEMMA Invariance ==
  Spec => []Inv
<1>1. Init => Inv
  BY InvInit
<1>2. Inv /\ [Next]_vars => Inv'
  <2> SUFFICES ASSUME Inv, [Next]_vars
               PROVE  Inv'
    OBVIOUS
  <2>1. CASE UNCHANGED vars
    BY <2>1 DEF vars, Inv
  <2>2. CASE Next
    BY <2>2, InvBadKey, InvMiss, InvHit, InvDelete, InvPut, InvRefuse, InvStoreNar,
       InvServe, InvRotate, InvMalformed, InvStop, Zenon DEF Next
  <2>3. QED BY <2>1, <2>2
<1>3. QED BY <1>1, <1>2, PTL DEF Spec

-----------------------------------------------------------------------------
(* What the invariant gives.                                               *)

\* ReadsBack: parse is the inverse of render on every record that pushes and
\* rotations can make, for the directory it was signed for and any other.
THEOREM ReadsBackHolds ==
  Spec => []ReadsBack
<1>1. Inv => ReadsBack
  BY RoundTrip DEF Inv, Held, SignedBy, ReadsBack
<1>2. QED BY <1>1, Invariance, PTL

\* RepushStable: while its NAR has a row, what a server serves any server
\* accepts, and makes the same record of but for the row's file; the two
\* levels of one NAR are of one size, so that a replaced row refuses nothing.
THEOREM RepushHolds ==
  Spec => []RepushStable
<1>1. Inv => RepushStable
  <2> SUFFICES ASSUME Inv, NEW h \in DOMAIN table, signer # NoKey, NEW r, r = table[h],
                      NEW b, b = Render(store_dir, r)
               PROVE  IF r.nar_hash \in DOMAIN nars
                      THEN /\ Errors(b) = {}
                           /\ RecordFor(Parse(b))
                                  = Resign(store_dir, Placed(r, nars[r.nar_hash]), signer)
                      ELSE Errors(b) = {"UnknownNar"}
    BY DEF RepushStable
  <2>1. PICK k, dir : Sound(r) /\ SignedBy(dir, r, k)
    BY DEF Inv, Held
  <2>2. Parses(store_dir, b) /\ Parse(b) = r
    BY <2>1, RoundTrip DEF SignedBy
  <2>3. PICK u \in stored : Holds(u, r)
    BY DEF Inv, Held
  <2>4. Rows(nars, stored)
    BY DEF Inv
  <2>5. r.nar_hash \in DOMAIN nars => nars[r.nar_hash].nar_size = r.nar_size
    BY ONLY <2>3, <2>4, UploadsAssumption DEF Rows, Holds
  <2>6. Errors(b) = IF r.nar_hash \in DOMAIN nars THEN {} ELSE {"UnknownNar"}
    BY ONLY <2>2, <2>5 DEF Errors
  <2>7. RecordFor(Parse(b)) = Resign(store_dir, Placed(r, nars[r.nar_hash]), signer)
    BY ONLY <2>2 DEF RecordFor
  <2>8. QED BY ONLY <2>6, <2>7
<1>2. QED BY <1>1, Invariance, PTL

LEMMA SoleValue ==
  ASSUME NEW b, DOMAIN b = 1 .. Len(b), NEW k, NEW i, Sole(b, k, i)
  PROVE  ValueOf(b, k) = b[i].value
<1>1. i \in DOMAIN b /\ \A j \in DOMAIN b : b[j].key = k <=> j = i
  BY DEF Sole
<1>2. (CHOOSE j \in DOMAIN b : b[j].key = k) = i
  BY ONLY <1>1
<1>3. QED BY ONLY <1>2 DEF ValueOf

\* The values a client looks at.
LEMMA RenderValues ==
  ASSUME NEW dir, NEW r, NEW b, Rendered(dir, r, b)
  PROVE  /\ ValueOf(b, "StorePath") = <<FullPath(dir, r.store_path)>>
         /\ ValueOf(b, "URL") = <<Url(r)>>
         /\ ValueOf(b, "FileSize") = <<Number(r.file_size)>>
         /\ ValueOf(b, "NarHash") = <<PrintDigest(r.nar_hash)>>
         /\ ValueOf(b, "NarSize") = <<Number(r.nar_size)>>
         /\ ValueOf(b, "References") = [i \in DOMAIN r.references |-> Base(r.references[i])]
<1>1. DOMAIN b = 1 .. Len(b) /\ Always(dir, r, b)
  BY DEF Rendered
<1>2. /\ Sole(b, "StorePath", 1) /\ Sole(b, "URL", 2) /\ Sole(b, "FileSize", 5)
      /\ Sole(b, "NarHash", 6) /\ Sole(b, "NarSize", 7) /\ Sole(b, "References", 8)
  BY RenderKeys
<1>3. /\ ValueOf(b, "StorePath") = b[1].value /\ ValueOf(b, "URL") = b[2].value
      /\ ValueOf(b, "FileSize") = b[5].value
      /\ ValueOf(b, "NarHash") = b[6].value /\ ValueOf(b, "NarSize") = b[7].value
      /\ ValueOf(b, "References") = b[8].value
  BY ONLY <1>1, <1>2, SoleValue
<1>4. ASSUME NEW k, NEW v
      PROVE  Line(k, v).value = v
  BY DEF Line
<1>5. /\ b[1].value = <<FullPath(dir, r.store_path)>> /\ b[2].value = <<Url(r)>>
      /\ b[5].value = <<Number(r.file_size)>>
      /\ b[6].value = <<PrintDigest(r.nar_hash)>> /\ b[7].value = <<Number(r.nar_size)>>
  BY ONLY <1>1, <1>4 DEF Always
<1>6. b[8].value = [i \in DOMAIN r.references |-> Base(r.references[i])]
  BY ONLY <1>1, <1>4 DEF Always, References
<1>7. QED BY ONLY <1>3, <1>5, <1>6

\* KeyNamesRecord: a key has one spelling, so that what is served for it spells it.
THEOREM KeyNamesHolds ==
  Spec => []KeyNamesRecord
<1>1. Inv => KeyNamesRecord
  <2> SUFFICES ASSUME Inv, answer = 200
               PROVE  ValueOf(served, "StorePath")[1].digits = request.key
    BY DEF KeyNamesRecord
  <2>1. PICK key : key = request.key
    OBVIOUS
  <2>2. Fetched(request, served)
    BY DEF Inv
  <2>3. PICK r, k, f, dir : /\ Sound(r) /\ Signs(r, k, f) /\ served = Render(dir, r)
                            /\ r.store_path.hash = Decode(key, HashWidth)
    BY ONLY <2>1, <2>2 DEF Fetched
  <2>4. key \in Seq(Nat) /\ Decodable(key, HashWidth)
    BY <2>1, <2>2, KeyTextsAssumption DEF Fetched, Keys
  <2>5. key = [i \in 1 .. Len(key) |-> key[i]]
    BY ONLY <2>4
  <2>6. Encode(Decode(key, HashWidth)) = key
    BY ONLY <2>4, <2>5, WidthAssumption, EncodeDecode
  <2>7. ValueOf(served, "StorePath") = <<FullPath(dir, r.store_path)>>
    BY ONLY <2>3, RenderParses, RenderValues
  <2>8. PICK w : w = FullPath(dir, r.store_path)
    OBVIOUS
  <2>9. w.digits = Encode(r.store_path.hash)
    BY ONLY <2>8 DEF FullPath, Word
  <2>10. ValueOf(served, "StorePath")[1] = w
    BY ONLY <2>7, <2>8
  <2>11. QED BY ONLY <2>1, <2>3, <2>6, <2>9, <2>10
<1>2. QED BY <1>1, Invariance, PTL

\* A public key verifies what its seed signed, whatever the space before the
\* name in its text.
LEMMA ShownVerifies ==
  ASSUME NEW k, GoodKey(k), NEW f, NEW lead, NEW text,
         text = Spell([lead |-> lead, parts |-> k.name.parts], <<PublicHalf(k.seed)>>)
  PROVE  Verifies(text, f, Signature(k, f))
<1>1. PICK sig, t, half, parts, n :
        /\ sig = Signature(k, f) /\ t = Trim(text) /\ half = PublicHalf(k.seed)
        /\ parts = k.name.parts /\ n = [lead |-> lead, parts |-> parts]
  OBVIOUS
<1>2. text = [name |-> n, halves |-> <<half>>, padded |-> FALSE]
  BY <1>1 DEF Spell
<1>3. /\ t.name = [lead |-> "", parts |-> parts] /\ t.name.parts = parts
      /\ t.name.lead = "" /\ ~t.padded
  <2>1. HasName(text, lead, parts)
    BY ONLY <1>1, <1>2 DEF HasName
  <2>2. t = Trim(text)
    BY <1>1
  <2>3. QED BY ONLY <2>1, <2>2, TrimOf, Zenon
<1>4. Len(text.halves) = 1 /\ text.halves[1] = half
  <2>1. text.halves = <<half>>
    BY ONLY <1>2
  <2>2. QED BY ONLY <2>1
<1>5. sig.name = k.name /\ sig.seed = k.seed /\ sig.over = f
  BY ONLY <1>1 DEF Signature
<1>6. k.name = [lead |-> "", parts |-> parts] /\ Len(parts) = 1 /\ parts[1] # ""
  BY ONLY <1>1, GoodKey(k), Zenon DEF GoodKey
<1>7. sig.name = t.name
  BY ONLY <1>3, <1>5, <1>6, Zenon
<1>8. 1 >= 1
  OBVIOUS
<1>9. IsMaterial(t)
  BY ONLY <1>3, <1>6, <1>8, Zenon DEF IsMaterial
<1>10. QED BY ONLY <1>1, <1>4, <1>5, <1>7, <1>9, Zenon DEF Verifies

\* KeygenStartsServer: a file is refused for its name or for what keygen never
\* prints, and what a server signs verifies under what keygen shows for its
\* file, the space that SecretKey::parse takes off the name notwithstanding.
THEOREM KeygenHolds ==
  Spec => []KeygenStartsServer
<1>1. Inv => KeygenStartsServer
  <2> SUFFICES ASSUME Inv
               PROVE  KeygenStartsServer
    OBVIOUS
  <2>1. ASSUME NEW file \in refused, file = Printed(file.name, file.halves[1]),
               Len(file.name.parts) = 1, file.name.parts[1] # ""
        PROVE  FALSE
    <3>1. file \in KeyFiles /\ ~IsSecretKey(file)
      BY DEF Inv, Usable
    <3>2. PICK s, t : s = file.halves[1] /\ t = Trim(file)
      OBVIOUS
    <3>3. file.halves = <<s, PublicHalf(s)>>
      <4>1. file = [name |-> file.name, halves |-> <<s, PublicHalf(s)>>, padded |-> TRUE]
        BY <2>1, <3>2 DEF Printed, SecretText, Generate, Spell
      <4>2. QED BY ONLY <4>1
    <3>4. Len(file.halves) = 2
      BY ONLY <3>3
    <3>5. PICK lead, parts : HasName(file, lead, parts)
      BY ONLY <3>1, FileShape
    <3>6. file.name.parts = parts
      BY ONLY <3>5, TrimOf, Zenon
    <3>7. t.name.parts = parts /\ ~t.padded
      BY ONLY <3>2, <3>5, TrimOf, Zenon
    <3>8. Len(t.name.parts) = 1 /\ t.name.parts[1] # ""
      BY ONLY <2>1, <3>6, <3>7, Zenon
    <3>9. 1 >= 1
      OBVIOUS
    <3>10. IsMaterial(t)
      BY ONLY <3>7, <3>8, <3>9, Zenon DEF IsMaterial
    <3>11. QED BY ONLY <3>1, <3>2, <3>4, <3>10, Zenon DEF IsSecretKey
  <2>2. ASSUME signer # NoKey
        PROVE  \E file \in Usable :
                  Verifies(PublicText(Generate(file.name, file.halves[1])),
                           "text", Signature(signer, "text"))
    <3>1. PICK file \in Usable : SecretKeyOf(file) = signer /\ GoodKey(signer)
      BY <2>2 DEF Inv, Running
    <3>2. PICK lead, parts : HasName(file, lead, parts)
      <4>1. file \in KeyFiles
        BY <3>1 DEF Usable
      <4>2. QED BY ONLY <4>1, FileShape
    <3>3. PICK t : t = Trim(file)
      OBVIOUS
    <3>4. t.name.parts = parts
      BY ONLY <3>2, <3>3, TrimOf, Zenon
    <3>5. signer.name = t.name /\ signer.seed = file.halves[1]
      BY ONLY <3>1, <3>3 DEF SecretKeyOf
    <3>6. signer.name.parts = parts
      BY ONLY <3>4, <3>5, Zenon
    <3>7. file.name = [lead |-> lead, parts |-> parts]
      BY ONLY <3>2, TrimOf, Zenon
    <3>8. PublicText(Generate(file.name, file.halves[1]))
             = Spell([lead |-> lead, parts |-> signer.name.parts], <<PublicHalf(signer.seed)>>)
      BY ONLY <3>5, <3>6, <3>7 DEF PublicText, Generate
    <3>9. Verifies(PublicText(Generate(file.name, file.halves[1])), "text",
                   Signature(signer, "text"))
      BY ONLY <3>1, <3>8, ShownVerifies
    <3>10. QED BY ONLY <3>1, <3>9
  <2>3. QED BY ONLY <2>1, <2>2, Zenon DEF KeygenStartsServer
<1>2. QED BY <1>1, Invariance, PTL

\* A list without repetitions, sorted, is a set.
LEMMA SortedSet ==
  ASSUME NEW T, NEW s \in Seq(T), IsInjective(s)
  PROVE  Sorted(s) = [p \in ToSet(s) |-> 1]
<1>1. ASSUME NEW e \in ToSet(s)
      PROVE  Cardinality({i \in DOMAIN s : s[i] = e}) = 1
  <2>1. PICK i \in DOMAIN s : s[i] = e
    BY DEF ToSet
  <2>2. {j \in DOMAIN s : s[j] = e} = {i}
    BY <2>1 DEF IsInjective
  <2>3. QED BY ONLY <2>2, FS_Singleton
<1>2. QED BY ONLY <1>1 DEF Sorted

\* What nix computes from what it reads is what the server signed.
LEMMA ClientComputes ==
  ASSUME NEW dir, NEW r, Sound(r), NEW b, Rendered(dir, r, b), IsInjective(r.references)
  PROVE  ClientFingerprint(dir, b) = Fingerprint(dir, r)
<1>1. PICK p, h, n, s, v : /\ p = r.store_path /\ h = r.nar_hash /\ n = r.nar_size
                           /\ s = r.references
                           /\ v = [i \in DOMAIN r.references |-> Base(r.references[i])]
  OBVIOUS
<1>2. p \in Path /\ h \in Digest /\ s \in Seq(Path)
  BY <1>1 DEF Sound
<1>3. /\ ValueOf(b, "StorePath") = <<FullPath(dir, p)>> /\ ValueOf(b, "NarHash") = <<PrintDigest(h)>>
      /\ ValueOf(b, "NarSize") = <<Number(n)>> /\ ValueOf(b, "References") = v
  BY <1>1, RenderValues
<1>4. PathOf(ValueOf(b, "StorePath")[1]) = p
  BY <1>2, <1>3, FullPathReads
<1>5. DigestOf(ValueOf(b, "NarHash")[1]) = h
  BY <1>2, <1>3, DigestReads
<1>6. ValueOf(b, "NarSize")[1].digits[1] = n
  <2>1. PICK w : w = Number(n)
    OBVIOUS
  <2>2. w.digits = <<n>>
    BY ONLY <2>1 DEF Number, Word
  <2>3. w.digits[1] = n
    BY ONLY <2>2
  <2>4. ValueOf(b, "NarSize")[1] = w
    BY ONLY <1>3, <2>1
  <2>5. QED BY ONLY <2>3, <2>4
<1>7. {PathOf(w) : w \in ToSet(v)} = ToSet(s)
  <2>1. v = [i \in DOMAIN s |-> Base(s[i])]
    BY ONLY <1>1
  <2>2. \A i \in DOMAIN s : PathOf(v[i]) = s[i]
    <3>1. TAKE i \in DOMAIN s
    <3>2. s[i] \in Path
      BY <1>2
    <3>3. v[i] = Base(s[i])
      BY ONLY <2>1, i \in DOMAIN s
    <3>4. QED BY ONLY <3>2, <3>3, BaseReads
  <2>3. ToSet(v) = {v[i] : i \in DOMAIN s} /\ ToSet(s) = {s[i] : i \in DOMAIN s}
    BY ONLY <2>1 DEF ToSet
  <2>4. QED BY ONLY <2>2, <2>3
<1>8. Sorted(s) = [q \in ToSet(s) |-> 1]
  BY ONLY <1>1, <1>2, SortedSet, IsInjective(r.references)
<1>9. ClientFingerprint(dir, b) = [dir |-> dir, store_path |-> p, nar_hash |-> h,
                                   nar_size |-> n, references |-> [q \in ToSet(s) |-> 1]]
  BY ONLY <1>3, <1>4, <1>5, <1>6, <1>7 DEF ClientFingerprint
<1>10. Fingerprint(dir, r) = [dir |-> dir, store_path |-> p, nar_hash |-> h, nar_size |-> n,
                              references |-> Sorted(s)]
  BY ONLY <1>1 DEF Fingerprint
<1>11. QED BY ONLY <1>8, <1>9, <1>10

\* What the body says of its NAR is what the upload is.
LEMMA RenderDescribes ==
  ASSUME NEW dir, NEW r, Sound(r), NEW b, Rendered(dir, r, b), NEW u, Holds(u, r)
  PROVE  Describes(b, u)
<1>1. /\ ValueOf(b, "URL") = <<Url(r)>> /\ ValueOf(b, "FileSize") = <<Number(r.file_size)>>
      /\ ValueOf(b, "NarHash") = <<PrintDigest(r.nar_hash)>>
      /\ ValueOf(b, "NarSize") = <<Number(r.nar_size)>>
  BY RenderValues
<1>2. ASSUME NEW x
      PROVE  <<x>>[1] = x
  OBVIOUS
<1>3. /\ ValueOf(b, "URL")[1] = Url(r) /\ ValueOf(b, "FileSize")[1] = Number(r.file_size)
      /\ ValueOf(b, "NarHash")[1] = PrintDigest(r.nar_hash)
      /\ ValueOf(b, "NarSize")[1] = Number(r.nar_size)
  BY ONLY <1>1, <1>2
<1>4. r.file_hash \in Digest /\ r.compression \in Compression /\ r.nar_hash \in Digest
  BY DEF Sound
<1>5. /\ IsNarUrl(Url(r))
      /\ NarUrlOf(Url(r)) = [file_hash |-> r.file_hash, compression |-> r.compression]
  BY ONLY <1>4, UrlReads
<1>6. DigestOf(PrintDigest(r.nar_hash)) = r.nar_hash
  BY ONLY <1>4, DigestReads
<1>7. /\ r.nar_hash = u.nar_hash /\ r.nar_size = u.nar_size
      /\ r.file_hash = u.file_hash /\ r.file_size = u.file_size
      /\ r.compression = u.compression
  BY DEF Holds
<1>8. QED BY ONLY <1>3, <1>5, <1>6, <1>7 DEF Describes

\* ClientAccepts: whoever trusts what the operator was shown reads every record,
\* finds the artifact it describes, and verifies it over the fingerprint nix
\* computes if and only if its store directory is the one it was signed for.
THEOREM ClientHolds ==
  Spec => []ClientAccepts
<1>1. Inv => ClientAccepts
  <2> SUFFICES ASSUME Inv, NEW h \in DOMAIN table, NEW dir \in Dirs, NEW r, r = table[h],
                      NEW b, b = Render(dir, r), IsInjective(r.references)
               PROVE  /\ ClientReads(b)
                      /\ (\E sig \in ToSet(r.sigs) : sig.over.dir = dir)
                            <=> \E text \in shown, sig \in ToSet(r.sigs) :
                                   Verifies(text, ClientFingerprint(dir, b), sig)
                      /\ \E upload \in stored : Describes(b, upload)
    BY DEF ClientAccepts
  <2>1. PICK k, own : Sound(r) /\ SignedBy(own, r, k) /\ PublicText(k) \in shown
    BY DEF Inv, Held
  <2>2. ClientReads(b) /\ Rendered(dir, r, b)
    BY ONLY <2>1, b = Render(dir, r), RenderParses DEF SignedBy
  <2>3. ClientFingerprint(dir, b) = Fingerprint(dir, r)
    BY ONLY <2>1, <2>2, ClientComputes, IsInjective(r.references)
  <2>4. PICK sig : sig = Signature(k, Fingerprint(own, r))
    OBVIOUS
  <2>5. r.sigs = <<sig>> /\ GoodKey(k)
    BY ONLY <2>1, <2>4 DEF SignedBy, Signs
  <2>6. ToSet(r.sigs) = {sig}
    <3>1. ASSUME NEW x
          PROVE  ToSet(<<x>>) = {x}
      BY DEF ToSet
    <3>2. QED BY ONLY <2>5, <3>1
  <2>7. sig.over = Fingerprint(own, r)
    BY ONLY <2>4 DEF Signature
  <2>8. \A x : Fingerprint(x, r).dir = x
    BY ONLY TRUE DEF Fingerprint
  <2>9. PublicText(k) = Spell([lead |-> "", parts |-> k.name.parts], <<PublicHalf(k.seed)>>)
    <3>1. k.name = [lead |-> "", parts |-> k.name.parts]
      BY ONLY <2>5 DEF GoodKey
    <3>2. QED BY ONLY <3>1, Zenon DEF PublicText
  <2>10. own = dir => Verifies(PublicText(k), Fingerprint(dir, r), sig)
    BY ONLY <2>4, <2>5, <2>9, ShownVerifies
  <2>11. \A text : Verifies(text, Fingerprint(dir, r), sig) => own = dir
    <3>1. \A text : Verifies(text, Fingerprint(dir, r), sig) => sig.over = Fingerprint(dir, r)
      BY ONLY TRUE, Zenon DEF Verifies
    <3>2. Fingerprint(own, r).dir = own /\ Fingerprint(dir, r).dir = dir
      BY ONLY <2>8
    <3>3. QED BY ONLY <2>7, <3>1, <3>2
  <2>12. (\E s \in ToSet(r.sigs) : s.over.dir = dir)
            <=> \E text \in shown, s \in ToSet(r.sigs) :
                   Verifies(text, ClientFingerprint(dir, b), s)
    BY ONLY <2>1, <2>3, <2>6, <2>7, <2>8, <2>10, <2>11
  <2>13. \E upload \in stored : Describes(b, upload)
    <3>1. PICK u \in stored : Holds(u, r)
      BY DEF Inv, Held
    <3>2. Describes(b, u)
      BY ONLY <2>1, <2>2, <3>1, RenderDescribes
    <3>3. QED BY ONLY <3>1, <3>2
  <2>14. QED BY ONLY <2>2, <2>12, <2>13
<1>2. QED BY <1>1, Invariance, PTL

LEMMA LastValue ==
  ASSUME NEW body, Len(body) \in Nat, DOMAIN body = 1 .. Len(body), NEW k, NEW i,
         Final(body, k, i)
  PROVE  LastOf(body, k) = body[i].value
<1>1. /\ i \in DOMAIN body /\ body[i].key = k
      /\ \A j \in i + 1 .. Len(body) : body[j].key # k
  BY DEF Final
<1>2. ASSUME NEW m \in DOMAIN body, body[m].key = k,
             \A j \in m + 1 .. Len(body) : body[j].key # k
      PROVE  m = i
  <2>1. ~(m < i) /\ ~(i < m)
    BY <1>1, <1>2
  <2>2. QED BY <1>1, <2>1
<1>3. (CHOOSE m \in DOMAIN body :
          body[m].key = k /\ \A j \in m + 1 .. Len(body) : body[j].key # k) = i
  BY ONLY <1>1, <1>2
<1>4. QED BY ONLY <1>3 DEF LastOf

\* LastLineStands: what a body of any number of lines, in any order, makes of
\* each field.
THEOREM LastLineHolds ==
  Spec => []LastLineStands
<1>1. Inv => LastLineStands
  <2> SUFFICES ASSUME Inv, answer = 201
               PROVE  LastLineStands
    BY DEF LastLineStands
  <2>1. PICK body, q, r : /\ body = request.body /\ q = Parse(body)
                          /\ r = table[q.store_path.hash]
    OBVIOUS
  <2>2. /\ Typed(body) /\ \E dir : Parses(dir, body)
        /\ q.store_path.hash \in DOMAIN table /\ SameClaim(r, q)
    BY <2>1 DEF Inv, Stored
  <2>3. Declares(body, q)
    BY ONLY <2>1, <2>2, ParseDeclares
  <2>4. Len(body) \in Nat /\ DOMAIN body = 1 .. Len(body)
    BY <2>2 DEF Typed
  <2>5. PathOf(LastOf(body, "StorePath")[1]) = q.store_path
    <3>1. PICK i : Final(body, "StorePath", i) /\ q.store_path = PathOf(body[i].value[1])
      BY ONLY <2>3 DEF Declares
    <3>2. LastOf(body, "StorePath") = body[i].value
      BY ONLY <2>4, <3>1, LastValue
    <3>3. QED BY ONLY <3>1, <3>2
  <2>6. DigestOf(LastOf(body, "NarHash")[1]) = q.nar_hash
    <3>1. PICK i : Final(body, "NarHash", i) /\ q.nar_hash = DigestOf(body[i].value[1])
      BY ONLY <2>3 DEF Declares
    <3>2. LastOf(body, "NarHash") = body[i].value
      BY ONLY <2>4, <3>1, LastValue
    <3>3. QED BY ONLY <3>1, <3>2
  <2>7. LastOf(body, "NarSize")[1].digits = <<q.nar_size>>
    <3>1. PICK i : Final(body, "NarSize", i) /\ <<q.nar_size>> = body[i].value[1].digits
      BY ONLY <2>3 DEF Declares
    <3>2. LastOf(body, "NarSize") = body[i].value
      BY ONLY <2>4, <3>1, LastValue
    <3>3. QED BY ONLY <3>1, <3>2
  <2>8. ToSet(q.references) =
           UNION {{PathOf(w) : w \in ToSet(body[i].value)} :
                     i \in {j \in DOMAIN body : body[j].key = "References"}}
    BY ONLY <2>3, <2>4 DEF Declares, Referred
  <2>9. q.ca = IF {j \in DOMAIN body : body[j].key = "CA"} = {} THEN <<>>
               ELSE <<LastOf(body, "CA")>>
    <3>1. CASE q.ca = <<>> /\ \A j \in 1 .. Len(body) : body[j].key # "CA"
      BY ONLY <2>4, <3>1
    <3>2. CASE \E i : Final(body, "CA", i) /\ q.ca = <<body[i].value>>
      <4>1. PICK i : Final(body, "CA", i) /\ q.ca = <<body[i].value>>
        BY <3>2
      <4>2. LastOf(body, "CA") = body[i].value
        BY ONLY <2>4, <4>1, LastValue
      <4>3. i \in DOMAIN body /\ body[i].key = "CA"
        BY ONLY <2>4, <4>1 DEF Final
      <4>4. QED BY ONLY <4>1, <4>2, <4>3
    <3>3. QED BY ONLY <2>3, <3>1, <3>2 DEF Declares
  <2>10. /\ r.store_path = q.store_path /\ r.nar_hash = q.nar_hash /\ r.nar_size = q.nar_size
         /\ r.references = q.references /\ r.ca = q.ca
    BY ONLY <2>2 DEF SameClaim
  <2>11. QED BY ONLY <2>1, <2>2, <2>5, <2>6, <2>7, <2>8, <2>9, <2>10 DEF LastLineStands
<1>2. QED BY <1>1, Invariance, PTL

=============================================================================
