------------------------------- MODULE Base32 -------------------------------
(***************************************************************************)
(* Nix's base32: bincache-core/src/base32.rs.                              *)
(*                                                                         *)
(* A text is a sequence of digits, the positions of its characters in      *)
(* ALPHABET; Foreign stands for a byte that is not in the alphabet.  The   *)
(* first character is the most significant, and digit i, counted from the  *)
(* end, carries the BITS bits that start at bit i * BITS of the bytes.     *)
(***************************************************************************)
EXTENDS Integers, Sequences

BITS == 5

Foreign == 32
Digits == 0 .. 31

\* text_len, ceiling division
TextLen(width) == (width * 8 - 1) \div BITS + 1

\* Where digit i lies: its first byte, and its offset there.
ByteAt(i) == (i * BITS) \div 8
Shift(i) == (i * BITS) % 8

\* The two bytes of `u16::from(digit) << shift`.
Low(digit, i) == (digit * 2 ^ Shift(i)) % 256
High(digit, i) == (digit * 2 ^ Shift(i)) \div 256

\* Digit i of the encoding of `bytes`, the lowest byte of which is bytes[1].
Window(bytes, i) ==
    LET low == bytes[ByteAt(i) + 1]
        high == IF ByteAt(i) + 1 < Len(bytes) THEN bytes[ByteAt(i) + 2] ELSE 0
    IN  ((low + 256 * high) \div 2 ^ Shift(i)) % 32

\* encode
Encode(bytes) ==
    LET length == TextLen(Len(bytes))
    IN  [k \in 1 .. length |-> Window(bytes, length - k)]

\* Digit i of a text, counted from its end.
DigitOf(text, i) == text[Len(text) - i]

\* The bits past the end of the value dropped.
Fits_Truncates(digit, i, width) == TRUE

\* A digit sets no bit past the end of the value.
Fits(digit, i, width) == ByteAt(i) + 1 < width \/ High(digit, i) = 0

\* decode::<width> succeeds.
Decodable(text, width) ==
    /\ Len(text) = TextLen(width)
    /\ \A k \in 1 .. Len(text) : text[k] \in Digits
    /\ \A i \in 0 .. Len(text) - 1 : Fits(DigitOf(text, i), i, width)

\* Digit i set in its byte and the next. The digits of a byte set different
\* bits of it, so that `|=` adds.
SetDigit(bytes, digit, i) ==
    [b \in DOMAIN bytes |->
        bytes[b] + CASE b = ByteAt(i) + 1 -> Low(digit, i)
                     [] b = ByteAt(i) + 2 -> High(digit, i)
                     [] OTHER -> 0]

\* [0u8; N]
Zeros(width) == [b \in 1 .. width |-> 0]

\* The bytes after so many digits, from the end of the text.
Decoded(text, width) ==
    LET bytes[i \in 0 .. Len(text)] ==
            IF i = 0 THEN Zeros(width)
            ELSE SetDigit(bytes[i - 1], DigitOf(text, i - 1), i - 1)
    IN  bytes

\* What decode::<width> returns when it succeeds.
Decode(text, width) == Decoded(text, width)[Len(text)]

=============================================================================
