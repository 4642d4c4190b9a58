------------------------------- MODULE Range --------------------------------
(***************************************************************************)
(* `Range` against a known artifact length: bincache-serve/src/range.rs.   *)
(*                                                                         *)
(* A header is described by the tests `resolve` puts it to: is there one,  *)
(* is its unit `bytes`, is it one range, has it a dash, and what stands on *)
(* either side of the dash.  A side is a decimal number, or Blank, or Junk *)
(* for text that is not a number.  A number past U64Max does not parse.    *)
(***************************************************************************)
EXTENDS Integers

CONSTANT U64Max    \* the largest number `parse` accepts; 2^64 - 1 in the code

ASSUME U64Assumption == U64Max \in Nat

Blank == -1
Junk == -2

Form == {"absent", "other unit", "many", "no dash", "range"}

Header(top) == [form: Form, first: Junk .. top, last: Junk .. top]

NoHeader == [form |-> "absent", first |-> Blank, last |-> Blank]

\* `bytes=n-`, what CURLOPT_RESUME_FROM_LARGE emits.
From(n) == [form |-> "range", first |-> n, last |-> Blank]

Whole == [kind |-> "Whole"]
Unsatisfiable == [kind |-> "Unsatisfiable"]
Partial(first, last) == [kind |-> "Partial",
                         span |-> [first |-> first, last |-> last]]

\* Span::len
SpanLen(s) == s.last - s.first + 1

Parses(side) == side \in 0 .. U64Max

Min2(m, n) == IF m < n THEN m ELSE n

-----------------------------------------------------------------------------

\* The first byte of the last `wanted`, were it not saturated.
SuffixFirst_Wraps(wanted, length) == (length - wanted) % (U64Max + 1)

\* length.saturating_sub(wanted)
SuffixFirst(wanted, length) == IF wanted > length THEN 0 ELSE length - wanted

\* suffix: `bytes=-n`
Suffix(last, length) ==
    IF ~Parses(last) THEN Whole
    ELSE IF last = 0 THEN Unsatisfiable
    ELSE Partial(SuffixFirst(last, length), length - 1)

\* "A last-byte-pos past the end is clamped, not refused."
Clamp(last, length) == Min2(last, length - 1)

\* resolve, once the first position is a number inside the artifact.
Closed(first, last, length) ==
    IF last = Blank THEN Partial(first, length - 1)
    ELSE IF ~Parses(last) THEN Whole
    ELSE IF Clamp(last, length) < first THEN Unsatisfiable
    ELSE Partial(first, Clamp(last, length))

\* resolve
Resolve(header, length) ==
    IF header.form # "range" THEN Whole
    ELSE IF header.first = Blank THEN Suffix(header.last, length)
    ELSE IF ~Parses(header.first) THEN Whole
    ELSE IF header.first >= length THEN Unsatisfiable
    ELSE Closed(header.first, header.last, length)

-----------------------------------------------------------------------------
(* The reference: RFC 9110 as sets of byte positions.                      *)

\* Does the text follow the grammar `bytes=n-`, `bytes=n-m` or `bytes=-n`,
\* with numbers of any size?
WellFormed(h) ==
    /\ h.form = "range"
    /\ h.first # Junk /\ h.last # Junk
    /\ h.first # Blank \/ h.last # Blank

\* The positions a well-formed range asks for.
Asked(h, length) ==
    {b \in 0 .. length - 1 :
        IF h.first = Blank THEN b >= length - h.last
        ELSE b >= h.first /\ (h.last # Blank => b <= h.last)}

=============================================================================
