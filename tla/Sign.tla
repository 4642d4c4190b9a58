-------------------------------- MODULE Sign --------------------------------
(***************************************************************************)
(* Keys and signatures as text: bincache-core/src/sign.rs.                 *)
(*                                                                         *)
(* A text is its name, the halves of 32 bytes its base64 holds, and        *)
(* whether there is space behind it.  A name is the space it begins with   *)
(* and the parts that the colons in it separate: without a part there is   *)
(* no colon in the text.  ed25519 is external: the public half of a seed   *)
(* is a number of its own, and a signature is the seed and what it covers. *)
(***************************************************************************)
EXTENDS Integers, Sequences

\* The public half of a seed.
PublicHalf(seed) == 1000 + seed

\* render
Spell(name, halves) == [name |-> name, halves |-> halves, padded |-> FALSE]

\* str::trim, at both ends: the space in front is the name's.
Trim(text) == [text EXCEPT !.padded = FALSE, !.name.lead = ""]

\* split: at the first colon, with a name before it and nothing but base64
\* after it.
IsMaterial(text) ==
    /\ Len(text.name.parts) >= 1                             \* Separator
    /\ text.name.parts[1] # "" \/ text.name.lead # ""        \* NameEmpty
    /\ Len(text.name.parts) = 1 /\ ~text.padded              \* Base64

\* A key file is read as it is, the newline at its end included.
IsSecretKey_Untrimmed(text) == IsMaterial(text) /\ Len(text.halves) = 2

\* SecretKey::parse: a seed and a public half ...
IsSecretKey(text) == IsMaterial(Trim(text)) /\ Len(text.halves) = 2

\* ... of which the second is not looked at.
SecretKeyOf(text) == [name |-> Trim(text).name, seed |-> text.halves[1]]

\* SecretKey::generate
Generate(name, seed) == [name |-> name, seed |-> seed]

\* SecretKey::render
SecretText(key) == Spell(key.name, <<key.seed, PublicHalf(key.seed)>>)

\* SecretKey::public and PublicKey::render, as logged at boot and printed by
\* keygen and rotate.
PublicText(key) == Spell(key.name, <<PublicHalf(key.seed)>>)

\* SecretKey::sign
Signature(key, fingerprint) ==
    [name |-> key.name, seed |-> key.seed, over |-> fingerprint]

\* Signature::parse of what Display printed.
IsSignature(signature) == IsMaterial(Spell(signature.name, <<>>))

\* PublicKey::parse, then PublicKey::verify.
Verifies(text, fingerprint, signature) ==
    /\ IsMaterial(Trim(text)) /\ Len(text.halves) = 1
    /\ signature.name = Trim(text).name
    /\ PublicHalf(signature.seed) = text.halves[1]
    /\ signature.over = fingerprint

=============================================================================
