-------------------------------- MODULE Http --------------------------------
(***************************************************************************)
(* What a request head says: bincache-serve/src/http.rs (parse and absorb, *)
(* header by header), route.rs and bincache-ingest/src/auth.rs; and what a *)
(* response head says of its body (http/response.rs).                      *)
(*                                                                         *)
(* Text is described by the tests the code puts it to.  A target: is it    *)
(* absolute, is it one of the two fixed names, has it the `nar/` prefix or *)
(* the `.narinfo` suffix, does what is left of it decode.  A field: its    *)
(* name, and its value as a number (content-length), a scheme and what     *)
(* follows it (authorization) or a word.  A credential is a word, perhaps  *)
(* with space around it.                                                   *)
(***************************************************************************)
EXTENDS Integers, Sequences

CONSTANTS
    TokenFlags,    \* --push-token, as given
    TokenLines     \* the lines of --push-token-file

NotANumber == -1

\* A word, and whether there is space around it.
Text == STRING \X BOOLEAN

\* str::trim
Trim(text) == <<text[1], FALSE>>

Blank == <<"", FALSE>>

\* `decodes`: base64 of a user, a colon and the text, as Basic wants it.
Authorization == [scheme: STRING, text: Text, decodes: BOOLEAN]

\* authorization: None
NoCredential == [scheme |-> "", text |-> Blank, decodes |-> FALSE]

Target == [absolute: BOOLEAN, fixed: {"nix-cache-info", "metrics", "no"},
           nar: BOOLEAN, narinfo: BOOLEAN, decodes: BOOLEAN]

\* No head was read yet.
Nothing == [ok |-> FALSE]

\* The Request that parse starts from. `line` is good when the head is UTF-8 and
\* its first line has three parts, an HTTP/1 version and a known method.
Fresh(h) ==
    [ok |-> h.line = "good", method |-> h.method, target |-> h.target,
     framing |-> "Empty", length |-> 0, keep_alive |-> "Keep",
     expectation |-> "None", authorization |-> NoCredential]

\* The later of two framings wins.
Refuses_LaterWins(request, field) ==
    \/ field.name = "malformed"
    \/ field.name = "content-length" /\ field.value = NotANumber

\* What absorb fails on: a line without a colon, a length that is no number,
\* and the second of two framings that disagree, in either order.
Refuses(request, field) ==
    \/ field.name = "malformed"
    \/ /\ field.name = "content-length"
       /\ request.framing = "Chunked" \/ field.value = NotANumber
    \/ field.name = "transfer-encoding" /\ request.framing = "Length"

\* absorb, for a field it does not fail on. Of two equal names the later
\* counts.
Accept(request, field) ==
    CASE field.name = "content-length" ->
            [request EXCEPT !.framing = "Length", !.length = field.value]
      [] field.name = "transfer-encoding" ->
            [request EXCEPT !.framing = "Chunked", !.length = 0]
      [] field.name = "connection" ->
            [request EXCEPT !.keep_alive =
                IF field.value = "close" THEN "Close" ELSE "Keep"]
      [] field.name = "expect" ->
            [request EXCEPT !.expectation =
                IF field.value = "100-continue" THEN "Continue" ELSE "None"]
      [] field.name = "authorization" ->
            [request EXCEPT !.authorization = field.value]
      [] OTHER -> request

Absorb(request, field) ==
    IF request.ok /\ ~Refuses(request, field)
    THEN Accept(request, field)
    ELSE [request EXCEPT !.ok = FALSE]

\* The Request after so many header lines.
Absorbed(h) ==
    LET request[i \in 0 .. Len(h.headers)] ==
            IF i = 0 THEN Fresh(h) ELSE Absorb(request[i - 1], h.headers[i])
    IN  request

\* parse
Parse(h) == Absorbed(h)[Len(h.headers)]

\* Request::carries_body
CarriesBody(request) ==
    \/ request.framing = "Length" /\ request.length > 0
    \/ request.framing = "Chunked"

\* route::resolve; "unknown" and "malformed" are its errors.
Route(target) ==
    CASE ~target.absolute -> "malformed"
      [] target.fixed = "nix-cache-info" -> "cacheinfo"
      [] target.fixed = "metrics" -> "metrics"
      [] target.nar -> IF target.decodes THEN "nar" ELSE "malformed"
      [] target.narinfo -> IF target.decodes THEN "narinfo" ELSE "malformed"
      [] OTHER -> "unknown"

\* Blank flags and lines count.
PushTokens_Blanks == TokenFlags \cup {Trim(line) : line \in TokenLines}

\* push_tokens: flags as they are, lines trimmed, neither when empty. With no
\* token at all the cache is read-only.
PushTokens == (TokenFlags \cup {Trim(line) : line \in TokenLines}) \ {Blank}

\* auth::credential: a bearer token, trimmed, or the password of a Basic pair,
\* as it is. Any other scheme has none.
Credential(authorization) ==
    CASE authorization.scheme = "Bearer" -> {Trim(authorization.text)}
      [] authorization.scheme = "Basic" /\ authorization.decodes -> {authorization.text}
      [] OTHER -> {}

\* Tokens::admits, by digest
Admits(authorization) == Credential(authorization) \cap PushTokens # {}

-----------------------------------------------------------------------------
(* http/response.rs: what a head declares, and what is written after it.   *)

\* `bare`, and a head that is finished with a length and no body.
Bare(length) == [declared |-> length, written |-> 0, pumped |-> "Whole"]

\* Head::with_body
WithBody(length) == [declared |-> length, written |-> length, pumped |-> "Whole"]

\* A file that ends before the length it was recorded with: its head is out,
\* and pump stops at the read of zero.
CutShort(length) == [declared |-> length, written |-> length - 1, pumped |-> "Short"]

=============================================================================
