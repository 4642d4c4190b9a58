----------------------------- MODULE UploadSpec -----------------------------
(***************************************************************************)
(* What `PUT nar/<hash>.nar` promises, with no hashers, encoder, files or  *)
(* rows: a NAR is kept only when somebody sent exactly the bytes its name  *)
(* says, 201 means it is kept, 400 means that this request never could     *)
(* have been, and what is kept stays kept.                                 *)
(***************************************************************************)
EXTENDS Integers

CONSTANTS
    Requests,
    Bodies,        \* what may be sent; the empty sequence is one of them
    Targets        \* what may be asked for: a hash and a compression

VARIABLES
    asked,         \* request -> its target and its body, or nothing
    told,          \* request -> what it was answered: nothing, 201, 400, 500, or
                   \* 0 when the connection was closed without an answer
    kept           \* the NARs that can be published

vars == <<asked, told, kept>>

\* No request, and no answer yet.
Silence == -1

\* Nobody has asked yet.
NoRequest == <<>>

Init ==
    /\ asked = [u \in Requests |-> NoRequest]
    /\ told = [u \in Requests |-> Silence]
    /\ kept = {}

\* A body that is what its target says, and may be kept.
Acceptable(a) == /\ a[1].compression = "none"
                 /\ a[1].hash = a[2]
                 /\ a[2] # <<>>

Open(u) == asked[u] # NoRequest /\ told[u] = Silence

\* A client asks, and may be refused on the spot.
Ask(u) ==
    /\ asked[u] = NoRequest
    /\ \E t \in Targets, b \in Bodies : asked' = [asked EXCEPT ![u] = <<t, b>>]
    /\ \E status \in {Silence, 400, 500} :
          /\ status = 400 => ~Acceptable(asked'[u])
          /\ told' = [told EXCEPT ![u] = status]
    /\ UNCHANGED kept

\* The NAR is kept.
Keep(u) ==
    /\ Open(u)
    /\ Acceptable(asked[u])
    /\ kept' = kept \cup {asked[u][2]}
    /\ UNCHANGED <<asked, told>>

\* The request ends.
Tell(u) ==
    /\ Open(u)
    /\ \E status \in {201, 400, 0} :
          /\ status = 201 => asked[u][2] \in kept
          /\ status = 400 => ~Acceptable(asked[u])
          /\ told' = [told EXCEPT ![u] = status]
    /\ UNCHANGED <<asked, kept>>

\* The server dies, and every open request with it.
Die ==
    /\ told' = [u \in Requests |-> IF Open(u) THEN 0 ELSE told[u]]
    /\ UNCHANGED <<asked, kept>>

Next == Die \/ \E u \in Requests : Ask(u) \/ Keep(u) \/ Tell(u)

Spec == Init /\ [][Next]_vars

=============================================================================
