----------------------------- MODULE CacheSpec ------------------------------
(***************************************************************************)
(* What a binary cache promises its clients, with no processes, files,     *)
(* staging or transactions: a catalogue of claims, each signed, and a set  *)
(* of artifacts that can be fetched.  An artifact once fetchable stays so, *)
(* and nothing is claimed of an artifact that cannot be fetched.           *)
(***************************************************************************)
EXTENDS Integers

CONSTANTS Nars, Levels, Paths, Metas, Keys, None

VARIABLES
    catalog,       \* path -> what the cache claims of it, or None
    signers,       \* path -> the keys whose signatures the claim carries
    fetchable      \* the artifacts a client can fetch

vars == <<catalog, signers, fetchable>>

Artifact == Nars \X Levels

Claim == [nar_hash: Nars, meta: Metas, file_hash: Artifact]

Init ==
    /\ catalog = [x \in Paths |-> None]
    /\ signers = [x \in Paths |-> {}]
    /\ fetchable = {}

\* A NAR was pushed.
Arrive ==
    /\ \E f \in Artifact : fetchable' = fetchable \cup {f}
    /\ UNCHANGED <<catalog, signers>>

\* A path was published: the claim is of fetchable bytes of that NAR.
Publish(x) ==
    /\ \E c \in Claim, k \in Keys :
          /\ c.file_hash \in fetchable
          /\ c.file_hash[1] = c.nar_hash
          /\ catalog' = [catalog EXCEPT ![x] = c]
          /\ signers' = [signers EXCEPT ![x] = {k}]
    /\ UNCHANGED fetchable

\* The operator withdraws a path.
Withdraw(x) ==
    /\ catalog' = [catalog EXCEPT ![x] = None]
    /\ signers' = [signers EXCEPT ![x] = {}]
    /\ UNCHANGED fetchable

\* Some published paths are signed anew, by one key.
SignAnew ==
    /\ \E k \in Keys, xs \in SUBSET {x \in Paths : catalog[x] # None} :
          signers' = [x \in Paths |-> IF x \in xs THEN {k} ELSE signers[x]]
    /\ UNCHANGED <<catalog, fetchable>>

Next ==
    \/ Arrive
    \/ \E x \in Paths : Publish(x) \/ Withdraw(x)
    \/ SignAnew

Spec == Init /\ [][Next]_vars

=============================================================================
