------------------------------- MODULE Index --------------------------------
(***************************************************************************)
(* The metadata index: crates/bincache-index/src/index.rs, nar.rs, and the *)
(* record of crates/bincache-core/src/narinfo.rs that it stores.           *)
(*                                                                         *)
(* Two redb tables.  A redb write transaction is atomic, durable when it   *)
(* commits, and excludes every other; redb locks the database file against *)
(* a second process.  So each method is one atomic step on the tables, and *)
(* `holder` is the process that has the file open.                         *)
(***************************************************************************)
EXTENDS NarStore

CONSTANTS
    Paths,         \* store path hashes, the key of the protocol
    Metas,         \* the references a narinfo declares; its deriver and ca are
                   \* copied along unsigned and left out
    Keys,          \* signing keys
    None           \* an absent row, or nobody

VARIABLES
    narinfo,       \* table NARINFO: store path hash -> NarInfo, or None
    nar,           \* table NAR: NAR hash -> Entry, or None
    holder         \* the process holding the database file lock, or None

indexVars == <<narinfo, nar, holder>>

\* bincache_index::nar::Entry; compression is always zstd
Entry == [file_hash: Artifact, file_size: Nat, nar_size: Nat]

\* NarInfo::fingerprint: what a signature covers. The payload's file hash is
\* not part of it.
Fingerprint(r) == <<r.store_path, r.nar_hash, r.nar_size, r.meta>>

Sig == [key: Keys, over: Paths \X Nars \X Nat \X Metas]

NarInfo == [store_path: Paths, nar_hash: Nars, nar_size: Nat, meta: Metas,
            file_hash: Artifact, file_size: Nat, sigs: SUBSET Sig]

\* The fields a re-signing must not touch.
Unsigned(r) == <<Fingerprint(r), r.file_hash, r.file_size>>

\* A signature over the whole record, the payload fields included.
Resign_WholeRecord(r, k) ==
    [r EXCEPT !.sigs = {[key |-> k, over |-> Unsigned(r)]}]

\* A signature beside the old ones.
Resign_Added(r, k) ==
    [r EXCEPT !.sigs = @ \cup {[key |-> k, over |-> Fingerprint(r)]}]

\* NarInfo::resign replaces whatever signatures the record had.
Resign(r, k) ==
    [r EXCEPT !.sigs = {[key |-> k, over |-> Fingerprint(r)]}]

ASSUME NoneAssumption == /\ None \notin NarInfo
                         /\ None \notin Entry
                         /\ None \notin Pids

IndexTypeOK ==
    /\ narinfo \in [Paths -> NarInfo \cup {None}]
    /\ nar \in [Nars -> Entry \cup {None}]
    /\ holder \in Pids \cup {None}

IndexInit ==
    /\ narinfo = [x \in Paths |-> None]
    /\ nar = [n \in Nars |-> None]
    /\ holder = None

-----------------------------------------------------------------------------

\* redb refuses a second opener with DatabaseAlreadyOpen.
IndexFree == holder = None

\* Without the file lock.
OpenIndex_Unlocked(p) == holder' = p

\* Index::open: the file lock, kept until the process exits. Opening
\* commits a transaction that creates the two tables, and changes no row.
OpenIndex(p) == IndexFree /\ holder' = p

CloseIndex(p) == holder' = IF holder = p THEN None ELSE holder

\* Index::put_nar
PutNar(n, e) == nar' = [nar EXCEPT ![n] = e]

\* Index::publish
Publish(r) == narinfo' = [narinfo EXCEPT ![r.store_path] = r]

\* Index::republish: one transaction over a batch of records with distinct
\* paths.
Republish(batch) ==
    narinfo' = [x \in Paths |->
        IF \E r \in batch : r.store_path = x
        THEN CHOOSE r \in batch : r.store_path = x
        ELSE narinfo[x]]

\* Index::unpublish: the record and the NAR row it names go together, even
\* when another record names the same NAR.
Unpublish(x) ==
    /\ narinfo[x] # None
    /\ narinfo' = [narinfo EXCEPT ![x] = None]
    /\ nar' = [nar EXCEPT ![narinfo[x].nar_hash] = None]

\* Index::records: a snapshot.
Records == {narinfo[x] : x \in {y \in Paths : narinfo[y] # None}}

=============================================================================
