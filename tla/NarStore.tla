------------------------------ MODULE NarStore ------------------------------
(***************************************************************************)
(* The payload store: crates/bincache-store/src/nar.rs.                    *)
(*                                                                         *)
(* An artifact's name is the hash of the compressed NAR.  SHA-256 is taken *)
(* to be injective, so the name of compress(nar, level) is the pair        *)
(* <<nar, level>>.  What is on disk under a name is described apart from   *)
(* the name: how many parts the file has, which compressed streams wrote   *)
(* to it, and whether the bytes have been fsynced.  A NAR of size n is     *)
(* written in n parts and a tail.                                          *)
(*                                                                         *)
(* The operators below are the store's calls; each constrains only the     *)
(* variables it names.                                                     *)
(***************************************************************************)
EXTENDS Integers, FiniteSets

CONSTANTS
    Nars,          \* NAR contents; a NAR hash is the content itself
    NarSize,       \* the size of each NAR, in chunks; 0 is the empty NAR
    Levels,        \* zstd levels a server may be started with
    Pids,          \* process identifiers; one may be reused after an exit
    MaxStages,     \* bound: staging files one process opens
    PowerFails,    \* may the machine lose power, or do only processes die?
    NoFile         \* the content of a name that is not on disk

ASSUME SizeAssumption == NarSize \in [Nars -> Nat]
ASSUME StageBoundAssumption == MaxStages \in Nat

VARIABLES
    staging,       \* staging/<pid>-<ordinal>.nar -> its bytes, or NoFile
    artifacts,     \* nar/<shard>/<file hash>.nar.zst -> its bytes, or NoFile
    unflushed      \* artifact -> the staging name whose rename onto it is in
                   \* the page cache only, or NoFile

storeVars == <<staging, artifacts, unflushed>>

Artifact == Nars \X Levels

\* `format!("{}-{ordinal}.nar", std::process::id())`
StagingName == Pids \X (0 .. MaxStages - 1)

Parts(nar) == NarSize[nar] + 1

Bytes == [len: Nat, of: SUBSET Artifact, synced: BOOLEAN]

NewFile == [len |-> 0, of |-> {}, synced |-> FALSE]

Whole(f) == [len |-> Parts(f[1]), of |-> {f}, synced |-> TRUE]

ASSUME NoFileAssumption == NoFile \notin Bytes /\ NoFile \notin StagingName

StoreTypeOK ==
    /\ staging \in [StagingName -> Bytes \cup {NoFile}]
    /\ artifacts \in [Artifact -> Bytes \cup {NoFile}]
    /\ unflushed \in [Artifact -> StagingName \cup {NoFile}]

\* Store::open on a fresh data directory: the skeleton, and nothing in it.
StoreInit ==
    /\ staging = [n \in StagingName |-> NoFile]
    /\ artifacts = [f \in Artifact |-> NoFile]
    /\ unflushed = [f \in Artifact |-> NoFile]

-----------------------------------------------------------------------------

\* Store::stage. File::create truncates what a reused name may hold.
Stage(n) == staging' = [staging EXCEPT ![n] = NewFile]

\* Staged::write at the upload's own offset, through its descriptor: a file
\* that was unlinked meanwhile swallows the bytes.
Write(n, offset, f) ==
    staging' = [staging EXCEPT ![n] =
        IF @ = NoFile THEN NoFile
        ELSE [len |-> IF @.len > offset THEN @.len ELSE offset + 1,
              of |-> @.of \cup {f},
              synced |-> FALSE]]

\* A commit that does not fsync.
Sync_Skipped(n) == UNCHANGED staging

\* The first half of Staged::commit: sync_all on the staging descriptor.
Sync(n) ==
    staging' = [staging EXCEPT ![n] =
        IF @ = NoFile THEN NoFile ELSE [@ EXCEPT !.synced = TRUE]]

\* The second half of Staged::commit: create_dir_all of the shard, then the
\* rename.  It fails when the staging name is gone.  The directory is not
\* fsynced, so a name that was not there before is not durable yet.
Rename(n, f) ==
    /\ staging[n] # NoFile
    /\ artifacts' = [artifacts EXCEPT ![f] = staging[n]]
    /\ staging' = [staging EXCEPT ![n] = NoFile]
    /\ unflushed' = IF PowerFails /\ artifacts[f] = NoFile
                    THEN [unflushed EXCEPT ![f] = n]
                    ELSE unflushed

\* remove_file of a staging name.
Unlink(n) == staging' = [staging EXCEPT ![n] = NoFile]

\* Store::scan: every artifact on disk.
Scan == {f \in Artifact : artifacts[f] # NoFile}

\* The listing Store::sweep_staging walks.
Leftovers == {n \in StagingName : staging[n] # NoFile}

\* Store::remove, or `rm` by the operator.
Remove(f) ==
    /\ artifacts' = [artifacts EXCEPT ![f] = NoFile]
    /\ unflushed' = [unflushed EXCEPT ![f] = NoFile]

-----------------------------------------------------------------------------
(* The filesystem under the store: external code.                          *)

\* The kernel writes a directory back on its own schedule.
Writeback(f) ==
    /\ unflushed[f] # NoFile
    /\ unflushed' = [unflushed EXCEPT ![f] = NoFile]
    /\ UNCHANGED <<staging, artifacts>>

\* What is left of a file's bytes when the page cache is lost.
Torn(b) == IF b = NoFile \/ b.synced THEN b ELSE [b EXCEPT !.len = 0]

\* The page cache is lost: unsynced bytes go, and any of the renames not yet
\* written back is undone, which puts the file back under its staging name.
LosePageCache ==
    \E lost \in SUBSET {f \in Artifact : unflushed[f] # NoFile} :
        /\ artifacts' = [f \in Artifact |->
               IF f \in lost THEN NoFile ELSE Torn(artifacts[f])]
        /\ staging' = [n \in StagingName |->
               IF \E f \in lost : unflushed[f] = n
               THEN Torn(artifacts[CHOOSE f \in lost : unflushed[f] = n])
               ELSE Torn(staging[n])]
        /\ unflushed' = [f \in Artifact |-> NoFile]

=============================================================================
