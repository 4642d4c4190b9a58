------------------------- MODULE CacheRecordProofs --------------------------
(***************************************************************************)
(* Theorems about the records of Cache: who signed them, what a rotation   *)
(* does to them, that acknowledged ones last, and that removing orphans    *)
(* spares them.  Power may fail and the operator may remove orphans in all *)
(* of them.                                                                *)
(***************************************************************************)
EXTENDS CacheProofs

USE DEF reportVars, DropStaged

-----------------------------------------------------------------------------
(* Signatures.                                                             *)

\* A re-signed record differs in its signature, which is the new key's.
LEMMA ResignFacts ==
  ASSUME NEW r \in NarInfo, NEW k
  PROVE  /\ SignedBy(Resign(r, k), k)
         /\ Unsigned(Resign(r, k)) = Unsigned(r)
         /\ Resign(r, k).store_path = r.store_path
  BY DEF Resign, SignedBy, Unsigned, Fingerprint, NarInfo

\* Unsigned tells the path and the artifact.
LEMMA UnsignedFacts ==
  ASSUME NEW r, NEW s, Unsigned(r) = Unsigned(s)
  PROVE  /\ r.store_path = s.store_path
         /\ r.file_hash = s.file_hash
         /\ Fingerprint(r) = Fingerprint(s)
  BY DEF Unsigned, Fingerprint

\* While the index is free, or one process holds it, nobody else runs.
LEMMA Alone ==
  ASSUME TypeInv, StoreInv
  PROVE  /\ IndexFree => \A p \in Pids : mode[p] = "off"
         /\ \A p, r \in Pids : mode[p] # "off" /\ mode[r] # "off" => p = r
  BY NoneAssumption DEF StoreInv, LockHeld, IndexFree, TypeInv, TypeOK

\* What Republish leaves under a path, when the batch holds re-signed records
\* of that path only.
LEMMA RepublishFacts ==
  ASSUME NEW batch, Republish(batch), NEW x \in Paths
  PROVE  \/ narinfo'[x] \in batch /\ narinfo'[x].store_path = x
         \/ /\ narinfo'[x] = narinfo[x]
            /\ \A r \in batch : r.store_path # x
<1>1. CASE \E r \in batch : r.store_path = x
  <2>1. narinfo'[x] = CHOOSE r \in batch : r.store_path = x
    BY <1>1 DEF Republish
  <2>2. QED BY <1>1, <2>1
<1>2. CASE ~\E r \in batch : r.store_path = x
  BY <1>2 DEF Republish
<1>3. QED BY <1>1, <1>2

\* A batch of a rotation gives every record it touches another signature and
\* leaves the rest of it.
LEMMA BatchResigns ==
  ASSUME TypeInv, SignInv, NEW p \in Pids, RotateBatch(p), NEW x \in Paths
  PROVE  /\ narinfo[x] = None <=> narinfo'[x] = None
         /\ narinfo[x] # None => Unsigned(narinfo'[x]) = Unsigned(narinfo[x])
<1>1. PICK batch \in SUBSET snapshot[p] : Republish(batch)
  BY DEF RotateBatch
<1>2. CASE narinfo'[x] \in batch /\ narinfo'[x].store_path = x
  <2>1. narinfo'[x] # None
    BY <1>2, NoneAssumption DEF TypeInv, TypeOK
  <2>2. narinfo[x] # None /\ Unsigned(narinfo'[x]) = Unsigned(narinfo[x])
    BY <1>2 DEF SignInv, SnapshotCurrent
  <2>3. QED BY <2>1, <2>2
<1>3. CASE narinfo'[x] = narinfo[x]
  BY <1>3
<1>4. QED BY <1>1, <1>2, <1>3, RepublishFacts

\* The parts of SignInv, for a step that leaves the records alone and starts
\* and ends nothing.
LEMMA SignFrame ==
  ASSUME TypeInv, SignInv,
         UNCHANGED <<narinfo, mode, key, snapshot, rotatedTo>>,
         \A q \in Publications : publication'[q] # None =>
             \/ /\ publication[q] # None
                /\ publication'[q].record = publication[q].record
                /\ publication'[q].pid = publication[q].pid
             \/ SignedBy(publication'[q].record, key[publication'[q].pid])
  PROVE  SignInv'
<1>1. OneValidSignature' /\ RotationRetiresKeys'
  BY DEF SignInv, OneValidSignature, RotationRetiresKeys, SignedBy
<1>2. (\A q \in Publications : publication[q] # None =>
          SignedBy(publication[q].record, key[publication[q].pid]))'
  BY DEF SignInv, SignedBy
<1>3. SnapshotCurrent'
  BY DEF SignInv, SnapshotCurrent, SignedBy
<1>4. QED BY <1>1, <1>2, <1>3 DEF SignInv

LEMMA ProcessSigned ==
  ASSUME TypeInv, StoreInv, SignInv, NEW p \in Pids, ProcessStep(p)
  PROVE  SignInv'
<1> USE DEF TypeInv, TypeOK
<1>1. CASE Serve(p)
  <2>1. /\ \A r \in Pids : mode[r] = "off"
        /\ \A q \in Publications : publication[q] = None
    BY <1>1, Alone, Quiet DEF Serve, OpenIndex
  <2>2. PICK k \in Keys :
          /\ key' = [key EXCEPT ![p] = k]
          /\ rotatedTo' = IF rotatedTo = k THEN k ELSE None
    BY <1>1 DEF Serve
  <2>3. /\ UNCHANGED <<narinfo, snapshot, publication>>
        /\ mode' = [mode EXCEPT ![p] = "sweeping"]
    BY <1>1 DEF Serve, requestVars
  <2>4. \A r \in Pids : snapshot[r] = {}
    BY <2>1 DEF SignInv, SnapshotCurrent
  <2>5. SnapshotCurrent'
    BY <2>1, <2>3, <2>4 DEF SnapshotCurrent
  <2>6. OneValidSignature' /\ RotationRetiresKeys'
    BY <2>2, <2>3 DEF SignInv, OneValidSignature, RotationRetiresKeys, SignedBy
  <2>7. (rotatedTo # None => \A r \in Pids : mode[r] # "off" =>
            mode[r] # "rotating" /\ key[r] = rotatedTo)'
    BY <2>1, <2>2, <2>3
  <2>8. QED BY <2>1, <2>3, <2>5, <2>6, <2>7 DEF SignInv
<1>2. CASE SweepOne(p)
  BY <1>2, SignFrame DEF SweepOne, indexVars, requestVars, observations
<1>3. CASE Listen(p)
  <2>1. /\ UNCHANGED <<narinfo, key, snapshot, publication, rotatedTo>>
        /\ mode[p] = "sweeping"
        /\ mode' = [mode EXCEPT ![p] = "serving"]
    BY <1>3 DEF Listen, indexVars, requestVars, observations
  <2>2. SnapshotCurrent'
    BY <2>1 DEF SignInv, SnapshotCurrent, SignedBy
  <2>3. OneValidSignature' /\ RotationRetiresKeys'
    BY <2>1 DEF SignInv, OneValidSignature, RotationRetiresKeys, SignedBy
  <2>4. QED BY <2>1, <2>2, <2>3 DEF SignInv, SignedBy
<1>4. CASE Crash(p) \/ PowerLoss(p)
  <2>1. (mode[p] # "off" \/ IndexFree) /\ Exit(p) /\ UNCHANGED rotatedTo
    BY <1>4 DEF Crash, PowerLoss
  <2>2. /\ UNCHANGED narinfo
        /\ \A r \in Pids : mode'[r] = "off" /\ snapshot'[r] = {}
        /\ \A q \in Publications : publication'[q] = None
    <3>1. \A r \in Pids \ {p} : mode[r] = "off" /\ snapshot[r] = {}
      BY <2>1, Alone DEF SignInv, SnapshotCurrent
    <3>2. QED BY <2>1, <3>1, ExitClears DEF Exit
  <2>3. SnapshotCurrent'
    BY <2>2 DEF SnapshotCurrent
  <2>4. OneValidSignature' /\ RotationRetiresKeys'
    BY <2>1, <2>2 DEF SignInv, OneValidSignature, RotationRetiresKeys, SignedBy
  <2>5. QED BY <2>2, <2>3, <2>4 DEF SignInv
<1>5. CASE Rotate(p)
  <2>1. /\ \A r \in Pids : mode[r] = "off" /\ snapshot[r] = {}
        /\ \A q \in Publications : publication[q] = None
    BY <1>5, Alone, Quiet DEF Rotate, OpenIndex, SignInv, SnapshotCurrent
  <2>2. PICK k \in Keys :
          /\ key' = [key EXCEPT ![p] = k]
          /\ snapshot' = [snapshot EXCEPT ![p] = {Resign(r, k) : r \in Records}]
    BY <1>5 DEF Rotate
  <2>3. /\ UNCHANGED <<narinfo, publication>> /\ rotatedTo' = None
        /\ mode' = [mode EXCEPT ![p] = "rotating"]
    BY <1>5 DEF Rotate, requestVars
  <2>4. ASSUME NEW r \in snapshot'[p]
        PROVE  /\ SignedBy(r, k)
               /\ narinfo[r.store_path] # None
               /\ Unsigned(r) = Unsigned(narinfo[r.store_path])
    <3>1. PICK x \in Paths : narinfo[x] # None /\ r = Resign(narinfo[x], k)
      BY <2>2 DEF Records
    <3>2. narinfo[x] \in NarInfo /\ narinfo[x].store_path = x
      BY <3>1 DEF IndexTypeOK, SignInv
    <3>3. QED BY <3>1, <3>2, ResignFacts
  <2>5. ASSUME NEW x \in Paths, narinfo[x] # None
        PROVE  \E r \in snapshot'[p] : r.store_path = x
    <3>1. narinfo[x] \in NarInfo /\ narinfo[x].store_path = x
      BY <2>5 DEF IndexTypeOK, SignInv
    <3>2. Resign(narinfo[x], k) \in snapshot'[p]
      BY <2>2, <2>5 DEF Records
    <3>3. QED BY <3>1, <3>2, ResignFacts
  <2>6. SnapshotCurrent'
    BY <2>1, <2>2, <2>3, <2>4, <2>5 DEF SnapshotCurrent, SignedBy
  <2>7. OneValidSignature' /\ RotationRetiresKeys'
    BY <2>3 DEF SignInv, OneValidSignature, RotationRetiresKeys, SignedBy
  <2>8. QED BY <2>1, <2>3, <2>6, <2>7 DEF SignInv
<1>6. CASE RotateBatch(p)
  <2>1. PICK batch \in SUBSET snapshot[p] :
          /\ Republish(batch)
          /\ snapshot' = [snapshot EXCEPT ![p] = @ \ batch]
    BY <1>6 DEF RotateBatch
  <2>2. /\ mode[p] = "rotating" /\ key[p] \in Keys
        /\ UNCHANGED <<mode, key, publication, rotatedTo>>
    BY <1>6 DEF RotateBatch, requestVars, observations, ArgsPresent
  <2>3. /\ \A r \in Pids \ {p} : mode[r] = "off" /\ snapshot[r] = {}
        /\ \A q \in Publications : publication[q] = None
    BY <2>2, Alone, Quiet DEF SignInv, SnapshotCurrent
  <2>4. rotatedTo = None
    BY <2>2 DEF SignInv
  <2>5. ASSUME NEW x \in Paths, narinfo'[x] # None
        PROVE  /\ narinfo[x] # None
               /\ Unsigned(narinfo'[x]) = Unsigned(narinfo[x])
               /\ narinfo'[x].store_path = x
    <3>1. /\ narinfo[x] # None
          /\ Unsigned(narinfo'[x]) = Unsigned(narinfo[x])
      BY <1>6, <2>5, BatchResigns
    <3>2. QED BY <3>1, UnsignedFacts DEF SignInv
  <2>6. ASSUME NEW x \in Paths, narinfo'[x] # None
        PROVE  \/ SignedBy(narinfo'[x], key[p])
               \/ /\ narinfo'[x] = narinfo[x]
                  /\ \A r \in batch : r.store_path # x
    BY <2>1, RepublishFacts DEF SignInv, SnapshotCurrent
  <2>7. OneValidSignature'
    <3>1. ASSUME NEW x \in Paths, narinfo'[x] # None
          PROVE  \E k \in Keys : SignedBy(narinfo'[x], k)
      BY <2>2, <2>5, <2>6, <3>1 DEF SignInv, OneValidSignature
    <3>2. QED BY <3>1 DEF OneValidSignature, SignedBy
  <2>8. ASSUME NEW r \in snapshot'[p]
        PROVE  /\ SignedBy(r, key[p])
               /\ narinfo'[r.store_path] # None
               /\ Unsigned(r) = Unsigned(narinfo'[r.store_path])
    <3>1. /\ r \in snapshot[p] /\ r.store_path \in Paths
          /\ SignedBy(r, key[p]) /\ narinfo[r.store_path] # None
          /\ Unsigned(r) = Unsigned(narinfo[r.store_path])
      BY <2>1 DEF SignInv, SnapshotCurrent, NarInfo
    <3>2. QED BY <1>6, <3>1, BatchResigns
  <2>9. ASSUME NEW x \in Paths, narinfo'[x] # None
        PROVE  \/ SignedBy(narinfo'[x], key[p])
               \/ \E r \in snapshot'[p] : r.store_path = x
    BY <2>1, <2>2, <2>5, <2>6, <2>9 DEF SignInv, SnapshotCurrent
  <2>10. SnapshotCurrent'
    BY <2>1, <2>2, <2>3, <2>8, <2>9 DEF SnapshotCurrent, SignedBy
  <2>11. QED
    BY <2>2, <2>3, <2>4, <2>5, <2>7, <2>10 DEF SignInv, RotationRetiresKeys
<1>7. CASE RotateDone(p)
  <2>1. /\ mode[p] = "rotating" /\ snapshot[p] = {} /\ rotatedTo' = key[p]
        /\ Exit(p)
    BY <1>7 DEF RotateDone, AllCommitted
  <2>2. /\ UNCHANGED narinfo
        /\ \A r \in Pids : mode'[r] = "off" /\ snapshot'[r] = {}
        /\ \A q \in Publications : publication'[q] = None
    <3>1. \A r \in Pids \ {p} : mode[r] = "off" /\ snapshot[r] = {}
      BY <2>1, Alone DEF SignInv, SnapshotCurrent
    <3>2. QED BY <2>1, <3>1, ExitClears DEF Exit
  <2>3. \A x \in Paths : narinfo[x] # None => SignedBy(narinfo[x], key[p])
    BY <2>1 DEF SignInv, SnapshotCurrent
  <2>4. OneValidSignature' /\ RotationRetiresKeys'
    BY <2>1, <2>2, <2>3 DEF SignInv, OneValidSignature, RotationRetiresKeys, SignedBy
  <2>5. SnapshotCurrent'
    BY <2>2 DEF SnapshotCurrent
  <2>6. QED BY <2>2, <2>4, <2>5 DEF SignInv
<1>8. CASE Resolve(p) \/ \E u \in Uploads : Receive(p, u)
  BY <1>8, SignFrame DEF Resolve, Receive, indexVars, procVars, requestVars,
                         observations
<1>9. CASE \E q \in Publications : LookUp(p, q)
  <2>1. PICK q \in Publications : LookUp(p, q)
    BY <1>9
  <2>2. PICK x \in Paths, n \in Nars, size \in {NarSize[m] : m \in Nars},
             meta \in Metas :
          /\ nar[n] # None
          /\ publication' = [publication EXCEPT ![q] =
                 [state |-> "found", pid |-> p,
                  record |-> Resign(RecordFor(p, x, n, size, meta), key[p])]]
    BY ONLY <2>1 DEF LookUp
  <2>3. RecordFor(p, x, n, size, meta) \in NarInfo
    BY <2>2, SizeAssumption DEF RecordFor, NarInfo, IndexTypeOK, Entry
  <2>4. SignedBy(Resign(RecordFor(p, x, n, size, meta), key[p]), key[p])
    BY <2>3, ResignFacts
  <2>5. UNCHANGED <<narinfo, mode, key, snapshot, rotatedTo>>
    BY <2>1 DEF LookUp, publishFrame, procVars
  <2>6. \A r \in Publications : publication'[r] # None =>
            \/ publication'[r] = publication[r]
            \/ SignedBy(publication'[r].record, key[publication'[r].pid])
    BY <2>2, <2>4
  <2>7. QED BY <2>5, <2>6, SignFrame
<1>10. QED
  BY <1>1, <1>2, <1>3, <1>4, <1>5, <1>6, <1>7, <1>8, <1>9 DEF ProcessStep

LEMMA PublishSigned ==
  ASSUME TypeInv, StoreInv, SignInv, NEW q \in Publications, PublishStep(q)
  PROVE  SignInv'
<1> USE DEF TypeInv, TypeOK
<1>1. /\ UNCHANGED <<mode, key, snapshot, rotatedTo>>
      /\ \A r \in Publications : publication'[r] # None =>
            /\ publication[r] # None
            /\ publication'[r].record = publication[r].record
            /\ publication'[r].pid = publication[r].pid
  BY DEF PublishStep, PublishRecord, AnswerPublish, FailPublish, publishFrame,
         procVars, Publication
<1>2. CASE PublishRecord(q)
  <2> DEFINE r == publication[q].record
             p == publication[q].pid
  <2>1. /\ publication[q] \in Publication /\ publication[q] # None
        /\ r \in NarInfo /\ r.store_path \in Paths /\ p \in Pids
        /\ narinfo' = [narinfo EXCEPT ![r.store_path] = r]
    BY <1>2 DEF PublishRecord, Publish, Publication, NarInfo
  <2>2. mode[p] = "serving" /\ key[p] \in Keys
    BY <2>1 DEF StoreInv, RequestsOwned, ArgsPresent
  <2>3. SignedBy(r, key[p])
    BY <2>1 DEF SignInv
  <2>4. \A s \in Pids : mode[s] # "rotating" /\ snapshot[s] = {}
    BY <2>1, <2>2, Alone DEF SignInv, SnapshotCurrent
  <2>5. \A x \in Paths : narinfo'[x] = IF x = r.store_path THEN r ELSE narinfo[x]
    BY <2>1 DEF IndexTypeOK
  <2>6. \A x \in Paths : narinfo'[x] # None =>
            /\ narinfo'[x].store_path = x
            /\ \E k \in Keys : SignedBy(narinfo'[x], k)
            /\ rotatedTo # None => SignedBy(narinfo'[x], rotatedTo)
    <3>1. rotatedTo # None => key[p] = rotatedTo
      BY <2>1, <2>2 DEF SignInv
    <3>2. QED
      BY <2>2, <2>3, <2>5, <3>1 DEF SignInv, OneValidSignature, RotationRetiresKeys
  <2>7. OneValidSignature' /\ RotationRetiresKeys'
    BY <1>1, <2>6 DEF OneValidSignature, RotationRetiresKeys, SignedBy
  <2>8. SnapshotCurrent'
    BY <1>1, <2>4 DEF SnapshotCurrent
  <2>9. (\A s \in Publications : publication[s] # None =>
            SignedBy(publication[s].record, key[publication[s].pid]))'
    BY <1>1 DEF SignInv, SignedBy
  <2>10. QED BY <1>1, <2>6, <2>7, <2>8, <2>9 DEF SignInv
<1>3. CASE ~PublishRecord(q)
  <2>1. UNCHANGED narinfo
    BY <1>3 DEF PublishStep, AnswerPublish, FailPublish
  <2>2. QED BY <1>1, <2>1, SignFrame
<1>4. QED BY <1>2, <1>3

LEMMA DeleteSigned ==
  ASSUME TypeInv, StoreInv, SignInv, NEW x \in Paths, Delete(x)
  PROVE  SignInv'
<1>1. /\ UNCHANGED <<mode, key, snapshot, publication, rotatedTo>>
      /\ \A y \in Paths : narinfo'[y] \in {None, narinfo[y]}
  BY DEF Delete, Unpublish, procVars, requestVars, TypeInv, TypeOK, IndexTypeOK
<1>2. \A p \in Pids : mode[p] = "off" /\ snapshot[p] = {}
  BY Alone DEF Delete, SignInv, SnapshotCurrent
<1>3. OneValidSignature' /\ RotationRetiresKeys'
  <2>1. \A y \in Paths : narinfo'[y] # None =>
            /\ \E k \in Keys : SignedBy(narinfo'[y], k)
            /\ rotatedTo # None => SignedBy(narinfo'[y], rotatedTo)
    BY <1>1 DEF SignInv, OneValidSignature, RotationRetiresKeys
  <2>2. QED BY <1>1, <2>1 DEF OneValidSignature, RotationRetiresKeys, SignedBy
<1>4. SnapshotCurrent'
  BY <1>1, <1>2 DEF SnapshotCurrent
<1>5. (\A q \in Publications : publication[q] # None =>
          SignedBy(publication[q].record, key[publication[q].pid]))'
  BY <1>1 DEF SignInv, SignedBy
<1>6. (\A y \in Paths : narinfo[y] # None => narinfo[y].store_path = y)'
  BY <1>1 DEF SignInv
<1>7. QED BY <1>1, <1>3, <1>4, <1>5, <1>6 DEF SignInv

LEMMA SignStep == TypeInv /\ StoreInv /\ SignInv /\ [Next]_vars => SignInv'
<1> SUFFICES ASSUME TypeInv, StoreInv, SignInv, [Next]_vars
             PROVE  SignInv'
  OBVIOUS
<1>1. CASE \/ \E u \in Uploads : UploadStep(u)
           \/ Reconcile \/ RemoveOrphan \/ Flush \/ UNCHANGED vars
  <2>1. UNCHANGED <<narinfo, mode, key, snapshot, publication, rotatedTo>>
    BY <1>1 DEF UploadStep, WriteChunk, Finish, Verify, Reject, SyncStaged,
                Commit, RecordNar, AnswerUpload, Abandon, uploadFrame, Reconcile,
                RemoveOrphan, Flush, vars, indexVars, procVars, requestVars,
                observations
  <2>2. QED BY <2>1, SignFrame
<1>2. QED
  BY <1>1, ProcessSigned, PublishSigned, DeleteSigned DEF Next, OperatorStep

LEMMA SignInvariant == Spec => [](TypeInv /\ StoreInv /\ SignInv)
<1>1. Init => SignInv
  BY DEF Init, IndexInit, SignInv, OneValidSignature, RotationRetiresKeys,
         SnapshotCurrent
<1>2. QED BY <1>1, SignStep, StoreInvariant, PTL DEF Spec

\* Every published record carries one signature and it verifies, before,
\* during and after any number of rotations, finished or crashed between two
\* batches (NarInfo::resign, republish in one transaction per batch).
THEOREM AlwaysSigned == Spec => []OneValidSignature
  BY SignInvariant, PTL DEF SignInv

\* After a rotation that ended, no record answers to another key for as long
\* as servers run with the new one; a record published in between would be
\* the way to break it, and the index lock excludes it.
THEOREM RetiredForGood == Spec => []RotationRetiresKeys
  BY SignInvariant, PTL DEF SignInv

\* A batch loses no record, revives none and changes nothing but signatures:
\* what rotate read is still what is in the table when it writes.
THEOREM OnlyResigns == Spec => RotationOnlyResigns
<1> DEFINE Step == \A p \in Pids : RotateBatch(p) =>
        \A x \in Paths :
            /\ (narinfo[x] = None) <=> (narinfo'[x] = None)
            /\ narinfo[x] # None => Unsigned(narinfo'[x]) = Unsigned(narinfo[x])
<1>1. TypeInv /\ SignInv => Step
  BY BatchResigns
<1>2. QED BY <1>1, SignInvariant, PTL DEF Spec, RotationOnlyResigns

-----------------------------------------------------------------------------
(* Acknowledgements.                                                       *)

\* Only `delete` takes rows away.
LEMMA RowsStay ==
  ASSUME TypeInv, SignInv, [Next]_vars, ~\E x \in Paths : Delete(x)
  PROVE  /\ \A x \in Paths : narinfo[x] # None => narinfo'[x] # None
         /\ \A n \in Nars : nar[n] # None => nar'[n] # None
<1> USE DEF TypeInv, TypeOK
<1>1. CASE \E p \in Pids : RotateBatch(p)
  <2>1. PICK p \in Pids : RotateBatch(p)
    BY <1>1
  <2>2. UNCHANGED nar
    BY <2>1 DEF RotateBatch
  <2>3. QED BY <2>1, <2>2, BatchResigns
<1>2. CASE \E u \in Uploads : RecordNar(u)
  <2>1. PICK u \in Uploads : RecordNar(u)
    BY <1>2
  <2>2. UNCHANGED narinfo
    BY <2>1 DEF RecordNar, uploadFrame
  <2>3. upload[u] \in Upload /\ EntryOf(upload[u]) \in Entry
    BY <2>1, SizeAssumption DEF RecordNar, EntryOf, Entry, Upload, Art, Artifact
  <2>4. QED
    BY <2>1, <2>2, <2>3, NoneAssumption DEF RecordNar, PutNar, IndexTypeOK
<1>3. CASE \E q \in Publications : PublishRecord(q)
  <2>1. PICK q \in Publications : PublishRecord(q)
    BY <1>3
  <2>2. publication[q].record \in NarInfo
    BY <2>1 DEF PublishRecord, Publication
  <2>3. QED
    BY <2>1, <2>2, NoneAssumption DEF PublishRecord, Publish, publishFrame,
                                      IndexTypeOK
<1>4. CASE /\ ~\E p \in Pids : RotateBatch(p)
           /\ ~\E u \in Uploads : RecordNar(u)
           /\ ~\E q \in Publications : PublishRecord(q)
  <2>1. UNCHANGED <<narinfo, nar>>
    BY <1>4
       DEF Next, ProcessStep, Serve, SweepOne, Listen, Crash, PowerLoss, Exit,
           Rotate, RotateDone, Resolve, Receive, LookUp, UploadStep, WriteChunk,
           Finish, Verify, Reject, SyncStaged, Commit, AnswerUpload, Abandon,
           uploadFrame, PublishStep, AnswerPublish, FailPublish, publishFrame,
           OperatorStep, Reconcile, RemoveOrphan, Flush, vars, indexVars
  <2>2. QED BY <2>1
<1>5. QED BY <1>1, <1>2, <1>3, <1>4

\* What is left to show of a step that deletes nothing.
LEMMA AckByParts ==
  ASSUME TypeInv', AckInv,
         \A x \in Paths : narinfo[x] # None => narinfo'[x] # None,
         \A n \in Nars : nar[n] # None => nar'[n] # None,
         \A x \in ackedPaths' : x \in ackedPaths \/ narinfo[x] # None,
         \A n \in ackedNars' : n \in ackedNars \/ nar[n] # None,
         \A q \in Publications :
             publication'[q] # None /\ Committed(publication'[q]) =>
                \/ publication'[q] = publication[q]
                \/ narinfo'[publication'[q].record.store_path] # None,
         \A u \in Uploads :
             upload'[u] # None /\ upload'[u].state = "Recorded" =>
                upload'[u] = upload[u] \/ nar'[upload'[u].body] # None
  PROVE  AckInv'
<1> USE DEF TypeInv, TypeOK
<1>1. AcksSurvive'
  BY DEF AckInv, AcksSurvive
<1>2. (\A q \in Publications : publication[q] # None /\ Committed(publication[q]) =>
          narinfo[publication[q].record.store_path] # None)'
  BY DEF AckInv, Committed, Publication, NarInfo
<1>3. (\A u \in Uploads : upload[u] # None /\ upload[u].state = "Recorded" =>
          nar[upload[u].body] # None)'
  BY DEF AckInv, Upload
<1>4. QED BY <1>1, <1>2, <1>3 DEF AckInv

LEMMA AckStep ==
  TypeInv /\ StoreInv /\ SignInv /\ AckInv /\ [Next]_vars => AckInv'
<1> SUFFICES ASSUME TypeInv, StoreInv, SignInv, AckInv, [Next]_vars
             PROVE  AckInv'
  OBVIOUS
<1> USE DEF TypeInv, TypeOK
<1>1. TypeInv'
  BY TypeStep
<1>2. ASSUME NEW x \in Paths, Delete(x)
      PROVE  AckInv'
  <2>1. /\ \A u \in Uploads : upload[u] = None
        /\ \A q \in Publications : publication[q] = None
        /\ UNCHANGED <<upload, publication>>
    BY <1>2, Quiet DEF Delete, requestVars
  <2>2. AcksSurvive'
    BY <1>2 DEF Delete, Unpublish, AckInv, AcksSurvive, IndexTypeOK
  <2>3. QED BY <2>1, <2>2 DEF AckInv
<1>3. CASE ~\E x \in Paths : Delete(x)
  <2>1. /\ \A x \in Paths : narinfo[x] # None => narinfo'[x] # None
        /\ \A n \in Nars : nar[n] # None => nar'[n] # None
    BY <1>3, RowsStay
  <2>2. ASSUME NEW u \in Uploads, UploadStep(u)
        PROVE  AckInv'
    <3>1. UNCHANGED <<ackedPaths, publication>>
      BY <2>2 DEF UploadStep, WriteChunk, Finish, Verify, Reject, SyncStaged,
                  Commit, RecordNar, AnswerUpload, Abandon, uploadFrame
    <3>2. \A n \in ackedNars' : n \in ackedNars \/ nar[n] # None
      BY <2>2 DEF UploadStep, WriteChunk, Finish, Verify, Reject, SyncStaged,
                  Commit, RecordNar, AnswerUpload, Abandon, AckInv
    <3>3. \A v \in Uploads \ {u} : upload'[v] = upload[v]
      BY <2>2 DEF UploadStep, WriteChunk, Finish, Verify, Reject, SyncStaged,
                  Commit, RecordNar, AnswerUpload, Abandon, Forget
    <3>4. upload'[u] # None /\ upload'[u].state = "Recorded" =>
              nar'[upload'[u].body] # None
      <4>1. CASE RecordNar(u)
        <5>1. upload[u] \in Upload /\ EntryOf(upload[u]) \in Entry
          BY <4>1, SizeAssumption DEF RecordNar, EntryOf, Entry, Upload, Art,
                                      Artifact
        <5>2. upload'[u].body = upload[u].body /\ upload[u].body \in Nars
          BY <4>1, <5>1 DEF RecordNar, Upload
        <5>3. QED
          BY <4>1, <5>1, <5>2, NoneAssumption DEF RecordNar, PutNar, IndexTypeOK
      <4>2. CASE ~RecordNar(u)
        <5>1. upload'[u] = None \/ upload'[u].state # "Recorded"
          BY <2>2, <4>2 DEF UploadStep, WriteChunk, Finish, Verify, Reject,
                            SyncStaged, Commit, AnswerUpload, Abandon, Forget,
                            Upload
        <5>2. QED BY <5>1
      <4>3. QED BY <4>1, <4>2
    <3>5. QED BY <1>1, <2>1, <3>1, <3>2, <3>3, <3>4, AckByParts
  <2>3. ASSUME NEW q \in Publications, PublishStep(q)
        PROVE  AckInv'
    <3>1. UNCHANGED <<ackedNars, upload>>
      BY <2>3 DEF PublishStep, PublishRecord, AnswerPublish, FailPublish,
                  publishFrame
    <3>2. \A x \in ackedPaths' : x \in ackedPaths \/ narinfo[x] # None
      BY <2>3 DEF PublishStep, PublishRecord, AnswerPublish, FailPublish, AckInv
    <3>3. \A r \in Publications \ {q} : publication'[r] = publication[r]
      BY <2>3 DEF PublishStep, PublishRecord, AnswerPublish, FailPublish
    <3>4. publication'[q] # None =>
              narinfo'[publication'[q].record.store_path] # None
      <4>1. CASE PublishRecord(q)
        <5>1. /\ publication[q].record \in NarInfo
              /\ publication[q].record.store_path \in Paths
              /\ publication'[q].record = publication[q].record
          BY <4>1 DEF PublishRecord, Publication, NarInfo
        <5>2. QED
          BY <4>1, <5>1, NoneAssumption DEF PublishRecord, Publish, IndexTypeOK
      <4>2. CASE ~PublishRecord(q)
        BY <2>3, <4>2 DEF PublishStep, AnswerPublish, FailPublish
      <4>3. QED BY <4>1, <4>2
    <3>5. QED BY <1>1, <2>1, <3>1, <3>2, <3>3, <3>4, AckByParts
  <2>4. ASSUME NEW p \in Pids, ProcessStep(p)
        PROVE  AckInv'
    <3>1. UNCHANGED <<ackedNars, ackedPaths>>
      BY <2>4 DEF ProcessStep, Serve, SweepOne, Listen, Crash, PowerLoss, Exit,
                  Rotate, RotateBatch, RotateDone, Resolve, Receive, LookUp,
                  publishFrame, ackVars, observations
    <3>2. \A u \in Uploads : \/ upload'[u] \in {None, upload[u]}
                             \/ upload'[u].state = "Receiving"
      BY <2>4 DEF ProcessStep, Serve, SweepOne, Listen, Crash, PowerLoss, Exit,
                  Rotate, RotateBatch, RotateDone, Resolve, Receive, LookUp,
                  publishFrame, requestVars
    <3>3. \A q \in Publications : \/ publication'[q] \in {None, publication[q]}
                                  \/ publication'[q].state = "found"
      BY <2>4 DEF ProcessStep, Serve, SweepOne, Listen, Crash, PowerLoss, Exit,
                  Rotate, RotateBatch, RotateDone, Resolve, Receive, LookUp,
                  requestVars
    <3>4. QED
      BY <1>1, <2>1, <3>1, <3>2, <3>3, AckByParts DEF Committed
  <2>5. CASE Reconcile \/ RemoveOrphan \/ Flush \/ UNCHANGED vars
    <3>1. UNCHANGED <<ackedNars, ackedPaths, upload, publication>>
      BY <2>5 DEF Reconcile, RemoveOrphan, Flush, vars, requestVars,
                  observations
    <3>2. QED BY <1>1, <2>1, <3>1, AckByParts
  <2>6. QED BY <1>3, <2>2, <2>3, <2>4, <2>5 DEF Next, OperatorStep
<1>4. QED BY <1>2, <1>3

\* What was answered 201 is in the index from then on, whatever crashes, fails
\* or races, until the operator deletes it: the answer waits for the
\* transaction, and no other transaction drops a row.
THEOREM AcksLast == Spec => []AcksSurvive
<1>1. Init => AckInv
  BY DEF Init, AckInv, AcksSurvive
<1>2. AckInv => AcksSurvive
  BY DEF AckInv
<1>3. QED BY <1>1, <1>2, AckStep, SignInvariant, PTL DEF Spec

-----------------------------------------------------------------------------
(* Reports.                                                                *)

\* A step that makes no new report and brings no record a new artifact, unless
\* it notes the path.
LEMMA ReportByParts ==
  ASSUME ReportInv, since \subseteq since',
         report' # None =>
             /\ report' = report
             /\ \A x \in Paths : narinfo'[x] # None =>
                   \/ narinfo[x] # None /\ narinfo'[x].file_hash = narinfo[x].file_hash
                   \/ x \in since'
  PROVE  ReportInv'
  BY DEF ReportInv

LEMMA ReportStep ==
  TypeInv /\ StoreInv /\ SignInv /\ ReportInv /\ [Next]_vars => ReportInv'
<1> SUFFICES ASSUME TypeInv, StoreInv, SignInv, ReportInv, [Next]_vars
             PROVE  ReportInv'
  OBVIOUS
<1> USE DEF TypeInv, TypeOK
<1>1. ASSUME NEW p \in Pids, ProcessStep(p)
      PROVE  ReportInv'
  <2>1. UNCHANGED <<report, since>>
    BY <1>1 DEF ProcessStep, Serve, SweepOne, Listen, Crash, PowerLoss, Exit,
                Rotate, RotateBatch, RotateDone, Resolve, Receive, LookUp,
                publishFrame
  <2>2. \A x \in Paths : narinfo'[x] # None =>
            narinfo[x] # None /\ narinfo'[x].file_hash = narinfo[x].file_hash
    <3>1. CASE RotateBatch(p)
      BY <3>1, BatchResigns, UnsignedFacts
    <3>2. CASE ~RotateBatch(p)
      <4>1. UNCHANGED narinfo
        BY <1>1, <3>2 DEF ProcessStep, Serve, SweepOne, Listen, Crash, PowerLoss,
                          Exit, Rotate, RotateDone, Resolve, Receive, LookUp,
                          indexVars
      <4>2. QED BY <4>1
    <3>3. QED BY <3>1, <3>2
  <2>3. QED BY <2>1, <2>2, ReportByParts
<1>2. ASSUME NEW u \in Uploads, UploadStep(u)
      PROVE  ReportInv'
  <2>1. UNCHANGED <<narinfo, report, since>>
    BY <1>2 DEF UploadStep, WriteChunk, Finish, Verify, Reject, SyncStaged,
                Commit, RecordNar, AnswerUpload, Abandon, uploadFrame
  <2>2. QED BY <2>1, ReportByParts
<1>3. ASSUME NEW q \in Publications, PublishStep(q)
      PROVE  ReportInv'
  <2>1. CASE PublishRecord(q)
    <3>1. PICK r \in NarInfo, x \in Paths :
            /\ r = publication[q].record /\ x = r.store_path
            /\ narinfo' = [narinfo EXCEPT ![x] = r]
            /\ since' = IF report = None THEN since ELSE since \cup {x}
            /\ report' = report
      BY <2>1 DEF PublishRecord, Publish, publishFrame, Publication, NarInfo
    <3>2. \A y \in Paths \ {x} : narinfo'[y] = narinfo[y]
      BY <3>1 DEF IndexTypeOK
    <3>3. QED BY <3>1, <3>2, ReportByParts
  <2>2. CASE ~PublishRecord(q)
    <3>1. UNCHANGED <<narinfo, report, since>>
      BY <1>3, <2>2 DEF PublishStep, AnswerPublish, FailPublish, publishFrame
    <3>2. QED BY <3>1, ReportByParts
  <2>3. QED BY <2>1, <2>2
<1>4. ASSUME NEW x \in Paths, Delete(x)
      PROVE  ReportInv'
  <2>1. /\ UNCHANGED <<report, since>>
        /\ \A y \in Paths : narinfo'[y] \in {None, narinfo[y]}
    BY <1>4 DEF Delete, Unpublish, IndexTypeOK
  <2>2. QED BY <2>1, ReportByParts
<1>5. CASE Reconcile
  <2>1. /\ UNCHANGED narinfo
        /\ report'.orphan_artifacts = Scan \ Claimed
    BY <1>5 DEF Reconcile, indexVars
  <2>2. \A x \in Paths : narinfo[x] # None => narinfo[x].file_hash \in Claimed
    BY DEF Claimed, Records
  <2>3. QED BY <2>1, <2>2 DEF ReportInv
<1>6. CASE RemoveOrphan \/ Flush \/ UNCHANGED vars
  <2>1. UNCHANGED <<narinfo, report, since>>
    BY <1>6 DEF RemoveOrphan, Flush, vars, indexVars
  <2>2. QED BY <2>1, ReportByParts
<1>7. QED BY <1>1, <1>2, <1>3, <1>4, <1>5, <1>6 DEF Next, OperatorStep

\* Orphans of the last report can be deleted at any time, beside running
\* servers and after any number of deletes, rotations and pushes, without taking
\* the bytes of a record that was there when the report was made
\* (Maintain::reconcile claims by record): the records in danger are those
\* published after it.
THEOREM RemovalIsSafe == Spec => RemovalSparesRecords
<1> DEFINE Step == RemoveOrphan => \A x \in Paths : narinfo[x] # None =>
        \/ x \in since
        \/ artifacts'[narinfo[x].file_hash] = artifacts[narinfo[x].file_hash]
<1>1. Init => ReportInv
  BY DEF Init, ReportInv
<1>2. TypeInv /\ ReportInv => Step
  BY DEF ReportInv, RemoveOrphan, Remove, TypeInv, TypeOK, StoreTypeOK,
         IndexTypeOK, NarInfo
<1>3. QED
  BY <1>1, <1>2, ReportStep, SignInvariant, PTL DEF Spec, RemovalSparesRecords

=============================================================================
