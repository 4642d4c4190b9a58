---------------------------- MODULE CacheProofs -----------------------------
(***************************************************************************)
(* Theorems about Cache, for every number of processes, requests, NARs,    *)
(* paths, levels and keys.                                                 *)
(***************************************************************************)
EXTENDS Cache, TLAPS

-----------------------------------------------------------------------------
(* Types.                                                                  *)

\* A running process has the arguments it was started with. Without this,
\* TypeOK is not inductive: an upload takes its level from its server and a
\* publish its key.
ArgsPresent ==
    \A p \in Pids :
        /\ mode[p] \in {"sweeping", "serving"} => key[p] \in Keys /\ level[p] \in Levels
        /\ mode[p] = "rotating" => key[p] \in Keys

TypeInv == TypeOK /\ ArgsPresent

USE SizeAssumption, StageBoundAssumption, StartBoundAssumption, BatchAssumption
USE DEF reportVars, DropStaged

LEMMA WholeType == \A f \in Artifact : Whole(f) \in Bytes
  BY DEF Whole, Parts, Bytes, Artifact

LEMMA ResignType ==
  ASSUME NEW r \in NarInfo, NEW k \in Keys
  PROVE  Resign(r, k) \in NarInfo
  BY DEF Resign, NarInfo, Sig, Fingerprint

LEMMA RecordsType == IndexTypeOK => Records \subseteq NarInfo
  BY DEF IndexTypeOK, Records

LEMMA InitType == Init => TypeInv
  BY DEF Init, TypeInv, TypeOK, ArgsPresent, StoreInit, IndexInit, StoreTypeOK,
         IndexTypeOK, Mode

LEMMA RepublishType ==
  ASSUME IndexTypeOK, NEW batch \in SUBSET NarInfo, Republish(batch)
  PROVE  narinfo' \in [Paths -> NarInfo \cup {None}]
<1>1. ASSUME NEW x \in Paths, \E r \in batch : r.store_path = x
      PROVE  (CHOOSE r \in batch : r.store_path = x) \in NarInfo
  BY <1>1
<1>2. QED BY <1>1 DEF Republish, IndexTypeOK

\* The steps of processes.
LEMMA ProcessType ==
  ASSUME TypeInv, NEW p \in Pids, ProcessStep(p)
  PROVE  TypeInv'
<1> USE DEF TypeInv, TypeOK, ArgsPresent
<1>1. CASE Serve(p)
  BY <1>1 DEF Serve, OpenIndex, Leftovers, StoreTypeOK, IndexTypeOK, Mode,
              storeVars, requestVars, ackVars
<1>2. CASE SweepOne(p)
  BY <1>2 DEF SweepOne, Unlink, Unlisted, StoreTypeOK, IndexTypeOK, indexVars,
              requestVars, observations
<1>3. CASE Listen(p)
  BY <1>3 DEF Listen, StoreTypeOK, IndexTypeOK, storeVars, indexVars, Mode,
              requestVars, observations
<1>4. CASE Crash(p)
  BY <1>4 DEF Crash, Exit, CloseIndex, StoreTypeOK, IndexTypeOK, storeVars,
              Mode, ackVars
<1>5. CASE PowerLoss(p)
  <2>1. \A b \in Bytes \cup {NoFile} : Torn(b) \in Bytes \cup {NoFile}
    BY DEF Torn, Bytes
  <2>2. PICK lost \in SUBSET {f \in Artifact : unflushed[f] # NoFile} :
          /\ artifacts' = [f \in Artifact |->
                 IF f \in lost THEN NoFile ELSE Torn(artifacts[f])]
          /\ staging' = [n \in StagingName |->
                 IF \E f \in lost : unflushed[f] = n
                 THEN Torn(artifacts[CHOOSE f \in lost : unflushed[f] = n])
                 ELSE Torn(staging[n])]
          /\ unflushed' = [f \in Artifact |-> NoFile]
    BY <1>5 DEF PowerLoss, LosePageCache
  <2>3. ASSUME NEW n \in StagingName, \E f \in lost : unflushed[f] = n
        PROVE  (CHOOSE f \in lost : unflushed[f] = n) \in Artifact
    BY <2>3
  <2>4. StoreTypeOK'
    BY <2>1, <2>2, <2>3 DEF StoreTypeOK
  <2>5. QED
    BY <1>5, <2>4 DEF PowerLoss, Exit, CloseIndex, IndexTypeOK, Mode, ackVars
<1>6. CASE Rotate(p)
  <2>1. PICK k \in Keys :
          /\ key' = [key EXCEPT ![p] = k]
          /\ snapshot' = [snapshot EXCEPT ![p] = {Resign(r, k) : r \in Records}]
    BY <1>6 DEF Rotate
  <2>2. {Resign(r, k) : r \in Records} \in SUBSET NarInfo
    BY RecordsType, ResignType
  <2>3. snapshot' \in [Pids -> SUBSET NarInfo]
    BY <2>1, <2>2
  <2>4. QED
    BY <1>6, <2>1, <2>3 DEF Rotate, OpenIndex, StoreTypeOK, IndexTypeOK, Mode,
                            storeVars, requestVars, ackVars
<1>7. CASE RotateBatch(p)
  <2>1. PICK batch \in SUBSET snapshot[p] :
          /\ Republish(batch)
          /\ snapshot' = [snapshot EXCEPT ![p] = @ \ batch]
    BY <1>7 DEF RotateBatch
  <2>2. narinfo' \in [Paths -> NarInfo \cup {None}]
    <3>1. batch \in SUBSET NarInfo
      BY <2>1
    <3>2. QED BY <2>1, <3>1, RepublishType
  <2>3. snapshot' \in [Pids -> SUBSET NarInfo]
    BY <2>1
  <2>4. QED
    BY <1>7, <2>2, <2>3 DEF RotateBatch, StoreTypeOK, IndexTypeOK, storeVars,
                            requestVars, observations
<1>8. CASE RotateDone(p)
  BY <1>8 DEF RotateDone, Exit, CloseIndex, StoreTypeOK, IndexTypeOK,
              storeVars, Mode, ackVars
<1>9. CASE Resolve(p)
  BY <1>9 DEF Resolve, StoreTypeOK, IndexTypeOK, storeVars, indexVars,
              procVars, requestVars, ackVars, NarInfo
<1>10. CASE \E u \in Uploads : Receive(p, u)
  <2>1. PICK u \in Uploads : Receive(p, u)
    BY <1>10
  <2>2. StagedName(p) \in StagingName
    BY <2>1 DEF Receive, StagedName, StagingName
  <2>3. staging' \in [StagingName -> Bytes \cup {NoFile}]
    BY <2>1, <2>2 DEF Receive, Stage, NewFile, Bytes, StoreTypeOK
  <2>4. upload' \in [Uploads -> Upload \cup {None}]
    BY <2>1, <2>2 DEF Receive, Upload, UploadState
  <2>5. sequence' \in [Pids -> 0 .. MaxStages]
    BY <2>1 DEF Receive
  <2>6. QED
    BY <2>1, <2>3, <2>4, <2>5 DEF Receive, StoreTypeOK, IndexTypeOK, indexVars,
                                  observations
<1>11. CASE \E q \in Publications : LookUp(p, q)
  <2>1. PICK q \in Publications : LookUp(p, q)
    BY <1>11
  <2>2. PICK x \in Paths, n \in Nars, size \in {NarSize[m] : m \in Nars},
             meta \in Metas :
          /\ nar[n] # None
          /\ publication' = [publication EXCEPT ![q] =
                 [state |-> "found", pid |-> p,
                  record |-> Resign(RecordFor(p, x, n, size, meta), key[p])]]
    BY ONLY <2>1 DEF LookUp
  <2>3. RecordFor(p, x, n, size, meta) \in NarInfo
    BY <2>2 DEF RecordFor, NarInfo, IndexTypeOK, Entry
  <2>4. Resign(RecordFor(p, x, n, size, meta), key[p]) \in NarInfo
    BY <2>1, <2>3, ResignType DEF LookUp
  <2>5. publication' \in [Publications -> Publication \cup {None}]
    BY <2>2, <2>4 DEF Publication
  <2>6. QED
    BY <2>1, <2>5 DEF LookUp, StoreTypeOK, IndexTypeOK, publishFrame, storeVars,
                      procVars
<1>12. QED
  BY <1>1, <1>2, <1>3, <1>4, <1>5, <1>6, <1>7, <1>8, <1>9, <1>10, <1>11
     DEF ProcessStep

\* The steps of uploads.
LEMMA UploadType ==
  ASSUME TypeInv, NEW u \in Uploads, UploadStep(u)
  PROVE  TypeInv'
<1> USE DEF TypeInv, TypeOK, ArgsPresent
<1> DEFINE up == upload[u]
<1>1. /\ up \in Upload
      /\ up.staged \in StagingName
      /\ Art(up) \in Artifact
      /\ EntryOf(up) \in Entry
  <2>1. up \in Upload
    BY DEF UploadStep, WriteChunk, Finish, Verify, Reject, SyncStaged, Commit,
           RecordNar, AnswerUpload, Abandon
  <2>2. Art(up) \in Artifact
    BY <2>1 DEF Upload, Art, Artifact
  <2>3. QED BY <2>1, <2>2 DEF Upload, Art, EntryOf, Entry
<1> DEFINE Keeps == uploadFrame' = uploadFrame
<1>2. ASSUME /\ staging' \in [StagingName -> Bytes \cup {NoFile}]
             /\ artifacts' \in [Artifact -> Bytes \cup {NoFile}]
             /\ unflushed' \in [Artifact -> StagingName \cup {NoFile}]
             /\ nar' \in [Nars -> Entry \cup {None}]
             /\ upload' \in [Uploads -> Upload \cup {None}]
             /\ ackedNars' \subseteq Nars
             /\ litter' \subseteq StagingName
             /\ UNCHANGED uploadFrame
      PROVE  TypeInv'
  BY <1>2 DEF uploadFrame, procVars, StoreTypeOK, IndexTypeOK
<1>3. ASSUME Write(up.staged, up.offset, Art(up))
      PROVE  staging' \in [StagingName -> Bytes \cup {NoFile}]
  BY <1>1, <1>3 DEF Write, Upload, Bytes, StoreTypeOK
<1>4. ASSUME NEW s \in UploadState, NEW o \in Nat
      PROVE  [up EXCEPT !.state = s, !.offset = o] \in Upload
  BY <1>1 DEF Upload
<1>5. CASE WriteChunk(u)
  <2>1. upload' \in [Uploads -> Upload \cup {None}]
    BY <1>5, <1>1 DEF WriteChunk, Upload
  <2>2. QED BY <1>5, <1>2, <1>3, <2>1 DEF WriteChunk, StoreTypeOK, IndexTypeOK
<1>6. CASE Finish(u)
  <2>1. upload' \in [Uploads -> Upload \cup {None}]
    BY <1>6, <1>1 DEF Finish, Upload, UploadState
  <2>2. QED BY <1>6, <1>2, <1>3, <2>1 DEF Finish, StoreTypeOK, IndexTypeOK
<1>7. CASE Verify(u)
  <2>1. upload' \in [Uploads -> Upload \cup {None}]
    BY <1>7, <1>1 DEF Verify, Upload, UploadState
  <2>2. QED
    BY <1>7, <1>2, <2>1 DEF Verify, StoreTypeOK, IndexTypeOK, storeVars
<1>8. CASE Reject(u)
  BY <1>8, <1>1, <1>2 DEF Reject, Forget, Unlink, StoreTypeOK, IndexTypeOK
<1>9. CASE SyncStaged(u)
  <2>1. upload' \in [Uploads -> Upload \cup {None}]
    BY <1>9, <1>1 DEF SyncStaged, Upload, UploadState
  <2>2. staging' \in [StagingName -> Bytes \cup {NoFile}]
    <3>1. staging \in [StagingName -> Bytes \cup {NoFile}]
      BY <1>1 DEF StoreTypeOK
    <3>2. \A x \in Bytes : [x EXCEPT !.synced = TRUE] \in Bytes
      BY DEF Bytes
    <3>3. Sync(upload[u].staged)
      BY <1>9 DEF SyncStaged
    <3>4. QED
      BY <3>1, <3>2, <3>3 DEF Sync
  <2>3. QED
    BY <1>9, <1>2, <2>1, <2>2 DEF SyncStaged, StoreTypeOK, IndexTypeOK
<1>10. CASE Commit(u)
  <2>1. upload' \in [Uploads -> Upload \cup {None}]
    BY <1>10, <1>1 DEF Commit, Upload, UploadState
  <2>2. QED
    BY <1>10, <1>1, <1>2, <2>1 DEF Commit, Rename, StoreTypeOK, IndexTypeOK
<1>11. CASE RecordNar(u)
  <2>1. upload' \in [Uploads -> Upload \cup {None}]
    BY <1>11, <1>1 DEF RecordNar, Upload, UploadState
  <2>2. nar' \in [Nars -> Entry \cup {None}]
    BY <1>11, <1>1 DEF RecordNar, PutNar, IndexTypeOK
  <2>3. QED
    BY <1>11, <1>2, <2>1, <2>2 DEF RecordNar, StoreTypeOK, storeVars
<1>12. CASE AnswerUpload(u)
  BY <1>12, <1>1, <1>2 DEF AnswerUpload, Forget, Upload, StoreTypeOK,
                           IndexTypeOK, storeVars
<1>13. CASE Abandon(u)
  BY <1>13, <1>1, <1>2 DEF Abandon, Forget, Unlink, StoreTypeOK, IndexTypeOK
<1>14. QED
  BY <1>5, <1>6, <1>7, <1>8, <1>9, <1>10, <1>11, <1>12, <1>13 DEF UploadStep

\* The steps of publishes, of the operator and of the filesystem.
LEMMA OtherType ==
  ASSUME TypeInv,
         \/ \E q \in Publications : PublishStep(q)
         \/ OperatorStep
         \/ Flush
  PROVE  TypeInv'
<1> USE DEF TypeInv, TypeOK, ArgsPresent
<1>1. ASSUME NEW q \in Publications, PublishStep(q)
      PROVE  TypeInv'
  <2>1. /\ publication[q] \in Publication
        /\ publication[q].record \in NarInfo
        /\ publication[q].record.store_path \in Paths
    BY <1>1 DEF PublishStep, PublishRecord, AnswerPublish, FailPublish,
                Publication, NarInfo
  <2>2. CASE PublishRecord(q)
    <3>1. publication' \in [Publications -> Publication \cup {None}]
      BY <2>1, <2>2 DEF PublishRecord, Publication
    <3>2. narinfo' \in [Paths -> NarInfo \cup {None}]
      BY <2>1, <2>2 DEF PublishRecord, Publish, IndexTypeOK
    <3>3. since' \subseteq Paths
      BY <2>1, <2>2 DEF PublishRecord
    <3>4. QED
      BY <2>2, <3>1, <3>2, <3>3 DEF PublishRecord, publishFrame, storeVars,
                              procVars, StoreTypeOK, IndexTypeOK
  <2>3. CASE AnswerPublish(q)
    BY <2>1, <2>3 DEF AnswerPublish, publishFrame, storeVars, procVars,
                      StoreTypeOK, IndexTypeOK
  <2>4. CASE FailPublish(q)
    BY <2>4 DEF FailPublish, publishFrame, storeVars, procVars, StoreTypeOK,
                IndexTypeOK
  <2>5. QED BY <1>1, <2>2, <2>3, <2>4 DEF PublishStep
<1>2. ASSUME NEW x \in Paths, Delete(x)
      PROVE  TypeInv'
  <2>1. narinfo[x] \in NarInfo /\ narinfo[x].nar_hash \in Nars
    BY <1>2 DEF Delete, Unpublish, IndexTypeOK, NarInfo
  <2>2. QED
    BY <1>2, <2>1 DEF Delete, Unpublish, LeaveArtifact, procVars, requestVars,
                      StoreTypeOK, IndexTypeOK
<1>3. CASE Reconcile
  <2>1. report' \in Report
    <3>1. Records \subseteq NarInfo
      BY RecordsType
    <3>2. Scan \ Claimed \in SUBSET Artifact
      BY DEF Scan
    <3>3. {r.store_path : r \in {s \in Records : s.file_hash \notin Scan}}
            \in SUBSET Paths
      BY <3>1 DEF NarInfo
    <3>4. QED BY <1>3, <3>2, <3>3 DEF Reconcile, Report
  <2>2. QED
    BY <1>3, <2>1 DEF Reconcile, storeVars, indexVars, procVars, requestVars,
                      observations, StoreTypeOK, IndexTypeOK
<1>4. CASE RemoveOrphan
  BY <1>4 DEF RemoveOrphan, Remove, indexVars, procVars, requestVars,
              observations, StoreTypeOK, IndexTypeOK
<1>5. CASE Flush
  BY <1>5 DEF Flush, Writeback, indexVars, procVars, requestVars,
              observations, StoreTypeOK, IndexTypeOK
<1>6. QED BY <1>1, <1>2, <1>3, <1>4, <1>5 DEF OperatorStep

\* A type-correct state stays one.
LEMMA TypeStep == TypeInv /\ [Next]_vars => TypeInv'
<1>1. ASSUME TypeInv, UNCHANGED vars
      PROVE  TypeInv'
  BY <1>1 DEF TypeInv, TypeOK, ArgsPresent, vars, storeVars, indexVars,
              procVars, requestVars, observations, StoreTypeOK, IndexTypeOK
<1>2. QED BY <1>1, ProcessType, UploadType, OtherType DEF Next

\* Type correctness: no step of a process, a request, the operator or the
\* filesystem takes the cache outside its types.
THEOREM TypeCorrect == Spec => []TypeOK
  BY InitType, TypeStep, PTL DEF Spec, TypeInv

-----------------------------------------------------------------------------
(* The store: artifacts are whole.                                         *)

\* Nobody is being served while the index is free, or while the process that
\* holds it boots or rotates.
LEMMA Quiet ==
  ASSUME TypeInv, StoreInv,
         IndexFree \/ \E p \in Pids : mode[p] \in {"sweeping", "rotating"}
  PROVE  /\ \A u \in Uploads : upload[u] = None
         /\ \A q \in Publications : publication[q] = None
<1>1. \A p \in Pids : mode[p] # "serving"
  BY NoneAssumption DEF StoreInv, LockHeld, IndexFree
<1>2. ASSUME NEW u \in Uploads, upload[u] # None
      PROVE  FALSE
  BY <1>1, <1>2 DEF TypeInv, TypeOK, StoreInv, RequestsOwned, Upload
<1>3. ASSUME NEW q \in Publications, publication[q] # None
      PROVE  FALSE
  BY <1>1, <1>3 DEF TypeInv, TypeOK, StoreInv, RequestsOwned, Publication
<1>4. QED BY <1>2, <1>3

\* Every live request is one of the process that holds the index.
LEMMA HoldersRequests ==
  ASSUME TypeInv, StoreInv, NEW p \in Pids, mode[p] # "off"
  PROVE  /\ \A u \in Uploads : upload[u] # None => upload[u].pid = p
         /\ \A q \in Publications : publication[q] # None => publication[q].pid = p
<1>1. \A r \in Pids : mode[r] # "off" => r = p
  BY DEF StoreInv, LockHeld
<1>2. ASSUME NEW u \in Uploads, upload[u] # None
      PROVE  upload[u].pid = p
  BY <1>1, <1>2 DEF TypeInv, TypeOK, StoreInv, RequestsOwned, Upload
<1>3. ASSUME NEW q \in Publications, publication[q] # None
      PROVE  publication[q].pid = p
  BY <1>1, <1>3 DEF TypeInv, TypeOK, StoreInv, RequestsOwned, Publication
<1>4. QED BY <1>2, <1>3

\* A state with no request in it has little to show.
LEMMA Idle ==
  ASSUME (\A u \in Uploads : upload[u] = None)',
         (\A q \in Publications : publication[q] = None)',
         LockHeld', WholeArtifacts'
  PROVE  StoreInv'
  BY DEF StoreInv, RequestsOwned

\* The invariant speaks of these variables only.
LEMMA StoreFrame ==
  ASSUME StoreInv,
         UNCHANGED <<staging, artifacts, mode, holder, sequence, upload,
                     publication>>
  PROVE  StoreInv'
<1>1. LockHeld' /\ RequestsOwned'
  BY DEF StoreInv, LockHeld, RequestsOwned
<1>2. WholeArtifacts'
  BY DEF StoreInv, WholeArtifacts
<1>3. \A u \in Uploads : upload'[u] # None => Progress(upload[u])'
  BY DEF StoreInv, Progress, Genuine
<1>4. QED BY <1>1, <1>2, <1>3 DEF StoreInv

\* The process that runs, if one does, takes every request with it.
LEMMA ExitClears ==
  ASSUME TypeInv, StoreInv, NEW p \in Pids, mode[p] # "off" \/ IndexFree, Exit(p)
  PROVE  /\ (\A u \in Uploads : upload[u] = None)'
         /\ (\A q \in Publications : publication[q] = None)'
         /\ LockHeld'
<1>1. /\ (\A u \in Uploads : upload[u] = None)'
      /\ (\A q \in Publications : publication[q] = None)'
  BY HoldersRequests, Quiet DEF Exit
<1>2. LockHeld'
  BY NoneAssumption DEF Exit, CloseIndex, StoreInv, LockHeld, TypeInv, TypeOK
<1>3. QED BY <1>1, <1>2

LEMMA ProcessStore ==
  ASSUME TypeInv, StoreInv, NEW p \in Pids, ProcessStep(p)
  PROVE  StoreInv'
<1>1. CASE Serve(p)
  <2>1. LockHeld'
    BY <1>1, NoneAssumption DEF Serve, OpenIndex, IndexFree, StoreInv, LockHeld,
                                TypeInv, TypeOK
  <2>2. QED
    BY <1>1, <2>1, Quiet, Idle DEF Serve, OpenIndex, requestVars, storeVars,
                                   StoreInv, WholeArtifacts
<1>2. CASE SweepOne(p)
  <2>1. LockHeld'
    BY <1>2 DEF SweepOne, StoreInv, LockHeld, indexVars
  <2>2. QED
    BY <1>2, <2>1, Quiet, Idle DEF SweepOne, requestVars, StoreInv,
                                   WholeArtifacts
<1>3. CASE Listen(p)
  <2>1. LockHeld'
    BY <1>3 DEF Listen, StoreInv, LockHeld, indexVars, TypeInv, TypeOK
  <2>2. QED
    BY <1>3, <2>1, Quiet, Idle DEF Listen, requestVars, storeVars, StoreInv,
                                   WholeArtifacts
<1>4. CASE Crash(p)
  BY <1>4, ExitClears, Idle DEF Crash, storeVars, StoreInv, WholeArtifacts
<1>5. CASE PowerLoss(p)
  <2>1. ASSUME NEW f \in Artifact
        PROVE  artifacts'[f] \in {NoFile, Whole(f)}
    <3>1. artifacts[f] \in {NoFile, Whole(f)}
      BY DEF StoreInv, WholeArtifacts
    <3>2. Torn(artifacts[f]) = artifacts[f]
      BY <3>1 DEF Torn, Whole
    <3>3. artifacts'[f] \in {NoFile, Torn(artifacts[f])}
      BY <1>5 DEF PowerLoss, LosePageCache
    <3>4. QED BY <3>1, <3>2, <3>3
  <2>2. QED
    BY <1>5, <2>1, ExitClears, Idle DEF PowerLoss, WholeArtifacts
<1>6. CASE Rotate(p)
  <2>1. LockHeld'
    BY <1>6, NoneAssumption DEF Rotate, OpenIndex, IndexFree, StoreInv, LockHeld,
                                TypeInv, TypeOK
  <2>2. QED
    BY <1>6, <2>1, Quiet, Idle DEF Rotate, OpenIndex, requestVars, storeVars,
                                   StoreInv, WholeArtifacts
<1>7. CASE RotateBatch(p)
  <2>1. LockHeld'
    BY <1>7 DEF RotateBatch, StoreInv, LockHeld
  <2>2. QED
    BY <1>7, <2>1, Quiet, Idle DEF RotateBatch, requestVars, storeVars,
                                   StoreInv, WholeArtifacts
<1>8. CASE RotateDone(p)
  BY <1>8, ExitClears, Idle DEF RotateDone, storeVars, StoreInv, WholeArtifacts
<1>9. CASE Resolve(p)
  BY <1>9, StoreFrame DEF Resolve, storeVars, indexVars, procVars, requestVars
<1>10. CASE \E u \in Uploads : Receive(p, u)
  <2>1. PICK u \in Uploads : Receive(p, u)
    BY <1>10
  <2>2. PICK expected \in Nars, body \in Nars :
          upload' = [upload EXCEPT ![u] =
              [state |-> "Receiving", pid |-> p, staged |-> StagedName(p),
               expected |-> expected, body |-> body, level |-> level[p],
               offset |-> 0]]
    BY ONLY <2>1 DEF Receive
  <2>3. \A v \in Uploads \ {u} : upload'[v] = upload[v]
    BY <2>2 DEF TypeInv, TypeOK
  <2>4. /\ upload'[u].state = "Receiving"
        /\ upload'[u].pid = p
        /\ upload'[u].staged = <<p, sequence[p]>>
        /\ upload'[u].body \in Nars
        /\ upload'[u].offset = 0
    BY <2>2 DEF TypeInv, TypeOK, StagedName
  <2>5. StagedName(p) \in StagingName
    BY <2>1 DEF Receive, StagedName, StagingName, TypeInv, TypeOK
  <2>6. \A v \in Uploads \ {u} : upload[v] # None =>
            /\ upload[v].staged \in StagingName
            /\ upload[v].staged # StagedName(p)
            /\ upload[v].pid \in Pids
    BY DEF TypeInv, TypeOK, Upload, StagedName, StagingName, StoreInv,
           RequestsOwned
  <2>7. LockHeld' /\ WholeArtifacts'
    BY <2>1 DEF Receive, StoreInv, LockHeld, WholeArtifacts, indexVars
  <2>8. RequestsOwned'
    <3>1. \A r \in Pids : sequence[r] <= sequence'[r]
      BY <2>1 DEF Receive, TypeInv, TypeOK
    <3>2. sequence'[p] = sequence[p] + 1 /\ sequence[p] \in Nat
      BY <2>1 DEF Receive, TypeInv, TypeOK
    <3>3. mode' = mode /\ publication' = publication /\ mode[p] = "serving"
      BY <2>1 DEF Receive
    <3>4. ASSUME NEW v \in Uploads \ {u}, upload[v] # None
          PROVE  upload[v].staged[2] < sequence'[upload[v].pid]
      <4>1. upload[v].staged[2] < sequence[upload[v].pid]
        BY <3>4 DEF StoreInv, RequestsOwned
      <4>2. upload[v].staged[2] \in Nat
        BY <2>6, <3>4 DEF StagingName
      <4>3. sequence[upload[v].pid] \in Nat /\ sequence'[upload[v].pid] \in Nat
        BY <2>1, <2>6, <3>4 DEF Receive, TypeInv, TypeOK
      <4>4. QED BY <2>6, <3>1, <3>4, <4>1, <4>2, <4>3
    <3>5. QED
      BY <2>3, <2>4, <2>6, <3>2, <3>3, <3>4 DEF StoreInv, RequestsOwned,
                                                StagedName
  <2>9. ASSUME NEW v \in Uploads, upload'[v] # None
        PROVE  Progress(upload[v])'
    <3>1. CASE v = u
      <4>1. staging'[upload'[u].staged] = NewFile
        BY <2>1, <2>2, <2>5 DEF Receive, Stage, TypeInv, TypeOK, StoreTypeOK
      <4>2. NewFile # NoFile
        <5>1. NewFile \in Bytes
          BY DEF NewFile, Bytes
        <5>2. QED BY <5>1, NoFileAssumption
      <4>3. QED BY <2>4, <3>1, <4>1, <4>2 DEF Progress, NewFile
    <3>2. CASE v # u
      <4>1. /\ upload'[v] = upload[v]
            /\ staging'[upload[v].staged] = staging[upload[v].staged]
            /\ artifacts' = artifacts
        BY <2>1, <2>3, <2>5, <2>6, <2>9, <3>2 DEF Receive, Stage, TypeInv,
                                                  TypeOK, StoreTypeOK
      <4>2. Progress(upload[v])
        BY <2>9, <3>2, <4>1 DEF StoreInv
      <4>3. QED BY <4>1, <4>2 DEF Progress, Genuine, Art
    <3>3. QED BY <3>1, <3>2
  <2>10. QED BY <2>7, <2>8, <2>9 DEF StoreInv
<1>11. CASE \E q \in Publications : LookUp(p, q)
  <2>1. PICK q \in Publications : LookUp(p, q)
    BY <1>11
  <2>2. /\ mode[p] = "serving"
        /\ \A r \in Publications \ {q} : publication'[r] = publication[r]
        /\ publication'[q].pid = p
    BY <2>1 DEF LookUp, TypeInv, TypeOK
  <2>3. UNCHANGED <<staging, artifacts, mode, holder, sequence, upload>>
    BY <2>1 DEF LookUp, publishFrame, procVars, storeVars
  <2>4. LockHeld' /\ WholeArtifacts'
    BY <2>3 DEF StoreInv, LockHeld, WholeArtifacts
  <2>5. RequestsOwned'
    BY <2>2, <2>3 DEF StoreInv, RequestsOwned
  <2>6. \A u \in Uploads : upload'[u] # None => Progress(upload[u])'
    BY <2>3 DEF StoreInv, Progress, Genuine
  <2>7. QED BY <2>4, <2>5, <2>6 DEF StoreInv
<1>12. QED
  BY <1>1, <1>2, <1>3, <1>4, <1>5, <1>6, <1>7, <1>8, <1>9, <1>10, <1>11
     DEF ProcessStep

\* A write at the end of a file one stream owns leaves it owned by that stream
\* and one part longer.
LEMMA WriteEffect ==
  ASSUME NEW n \in StagingName, NEW o \in Nat, NEW f \in Artifact,
         staging \in [StagingName -> Bytes \cup {NoFile}],
         staging[n] # NoFile, staging[n].len = o,
         staging[n].of = IF o = 0 THEN {} ELSE {f},
         Write(n, o, f)
  PROVE  /\ staging'[n] # NoFile
         /\ staging'[n].len = o + 1
         /\ staging'[n].of = {f}
         /\ \A m \in StagingName \ {n} : staging'[m] = staging[m]
<1>1. staging[n].of \cup {f} = {f}
  BY Zenon
<1>2. staging'[n] = [len |-> o + 1, of |-> staging[n].of \cup {f},
                     synced |-> FALSE]
  <2>1. staging'[n] = [len |-> IF staging[n].len > o THEN staging[n].len
                              ELSE o + 1,
                       of |-> staging[n].of \cup {f}, synced |-> FALSE]
    BY Zenon DEF Write
  <2>2. (IF staging[n].len > o THEN staging[n].len ELSE o + 1) = o + 1
    OBVIOUS
  <2>3. QED BY <2>1, <2>2
<1>3. [len |-> o + 1, of |-> {f}, synced |-> FALSE] \in Bytes
  BY DEF Bytes
<1>4. \A m \in StagingName \ {n} : staging'[m] = staging[m]
  BY DEF Write
<1>5. staging'[n] = [len |-> o + 1, of |-> {f}, synced |-> FALSE]
  BY <1>1, <1>2, Zenon
<1>6. staging'[n] # NoFile
  BY <1>3, <1>5, NoFileAssumption
<1>7. staging'[n].len = o + 1
  BY <1>5
<1>8. staging'[n].of = {f}
  BY <1>5
<1>9. QED BY <1>4, <1>6, <1>7, <1>8

\* The steps of uploads.
LEMMA UploadStore ==
  ASSUME TypeInv, StoreInv, NEW u \in Uploads, UploadStep(u)
  PROVE  StoreInv'
<1> DEFINE up == upload[u]
<1>1. /\ up \in Upload /\ up # None
      /\ UNCHANGED <<mode, holder, sequence, publication>>
      /\ \A v \in Uploads \ {u} : upload'[v] = upload[v]
  <2>1. up \in Upload /\ up # None
    BY DEF UploadStep, WriteChunk, Finish, Verify, Reject, SyncStaged, Commit,
           RecordNar, AnswerUpload, Abandon, TypeInv, TypeOK
  <2>2. QED
    BY <2>1 DEF UploadStep, WriteChunk, Finish, Verify, Reject, SyncStaged,
           Commit, RecordNar, AnswerUpload, Abandon, Forget, TypeInv, TypeOK,
           uploadFrame, procVars
<1>2. /\ Art(up) \in Artifact /\ up.staged \in StagingName
      /\ up.body \in Nars /\ up.offset \in Nat /\ NarSize[up.body] \in Nat
  BY <1>1 DEF Upload, Art, Artifact
<1>3. /\ Progress(up)
      /\ WholeArtifacts
      /\ staging \in [StagingName -> Bytes \cup {NoFile}]
      /\ artifacts \in [Artifact -> Bytes \cup {NoFile}]
      /\ upload \in [Uploads -> Upload \cup {None}]
  BY <1>1 DEF StoreInv, TypeInv, TypeOK, StoreTypeOK
\* What is left to show of each step: it keeps to its own staging file, and
\* installs nothing but a whole artifact.
<1>4. ASSUME \A n \in StagingName \ {up.staged} : staging'[n] = staging[n],
             \A f \in Artifact : artifacts'[f] \in {artifacts[f], Whole(f)},
             \/ upload'[u] = None
             \/ /\ upload'[u].pid = up.pid
                /\ upload'[u].staged = up.staged
                /\ Progress(upload[u])'
      PROVE  StoreInv'
  <2>1. LockHeld'
    BY <1>1 DEF StoreInv, LockHeld
  <2>2. RequestsOwned'
    BY <1>1, <1>4 DEF StoreInv, RequestsOwned
  <2>3. WholeArtifacts'
    BY <1>3, <1>4 DEF WholeArtifacts
  <2>4. ASSUME NEW v \in Uploads, upload'[v] # None
        PROVE  Progress(upload[v])'
    <3>1. CASE v = u
      BY <1>4, <2>4, <3>1
    <3>2. CASE v # u
      <4>1. upload'[v] = upload[v] /\ upload[v] \in Upload
        BY <1>1, <1>3, <2>4, <3>2
      <4>2. /\ upload[v].staged \in StagingName
            /\ upload[v].staged # up.staged
            /\ Art(upload[v]) \in Artifact
        BY <1>1, <2>4, <3>2, <4>1 DEF Upload, Art, Artifact, StoreInv,
                                      RequestsOwned
      <4>3. staging'[upload[v].staged] = staging[upload[v].staged]
        BY <1>4, <4>2
      <4>4. artifacts[Art(upload[v])] = Whole(Art(upload[v])) =>
              artifacts'[Art(upload[v])] = Whole(Art(upload[v]))
        BY <1>4, <4>2
      <4>5. Progress(upload[v])
        BY <2>4, <4>1 DEF StoreInv
      <4>6. QED BY <4>1, <4>3, <4>4, <4>5 DEF Progress, Genuine, Art
    <3>3. QED BY <3>1, <3>2
  <2>5. QED BY <2>1, <2>2, <2>3, <2>4 DEF StoreInv
<1>5. CASE WriteChunk(u)
  <2>1. /\ up.state = "Receiving" /\ up.offset < NarSize[up.body]
        /\ Write(up.staged, up.offset, Art(up))
        /\ upload' = [upload EXCEPT ![u].offset = @ + 1]
        /\ artifacts' = artifacts
    BY <1>5 DEF WriteChunk
  <2>2. upload'[u] = [up EXCEPT !.offset = up.offset + 1]
    BY <1>3, <2>1
  <2>3. /\ staging'[up.staged] # NoFile
        /\ staging'[up.staged].len = up.offset + 1
        /\ staging'[up.staged].of = {Art(up)}
        /\ \A n \in StagingName \ {up.staged} : staging'[n] = staging[n]
    BY <1>2, <1>3, <2>1, WriteEffect DEF Progress
  <2>4. /\ upload'[u].pid = up.pid /\ upload'[u].staged = up.staged
        /\ upload'[u].state = "Receiving" /\ upload'[u].offset = up.offset + 1
        /\ upload'[u].body = up.body /\ upload'[u].level = up.level
    BY <1>1, <2>1, <2>2 DEF Upload
  <2>5. Progress(upload[u])'
    <3>1. Art(upload[u])' = Art(up) /\ up.offset + 1 # 0
      BY <1>2, <2>4 DEF Art
    <3>2. staging'[upload'[u].staged].of =
            IF upload'[u].offset = 0 THEN {} ELSE {Art(upload[u])'}
      BY <2>3, <2>4, <3>1, Zenon
    <3>3. QED BY <1>2, <2>1, <2>3, <2>4, <3>2 DEF Progress
  <2>6. QED BY <1>4, <2>1, <2>3, <2>4, <2>5
<1>6. CASE Finish(u)
  <2>1. /\ up.state = "Receiving" /\ up.offset = NarSize[up.body]
        /\ Write(up.staged, up.offset, Art(up))
        /\ upload' = [upload EXCEPT ![u].offset = @ + 1,
                                    ![u].state = "Compressed"]
        /\ artifacts' = artifacts
    BY <1>6 DEF Finish
  <2>2. upload'[u] = [[up EXCEPT !.offset = up.offset + 1]
                           EXCEPT !.state = "Compressed"]
    BY <1>3, <2>1
  <2>3. /\ staging'[up.staged] # NoFile
        /\ staging'[up.staged].len = up.offset + 1
        /\ staging'[up.staged].of = {Art(up)}
        /\ \A n \in StagingName \ {up.staged} : staging'[n] = staging[n]
    BY <1>2, <1>3, <2>1, WriteEffect DEF Progress
  <2>4. /\ upload'[u].pid = up.pid /\ upload'[u].staged = up.staged
        /\ upload'[u].state = "Compressed" /\ upload'[u].offset = up.offset + 1
        /\ upload'[u].body = up.body /\ upload'[u].level = up.level
    <3> DEFINE grown == [up EXCEPT !.offset = up.offset + 1]
    <3>1. /\ grown \in Upload /\ grown.offset = up.offset + 1
          /\ grown.pid = up.pid /\ grown.staged = up.staged
          /\ grown.body = up.body /\ grown.level = up.level
      BY <1>1, <1>2 DEF Upload
    <3>2. upload'[u] = [grown EXCEPT !.state = "Compressed"]
      BY <2>2
    <3> HIDE DEF grown
    <3>3. QED BY <3>1, <3>2 DEF Upload
  <2>5. Progress(upload[u])'
    <3>1. Art(upload[u])' = Art(up) /\ Parts(up.body) = up.offset + 1
      BY <1>2, <2>1, <2>4 DEF Art, Parts
    <3>2. QED BY <1>2, <2>1, <2>3, <2>4, <3>1 DEF Progress
  <2>6. QED BY <1>4, <2>1, <2>3, <2>4, <2>5
<1>7. CASE Verify(u)
  <2>1. /\ up.state = "Compressed" /\ Genuine(up)
        /\ upload'[u] = [up EXCEPT !.state = "Verified"]
        /\ staging' = staging /\ artifacts' = artifacts
    BY <1>3, <1>7 DEF Verify, storeVars
  <2>2. /\ upload'[u].pid = up.pid /\ upload'[u].staged = up.staged
        /\ upload'[u].state = "Verified" /\ upload'[u].offset = up.offset
        /\ upload'[u].body = up.body /\ upload'[u].level = up.level
        /\ upload'[u].expected = up.expected
    BY <1>1, <2>1 DEF Upload
  <2>3. Progress(upload[u])'
    BY <1>3, <2>1, <2>2 DEF Progress, Art, Genuine
  <2>4. QED BY <1>4, <2>1, <2>2, <2>3
<1>8. CASE Reject(u)
  BY <1>3, <1>4, <1>8 DEF Reject, Forget, Unlink
<1>9. CASE SyncStaged(u)
  <2>1. /\ up.state = "Verified"
        /\ upload'[u] = [up EXCEPT !.state = "Synced"]
        /\ Sync(up.staged)
        /\ artifacts' = artifacts
    BY <1>3, <1>9 DEF SyncStaged
  <2>2. /\ upload'[u].pid = up.pid /\ upload'[u].staged = up.staged
        /\ upload'[u].state = "Synced" /\ upload'[u].offset = up.offset
        /\ upload'[u].body = up.body /\ upload'[u].level = up.level
        /\ upload'[u].expected = up.expected
    BY <1>1, <2>1 DEF Upload
  <2>3. staging[up.staged] \in Bytes
    BY <1>2, <1>3, <2>1 DEF Progress
  <2>4. staging'[up.staged] = [staging[up.staged] EXCEPT !.synced = TRUE]
    BY <1>2, <1>3, <2>1, <2>3, NoFileAssumption DEF Sync
  <2>5. /\ staging'[up.staged] \in Bytes
        /\ staging'[up.staged].len = staging[up.staged].len
        /\ staging'[up.staged].of = staging[up.staged].of
        /\ staging'[up.staged].synced
    BY <2>3, <2>4 DEF Bytes
  <2>6. Progress(upload[u])'
    BY <1>3, <2>1, <2>2, <2>5, NoFileAssumption DEF Progress, Art, Genuine
  <2>7. \A n \in StagingName \ {up.staged} : staging'[n] = staging[n]
    BY <1>3, <2>1 DEF Sync
  <2>8. QED BY <1>4, <2>1, <2>2, <2>6, <2>7
<1>10. CASE Commit(u)
  <2>1. /\ up.state = "Synced"
        /\ upload'[u] = [up EXCEPT !.state = "Committed"]
        /\ Rename(up.staged, Art(up))
    BY <1>3, <1>10 DEF Commit
  <2>2. /\ upload'[u].pid = up.pid /\ upload'[u].staged = up.staged
        /\ upload'[u].state = "Committed" /\ upload'[u].offset = up.offset
        /\ upload'[u].body = up.body /\ upload'[u].level = up.level
        /\ upload'[u].expected = up.expected
    BY <1>1, <2>1 DEF Upload
  <2>3. staging[up.staged] = Whole(Art(up))
    <3>1. staging[up.staged] \in Bytes
      BY <1>2, <1>3, <2>1 DEF Progress
    <3>2. /\ staging[up.staged].len = Parts(up.body)
          /\ staging[up.staged].of = {Art(up)}
          /\ staging[up.staged].synced = TRUE
      BY <1>3, <2>1, <3>1 DEF Progress, Bytes
    <3>3. Art(up)[1] = up.body
      BY DEF Art
    <3>4. QED BY <3>1, <3>2, <3>3 DEF Bytes, Whole
  <2>4. /\ artifacts'[Art(up)] = Whole(Art(up))
        /\ \A f \in Artifact : artifacts'[f] \in {artifacts[f], Whole(f)}
        /\ \A n \in StagingName \ {up.staged} : staging'[n] = staging[n]
    BY <1>2, <1>3, <2>1, <2>3 DEF Rename
  <2>5. Progress(upload[u])'
    BY <1>3, <2>1, <2>2, <2>4 DEF Progress, Art, Genuine
  <2>6. QED BY <1>4, <2>2, <2>4, <2>5
<1>11. CASE RecordNar(u)
  <2>1. /\ up.state = "Committed"
        /\ upload'[u] = [up EXCEPT !.state = "Recorded"]
        /\ staging' = staging /\ artifacts' = artifacts
    BY <1>3, <1>11 DEF RecordNar, Renamed, storeVars
  <2>2. /\ upload'[u].pid = up.pid /\ upload'[u].staged = up.staged
        /\ upload'[u].state = "Recorded" /\ upload'[u].offset = up.offset
        /\ upload'[u].body = up.body /\ upload'[u].level = up.level
        /\ upload'[u].expected = up.expected
    BY <1>1, <2>1 DEF Upload
  <2>3. Progress(upload[u])'
    BY <1>3, <2>1, <2>2 DEF Progress, Art, Genuine
  <2>4. QED BY <1>4, <2>1, <2>2, <2>3
<1>12. CASE AnswerUpload(u)
  BY <1>3, <1>4, <1>12 DEF AnswerUpload, Forget, storeVars
<1>13. CASE Abandon(u)
  BY <1>3, <1>4, <1>13 DEF Abandon, Forget, Unlink
<1>14. QED
  BY <1>5, <1>6, <1>7, <1>8, <1>9, <1>10, <1>11, <1>12, <1>13 DEF UploadStep

\* The steps of publishes, of the operator and of the filesystem.
LEMMA OtherStore ==
  ASSUME TypeInv, StoreInv,
         \/ \E q \in Publications : PublishStep(q)
         \/ OperatorStep
         \/ Flush
  PROVE  StoreInv'
<1>1. ASSUME NEW q \in Publications, PublishStep(q)
      PROVE  StoreInv'
  <2>1. /\ UNCHANGED <<mode, holder, sequence, upload, staging, artifacts>>
        /\ \A r \in Publications \ {q} : publication'[r] = publication[r]
        /\ publication[q] # None
        /\ publication'[q] # None => publication'[q].pid = publication[q].pid
    BY <1>1 DEF PublishStep, PublishRecord, AnswerPublish, FailPublish,
                publishFrame, storeVars, procVars, TypeInv, TypeOK, Publication
  <2>2. LockHeld' /\ WholeArtifacts'
    BY <2>1 DEF StoreInv, LockHeld, WholeArtifacts
  <2>3. RequestsOwned'
    BY <2>1 DEF StoreInv, RequestsOwned
  <2>4. \A u \in Uploads : upload'[u] # None => Progress(upload[u])'
    BY <2>1 DEF StoreInv, Progress, Genuine
  <2>5. QED BY <2>2, <2>3, <2>4 DEF StoreInv
<1>2. CASE \E x \in Paths : Delete(x)
  BY <1>2, StoreFrame DEF Delete, LeaveArtifact, procVars, requestVars
<1>3. CASE Reconcile
  BY <1>3, StoreFrame DEF Reconcile, storeVars, indexVars, procVars, requestVars
<1>4. CASE RemoveOrphan
  <2>1. UNCHANGED <<staging, mode, holder, sequence, upload, publication>>
    BY <1>4 DEF RemoveOrphan, indexVars, procVars, requestVars
  <2>2. WholeArtifacts'
    BY <1>4 DEF RemoveOrphan, Remove, StoreInv, WholeArtifacts, TypeInv, TypeOK,
                StoreTypeOK
  <2>3. LockHeld' /\ RequestsOwned'
    BY <2>1 DEF StoreInv, LockHeld, RequestsOwned
  <2>4. \A u \in Uploads : upload'[u] # None => Progress(upload[u])'
    BY <2>1 DEF StoreInv, Progress, Genuine
  <2>5. QED BY <2>2, <2>3, <2>4 DEF StoreInv
<1>5. CASE Flush
  BY <1>5, StoreFrame DEF Flush, Writeback, indexVars, procVars, requestVars
<1>6. QED BY <1>1, <1>2, <1>3, <1>4, <1>5 DEF OperatorStep

LEMMA InitStore == Init => StoreInv
  BY NoneAssumption DEF Init, StoreInit, IndexInit, StoreInv, LockHeld,
                        RequestsOwned, WholeArtifacts

LEMMA StoreStep == TypeInv /\ StoreInv /\ [Next]_vars => StoreInv'
<1>1. ASSUME StoreInv, UNCHANGED vars
      PROVE  StoreInv'
  BY <1>1, StoreFrame DEF vars, storeVars, indexVars, procVars, requestVars
<1>2. QED BY <1>1, ProcessStore, UploadStore, OtherStore DEF Next

LEMMA StoreInvariant == Spec => [](TypeInv /\ StoreInv)
  BY InitType, InitStore, TypeStep, StoreStep, PTL DEF Spec

\* Every artifact under nar/ is complete and fsynced, with any number of
\* racing uploads, process crashes, power losses and orphan removals: the
\* promise of Staged::commit.
THEOREM ArtifactsAreWhole == Spec => []WholeArtifacts
  BY StoreInvariant, PTL DEF StoreInv

-----------------------------------------------------------------------------
(* Nothing names bytes that are not there.                                 *)

\* RowsBacked, for one row.
RowBacked(n, e) ==
    /\ e.file_hash[1] = n
    /\ artifacts[e.file_hash] = Whole(e.file_hash)
    /\ e.file_size = artifacts[e.file_hash].len
    /\ e.nar_size = NarSize[n]
    /\ NarSize[n] # 0

\* Artifacts stay: no step takes one away.
Lasting == \A f \in Artifact : artifacts[f] = Whole(f) => artifacts'[f] = Whole(f)

\* Only power failures and the operator take artifacts away.
LEMMA ArtifactsLast ==
  ASSUME ~PowerFails, ~OperatorRemoves, TypeInv, StoreInv, [Next]_vars
  PROVE  Lasting
<1>1. StoreInv'
  BY StoreStep
<1>2. ASSUME UNCHANGED artifacts
      PROVE  Lasting
  BY <1>2 DEF Lasting
<1>3. ASSUME NEW p \in Pids, ProcessStep(p)
      PROVE  UNCHANGED artifacts
  BY <1>3 DEF ProcessStep, Serve, SweepOne, Listen, Crash, PowerLoss, Rotate,
              RotateBatch, RotateDone, Resolve, Receive, LookUp, publishFrame,
              storeVars
<1>4. ASSUME NEW u \in Uploads, UploadStep(u)
      PROVE  Lasting
  <2>1. CASE Commit(u)
    <3>1. /\ staging[upload[u].staged] # NoFile
          /\ artifacts' = [artifacts EXCEPT ![Art(upload[u])] =
                               staging[upload[u].staged]]
      BY <2>1 DEF Commit, Rename
    <3>2. ASSUME NEW f \in Artifact, artifacts[f] = Whole(f)
          PROVE  artifacts'[f] = Whole(f)
      <4>1. artifacts'[f] \in {NoFile, Whole(f)}
        BY <1>1 DEF StoreInv, WholeArtifacts
      <4>2. Whole(f) # NoFile
        BY WholeType, NoFileAssumption
      <4>3. artifacts'[f] # NoFile
        BY <3>1, <3>2, <4>2 DEF TypeInv, TypeOK, StoreTypeOK
      <4>4. QED BY <4>1, <4>3
    <3>3. QED BY <3>2 DEF Lasting
  <2>2. CASE ~Commit(u)
    BY <1>2, <1>4, <2>2 DEF UploadStep, WriteChunk, Finish, Verify, Reject,
                            SyncStaged, RecordNar, AnswerUpload, Abandon,
                            storeVars
  <2>3. QED BY <2>1, <2>2
<1>5. ASSUME NEW q \in Publications, PublishStep(q)
      PROVE  UNCHANGED artifacts
  BY <1>5 DEF PublishStep, PublishRecord, AnswerPublish, FailPublish,
              publishFrame, storeVars
<1>6. CASE OperatorStep
  BY <1>2, <1>6 DEF OperatorStep, Delete, LeaveArtifact, Reconcile,
                    RemoveOrphan, storeVars
<1>7. CASE Flush
  BY <1>7 DEF Flush
<1>8. CASE UNCHANGED vars
  BY <1>2, <1>8 DEF vars, storeVars
<1>9. QED BY <1>2, <1>3, <1>4, <1>5, <1>6, <1>7, <1>8 DEF Next

\* A record stays backed while artifacts stay.
LEMMA BackedLasts ==
  ASSUME Lasting, NEW r \in NarInfo, Backed(r)
  PROVE  Backed(r)'
<1>1. r.file_hash \in Artifact
  BY DEF NarInfo
<1>2. artifacts'[r.file_hash] = artifacts[r.file_hash]
  BY <1>1 DEF Lasting, Backed
<1>3. QED BY <1>2 DEF Backed

\* Re-signing a record does not touch what backs it.
LEMMA ResignBacked ==
  ASSUME NEW r \in NarInfo, NEW k \in Keys, Backed(r)
  PROVE  Backed(Resign(r, k))
<1>1. /\ Resign(r, k).file_hash = r.file_hash
      /\ Resign(r, k).file_size = r.file_size
      /\ Resign(r, k).nar_hash = r.nar_hash
      /\ Resign(r, k).nar_size = r.nar_size
  BY DEF Resign, NarInfo
<1>2. QED BY <1>1 DEF Backed

\* What is left to show of a step: each row, record and pending record it
\* leaves is an old one or is backed already.
LEMMA BackedByParts ==
  ASSUME TypeInv', BackedInv, Lasting,
         \A n \in Nars : nar'[n] # None =>
             nar'[n] = nar[n] \/ RowBacked(n, nar'[n]),
         \A x \in Paths : narinfo'[x] # None =>
             \/ narinfo'[x] = narinfo[x]
             \/ narinfo'[x].store_path = x /\ Backed(narinfo'[x]),
         \A u \in Uploads : upload'[u] # None /\ ~InFlight(upload'[u]) =>
             \/ /\ upload[u] # None /\ ~InFlight(upload[u])
                /\ Art(upload'[u]) = Art(upload[u])
             \/ artifacts'[Art(upload'[u])] = Whole(Art(upload'[u])),
         \A q \in Publications : publication'[q] # None =>
             \/ publication[q] # None
                /\ publication'[q].record = publication[q].record
             \/ Backed(publication'[q].record),
         \A p \in Pids : \A r \in snapshot'[p] :
             r \in snapshot[p] \/ Backed(r),
         \A f \in resolved' : f \in resolved \/ artifacts[f] = Whole(f)
  PROVE  BackedInv'
<1> USE DEF TypeInv, TypeOK
<1>1. RowsBacked'
  <2>1. ASSUME NEW n \in Nars, nar'[n] # None
        PROVE  RowBacked(n, nar'[n])
    BY <2>1 DEF BackedInv, RowsBacked, RowBacked
  <2>2. ASSUME NEW n \in Nars, nar'[n] # None
        PROVE  artifacts'[nar'[n].file_hash] = artifacts[nar'[n].file_hash]
    <3>1. nar'[n].file_hash \in Artifact
      BY <2>2 DEF IndexTypeOK, Entry
    <3>2. QED BY <2>1, <2>2, <3>1 DEF Lasting, RowBacked
  <2>3. QED BY <2>1, <2>2 DEF RowsBacked, RowBacked
<1>2. RecordsBacked'
  <2>1. ASSUME NEW x \in Paths, narinfo'[x] # None
        PROVE  narinfo'[x].store_path = x /\ Backed(narinfo'[x])
    BY <2>1 DEF BackedInv, RecordsBacked
  <2>2. ASSUME NEW x \in Paths, narinfo'[x] # None
        PROVE  Backed(narinfo[x])'
    <3>1. narinfo'[x] \in NarInfo
      BY <2>2 DEF IndexTypeOK
    <3>2. QED BY <2>1, <2>2, <3>1, BackedLasts DEF Backed
  <2>3. QED BY <2>1, <2>2 DEF RecordsBacked
<1>3. (\A q \in Publications :
          publication[q] # None => Backed(publication[q].record))'
  <2>1. ASSUME NEW q \in Publications, publication'[q] # None
        PROVE  Backed(publication[q].record)'
    <3>1. Backed(publication'[q].record)
      BY <2>1 DEF BackedInv
    <3>2. publication'[q].record \in NarInfo
      BY <2>1 DEF Publication
    <3>3. QED BY <3>1, <3>2, BackedLasts DEF Backed
  <2>2. QED BY <2>1
<1>4. (\A p \in Pids : \A r \in snapshot[p] : Backed(r))'
  <2>1. ASSUME NEW p \in Pids, NEW r \in snapshot'[p]
        PROVE  Backed(r)'
    <3>1. r \in NarInfo
      OBVIOUS
    <3>2. Backed(r)
      BY DEF BackedInv
    <3>3. QED BY <3>1, <3>2, BackedLasts DEF Backed
  <2>2. QED BY <2>1
<1>5. ResolvedFetchable'
  BY DEF BackedInv, ResolvedFetchable, Lasting
<1>6. (\A u \in Uploads : upload[u] # None /\ ~InFlight(upload[u]) =>
          artifacts[Art(upload[u])] = Whole(Art(upload[u])))'
  <2>1. ASSUME NEW u \in Uploads, upload'[u] # None, ~InFlight(upload'[u])
        PROVE  artifacts'[Art(upload'[u])] = Whole(Art(upload'[u]))
    <3>1. Art(upload'[u]) \in Artifact
      BY <2>1 DEF Upload, Art, Artifact
    <3>2. QED BY <2>1, <3>1 DEF BackedInv, Lasting
  <2>2. QED BY <2>1 DEF InFlight, Art, Whole
<1>7. QED BY <1>1, <1>2, <1>3, <1>4, <1>5, <1>6 DEF BackedInv

\* The steps of processes.
LEMMA ProcessBacked ==
  ASSUME TypeInv, TypeInv', StoreInv, BackedInv, Lasting,
         NEW p \in Pids, ProcessStep(p)
  PROVE  BackedInv'
<1>1. CASE \/ Serve(p) \/ SweepOne(p) \/ Listen(p)
           \/ \E u \in Uploads : Receive(p, u)
  <2>1. UNCHANGED <<narinfo, nar, publication, snapshot, resolved>>
    BY <1>1 DEF Serve, SweepOne, Listen, Receive, indexVars, requestVars,
                observations
  <2>2. \A u \in Uploads : upload'[u] = upload[u] \/ InFlight(upload'[u])
    BY <1>1 DEF Serve, SweepOne, Listen, Receive, requestVars, InFlight, TypeInv,
                TypeOK
  <2>3. QED BY <2>1, <2>2, BackedByParts
<1>2. CASE Crash(p) \/ PowerLoss(p) \/ RotateDone(p)
  <2>1. /\ UNCHANGED <<narinfo, nar, resolved>>
        /\ \A q \in Publications : publication'[q] \in {None, publication[q]}
        /\ \A r \in Pids : snapshot'[r] \subseteq snapshot[r]
        /\ \A u \in Uploads : upload'[u] \in {None, upload[u]}
    BY <1>2 DEF Crash, PowerLoss, RotateDone, Exit, TypeInv, TypeOK
  <2>2. QED BY <2>1, BackedByParts
<1>3. CASE Rotate(p)
  <2>1. PICK k \in Keys :
          snapshot' = [snapshot EXCEPT ![p] = {Resign(r, k) : r \in Records}]
    BY <1>3 DEF Rotate
  <2>2. UNCHANGED <<narinfo, nar, upload, publication, resolved>>
    BY <1>3 DEF Rotate, requestVars
  <2>3. \A r \in Records : r \in NarInfo /\ Backed(r)
    BY DEF Records, BackedInv, RecordsBacked, TypeInv, TypeOK, IndexTypeOK
  <2>4. \A s \in Pids : \A r \in snapshot'[s] : r \in snapshot[s] \/ Backed(r)
    BY <2>1, <2>3, ResignBacked DEF TypeInv, TypeOK
  <2>5. QED BY <2>2, <2>4, BackedByParts
<1>4. CASE RotateBatch(p)
  <2>1. PICK batch \in SUBSET snapshot[p] :
          /\ Republish(batch)
          /\ snapshot' = [snapshot EXCEPT ![p] = @ \ batch]
    BY <1>4 DEF RotateBatch
  <2>2. UNCHANGED <<nar, upload, publication, resolved>>
    BY <1>4 DEF RotateBatch, requestVars, observations
  <2>3. \A s \in Pids : snapshot'[s] \subseteq snapshot[s]
    BY <2>1 DEF TypeInv, TypeOK
  <2>4. ASSUME NEW x \in Paths
        PROVE  \/ narinfo'[x] = narinfo[x]
               \/ narinfo'[x].store_path = x /\ Backed(narinfo'[x])
    <3>1. CASE \E r \in batch : r.store_path = x
      <4>1. narinfo'[x] = CHOOSE r \in batch : r.store_path = x
        BY <2>1, <3>1 DEF Republish
      <4>2. narinfo'[x] \in batch /\ narinfo'[x].store_path = x
        BY <3>1, <4>1
      <4>3. QED BY <4>2 DEF BackedInv
    <3>2. CASE ~\E r \in batch : r.store_path = x
      BY <2>1, <3>2 DEF Republish
    <3>3. QED BY <3>1, <3>2
  <2>5. QED BY <2>2, <2>3, <2>4, BackedByParts
<1>5. CASE Resolve(p)
  <2>1. UNCHANGED <<narinfo, nar, upload, publication, snapshot>>
    BY <1>5 DEF Resolve, indexVars, requestVars, procVars
  <2>2. \A f \in resolved' : f \in resolved \/ artifacts[f] = Whole(f)
    BY <1>5 DEF Resolve, BackedInv, RecordsBacked, Backed
  <2>3. QED BY <2>1, <2>2, BackedByParts
<1>6. CASE \E q \in Publications : LookUp(p, q)
  <2>1. PICK q \in Publications : LookUp(p, q)
    BY <1>6
  <2>2. PICK x \in Paths, n \in Nars, size \in {NarSize[m] : m \in Nars},
             meta \in Metas :
          /\ nar[n] # None
          /\ nar[n].nar_size = size
          /\ publication' = [publication EXCEPT ![q] =
                 [state |-> "found", pid |-> p,
                  record |-> Resign(RecordFor(p, x, n, size, meta), key[p])]]
    BY ONLY <2>1 DEF LookUp
  <2>3. UNCHANGED <<narinfo, nar, upload, snapshot, resolved>>
    BY <2>1 DEF LookUp, publishFrame, procVars
  <2>4. RecordFor(p, x, n, size, meta) \in NarInfo
    BY <2>2 DEF RecordFor, NarInfo, IndexTypeOK, Entry, TypeInv, TypeOK
  <2>5. Backed(RecordFor(p, x, n, size, meta))
    BY <2>2 DEF RecordFor, Backed, BackedInv, RowsBacked
  <2>6. Backed(Resign(RecordFor(p, x, n, size, meta), key[p]))
    BY <2>1, <2>4, <2>5, ResignBacked DEF LookUp, TypeInv, ArgsPresent
  <2>7. \A r \in Publications : publication'[r] # None =>
            \/ publication'[r] = publication[r]
            \/ Backed(publication'[r].record)
    BY <2>2, <2>6 DEF TypeInv, TypeOK
  <2>8. QED BY <2>3, <2>7, BackedByParts
<1>7. QED BY <1>1, <1>2, <1>3, <1>4, <1>5, <1>6 DEF ProcessStep

\* Past its rename an upload has its artifact, from the rename on.
LEMMA UploadInstalls ==
  ASSUME TypeInv, StoreInv, Lasting, NEW u \in Uploads, UploadStep(u),
         NEW v \in Uploads, upload'[v] # None, ~InFlight(upload'[v])
  PROVE  \/ /\ upload[v] # None /\ ~InFlight(upload[v])
            /\ Art(upload'[v]) = Art(upload[v])
         \/ artifacts'[Art(upload'[v])] = Whole(Art(upload'[v]))
<1> DEFINE up == upload[u]
<1>1. CASE v # u
  <2>1. upload'[v] = upload[v]
    BY <1>1 DEF UploadStep, WriteChunk, Finish, Verify, Reject, SyncStaged,
                Commit, RecordNar, AnswerUpload, Abandon, Forget, TypeInv, TypeOK
  <2>2. QED BY <2>1
<1>2. CASE v = u /\ Commit(u)
  <2>1. /\ up # None /\ up \in Upload /\ up.state = "Synced"
        /\ upload'[u] = [up EXCEPT !.state = "Committed"]
        /\ Rename(up.staged, Art(up))
    BY <1>2 DEF Commit, TypeInv, TypeOK
  <2>2. Art(up) \in Artifact /\ Art(upload'[u]) = Art(up) /\ Art(up)[1] = up.body
    BY <2>1 DEF Upload, Art, Artifact
  <2>3. /\ staging[up.staged] \in Bytes
        /\ staging[up.staged].len = Parts(up.body)
        /\ staging[up.staged].of = {Art(up)}
        /\ staging[up.staged].synced = TRUE
    <3>1. Progress(up) /\ up.staged \in StagingName
      BY <2>1 DEF StoreInv, Upload
    <3>2. staging[up.staged] \in Bytes
      BY <2>1, <3>1 DEF Progress, TypeInv, TypeOK, StoreTypeOK
    <3>3. QED BY <2>1, <3>1, <3>2 DEF Progress, Bytes
  <2>4. staging[up.staged] = Whole(Art(up))
    BY <2>2, <2>3 DEF Bytes, Whole
  <2>5. artifacts'[Art(up)] = Whole(Art(up))
    BY <2>1, <2>2, <2>4 DEF Rename, TypeInv, TypeOK, StoreTypeOK
  <2>6. QED BY <1>2, <2>2, <2>5
<1>3. CASE v = u /\ RecordNar(u)
  <2>1. /\ up # None /\ up \in Upload /\ up.state = "Committed"
        /\ upload'[u] = [up EXCEPT !.state = "Recorded"]
    BY <1>3 DEF RecordNar, Renamed, TypeInv, TypeOK
  <2>2. Art(upload'[u]) = Art(up)
    BY <2>1 DEF Upload, Art
  <2>3. QED BY <1>3, <2>1, <2>2 DEF InFlight
<1>4. CASE v = u /\ ~Commit(u) /\ ~RecordNar(u)
  <2>1. up \in Upload
    BY DEF UploadStep, WriteChunk, Finish, Verify, Reject, SyncStaged, Commit,
           RecordNar, AnswerUpload, Abandon, TypeInv, TypeOK
  <2>2. upload'[u] = None \/ InFlight(upload'[u])
    BY <1>4, <2>1 DEF UploadStep, WriteChunk, Finish, Verify, Reject, SyncStaged,
                AnswerUpload, Abandon, Forget, TypeInv, TypeOK, InFlight, Upload
  <2>3. QED BY <1>4, <2>2
<1>5. QED BY <1>1, <1>2, <1>3, <1>4

\* A step that starts from rows, records and artifacts that agree ends with
\* them so.
LEMMA BackedStep ==
  ASSUME ~PowerFails, ~OperatorRemoves,
         TypeInv, StoreInv, BackedInv, [Next]_vars
  PROVE  BackedInv'
<1>1. TypeInv' /\ Lasting
  BY TypeStep, ArtifactsLast
<1>2. ASSUME NEW p \in Pids, ProcessStep(p)
      PROVE  BackedInv'
  BY <1>1, <1>2, ProcessBacked
<1>3. ASSUME NEW u \in Uploads, UploadStep(u)
      PROVE  BackedInv'
  <2>1. UNCHANGED <<narinfo, publication, snapshot, resolved>>
    BY <1>3 DEF UploadStep, WriteChunk, Finish, Verify, Reject, SyncStaged,
                Commit, RecordNar, AnswerUpload, Abandon, uploadFrame, procVars
  <2>2. ASSUME NEW v \in Uploads, upload'[v] # None, ~InFlight(upload'[v])
        PROVE  \/ /\ upload[v] # None /\ ~InFlight(upload[v])
                  /\ Art(upload'[v]) = Art(upload[v])
               \/ artifacts'[Art(upload'[v])] = Whole(Art(upload'[v]))
    BY <1>1, <1>3, <2>2, UploadInstalls
  <2>3. CASE RecordNar(u)
    <3> DEFINE up == upload[u]
    <3>1. /\ up \in Upload /\ up # None /\ up.state = "Committed"
          /\ nar' = [nar EXCEPT ![up.body] = EntryOf(up)]
      BY <2>3 DEF RecordNar, Renamed, PutNar, TypeInv, TypeOK
    <3>2. /\ artifacts[Art(up)] = Whole(Art(up))
          /\ up.offset = Parts(up.body)
          /\ NarSize[up.body] # 0
      BY <3>1 DEF StoreInv, Progress, Genuine, BackedInv, InFlight
    <3>3. /\ EntryOf(up).file_hash = Art(up)
          /\ EntryOf(up).file_size = up.offset
          /\ EntryOf(up).nar_size = NarSize[up.body]
          /\ Art(up)[1] = up.body
          /\ Whole(Art(up)).len = Parts(up.body)
      BY DEF EntryOf, Art, Whole
    <3>4. RowBacked(up.body, EntryOf(up))
      BY <3>2, <3>3 DEF RowBacked
    <3>5. \A n \in Nars : nar'[n] = nar[n] \/ RowBacked(n, nar'[n])
      BY <3>1, <3>4 DEF TypeInv, TypeOK, IndexTypeOK
    <3>6. QED BY <1>1, <2>2, <2>1, <3>5, BackedByParts
  <2>4. CASE ~RecordNar(u)
    <3>1. UNCHANGED nar
      BY <1>3, <2>4 DEF UploadStep, WriteChunk, Finish, Verify, Reject,
                        SyncStaged, Commit, AnswerUpload, Abandon
    <3>2. QED BY <1>1, <2>2, <2>1, <3>1, BackedByParts
  <2>5. QED BY <2>3, <2>4
<1>4. ASSUME NEW q \in Publications, PublishStep(q)
      PROVE  BackedInv'
  <2>1. /\ UNCHANGED <<nar, upload, snapshot, resolved>>
        /\ \A r \in Publications : publication'[r] # None =>
              /\ publication[r] # None
              /\ publication'[r].record = publication[r].record
    BY <1>4 DEF PublishStep, PublishRecord, AnswerPublish, FailPublish,
                publishFrame, procVars, TypeInv, TypeOK, Publication
  <2>2. ASSUME NEW x \in Paths
        PROVE  \/ narinfo'[x] = narinfo[x]
               \/ narinfo'[x].store_path = x /\ Backed(narinfo'[x])
    <3>1. CASE PublishRecord(q)
      BY <3>1 DEF PublishRecord, Publish, BackedInv, TypeInv, TypeOK,
                  IndexTypeOK
    <3>2. CASE ~PublishRecord(q)
      BY <1>4, <3>2 DEF PublishStep, AnswerPublish, FailPublish
    <3>3. QED BY <3>1, <3>2
  <2>3. QED BY <1>1, <2>1, <2>2, BackedByParts
<1>5. CASE OperatorStep
  <2>1. /\ UNCHANGED <<upload, publication, snapshot, resolved>>
        /\ \A x \in Paths : narinfo'[x] \in {None, narinfo[x]}
        /\ \A n \in Nars : nar'[n] \in {None, nar[n]}
    BY <1>5 DEF OperatorStep, Delete, Unpublish, Reconcile, RemoveOrphan,
                indexVars, procVars, requestVars, observations, TypeInv,
                TypeOK, IndexTypeOK
  <2>2. QED BY <1>1, <2>1, BackedByParts
<1>6. CASE Flush \/ UNCHANGED vars
  <2>1. UNCHANGED <<narinfo, nar, upload, publication, snapshot, resolved>>
    BY <1>6 DEF Flush, vars, indexVars, procVars, requestVars, observations
  <2>2. QED BY <1>1, <2>1, BackedByParts
<1>7. QED BY <1>2, <1>3, <1>4, <1>5, <1>6 DEF Next

LEMMA InitBacked == Init => BackedInv
  BY DEF Init, StoreInit, IndexInit, BackedInv, RowsBacked, RecordsBacked,
         ResolvedFetchable

\* The cache is never a lie: while the disk keeps what was renamed and nobody
\* deletes artifacts by hand, each NAR row, each published record and each
\* answer a client has got names an artifact that is there, whole, of the
\* declared NAR and sizes, whatever uploads, publishes at other levels, deletes,
\* rotations and crashes interleave (the order of effects in Upload::store and
\* Ingest::publish).
THEOREM NeverALie ==
  ASSUME ~PowerFails, ~OperatorRemoves
  PROVE  Spec => [](RowsBacked /\ RecordsBacked /\ ResolvedFetchable)
<1>1. TypeInv /\ StoreInv /\ BackedInv /\ [Next]_vars => BackedInv'
  BY BackedStep
<1>2. BackedInv => RowsBacked /\ RecordsBacked /\ ResolvedFetchable
  BY DEF BackedInv
<1>3. QED
  BY <1>1, <1>2, InitBacked, StoreInvariant, PTL DEF Spec

\* A row of NAR names an artifact that is on disk, whole, with its true sizes
\* (the rename before put_nar in Upload::store).
THEOREM RowsAreBacked ==
  ASSUME ~PowerFails, ~OperatorRemoves
  PROVE  Spec => []RowsBacked
  BY NeverALie, PTL

\* What a narinfo answer has pointed a client at stays fetchable (Index::unpublish
\* drops rows and no file).
THEOREM AnswersStayTrue ==
  ASSUME ~PowerFails, ~OperatorRemoves
  PROVE  Spec => []ResolvedFetchable
  BY NeverALie, PTL

-----------------------------------------------------------------------------
(* The staging directory: whose its files are, that none is forgotten, and *)
(* what may leave it for nar/.                                             *)

\* Every upload that has not been renamed has its bytes, and nobody else's, in
\* the staging file it owns, through racing uploads on any number of shards,
\* other processes' boot sweeps, crashes and power losses (sweep_staging and
\* the index lock taken before it).
THEOREM StagingIsExclusive == Spec => []StagingExclusive
<1>1. TypeInv /\ StoreInv => StagingExclusive
  <2> SUFFICES ASSUME TypeInv, StoreInv, NEW u \in Uploads,
                      upload[u] # None, InFlight(upload[u])
               PROVE  /\ staging[upload[u].staged] # NoFile
                      /\ staging[upload[u].staged].len = upload[u].offset
                      /\ staging[upload[u].staged].of \subseteq {Art(upload[u])}
    BY DEF StagingExclusive
  <2>1. upload[u].state \in {"Receiving", "Compressed", "Verified", "Synced"}
    BY DEF TypeInv, TypeOK, Upload, UploadState, InFlight
  <2>2. Progress(upload[u])
    BY DEF StoreInv
  <2>3. QED BY <2>1, <2>2 DEF Progress
<1>2. QED BY <1>1, StoreInvariant, PTL

-----------------------------------------------------------------------------
(* Nothing is left behind.                                                 *)

\* A live upload owns the name, or the running server has logged it.
Owned(n) ==
    \/ n \in litter
    \/ \E u \in Uploads :
          upload[u] # None /\ InFlight(upload[u]) /\ upload[u].staged = n

\* A step may add no staging file but that of an upload, and must leave each
\* one to the upload that has it.
LEMMA SweptByParts ==
  ASSUME TypeInv, SweptInv,
         \A p \in Pids : mode'[p] = "serving" => mode[p] = "serving",
         \A p \in Pids : mode'[p] = "sweeping" =>
             mode[p] = "sweeping" /\ listing'[p] = listing[p],
         \A n \in StagingName : staging'[n] # NoFile =>
             \/ Owned(n)'
             \/ staging[n] # NoFile /\ ~Owned(n),
         \A p \in Pids : mode[p] = "sweeping" =>
             \A n \in StagingName : staging'[n] # NoFile => staging[n] # NoFile
  PROVE  SweptInv'
<1>1. NoLeftovers'
  BY DEF SweptInv, NoLeftovers, Leftovers, Owned
<1>2. (\A p \in Pids : mode[p] = "sweeping" => Leftovers \subseteq listing[p])'
  BY DEF SweptInv, Leftovers
<1>3. QED BY <1>1, <1>2 DEF SweptInv

\* While nobody serves or boots there is nothing to show.
LEMMA SweptIdle ==
  ASSUME \A p \in Pids : mode'[p] \notin {"serving", "sweeping"}
  PROVE  SweptInv'
  BY DEF SweptInv, NoLeftovers

LEMMA ProcessSwept ==
  ASSUME TypeInv, StoreInv, SweptInv, NEW p \in Pids, ProcessStep(p)
  PROVE  SweptInv'
<1> USE DEF TypeInv, TypeOK
<1>1. \A r \in Pids \ {p} : mode[p] # "off" => mode[r] = "off"
  BY DEF StoreInv, LockHeld
<1>2. CASE Serve(p)
  <2>1. \A r \in Pids : mode[r] = "off"
    BY <1>2, NoneAssumption DEF Serve, OpenIndex, IndexFree, StoreInv, LockHeld
  <2>2. QED BY <1>2, <2>1 DEF Serve, SweptInv, NoLeftovers, Leftovers, storeVars
<1>3. CASE SweepOne(p)
  <2>1. PICK n \in listing[p] :
          /\ staging' = [staging EXCEPT ![n] = NoFile]
          /\ listing' = [listing EXCEPT ![p] = @ \ {n}]
    BY <1>3 DEF SweepOne, Unlink, Unlisted
  <2>2. UNCHANGED mode /\ mode[p] = "sweeping"
    BY <1>3 DEF SweepOne
  <2>3. Leftovers' \subseteq listing'[p]
    BY <2>1, <2>2 DEF SweptInv, Leftovers, StoreTypeOK
  <2>4. QED BY <1>1, <2>2, <2>3 DEF SweptInv, NoLeftovers
<1>4. CASE Listen(p)
  BY <1>1, <1>4 DEF Listen, Swept, SweptInv, NoLeftovers, Leftovers, storeVars
<1>5. CASE Crash(p) \/ PowerLoss(p) \/ RotateDone(p)
  <2>1. (mode[p] # "off" \/ IndexFree) /\ mode' = [mode EXCEPT ![p] = "off"]
    BY <1>5 DEF Crash, PowerLoss, RotateDone, Exit
  <2>2. \A r \in Pids \ {p} : mode[r] = "off"
    BY <1>1, <2>1, NoneAssumption DEF IndexFree, StoreInv, LockHeld
  <2>3. QED BY <2>1, <2>2, SweptIdle
<1>6. CASE Rotate(p)
  <2>1. \A r \in Pids : mode[r] = "off"
    BY <1>6, NoneAssumption DEF Rotate, OpenIndex, IndexFree, StoreInv, LockHeld
  <2>2. QED BY <1>6, <2>1, SweptIdle DEF Rotate
<1>7. CASE RotateBatch(p)
  BY <1>1, <1>7, SweptIdle DEF RotateBatch
<1>8. CASE Resolve(p) \/ \E q \in Publications : LookUp(p, q)
  <2>1. UNCHANGED <<staging, mode, listing, upload, litter>>
    BY <1>8 DEF Resolve, LookUp, publishFrame, storeVars, procVars, requestVars
  <2>2. QED BY <2>1 DEF SweptInv, NoLeftovers, Leftovers
<1>9. CASE \E u \in Uploads : Receive(p, u)
  <2>1. PICK u \in Uploads : Receive(p, u)
    BY <1>9
  <2>2. PICK name \in StagingName : name = StagedName(p)
    <3>1. StagedName(p) \in StagingName
      BY <2>1, StageBoundAssumption DEF Receive, StagedName, StagingName
    <3>2. QED BY <3>1
  <2>3. /\ mode[p] = "serving" /\ UNCHANGED <<mode, listing, litter>>
        /\ upload[u] = None
        /\ staging' = [staging EXCEPT ![name] = NewFile]
        /\ \A v \in Uploads \ {u} : upload'[v] = upload[v]
        /\ upload'[u].state = "Receiving"
        /\ upload'[u].staged = name
    BY <2>1, <2>2 DEF Receive, Stage, observations
  <2>4. upload'[u] # None
    <3>1. upload'[u] \in Upload
      BY <2>1, <2>2 DEF Receive, Upload, UploadState, ArgsPresent
    <3>2. QED BY <3>1, NoRequestAssumption
  <2>5. Owned(name)'
    BY <2>3, <2>4 DEF Owned, InFlight
  <2>6. \A n \in StagingName : Owned(n) => Owned(n)'
    BY <2>3 DEF Owned
  <2>7. \A n \in StagingName : staging'[n] # NoFile =>
            Owned(n)' \/ (staging[n] # NoFile /\ ~Owned(n))
    <3> SUFFICES ASSUME NEW n \in StagingName, staging'[n] # NoFile
                 PROVE  Owned(n)' \/ (staging[n] # NoFile /\ ~Owned(n))
      OBVIOUS
    <3>1. CASE n = name
      BY <2>5, <3>1 DEF Owned
    <3>2. CASE n # name
      <4>1. staging[n] # NoFile
        BY <2>3, <3>2 DEF StoreTypeOK
      <4>2. QED BY <2>6, <4>1
    <3>3. QED BY <3>1, <3>2
  <2>8. QED BY <1>1, <2>3, <2>7, SweptByParts
<1>10. QED
  BY <1>2, <1>3, <1>4, <1>5, <1>6, <1>7, <1>8, <1>9 DEF ProcessStep

LEMMA UploadSwept ==
  ASSUME TypeInv, StoreInv, SweptInv, NEW u \in Uploads, UploadStep(u)
  PROVE  SweptInv'
<1> DEFINE up == upload[u]
<1>1. PICK name : name = up.staged
  OBVIOUS
<1>2. /\ up # None /\ up \in Upload /\ name \in StagingName
      /\ UNCHANGED <<mode, listing>>
      /\ \A v \in Uploads \ {u} : upload'[v] = upload[v]
  BY <1>1 DEF TypeInv, TypeOK, Upload, UploadStep, WriteChunk, Finish, Verify,
              Reject, SyncStaged, Commit, RecordNar, AnswerUpload, Abandon,
              Forget, uploadFrame, procVars
<1>3. \A p \in Pids : mode[p] # "sweeping"
  BY <1>2, Quiet
<1>4. \A n \in StagingName : staging'[n] # NoFile => staging[n] # NoFile
  BY <1>2 DEF TypeInv, TypeOK, StoreTypeOK, UploadStep, WriteChunk, Finish,
              Verify, Reject, SyncStaged, Commit, RecordNar, AnswerUpload,
              Abandon, Write, Unlink, Sync, Rename, storeVars
<1>5. litter \subseteq litter'
  BY DEF UploadStep, WriteChunk, Finish, Verify, Reject, SyncStaged, Commit,
         RecordNar, AnswerUpload, Abandon
<1>6. \A n \in StagingName \ {name} : Owned(n) => Owned(n)'
  BY <1>1, <1>2, <1>5 DEF Owned
\* The step keeps the upload and its claim, or the file goes with them, or the
\* log tells that it did not.
<1>7. staging'[name] # NoFile => Owned(name)' \/ ~Owned(name)
  <2>1. CASE \/ WriteChunk(u) \/ Finish(u) \/ Verify(u) \/ SyncStaged(u)
    <3>1. upload'[u].staged = name /\ InFlight(upload'[u])
      BY <1>1, <1>2, <2>1 DEF WriteChunk, Finish, Verify, SyncStaged, InFlight,
                        Upload, TypeInv, TypeOK
    <3>2. upload'[u] # None
      <4>1. upload'[u] \in Upload
        BY <1>2, <2>1 DEF WriteChunk, Finish, Verify, SyncStaged, Upload,
                          UploadState, TypeInv, TypeOK
      <4>2. QED BY <4>1, NoRequestAssumption
    <3>3. QED BY <3>1, <3>2 DEF Owned
  <2>2. CASE Reject(u) \/ Commit(u) \/ (Abandon(u) /\ InFlight(up))
    BY <1>1, <1>2, <2>2 DEF Reject, Commit, Abandon, Unlink, Rename, InFlight,
                      Owned, TypeInv, TypeOK, StoreTypeOK
  <2>3. CASE RecordNar(u) \/ AnswerUpload(u) \/ (Abandon(u) /\ ~InFlight(up))
    <3>1. ~InFlight(up)
      BY <2>3 DEF RecordNar, Renamed, AnswerUpload, InFlight
    <3>2. QED BY <1>1, <1>2, <1>5, <3>1 DEF Owned, StoreInv, RequestsOwned
  <2>4. QED BY <2>1, <2>2, <2>3 DEF UploadStep
<1>8. QED BY <1>2, <1>3, <1>4, <1>6, <1>7, SweptByParts

LEMMA SweptStep == TypeInv /\ StoreInv /\ SweptInv /\ [Next]_vars => SweptInv'
<1> SUFFICES ASSUME TypeInv, StoreInv, SweptInv, [Next]_vars
             PROVE  SweptInv'
  OBVIOUS
<1>1. CASE \/ \E q \in Publications : PublishStep(q)
           \/ OperatorStep \/ Flush \/ UNCHANGED vars
  <2>1. UNCHANGED <<staging, mode, listing, upload, litter>>
    BY <1>1 DEF PublishStep, PublishRecord, AnswerPublish, FailPublish,
                publishFrame, OperatorStep, Delete, Reconcile, RemoveOrphan,
                Flush, Writeback, vars, storeVars, procVars, requestVars,
                observations
  <2>2. QED BY <2>1 DEF SweptInv, NoLeftovers, Leftovers
<1>2. QED BY <1>1, ProcessSwept, UploadSwept DEF Next

\* A serving cache has no staging file but a live upload's and those it logged
\* itself when its unlink failed (Drop for Staged): all that earlier processes
\* left, by crashes, power losses and failed unlinks of their own, went in its
\* boot sweep, and no path of a push forgets its file.
THEOREM NothingLeftBehind == Spec => []NoLeftovers
<1>1. Init => SweptInv
  BY DEF Init, SweptInv, NoLeftovers
<1>2. SweptInv => NoLeftovers
  BY DEF SweptInv
<1>3. QED BY <1>1, <1>2, SweptStep, StoreInvariant, PTL DEF Spec

-----------------------------------------------------------------------------
(* What leaves the directory.                                              *)

\* An artifact appears only by the rename of an upload whose body had the hash
\* its target named and was not empty: Upload::store is reached through
\* Upload::verify alone, and no crash or power loss makes one appear.
THEOREM VerifiedAppears == Spec => OnlyVerifiedAppears
<1> DEFINE Verified(f) == \E u \in Uploads :
               /\ upload[u] # None /\ upload[u].state = "Synced"
               /\ upload'[u].state = "Committed"
               /\ Art(upload[u]) = f
               /\ upload[u].expected = f[1]
               /\ NarSize[f[1]] # 0
<1> DEFINE Step == \A f \in Artifact :
                      artifacts[f] = NoFile /\ artifacts'[f] # NoFile => Verified(f)
<1>1. ASSUME TypeInv, StoreInv, [Next]_vars
      PROVE  Step
  <2>1. CASE \E u \in Uploads : Commit(u)
    <3>1. PICK u \in Uploads : Commit(u)
      BY <2>1
    <3>2. /\ upload[u] # None /\ upload[u].state = "Synced"
          /\ upload'[u].state = "Committed"
          /\ artifacts' = [artifacts EXCEPT ![Art(upload[u])] =
                               staging[upload[u].staged]]
      BY <1>1, <3>1 DEF Commit, Rename, TypeInv, TypeOK, Upload
    <3>3. Genuine(upload[u])
      <4>1. Progress(upload[u])
        BY <1>1, <3>2 DEF StoreInv
      <4>2. QED BY <3>2, <4>1 DEF Progress
    <3>4. Verified(Art(upload[u]))
      BY <3>2, <3>3 DEF Genuine, Art
    <3>5. \A f \in Artifact : f # Art(upload[u]) => artifacts'[f] = artifacts[f]
      BY <3>2 DEF TypeInv, TypeOK, StoreTypeOK
    <3>6. QED BY <3>4, <3>5
  <2>2. CASE \E p \in Pids : PowerLoss(p)
    BY <2>2 DEF PowerLoss, LosePageCache, Torn
  <2>3. CASE RemoveOrphan
    BY <2>3 DEF RemoveOrphan, Remove, TypeInv, TypeOK, StoreTypeOK
  <2>4. CASE ~(\E u \in Uploads : Commit(u)) /\ ~(\E p \in Pids : PowerLoss(p))
             /\ ~RemoveOrphan
    <3>1. UNCHANGED artifacts
      BY <1>1, <2>4
         DEF Next, ProcessStep, Serve, SweepOne, Listen, Crash, Rotate,
             RotateBatch, RotateDone, Resolve, Receive, LookUp, UploadStep,
             WriteChunk, Finish, Verify, Reject, SyncStaged, RecordNar,
             AnswerUpload, Abandon, PublishStep, PublishRecord, AnswerPublish,
             FailPublish, publishFrame, OperatorStep, Delete, LeaveArtifact,
             Reconcile, Flush, Writeback, vars, storeVars
    <3>2. QED BY <3>1
  <2>5. QED BY <2>1, <2>2, <2>3, <2>4
<1>2. QED BY <1>1, StoreInvariant, PTL DEF Spec, OnlyVerifiedAppears

=============================================================================
