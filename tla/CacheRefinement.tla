-------------------------- MODULE CacheRefinement ---------------------------
(***************************************************************************)
(* The cache implements CacheSpec, while the disk keeps what was renamed   *)
(* and nobody deletes artifacts by hand.                                   *)
(***************************************************************************)
EXTENDS CacheRecordProofs

USE DEF reportVars, DropStaged

\* The abstract state, as the refinement mapping of Cache has it.
Catalog == [x \in Paths |-> IF narinfo[x] = None THEN None ELSE ClaimOf(narinfo[x])]
Signers == [x \in Paths |->
    IF narinfo[x] = None THEN {} ELSE {s.key : s \in narinfo[x].sigs}]
Fetchable == {f \in Artifact : artifacts[f] = Whole(f)}

\* A record that one key signed has that key for its signers.
LEMMA SignersOf ==
  ASSUME NEW r, NEW k, SignedBy(r, k)
  PROVE  {s.key : s \in r.sigs} = {k}
  BY DEF SignedBy

LEMMA ClaimType ==
  ASSUME NEW r \in NarInfo
  PROVE  ClaimOf(r) \in Claim /\ ClaimOf(r) # None
<1>1. ClaimOf(r) \in Claim
  BY DEF ClaimOf, NarInfo, Claim
<1>2. QED BY <1>1, NoClaimAssumption

\* Re-signing leaves the claim.
LEMMA ClaimUnsigned ==
  ASSUME NEW r, NEW s, Unsigned(r) = Unsigned(s)
  PROVE  ClaimOf(r) = ClaimOf(s)
  BY DEF Unsigned, Fingerprint, ClaimOf

\* The two tables of the abstract cache depend on the records alone, what can be
\* fetched on the artifacts.
LEMMA AbstractFrame ==
  /\ UNCHANGED narinfo => UNCHANGED <<Catalog, Signers>>
  /\ UNCHANGED artifacts => UNCHANGED Fetchable
  BY DEF Catalog, Signers, Fetchable

\* A rename is the arrival of an artifact.
LEMMA CommitArrives ==
  ASSUME TypeInv, StoreInv, StoreInv', Lasting, NEW u \in Uploads, Commit(u)
  PROVE  Abstract!Arrive
<1> DEFINE f == <<upload[u].body, upload[u].level>>
<1>1. PICK g \in Artifact : g = f
  BY DEF Commit, TypeInv, TypeOK, Upload, Artifact
<1>2. /\ artifacts' = [artifacts EXCEPT ![g] = staging[upload[u].staged]]
      /\ staging[upload[u].staged] # NoFile
      /\ UNCHANGED narinfo
  BY <1>1 DEF Commit, Rename, Art, uploadFrame
<1>3. artifacts'[g] = Whole(g)
  BY <1>2 DEF StoreInv, WholeArtifacts, TypeInv, TypeOK, StoreTypeOK
<1>4. \A h \in Artifact \ {g} : artifacts'[h] = artifacts[h]
  BY <1>2 DEF TypeInv, TypeOK, StoreTypeOK
<1>5. Fetchable' = Fetchable \cup {g}
  BY <1>3, <1>4 DEF Fetchable
<1>6. UNCHANGED <<Catalog, Signers>>
  BY <1>2, AbstractFrame
<1>7. QED
  BY <1>5, <1>6 DEF Abstract!Arrive, Abstract!Artifact, Artifact, Catalog,
                    Signers, Fetchable

\* The transaction of a publish is a publication of fetchable bytes.
LEMMA PublishPublishes ==
  ASSUME TypeInv, StoreInv, SignInv, BackedInv,
         NEW q \in Publications, PublishRecord(q)
  PROVE  \E x \in Paths : Abstract!Publish(x)
<1>1. PICK r \in NarInfo, x \in Paths :
        /\ publication[q] # None /\ publication[q] \in Publication
        /\ r = publication[q].record /\ x = r.store_path
        /\ narinfo' = [narinfo EXCEPT ![x] = r]
        /\ UNCHANGED artifacts
  BY DEF PublishRecord, Publish, publishFrame, storeVars, TypeInv, TypeOK,
         Publication, NarInfo
<1>2. PICK k \in Keys : SignedBy(r, k)
  BY <1>1 DEF StoreInv, RequestsOwned, SignInv, TypeInv, ArgsPresent, Publication
<1>3. /\ r.file_hash \in Fetchable
      /\ r.file_hash[1] = r.nar_hash
  BY <1>1 DEF BackedInv, Backed, Fetchable, NarInfo
<1>4. PICK c \in Claim : c = ClaimOf(r)
  BY <1>1, ClaimType
<1>5. Catalog' = [Catalog EXCEPT ![x] = c]
  BY <1>1, <1>4, NoneAssumption DEF Catalog, TypeInv, TypeOK, IndexTypeOK
<1>6. Signers' = [Signers EXCEPT ![x] = {k}]
  <2>1. {s.key : s \in r.sigs} = {k}
    BY <1>2, SignersOf
  <2>2. QED
    BY <1>1, <2>1, NoneAssumption DEF Signers, TypeInv, TypeOK, IndexTypeOK
<1>7. c.file_hash \in Fetchable /\ c.file_hash[1] = c.nar_hash
  BY <1>3, <1>4 DEF ClaimOf
<1>8. Fetchable' = Fetchable
  BY <1>1, AbstractFrame
<1>9. /\ \E d \in Claim, j \in Keys :
            /\ d.file_hash \in Fetchable
            /\ d.file_hash[1] = d.nar_hash
            /\ Catalog' = [Catalog EXCEPT ![x] = d]
            /\ Signers' = [Signers EXCEPT ![x] = {j}]
      /\ Fetchable' = Fetchable
  BY <1>5, <1>6, <1>7, <1>8
<1>10. Abstract!Publish(x)
  BY <1>9, Zenon DEF Abstract!Publish, Abstract!Claim, Abstract!Artifact, Claim,
                     Artifact, Catalog, Signers, Fetchable
<1>11. QED BY <1>10

\* A delete is a withdrawal.
LEMMA DeleteWithdraws ==
  ASSUME TypeInv, NEW x \in Paths, Delete(x)
  PROVE  Abstract!Withdraw(x)
<1>1. narinfo' = [narinfo EXCEPT ![x] = None] /\ UNCHANGED artifacts
  BY DEF Delete, Unpublish, LeaveArtifact
<1>2. /\ Catalog' = [Catalog EXCEPT ![x] = None]
      /\ Signers' = [Signers EXCEPT ![x] = {}]
  BY <1>1 DEF Catalog, Signers, TypeInv, TypeOK, IndexTypeOK
<1>3. Fetchable' = Fetchable
  BY <1>1, AbstractFrame
<1>4. QED BY <1>2, <1>3 DEF Abstract!Withdraw, Catalog, Signers, Fetchable

\* A batch of a rotation signs the records in it anew.
LEMMA BatchSignsAnew ==
  ASSUME TypeInv, SignInv, NEW p \in Pids, RotateBatch(p)
  PROVE  Abstract!SignAnew
<1> USE DEF TypeInv, TypeOK
<1>1. PICK batch \in SUBSET snapshot[p] : Republish(batch)
  BY DEF RotateBatch
<1>0. PICK xs : xs = {x \in Paths : \E r \in batch : r.store_path = x}
  OBVIOUS
<1>2. PICK k \in Keys : k = key[p]
  BY DEF RotateBatch, ArgsPresent
<1>3. \A r \in batch : SignedBy(r, k) /\ narinfo[r.store_path] # None
  BY <1>2 DEF SignInv, SnapshotCurrent
<1>4. xs \in SUBSET {x \in Paths : Catalog[x] # None}
  <2>1. ASSUME NEW x \in xs
        PROVE  Catalog[x] # None
    <3>1. narinfo[x] # None /\ x \in Paths
      BY <1>0, <1>3
    <3>2. narinfo[x] \in NarInfo
      BY <3>1 DEF IndexTypeOK
    <3>3. QED BY <3>1, <3>2, ClaimType DEF Catalog
  <2>2. QED BY <1>0, <2>1
<1>5. Catalog' = Catalog
  <2>1. ASSUME NEW x \in Paths
        PROVE  Catalog'[x] = Catalog[x]
    BY BatchResigns, ClaimUnsigned DEF Catalog
  <2>2. QED BY <2>1 DEF Catalog
<1>6. Signers' = [x \in Paths |-> IF x \in xs THEN {k} ELSE Signers[x]]
  <2>1. ASSUME NEW x \in Paths
        PROVE  Signers'[x] = IF x \in xs THEN {k} ELSE Signers[x]
    <3>1. CASE narinfo'[x] \in batch /\ narinfo'[x].store_path = x
      <4>1. narinfo'[x] # None /\ x \in xs
        BY <1>0, <3>1, NoneAssumption
      <4>2. {s.key : s \in narinfo'[x].sigs} = {k}
        BY <1>3, <3>1, SignersOf
      <4>3. QED BY <4>1, <4>2 DEF Signers
    <3>2. CASE narinfo'[x] = narinfo[x] /\ \A r \in batch : r.store_path # x
      BY <1>0, <3>2 DEF Signers
    <3>3. QED BY <1>1, <3>1, <3>2, RepublishFacts
  <2>2. QED BY <2>1 DEF Signers
<1>7. Fetchable' = Fetchable
  BY AbstractFrame DEF RotateBatch, storeVars
<1>8. /\ \E j \in Keys, ys \in SUBSET {x \in Paths : Catalog[x] # None} :
            Signers' = [x \in Paths |-> IF x \in ys THEN {j} ELSE Signers[x]]
      /\ Catalog' = Catalog /\ Fetchable' = Fetchable
  BY <1>4, <1>5, <1>6, <1>7
<1>9. QED
  BY <1>8, Zenon DEF Abstract!SignAnew, Catalog, Signers, Fetchable

\* Every step of the cache is a step of the abstract cache, or invisible to it.
LEMMA StepImplements ==
  ASSUME ~PowerFails, ~OperatorRemoves,
         TypeInv, StoreInv, SignInv, BackedInv, [Next]_vars
  PROVE  [Abstract!Next]_(Abstract!vars)
<1>1. StoreInv' /\ Lasting
  BY StoreStep, ArtifactsLast
<1>2. CASE \E u \in Uploads : Commit(u)
  BY <1>1, <1>2, CommitArrives DEF Abstract!Next
<1>3. CASE \E q \in Publications : PublishRecord(q)
  BY <1>3, PublishPublishes DEF Abstract!Next
<1>4. CASE \E x \in Paths : Delete(x)
  BY <1>4, DeleteWithdraws DEF Abstract!Next
<1>5. CASE \E p \in Pids : RotateBatch(p)
  BY <1>5, BatchSignsAnew DEF Abstract!Next
<1>6. CASE /\ ~\E u \in Uploads : Commit(u)
           /\ ~\E q \in Publications : PublishRecord(q)
           /\ ~\E x \in Paths : Delete(x)
           /\ ~\E p \in Pids : RotateBatch(p)
  <2>1. UNCHANGED <<narinfo, artifacts>>
    BY <1>6
       DEF Next, ProcessStep, Serve, SweepOne, Listen, Crash, PowerLoss, Exit,
           Rotate, RotateDone, Resolve, Receive, LookUp, UploadStep, WriteChunk,
           Finish, Verify, Reject, SyncStaged, RecordNar, AnswerUpload, Abandon,
           uploadFrame, PublishStep, AnswerPublish, FailPublish, publishFrame,
           OperatorStep, Reconcile, RemoveOrphan, Flush, vars, storeVars,
           indexVars
  <2>2. UNCHANGED <<Catalog, Signers, Fetchable>>
    BY <2>1, AbstractFrame
  <2>3. QED BY <2>2 DEF Abstract!vars, Catalog, Signers, Fetchable
<1>7. QED BY <1>2, <1>3, <1>4, <1>5, <1>6

LEMMA InitImplements == Init => Abstract!Init
<1> SUFFICES ASSUME Init
             PROVE  Abstract!Init
  OBVIOUS
<1>1. /\ \A x \in Paths : narinfo[x] = None
      /\ \A f \in Artifact : artifacts[f] # Whole(f)
  BY WholeType, NoFileAssumption DEF Init, StoreInit, IndexInit
<1>2. QED BY <1>1 DEF Abstract!Init

\* The cache is the abstract cache: with any uploads, shards, crashes,
\* restarts, levels, deletes and rotations, clients see artifacts arrive for
\* good, claims of fetchable bytes only, withdrawals and new signatures, and
\* nothing else. Upload::store, Ingest::publish and Maintain together keep the
\* promise of one transaction over files and tables that the code does not have.
THEOREM CacheImplements ==
  ASSUME ~PowerFails, ~OperatorRemoves
  PROVE  Spec => ImplementsCacheSpec
<1>1. TypeInv /\ StoreInv /\ SignInv /\ BackedInv /\ [Next]_vars => BackedInv'
  BY BackedStep
<1>2. TypeInv /\ StoreInv /\ SignInv /\ BackedInv /\ [Next]_vars
        => [Abstract!Next]_(Abstract!vars)
  BY StepImplements
<1>3. QED
  BY <1>1, <1>2, InitImplements, InitBacked, SignInvariant, PTL
     DEF Spec, ImplementsCacheSpec, Abstract!Spec

=============================================================================
