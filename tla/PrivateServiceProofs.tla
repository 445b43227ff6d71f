------------------------ MODULE PrivateServiceProofs -------------------------
(***************************************************************************)
(* Theorems about PrivateService, for any number of uploads, names, files  *)
(* and indexes.  A transaction has no single moment at which the tables    *)
(* and its decision agree, so most of the invariant says what an open      *)
(* transaction may rely on until it ends: the rows it has locked, and what *)
(* can only grow.                                                          *)
(***************************************************************************)
EXTENDS PrivateService, TLAPS

-----------------------------------------------------------------------------
(* The inductive invariant.                                                 *)

BeforePublishing == {"idle", "receive", "validate", "claimable", "lookup", "record"}

\* private_projects: recorded collisions stay, and approvals are of collisions.
ProjectRows ==
    /\ claimed \cup approved \subseteq recorded
    /\ \A n \in Name : collisions[n] # {} => n \in recorded
    /\ \A n \in recorded \cap PublicName : collisions[n] # {}
    /\ \A e \in approvalAudit : e.name \in approved /\ e.collisions = collisions[e.name]

\* private_artifacts: one row for each file name, written by an upload that is
\* past its commit and will not delete its blob.
ArtifactRows ==
    /\ \A r \in artifacts : /\ r = NewRow(r.key)
                            /\ r.key \in objects
                            /\ pc[r.key] \in {"cleanup"} \cup Ended
                            /\ pc[r.key] = "cleanup" => ~Discards(r.key)
    /\ \A r, q \in artifacts : r.file = q.file => r = q
    /\ uploadAudit = artifacts

\* What an open transaction has inserted: nobody else has, or can, that file
\* name, and its project may be owned.
InsertedRow(u) ==
    /\ pc[u] \in {"claim", "select", "commit", "crashed"}
    /\ ProjectOf(u) \in recorded
    /\ ProjectOf(u) \in PublicName => ProjectOf(u) \in approved
    /\ \A r \in artifacts : r.file # request[u].file /\ r.key # u
    /\ \A v \in inserted : request[v].file = request[u].file => v = u
    /\ pc[u] \in {"select", "commit"} => u \in claiming \/ ProjectOf(u) \in claimed

\* Only a transaction that brings the first file of a name claims it.
ClaimingRow(u) == u \in inserted /\ pc[u] \in {"select", "commit", "crashed"}

Transactions ==
    /\ \A u \in inserted : InsertedRow(u)
    /\ \A u \in claiming : ClaimingRow(u)

\* What the SELECT of an open transaction found.
Selected(u) ==
    IF u \in inserted THEN saved[u] = {NewRow(u)}
    ELSE \A r \in saved[u] : r \in artifacts /\ r.file = request[u].file /\ r.key # u

\* What a request knows when it is about to take a step.
Knows(u) ==
    /\ pc[u] \in {"idle", "receive"} => u \notin objects /\ u \notin completed
    /\ pc[u] \in Received => u \in objects /\ u \in completed
    /\ pc[u] \in BeforePublishing => u \notin commit_attempted
    /\ pc[u] \in InTransaction => u \in commit_attempted
    /\ pc[u] \in BeforePublishing \cup InTransaction => u \in discard
    /\ pc[u] = "record" /\ ProjectOf(u) \in PublicName => found[u] # {}
    /\ pc[u] = "write" =>
          /\ ProjectOf(u) \in recorded
          /\ ProjectOf(u) \in PublicName => ProjectOf(u) \in approved
    /\ pc[u] = "commit" => Selected(u)
    /\ pc[u] = "cleanup" /\ u \in commit_attempted => u \in faulted
    /\ pc[u] = "cleanup" /\ u \notin discard => \E r \in artifacts : r.key = u

RequestKnows == \A u \in Upload : Knows(u)

IInv ==
    /\ TypeOK
    /\ ProjectRows
    /\ ArtifactRows
    /\ Transactions
    /\ RequestKnows
    /\ ClaimedWithItsFiles
    /\ PublicNameNeedsApproval
    /\ OrphansOnlyAfterFault
    /\ AcknowledgedIsPublished

-----------------------------------------------------------------------------
(* What a step does, whichever action it is.                                *)

UploadStep(u) == Arrive(u) \/ Process(u) \/ Break(u) \/ Abandoned(u)

(* Every step keeps every variable's type.                                  *)
LEMMA TypeStep == TypeOK /\ [Next]_vars => TypeOK'
<1> SUFFICES ASSUME TypeOK, [Next]_vars PROVE TypeOK'
    OBVIOUS
<1> USE FileNameAssumption
    DEF TypeOK, Received, InTransaction, Ended, Outcome, ArtifactRow, ApprovalEvent, catalog, projects,
        transaction, locals, Goto, Answer, EndWith, Fault, ProjectOf
<1>1. ASSUME NEW u \in Upload, Arrive(u) PROVE TypeOK'
  BY <1>1 DEF Arrive, Refuse, Begin, Receive, ReceiveFails
<1>2. ASSUME NEW u \in Upload, Validate(u) \/ ReadProject(u) \/ Fail(u) PROVE TypeOK'
  BY <1>2 DEF Validate, ReadProject, Fail, TryCommit
<1>3. ASSUME NEW u \in Upload, NEW hits \in SUBSET Index, LookUp(u, hits) PROVE TypeOK'
  BY <1>3 DEF LookUp
<1>4. ASSUME NEW u \in Upload, Record(u) \/ RecordLost(u) PROVE TypeOK'
  <2>1. /\ recorded' \in SUBSET Name /\ collisions' \in [Name -> SUBSET Index]
        /\ UNCHANGED <<approved, claimed, artifacts, uploadAudit, approvalAudit>>
    BY <1>4 DEF Record, RecordLost, RecordCollisions
  <2>2. QED
    BY <1>4, <2>1 DEF Record, RecordLost, TryCommit
<1>5. ASSUME NEW u \in Upload, Insert(u) \/ Write(u) \/ Claim(u) PROVE TypeOK'
  <2>1. CASE Insert(u)
    BY <2>1 DEF Insert
  <2>2. CASE Write(u)
    BY <2>2 DEF Write
  <2>3. CASE Claim(u)
    <3>1. claiming' \in SUBSET Upload /\ pc' = [pc EXCEPT ![u] = "select"]
      BY <2>3 DEF Claim
    <3> QED
      BY <2>3, <3>1 DEF Claim
  <2> QED
    BY <1>5, <2>1, <2>2, <2>3
<1>6. ASSUME NEW u \in Upload, Select(u) PROVE TypeOK'
  BY <1>6 DEF Select, Visible, NewRow
<1>7. ASSUME NEW u \in Upload, CommitTransaction(u)
      PROVE  /\ artifacts' \in SUBSET ArtifactRow /\ uploadAudit' \in SUBSET ArtifactRow
             /\ claimed' \in SUBSET Name
             /\ UNCHANGED <<recorded, collisions, approved, approvalAudit>>
  BY <1>7 DEF CommitTransaction, NewRow, Event
<1>8. ASSUME NEW u \in Upload, Commit(u) PROVE TypeOK'
  BY <1>7, <1>8 DEF Commit, CloseTransaction, AnswerFor
<1>9. ASSUME NEW u \in Upload, CommitLost(u) \/ Rollback(u) \/ Crash(u) \/ Abandoned(u) PROVE TypeOK'
  BY <1>7, <1>9 DEF CommitLost, Rollback, Crash, Abandoned, CloseTransaction
<1>10. ASSUME NEW u \in Upload, Cleanup(u) \/ CleanupLost(u) PROVE TypeOK'
  BY <1>10 DEF Cleanup, CleanupLost
<1>11. ASSUME NEW n \in Name, Approve(n) PROVE TypeOK'
  BY <1>11 DEF Approve
<1>12. CASE UNCHANGED vars
  BY <1>12 DEF vars
<1> QED
  BY <1>1, <1>2, <1>3, <1>4, <1>5, <1>6, <1>8, <1>9, <1>10, <1>11, <1>12 DEF Next, Process, Break

(* A step of one request leaves the others' state alone.                    *)
LEMMA Frame ==
    ASSUME TypeOK, NEW u \in Upload, UploadStep(u), NEW v \in Upload, v # u
    PROVE  /\ pc'[v] = pc[v] /\ found'[v] = found[v] /\ outcome'[v] = outcome[v] /\ saved'[v] = saved[v]
           /\ v \in objects' <=> v \in objects
           /\ v \in completed' <=> v \in completed
           /\ v \in commit_attempted' <=> v \in commit_attempted
           /\ v \in discard' <=> v \in discard
           /\ v \in faulted' <=> v \in faulted
           /\ v \in inserted' <=> v \in inserted
           /\ v \in claiming' <=> v \in claiming
<1> USE DEF TypeOK, transaction, locals, Goto, Fault, EndWith, Answer
<1>1. CASE Arrive(u)
  BY <1>1 DEF Arrive, Refuse, Begin, Receive, ReceiveFails
<1>2. CASE Validate(u) \/ ReadProject(u) \/ Fail(u) \/ \E hits \in SUBSET Index : LookUp(u, hits)
  BY <1>2 DEF Validate, ReadProject, Fail, LookUp, TryCommit
<1>3. CASE Record(u) \/ RecordLost(u)
  BY <1>3 DEF Record, RecordLost, TryCommit
<1>4. CASE Insert(u) \/ Write(u) \/ Claim(u) \/ Select(u)
  BY <1>4 DEF Insert, Write, Claim, Select
<1>5. CASE Commit(u) \/ CommitLost(u)
  BY <1>5 DEF Commit, CommitLost, CloseTransaction
<1>6. CASE Rollback(u) \/ Crash(u) \/ Abandoned(u)
  BY <1>6 DEF Rollback, Crash, Abandoned, CloseTransaction
<1>7. CASE Cleanup(u) \/ CleanupLost(u)
  BY <1>7 DEF Cleanup, CleanupLost
<1> QED
  BY <1>1, <1>2, <1>3, <1>4, <1>5, <1>6, <1>7 DEF UploadStep, Process, Break

(* The four ways a step may change the tables.                              *)
LEMMA Effects ==
    ASSUME [Next]_vars
    PROVE  /\ request' = request
           /\ \/ UNCHANGED catalog
              \/ \E u \in Upload :
                    pc[u] = "record" /\ RecordCollisions(u) /\ UNCHANGED <<transaction, objects>>
              \/ \E u \in Upload :
                    /\ pc[u] = "commit" /\ pc' \in {[pc EXCEPT ![u] = "cleanup"], [pc EXCEPT ![u] = "crashed"]}
                    /\ CommitTransaction(u) /\ CloseTransaction(u)
              \/ \E n \in Name : Approve(n)
<1>1. ASSUME NEW u \in Upload,
             \/ Arrive(u) \/ Validate(u) \/ ReadProject(u) \/ Fail(u)
             \/ \E hits \in SUBSET Index : LookUp(u, hits)
             \/ Insert(u) \/ Write(u) \/ Claim(u) \/ Select(u) \/ Rollback(u) \/ Abandoned(u)
             \/ Cleanup(u) \/ CleanupLost(u)
      PROVE UNCHANGED <<request, catalog>>
  BY <1>1 DEF Arrive, Refuse, Begin, Receive, ReceiveFails, Validate, ReadProject, Fail, LookUp, Insert,
              Write, Claim, Select, Rollback, Abandoned, Cleanup, CleanupLost
<1>2. ASSUME NEW u \in Upload, Record(u) \/ RecordLost(u)
      PROVE request' = request /\ pc[u] = "record" /\ RecordCollisions(u) /\ UNCHANGED <<transaction, objects>>
  BY <1>2 DEF Record, RecordLost
<1>3. ASSUME NEW u \in Upload, Commit(u) \/ CommitLost(u) \/ Crash(u)
      PROVE /\ request' = request
            /\ \/ UNCHANGED catalog
               \/ /\ pc[u] = "commit"
                  /\ pc' \in {[pc EXCEPT ![u] = "cleanup"], [pc EXCEPT ![u] = "crashed"]}
                  /\ CommitTransaction(u) /\ CloseTransaction(u)
  BY <1>3 DEF Commit, CommitLost, Crash, Answer, Goto
<1>4. ASSUME NEW n \in Name, Approve(n) PROVE request' = request
  BY <1>4 DEF Approve
<1>5. CASE UNCHANGED vars
  BY <1>5 DEF vars
<1> QED
  BY <1>1, <1>2, <1>3, <1>4, <1>5 DEF Next, Process, Break

(* An approval changes the project and the audit trail alone.               *)
LEMMA ApproveFrame ==
    ASSUME NEW n \in Name, Approve(n)
    PROVE  /\ UNCHANGED <<recorded, collisions, claimed, artifacts, uploadAudit, transaction, objects,
                          request, pc, locals, outcome, faulted>>
           /\ approved' = approved \cup {n}
BY DEF Approve

(* Rows, claims and approvals stay, and so does a recorded collision.       *)
LEMMA Monotone ==
    ASSUME TypeOK, ProjectRows, [Next]_vars
    PROVE  /\ request' = request
           /\ recorded \subseteq recorded' /\ approved \subseteq approved' /\ claimed \subseteq claimed'
           /\ artifacts \subseteq artifacts'
           /\ \A n \in Name : collisions[n] # {} => collisions'[n] = collisions[n]
<1>1. CASE UNCHANGED catalog
  BY <1>1, Effects DEF catalog, projects
<1>2. ASSUME NEW u \in Upload, RecordCollisions(u)
      PROVE  /\ recorded \subseteq recorded' /\ approved \subseteq approved' /\ claimed \subseteq claimed'
             /\ artifacts \subseteq artifacts'
             /\ \A n \in Name : collisions[n] # {} => collisions'[n] = collisions[n]
  BY <1>2 DEF RecordCollisions, MayRecord, TypeOK
<1>3. ASSUME NEW u \in Upload, CommitTransaction(u)
      PROVE  /\ recorded \subseteq recorded' /\ approved \subseteq approved' /\ claimed \subseteq claimed'
             /\ artifacts \subseteq artifacts'
             /\ collisions' = collisions
  BY <1>3 DEF CommitTransaction
<1>4. ASSUME NEW n \in Name, Approve(n)
      PROVE  /\ recorded \subseteq recorded' /\ approved \subseteq approved' /\ claimed \subseteq claimed'
             /\ artifacts \subseteq artifacts'
             /\ collisions' = collisions
  BY <1>4 DEF Approve
<1> QED
  BY <1>1, <1>2, <1>3, <1>4, Effects

(* A step of u changes the transaction of u only, and in three ways.        *)
LEMMA TransactionEffects ==
    ASSUME TypeOK, NEW u \in Upload, UploadStep(u)
    PROVE  \/ UNCHANGED transaction
           \/ Write(u)
           \/ Claim(u)
           \/ CloseTransaction(u)
<1>1. CASE Arrive(u) \/ Validate(u) \/ ReadProject(u) \/ Fail(u) \/ \E hits \in SUBSET Index : LookUp(u, hits)
  BY <1>1 DEF Arrive, Refuse, Begin, Receive, ReceiveFails, Validate, ReadProject, Fail, LookUp
<1>2. CASE Record(u) \/ RecordLost(u) \/ Insert(u) \/ Select(u) \/ Cleanup(u) \/ CleanupLost(u)
  BY <1>2 DEF Record, RecordLost, Insert, Select, Cleanup, CleanupLost
<1>3. CASE Commit(u) \/ CommitLost(u) \/ Rollback(u) \/ Crash(u) \/ Abandoned(u)
  BY <1>3 DEF Commit, CommitLost, Rollback, Crash, Abandoned
<1> QED
  BY <1>1, <1>2, <1>3 DEF UploadStep, Process, Break

(* What a commit stores, and under whose claim.                             *)
LEMMA Committed ==
    ASSUME IInv, NEW u \in Upload, pc[u] = "commit", CommitTransaction(u)
    PROVE  /\ u \in inserted => /\ artifacts' = artifacts \cup {NewRow(u)}
                                /\ uploadAudit' = uploadAudit \cup {NewRow(u)}
                                /\ claimed' = claimed \cup {ProjectOf(u)}
           /\ u \notin inserted => UNCHANGED <<artifacts, uploadAudit, claimed>>
           /\ saved[u] \subseteq artifacts'
           /\ \A r \in saved[u] : r.file = request[u].file
           /\ (\E r \in saved[u] : r.key = u) <=> u \in inserted
<1>1. Selected(u)
  BY DEF IInv, RequestKnows, Knows
<1>2. CASE u \in inserted
  <2>1. saved[u] = {NewRow(u)} /\ NewRow(u).key = u /\ NewRow(u).file = request[u].file
    BY <1>1, <1>2 DEF Selected, NewRow
  <2>2. Event(u) = {NewRow(u)}
    BY <2>1 DEF Event
  <2>3. u \in claiming \/ ProjectOf(u) \in claimed
    BY <1>2 DEF IInv, Transactions, InsertedRow
  <2> QED
    BY <1>2, <2>1, <2>2, <2>3 DEF CommitTransaction
<1>3. CASE u \notin inserted
  <2>1. \A r \in saved[u] : r \in artifacts /\ r.file = request[u].file /\ r.key # u
    BY <1>1, <1>3 DEF Selected
  <2>2. Event(u) = {}
    BY <2>1 DEF Event
  <2>3. u \notin claiming
    BY <1>3 DEF IInv, Transactions, ClaimingRow
  <2> QED
    BY <1>3, <2>1, <2>2, <2>3 DEF CommitTransaction
<1> QED
  BY <1>2, <1>3
-----------------------------------------------------------------------------
(* The parts of the invariant.                                              *)

(* A step keeps what the projects' rows say: only lookups write collisions, *)
(* and never over others or after an approval.                              *)
LEMMA ProjectRowsStep == ASSUME IInv, [Next]_vars PROVE ProjectRows'
<1>0. TypeOK /\ ProjectRows /\ RequestKnows /\ Transactions /\ ClaimedWithItsFiles
  BY DEF IInv
<1>1. CASE UNCHANGED catalog
  BY <1>0, <1>1 DEF ProjectRows, catalog, projects
<1>2. ASSUME NEW u \in Upload, pc[u] = "record", RecordCollisions(u) PROVE ProjectRows'
  <2>1. ProjectOf(u) \in Name /\ found[u] \in SUBSET Index
    BY <1>0, FileNameAssumption DEF TypeOK, ProjectOf
  <2>2. ProjectOf(u) \in PublicName => found[u] # {}
    BY <1>0, <1>2 DEF RequestKnows, Knows
  <2>3. \A n \in Name : collisions'[n] = IF n = ProjectOf(u) /\ MayRecord(n) THEN found[u] ELSE collisions[n]
    BY <1>0, <1>2, <2>1 DEF RecordCollisions, TypeOK
  <2>4. UNCHANGED <<approved, claimed, approvalAudit>> /\ recorded' = recorded \cup {ProjectOf(u)}
    BY <1>2 DEF RecordCollisions
  <2>5. \A n \in recorded' \cap PublicName : collisions'[n] # {}
    BY <1>0, <2>1, <2>2, <2>3, <2>4, PublicNameAssumption DEF ProjectRows, MayRecord, TypeOK
  <2>6. \A e \in approvalAudit' : e.name \in approved' /\ e.collisions = collisions'[e.name]
    BY <1>0, <2>3, <2>4 DEF ProjectRows, MayRecord, TypeOK
  <2> QED
    BY <1>0, <2>1, <2>3, <2>4, <2>5, <2>6 DEF ProjectRows
<1>3. ASSUME NEW u \in Upload, pc[u] = "commit", CommitTransaction(u) PROVE ProjectRows'
  <2>1. claimed' \subseteq recorded
    <3>1. u \in inserted => ProjectOf(u) \in recorded
      BY <1>0 DEF Transactions, InsertedRow
    <3> QED
      BY <1>0, <1>3, <3>1, Committed DEF ProjectRows
  <2> QED
    BY <1>0, <1>3, <2>1 DEF CommitTransaction, ProjectRows
<1>4. ASSUME NEW n \in Name, Approve(n) PROVE ProjectRows'
  BY <1>0, <1>4 DEF Approve, ProjectRows
<1> QED
  BY <1>1, <1>2, <1>3, <1>4, Effects

(* A name is claimed in the transaction that publishes its first file, or   *)
(* in one that waited for that to be rolled back.                           *)
LEMMA ClaimedStep == ASSUME IInv, [Next]_vars PROVE ClaimedWithItsFiles'
<1>0. TypeOK /\ ClaimedWithItsFiles
  BY DEF IInv
<1>1. CASE UNCHANGED <<claimed, artifacts>>
  BY <1>0, <1>1 DEF ClaimedWithItsFiles
<1>2. ASSUME NEW u \in Upload, pc[u] = "commit", CommitTransaction(u) PROVE ClaimedWithItsFiles'
  <2>1. CASE u \in inserted
    <3>1. artifacts' = artifacts \cup {NewRow(u)} /\ claimed' = claimed \cup {ProjectOf(u)}
      BY <1>2, <2>1, Committed
    <3>2. FileName[NewRow(u).file] = ProjectOf(u)
      BY DEF NewRow, ProjectOf
    <3> QED
      BY <1>0, <3>1, <3>2 DEF ClaimedWithItsFiles
  <2>2. CASE u \notin inserted
    BY <1>1, <1>2, <2>2, Committed
  <2> QED
    BY <2>1, <2>2
<1>3. ASSUME NEW u \in Upload, RecordCollisions(u) PROVE UNCHANGED <<claimed, artifacts>>
  BY <1>3 DEF RecordCollisions
<1> QED
  BY <1>1, <1>2, <1>3, Effects, ApproveFrame DEF catalog, projects

(* A public name is inserted under only when it is approved or owned, and   *)
(* approvals stay.                                                          *)
LEMMA PublicNameStep == ASSUME IInv, [Next]_vars PROVE PublicNameNeedsApproval'
<1>0. TypeOK /\ Transactions /\ PublicNameNeedsApproval
  BY DEF IInv
<1>1. CASE claimed' = claimed /\ approved \subseteq approved'
  BY <1>0, <1>1 DEF PublicNameNeedsApproval
<1>2. ASSUME NEW u \in Upload, pc[u] = "commit", CommitTransaction(u) PROVE PublicNameNeedsApproval'
  <2>1. approved' = approved
    BY <1>2 DEF CommitTransaction
  <2>2. u \in inserted => (ProjectOf(u) \in PublicName => ProjectOf(u) \in approved)
    BY <1>0 DEF Transactions, InsertedRow
  <2>3. claimed' \subseteq claimed \cup (IF u \in inserted THEN {ProjectOf(u)} ELSE {})
    BY <1>2, Committed
  <2> QED
    BY <1>0, <2>1, <2>2, <2>3 DEF PublicNameNeedsApproval
<1>3. ASSUME NEW u \in Upload, RecordCollisions(u) PROVE UNCHANGED <<claimed, approved>>
  BY <1>3 DEF RecordCollisions
<1> QED
  BY <1>1, <1>2, <1>3, Effects, ApproveFrame DEF catalog, projects

(* Whoever has a row is past its commit, keeps its blob, and stays there.   *)
LEMMA RowKept ==
    ASSUME IInv, [Next]_vars, NEW r \in artifacts
    PROVE  /\ r = NewRow(r.key)' /\ r.key \in objects'
           /\ pc'[r.key] \in {"cleanup"} \cup Ended
           /\ pc'[r.key] = "cleanup" => ~Discards(r.key)'
<1>0. TypeOK /\ ArtifactRows /\ Transactions
  BY DEF IInv
<1>1. /\ r.key \in Upload /\ r = NewRow(r.key) /\ r.key \in objects
      /\ pc[r.key] \in {"cleanup"} \cup Ended /\ (pc[r.key] = "cleanup" => ~Discards(r.key))
      /\ r.key \notin inserted
  BY <1>0 DEF ArtifactRows, TypeOK, ArtifactRow, Transactions, InsertedRow
<1>2. request' = request
  BY Effects
<1>3. CASE UNCHANGED vars \/ \E n \in Name : Approve(n)
  BY <1>1, <1>2, <1>3, ApproveFrame DEF vars, NewRow, Discards, locals
<1>4. ASSUME NEW u \in Upload, UploadStep(u), u # r.key
      PROVE  /\ r.key \in objects' /\ pc'[r.key] \in {"cleanup"} \cup Ended
             /\ pc'[r.key] = "cleanup" => ~Discards(r.key)'
  BY <1>0, <1>1, <1>4, Frame DEF Discards
<1>5. ASSUME UploadStep(r.key)
      PROVE  r.key \in objects' /\ pc'[r.key] \in Ended
  <2>1. CASE Cleanup(r.key) \/ CleanupLost(r.key)
    BY <1>0, <1>1, <2>1 DEF Cleanup, CleanupLost, EndWith, Goto, TypeOK, Ended
  <2>2. CASE Crash(r.key)
    BY <1>0, <1>1, <2>2 DEF Crash, Goto, TypeOK, Ended
  <2>3. CASE Abandoned(r.key)
    BY <1>0, <1>1, <2>3 DEF Abandoned, TypeOK, Transactions, ClaimingRow
  <2> QED
    BY <1>1, <1>5, <2>1, <2>2, <2>3
    DEF UploadStep, Arrive, Process, Break, Ended, Refuse, Begin, Receive, ReceiveFails, Validate, ReadProject, LookUp,
        Record, Insert, Write, Claim, Select, Commit, RecordLost, Fail, CommitLost, Rollback, InTransaction
<1> QED
  BY <1>1, <1>2, <1>3, <1>4, <1>5 DEF Next, UploadStep, NewRow, Ended

(* A committed row is that of the upload, which still has its blob and will *)
(* not discard it: its SELECT found the row, or nobody knows.               *)
LEMMA RowAdded ==
    ASSUME IInv, [Next]_vars, NEW r \in artifacts', r \notin artifacts
    PROVE  /\ r.key \in inserted /\ r = NewRow(r.key)' /\ r.key \in objects'
           /\ pc'[r.key] \in {"cleanup"} \cup Ended
           /\ pc'[r.key] = "cleanup" => ~Discards(r.key)'
<1>0. TypeOK /\ RequestKnows
  BY DEF IInv
<1>1. PICK u \in Upload : UploadStep(u) /\ pc[u] = "commit" /\ CommitTransaction(u)
                          /\ (Commit(u) \/ CommitLost(u) \/ Crash(u))
  <2>1. \A v \in Upload : RecordCollisions(v) => artifacts' = artifacts
    BY DEF RecordCollisions
  <2>2. \A n \in Name : Approve(n) => artifacts' = artifacts
    BY DEF Approve
  <2>3. PICK u \in Upload : UploadStep(u) /\ artifacts' # artifacts
    BY <2>2 DEF Next, UploadStep, vars, catalog
  <2> QED
    BY <2>1, <2>3
    DEF UploadStep, Arrive, Process, Break, Refuse, Begin, Receive, ReceiveFails, Validate, ReadProject, LookUp,
        Record, Insert, Write, Claim, Select, RecordLost, Fail, Rollback, Commit, CommitLost, Crash, Cleanup, CleanupLost, Abandoned,
        catalog
<1>2. u \in inserted /\ artifacts' = artifacts \cup {NewRow(u)} /\ (\E q \in saved[u] : q.key = u)
  BY <1>1, Committed
<1>3. r = NewRow(u) /\ r.key = u /\ request' = request
  BY <1>2, Effects DEF NewRow
<1>4. u \in objects /\ u \in completed
  BY <1>0, <1>1 DEF RequestKnows, Knows, Received, InTransaction
<1>5. CASE Commit(u)
  BY <1>0, <1>2, <1>3, <1>4, <1>5 DEF Commit, Answer, Goto, TypeOK, NewRow, Discards
<1>6. CASE CommitLost(u)
  <2>1. u \in commit_attempted
    BY <1>0, <1>1 DEF RequestKnows, Knows, InTransaction
  <2> QED
    BY <1>0, <1>2, <1>3, <1>4, <1>6, <2>1 DEF CommitLost, Answer, Goto, TypeOK, NewRow, Discards, locals
<1>7. CASE Crash(u)
  BY <1>0, <1>2, <1>3, <1>4, <1>7 DEF Crash, Goto, TypeOK, NewRow, Ended
<1> QED
  BY <1>1, <1>5, <1>6, <1>7

(* A step keeps what the artifacts' rows say.                               *)
LEMMA ArtifactRowsStep == ASSUME IInv, [Next]_vars PROVE ArtifactRows'
<1>0. TypeOK /\ ArtifactRows /\ Transactions
  BY DEF IInv
<1>1. \A r \in artifacts' : /\ r = NewRow(r.key)' /\ r.key \in objects'
                            /\ pc'[r.key] \in {"cleanup"} \cup Ended
                            /\ pc'[r.key] = "cleanup" => ~Discards(r.key)'
  BY RowKept, RowAdded
<1>2. ASSUME NEW r \in artifacts', NEW q \in artifacts', r.file = q.file
      PROVE  r = q
  <2>1. \A x \in artifacts' : x \notin artifacts => x.key \in inserted /\ x.file = request[x.key].file
    BY RowAdded, Effects DEF NewRow
  <2>2. \A u \in inserted : \A x \in artifacts : x.file # request[u].file
    BY <1>0 DEF Transactions, InsertedRow
  <2>3. \A u, v \in inserted : request[u].file = request[v].file => u = v
    BY <1>0 DEF Transactions, InsertedRow
  <2>4. CASE r \in artifacts /\ q \in artifacts
    BY <1>0, <1>2, <2>4 DEF ArtifactRows
  <2>5. CASE r \notin artifacts /\ q \notin artifacts
    <3>1. r.key = q.key
      BY <1>2, <2>1, <2>3, <2>5
    <3> QED
      BY <1>1, <3>1
  <2> QED
    BY <1>2, <2>1, <2>2, <2>4, <2>5
<1>3. uploadAudit' = artifacts'
  <2>1. CASE UNCHANGED <<uploadAudit, artifacts>>
    BY <1>0, <2>1 DEF ArtifactRows
  <2>2. ASSUME NEW u \in Upload, RecordCollisions(u) PROVE UNCHANGED <<uploadAudit, artifacts>>
    BY <2>2 DEF RecordCollisions
  <2>3. ASSUME NEW u \in Upload, pc[u] = "commit", CommitTransaction(u) PROVE uploadAudit' = artifacts'
    <3>1. uploadAudit = artifacts
      BY <1>0 DEF ArtifactRows
    <3>2. \/ artifacts' = artifacts \cup {NewRow(u)} /\ uploadAudit' = uploadAudit \cup {NewRow(u)}
          \/ UNCHANGED <<artifacts, uploadAudit>>
      BY <2>3, Committed
    <3> QED
      BY <3>1, <3>2
  <2> QED
    BY <2>1, <2>2, <2>3, Effects, ApproveFrame DEF catalog
<1> QED
  BY <1>1, <1>2, <1>3 DEF ArtifactRows

(* Nothing that other requests or administrators do disturbs what an open   *)
(* transaction relies on.                                                   *)
LEMMA InsertedKept ==
    ASSUME IInv, [Next]_vars, NEW u \in inserted, pc'[u] = pc[u],
           u \in claiming => u \in claiming',
           \A v \in inserted' : v \in inserted
    PROVE  InsertedRow(u)'
<1>0. TypeOK /\ ProjectRows /\ InsertedRow(u) /\ u \in Upload
  BY DEF IInv, Transactions, TypeOK
<1>1. /\ request' = request /\ recorded \subseteq recorded' /\ approved \subseteq approved'
      /\ claimed \subseteq claimed'
  BY <1>0, Monotone
<1>2. ASSUME NEW r \in artifacts' PROVE r.file # request[u].file /\ r.key # u
  <2>1. CASE r \in artifacts
    BY <1>0, <2>1 DEF InsertedRow
  <2>2. CASE r \notin artifacts
    <3>1. r.key \in inserted /\ r.file = request[r.key].file /\ pc'[r.key] \in {"cleanup"} \cup Ended
      BY <1>1, <2>2, RowAdded DEF NewRow
    <3>2. r.key # u \/ pc[u] = "crashed"
      BY <1>0, <3>1 DEF InsertedRow, Ended
    <3>3. r.key # u
      <4>1. ASSUME r.key = u PROVE FALSE
        <5>1. pc[u] = "crashed" /\ pc'[u] = "crashed"
          BY <3>2, <4>1
        <5>2. PICK v \in Upload : pc[v] = "commit" /\ CommitTransaction(v) /\ artifacts' # artifacts
          <6>1. \A v \in Upload : RecordCollisions(v) => artifacts' = artifacts
            BY DEF RecordCollisions
          <6> QED
            BY <2>2, <6>1, Effects, ApproveFrame DEF catalog
        <5>3. r = NewRow(v) /\ v # u
          BY <2>2, <5>1, <5>2, Committed
        <5> QED
          BY <4>1, <5>3 DEF NewRow
      <4> QED
        BY <4>1
    <3>4. request[r.key].file # request[u].file
      BY <1>0, <3>1, <3>3 DEF InsertedRow
    <3> QED
      BY <3>1, <3>3, <3>4
  <2> QED
    BY <2>1, <2>2
<1> QED
  BY <1>0, <1>1, <1>2 DEF InsertedRow, ProjectOf

(* A step keeps what open transactions rely on.                             *)
LEMMA TransactionsStep == ASSUME IInv, [Next]_vars PROVE Transactions'
<1>0. TypeOK /\ Transactions /\ ProjectRows /\ ArtifactRows /\ RequestKnows /\ ClaimedWithItsFiles
  BY DEF IInv
<1>1. request' = request /\ recorded \subseteq recorded' /\ approved \subseteq approved' /\ claimed \subseteq claimed'
  BY <1>0, Monotone
<1>2. CASE UNCHANGED <<transaction, pc>>
  BY <1>0, <1>2, InsertedKept DEF Transactions, transaction, ClaimingRow
<1>3. ASSUME NEW u \in Upload, UploadStep(u) PROVE Transactions'
  <2> USE DEF Goto, Answer
  <2>1. \A v \in Upload : v # u =>
            pc'[v] = pc[v] /\ (v \in inserted' <=> v \in inserted) /\ (v \in claiming' <=> v \in claiming)
    BY <1>0, <1>3, Frame
  <2>2. inserted' \subseteq Upload /\ claiming' \subseteq Upload
    BY <1>0, TypeStep DEF TypeOK
  <2>3. CASE inserted' \subseteq inserted
    <3>1. ASSUME NEW v \in inserted', v # u PROVE InsertedRow(v)'
      BY <2>1, <2>2, <2>3, <3>1, InsertedKept
    <3>2. ASSUME NEW v \in claiming', v # u PROVE ClaimingRow(v)'
      BY <1>0, <2>1, <2>2, <3>2 DEF Transactions, ClaimingRow
    <3>3. ASSUME u \in inserted \cup claiming, u \in inserted' \cup claiming'
          PROVE  \/ Claim(u)
                 \/ Select(u)
                 \/ /\ Crash(u) /\ UNCHANGED <<catalog, transaction>> /\ pc'[u] = "crashed"
                    /\ pc[u] # "claim" \/ u \notin claiming
      <4>1. pc[u] \in {"claim", "select", "commit", "crashed"}
        BY <1>0, <3>3 DEF Transactions, InsertedRow, ClaimingRow
      <4>2. ~CloseTransaction(u)
        BY <3>3 DEF CloseTransaction
      <4>3. u \in claiming => pc[u] # "claim"
        BY <1>0 DEF Transactions, ClaimingRow
      <4> QED
        BY <1>0, <1>3, <4>1, <4>2, <4>3
        DEF UploadStep, Arrive, Process, Break, Refuse, Begin, Receive, ReceiveFails, Validate, ReadProject,
            LookUp, Record, Insert, Write, Commit, RecordLost, Fail, CommitLost, Rollback, Cleanup, CleanupLost,
            Crash, Abandoned, TypeOK
    <3>4. u \in inserted \cup claiming /\ u \in inserted' \cup claiming' =>
              UNCHANGED <<catalog, inserted>>
      BY <3>3 DEF Claim, Select, catalog, transaction
    <3>5. ASSUME u \in inserted' PROVE InsertedRow(u)'
      <4>1. u \in inserted /\ InsertedRow(u) /\ UNCHANGED <<catalog, inserted>>
        BY <1>0, <2>3, <3>4, <3>5 DEF Transactions
      <4>2. Claim(u) => u \in claiming' \/ ProjectOf(u) \in claimed
        <5>1. ProjectOf(u) \in recorded
          BY <4>1 DEF InsertedRow
        <5>2. HasFile(Visible(u), ProjectOf(u))
          <6>1. NewRow(u) \in Visible(u)
            BY <4>1 DEF Visible
          <6>2. FileName[NewRow(u).file] = ProjectOf(u)
            BY DEF NewRow, ProjectOf
          <6> QED
            BY <6>1, <6>2 DEF HasFile
        <5> QED
          BY <5>1, <5>2 DEF Claim
      <4>3. pc'[u] \in {"select", "commit", "crashed"}
        BY <1>0, <1>3, <2>3, <3>3, <3>5 DEF Claim, Select, TypeOK
      <4>4. pc'[u] \in {"select", "commit"} => u \in claiming' \/ ProjectOf(u) \in claimed
        <5>1. CASE Claim(u)
          BY <4>2, <5>1
        <5>2. CASE Select(u)
          BY <4>1, <5>2 DEF Select, InsertedRow, transaction
        <5> QED
          BY <3>3, <3>5, <4>1, <5>1, <5>2
      <4> QED
        BY <1>1, <4>1, <4>3, <4>4 DEF InsertedRow, ProjectOf, catalog, projects
    <3>6. ASSUME u \in claiming' PROVE ClaimingRow(u)'
      <4>1. CASE u \in claiming
        <5>1. u \in inserted
          BY <1>0, <4>1 DEF Transactions, ClaimingRow
        <5>2. u \in inserted'
          BY <3>4, <3>6, <4>1, <5>1
        <5>3. pc'[u] \in {"select", "commit", "crashed"}
          BY <1>0, <1>3, <3>3, <3>6, <4>1 DEF Claim, Select, TypeOK
        <5> QED
          BY <5>2, <5>3 DEF ClaimingRow
      <4>2. CASE u \notin claiming
        <5>1. Claim(u)
          BY <1>0, <1>3, <3>6, <4>2, TransactionEffects DEF transaction, Write, CloseTransaction
        <5>2. ProjectOf(u) \notin claimed /\ HasFile(Visible(u), ProjectOf(u))
          BY <3>6, <4>2, <5>1 DEF Claim
        <5>3. u \in inserted
          BY <1>0, <5>2 DEF HasFile, Visible, ClaimedWithItsFiles
        <5> QED
          BY <1>0, <5>1, <5>3 DEF ClaimingRow, Claim, TypeOK
      <4> QED
        BY <4>1, <4>2
    <3> QED
      BY <3>1, <3>2, <3>5, <3>6 DEF Transactions
  <2>4. CASE Write(u) /\ inserted' = inserted \cup {u} /\ u \notin inserted
    <3>1. /\ pc[u] = "write" /\ pc'[u] = "claim" /\ UNCHANGED <<catalog, claiming>>
          /\ \A r \in artifacts : r.file # request[u].file
      BY <1>0, <2>4 DEF Write, TypeOK
    <3>2. \A v \in inserted : request[v].file # request[u].file
      BY <2>4 DEF Write, FileLocked
    <3>3. \A r \in artifacts : r.key # u
      BY <1>0, <3>1 DEF ArtifactRows, Ended
    <3>4. ASSUME NEW v \in inserted PROVE InsertedRow(v)'
      <4>1. InsertedRow(v) /\ v # u /\ pc'[v] = pc[v]
        BY <1>0, <2>1, <2>4, <3>1, <3>4 DEF Transactions, TypeOK
      <4> QED
        BY <1>1, <2>4, <3>1, <3>2, <3>4, <4>1 DEF InsertedRow, ProjectOf, catalog, projects
    <3>5. InsertedRow(u)'
      <4>1. ProjectOf(u) \in recorded /\ (ProjectOf(u) \in PublicName => ProjectOf(u) \in approved)
        BY <1>0, <3>1 DEF RequestKnows, Knows
      <4> QED
        BY <1>1, <2>4, <3>1, <3>2, <3>3, <4>1 DEF InsertedRow, ProjectOf, catalog, projects
    <3>6. ASSUME NEW v \in claiming' PROVE ClaimingRow(v)'
      BY <1>0, <2>1, <2>2, <2>4, <3>1, <3>6 DEF Transactions, ClaimingRow
    <3> QED
      BY <2>4, <3>4, <3>5, <3>6 DEF Transactions
  <2> QED
    BY <1>0, <1>3, <2>3, <2>4, TransactionEffects DEF transaction, Write, Claim, CloseTransaction
<1> QED
  BY <1>2, <1>3, ApproveFrame DEF Next, UploadStep, vars

(* What u knows stays true while u does nothing.                            *)
LEMMA KnowsKept ==
    ASSUME IInv, [Next]_vars, NEW u \in Upload,
           pc'[u] = pc[u], found'[u] = found[u], saved'[u] = saved[u],
           u \in objects' <=> u \in objects,
           u \in completed' <=> u \in completed,
           u \in commit_attempted' <=> u \in commit_attempted,
           u \in discard' <=> u \in discard,
           u \in faulted' <=> u \in faulted,
           u \in inserted' <=> u \in inserted
    PROVE  Knows(u)'
<1>1. TypeOK /\ ProjectRows /\ Knows(u)
  BY DEF IInv, RequestKnows
<1>2. /\ request' = request /\ artifacts \subseteq artifacts'
      /\ recorded \subseteq recorded' /\ approved \subseteq approved'
  BY <1>1, Monotone
<1>3. pc[u] = "commit" => Selected(u)'
  BY <1>1, <1>2 DEF Knows, Selected, NewRow
<1> QED
  BY <1>1, <1>2, <1>3 DEF Knows, ProjectOf

(* A step keeps what every request knows of the tables and of its blob.     *)
LEMMA RequestKnowsStep == ASSUME IInv, [Next]_vars PROVE RequestKnows'
<1>0. TypeOK /\ ProjectRows /\ ArtifactRows /\ Transactions /\ RequestKnows /\ ClaimedWithItsFiles
      /\ PublicNameNeedsApproval /\ request' = request
  BY Effects DEF IInv
<1>1. ASSUME NEW u \in Upload, UploadStep(u) PROVE Knows(u)'
  <2>0. Knows(u) /\ ProjectOf(u) \in Name /\ ProjectOf(u)' = ProjectOf(u)
    BY <1>0, FileNameAssumption DEF TypeOK, ProjectOf, RequestKnows
  <2> USE <1>0, <2>0 DEF TypeOK, Knows, BeforePublishing, Received, InTransaction, locals, Goto, EndWith, Answer, Fault
  <2>1. CASE Refuse(u) \/ Begin(u)
    BY <2>1 DEF Refuse, Begin
  <2>2. CASE Receive(u)
    BY <2>2 DEF Receive
  <2>3. CASE ReceiveFails(u)
    BY <2>3 DEF ReceiveFails
  <2>4. CASE Validate(u) \/ Fail(u)
    BY <2>4 DEF Validate, Fail
  <2>5. CASE ReadProject(u)
    BY <2>5 DEF ReadProject, TryCommit
  <2>6. CASE \E hits \in SUBSET Index : LookUp(u, hits)
    BY <2>6 DEF LookUp
  <2>7. CASE Record(u)
    BY <2>7 DEF Record, TryCommit
  <2>8. CASE RecordLost(u)
    BY <2>8 DEF RecordLost
  <2>9. CASE Insert(u)
    <3>1. MayPublish(ProjectOf(u)) => /\ ProjectOf(u) \in recorded
                                      /\ ProjectOf(u) \in PublicName => ProjectOf(u) \in approved
      BY DEF MayPublish, ProjectRows, PublicNameNeedsApproval
    <3> QED
      BY <2>9, <3>1 DEF Insert, catalog, projects
  <2>10. CASE Write(u) \/ Claim(u)
    BY <2>10 DEF Write, Claim
  <2>11. CASE Select(u)
    <3>1. saved'[u] = {r \in Visible(u) : r.file = request[u].file} /\ UNCHANGED <<catalog, transaction>>
      BY <2>11 DEF Select
    <3>2. NewRow(u).file = request[u].file
      BY DEF NewRow
    <3>3. u \in inserted => saved'[u] = {NewRow(u)}
      BY <3>1, <3>2 DEF Visible, Transactions, InsertedRow
    <3>4. u \notin inserted => \A r \in saved'[u] : r \in artifacts /\ r.file = request[u].file /\ r.key # u
      BY <2>11, <3>1 DEF Visible, ArtifactRows, Ended, Select
    <3>5. Selected(u)'
      BY <3>1, <3>3, <3>4 DEF Selected, catalog, transaction, NewRow
    <3> QED
      BY <2>11, <3>5 DEF Select
  <2>12. CASE Commit(u)
    <3>1. u \notin discard' => \E r \in artifacts' : r.key = u
      BY <2>12, Committed DEF Commit, NewRow
    <3> QED
      BY <2>12, <3>1 DEF Commit
  <2>13. CASE CommitLost(u) \/ Rollback(u)
    BY <2>13 DEF CommitLost, Rollback
  <2>14. CASE Cleanup(u) \/ CleanupLost(u)
    BY <2>14 DEF Cleanup, CleanupLost
  <2>15. CASE Crash(u)
    BY <2>15 DEF Crash
  <2>16. CASE Abandoned(u)
    BY <2>16 DEF Abandoned
  <2> QED
    BY <1>1, <2>1, <2>2, <2>3, <2>4, <2>5, <2>6, <2>7, <2>8, <2>9, <2>10, <2>11, <2>12, <2>13, <2>14, <2>15,
       <2>16 DEF UploadStep, Arrive, Process, Break
<1>2. ASSUME NEW u \in Upload, UploadStep(u), NEW v \in Upload, v # u PROVE Knows(v)'
  BY <1>0, <1>2, Frame, KnowsKept
<1>3. ASSUME NEW v \in Upload, UNCHANGED vars \/ \E n \in Name : Approve(n) PROVE Knows(v)'
  BY <1>3, ApproveFrame, KnowsKept DEF vars, locals, transaction
<1> QED
  BY <1>1, <1>2, <1>3 DEF Next, UploadStep, RequestKnows

(* A step keeps OrphansOnlyAfterFault: what `finally` keeps has its row, or *)
(* its fate was unknown.                                                    *)
LEMMA OrphansStep == ASSUME IInv, [Next]_vars PROVE OrphansOnlyAfterFault'
<1>0. TypeOK /\ OrphansOnlyAfterFault /\ RequestKnows /\ artifacts \subseteq artifacts'
  BY Monotone DEF IInv
<1>1. ASSUME NEW u \in Upload, UploadStep(u), u \in objects', pc'[u] \in Ended, u \notin faulted'
      PROVE  \E r \in artifacts' : r.key = u
  <2>0. Knows(u)
    BY <1>0 DEF RequestKnows
  <2> USE DEF Goto, EndWith, Answer, Fault, Ended
  <2>1. CASE Refuse(u) \/ ReceiveFails(u)
    BY <1>0, <1>1, <2>0, <2>1 DEF Refuse, ReceiveFails, Knows
  <2>2. CASE Cleanup(u)
    BY <1>0, <1>1, <2>0, <2>2 DEF Cleanup, Knows, Received, Discards, locals
  <2>3. CASE CleanupLost(u) \/ Crash(u)
    BY <1>1, <2>3 DEF CleanupLost, Crash
  <2>4. CASE Abandoned(u)
    BY <1>0, <1>1, <2>4 DEF Abandoned, OrphansOnlyAfterFault
  <2> QED
    BY <1>0, <1>1, <2>1, <2>2, <2>3, <2>4
    DEF TypeOK, UploadStep, Arrive, Process, Break, Begin, Receive, Validate, ReadProject, TryCommit, LookUp, Record, RecordLost,
        Fail, Insert, Write, Claim, Select, Commit, CommitLost, Rollback
<1>2. ASSUME NEW v \in Upload, ~UploadStep(v), v \in objects', pc'[v] \in Ended, v \notin faulted'
      PROVE  \E r \in artifacts' : r.key = v
  <2>1. pc'[v] = pc[v] /\ (v \in objects' <=> v \in objects) /\ (v \in faulted' <=> v \in faulted)
    <3>1. CASE \E u \in Upload : UploadStep(u)
      BY <1>0, <1>2, <3>1, Frame
    <3>2. CASE UNCHANGED vars \/ \E n \in Name : Approve(n)
      BY <3>2, ApproveFrame DEF vars
    <3> QED
      BY <3>1, <3>2 DEF Next, UploadStep
  <2> QED
    BY <1>0, <1>2, <2>1 DEF OrphansOnlyAfterFault
<1> QED
  BY <1>0, <1>1, <1>2, TypeStep DEF OrphansOnlyAfterFault, TypeOK

(* A step keeps AcknowledgedIsPublished: the answer is about the row that   *)
(* the transaction selected, which its commit made everybody's.             *)
LEMMA AcknowledgedStep == ASSUME IInv, [Next]_vars PROVE AcknowledgedIsPublished'
<1> DEFINE Found(v, rows) == \E r \in rows :
               r.file = request[v].file /\ ((outcome'[v] = "published") <=> (r.sha256 = request[v].sha256))
<1>0. TypeOK /\ ProjectRows /\ AcknowledgedIsPublished
  BY DEF IInv
<1>1. request' = request /\ artifacts \subseteq artifacts'
  BY <1>0, Monotone
<1>2. ASSUME NEW v \in Upload, outcome'[v] = outcome[v], outcome'[v] \in {"published", "conflict"}
      PROVE  Found(v, artifacts')
  <2>1. Found(v, artifacts)
    BY <1>0, <1>2 DEF AcknowledgedIsPublished
  <2> QED
    BY <1>1, <2>1
<1>3. ASSUME NEW u \in Upload, Commit(u), outcome'[u] \in {"published", "conflict"}
      PROVE  Found(u, artifacts')
  <2>1. outcome'[u] = AnswerFor(u) /\ saved[u] \subseteq artifacts' /\ \A r \in saved[u] : r.file = request[u].file
    BY <1>0, <1>3, Committed DEF Commit, Answer, TypeOK
  <2>2. CASE outcome'[u] = "published"
    <3>1. PICK r \in saved[u] : r.sha256 = request[u].sha256
      BY <2>1, <2>2 DEF AnswerFor
    <3> QED
      BY <2>1, <2>2, <3>1
  <2>3. CASE outcome'[u] = "conflict"
    <3>1. saved[u] # {} /\ \A r \in saved[u] : r.sha256 # request[u].sha256
      BY <2>1, <2>3 DEF AnswerFor
    <3> QED
      BY <2>1, <2>3, <3>1
  <2> QED
    BY <1>3, <2>2, <2>3
<1>4. ASSUME NEW u \in Upload, UploadStep(u), ~Commit(u)
      PROVE  outcome'[u] = outcome[u] \/ outcome'[u] \notin {"published", "conflict"}
  <2> USE DEF TypeOK, Answer, EndWith
  <2>1. CASE Arrive(u)
    BY <1>0, <2>1 DEF Arrive, Refuse, Begin, Receive, ReceiveFails
  <2>2. CASE Validate(u) \/ ReadProject(u) \/ Fail(u) \/ \E hits \in SUBSET Index : LookUp(u, hits)
    BY <1>0, <2>2 DEF Validate, ReadProject, Fail, LookUp
  <2>3. CASE Record(u) \/ RecordLost(u)
    BY <1>0, <2>3 DEF Record, RecordLost
  <2>4. CASE Insert(u) \/ Write(u) \/ Claim(u) \/ Select(u)
    BY <1>0, <2>4 DEF Insert, Write, Claim, Select
  <2>5. CASE CommitLost(u) \/ Rollback(u) \/ Crash(u) \/ Abandoned(u)
    BY <1>0, <2>5 DEF CommitLost, Rollback, Crash, Abandoned
  <2>6. CASE Cleanup(u) \/ CleanupLost(u)
    BY <1>0, <2>6 DEF Cleanup, CleanupLost
  <2> QED
    BY <1>4, <2>1, <2>2, <2>3, <2>4, <2>5, <2>6 DEF UploadStep, Process, Break
<1>5. ASSUME NEW v \in Upload, outcome'[v] \in {"published", "conflict"} PROVE Found(v, artifacts')
  <2>1. CASE UNCHANGED vars \/ \E n \in Name : Approve(n)
    BY <1>2, <1>5, <2>1, ApproveFrame DEF vars
  <2>2. ASSUME NEW u \in Upload, UploadStep(u) PROVE Found(v, artifacts')
    <3>1. CASE u # v
      BY <1>0, <1>2, <1>5, <2>2, <3>1, Frame
    <3>2. CASE u = v
      BY <1>2, <1>3, <1>4, <1>5, <2>2, <3>2
    <3> QED
      BY <3>1, <3>2
  <2> QED
    BY <2>1, <2>2 DEF Next, UploadStep
<1>6. \A r, q \in artifacts' : r.file = q.file => r = q
  BY ArtifactRowsStep DEF ArtifactRows
<1> QED
  BY <1>1, <1>5, <1>6 DEF AcknowledgedIsPublished

(* The invariant holds before anything is uploaded.                         *)
LEMMA InitIInv == Init => IInv
<1> SUFFICES ASSUME Init PROVE IInv
    OBVIOUS
<1>1. TypeOK
  BY DEF Init, TypeOK, Outcome
<1>2. ProjectRows /\ ArtifactRows /\ Transactions
  BY DEF Init, ProjectRows, ArtifactRows, Transactions
<1>3. RequestKnows
  BY DEF Init, RequestKnows, Knows, Received, InTransaction
<1>4. /\ ClaimedWithItsFiles /\ PublicNameNeedsApproval /\ OrphansOnlyAfterFault
      /\ AcknowledgedIsPublished
  BY DEF Init, ClaimedWithItsFiles, PublicNameNeedsApproval, OrphansOnlyAfterFault, AcknowledgedIsPublished
<1> QED
  BY <1>1, <1>2, <1>3, <1>4 DEF IInv

-----------------------------------------------------------------------------
(* The theorems.                                                            *)

(* Every reachable state satisfies the invariant, whatever statements of    *)
(* several publishers interleave, fail or lose their answers.               *)
THEOREM Invariance == Spec => []IInv
<1>1. IInv /\ [Next]_vars => IInv'
  <2> SUFFICES ASSUME IInv, [Next]_vars PROVE IInv'
      OBVIOUS
  <2>1. TypeOK'
    BY TypeStep DEF IInv
  <2> QED
    BY <2>1, ProjectRowsStep, ArtifactRowsStep, TransactionsStep, RequestKnowsStep, ClaimedStep, PublicNameStep,
       OrphansStep, AcknowledgedStep DEF IInv
<1> QED
  BY <1>1, InitIInv, PTL DEF Spec

(* Between transactions a name is claimed exactly when a file is published  *)
(* under it (the INSERT and the UPDATE of publish_private_artifact), and    *)
(* every variable has its type.                                             *)
THEOREM Consistency == Spec => []Consistent
<1>1. IInv => Consistent
  BY DEF IInv, Consistent
<1> QED
  BY <1>1, Invariance, PTL

(* The finally block of the upload never deletes the blob of a published    *)
(* row, and leaves a blob without a row only when a crash or a failed call  *)
(* made the outcome unknown.                                                *)
THEOREM StorageIsSafe == Spec => []StorageSafe
<1>1. IInv => PublishedBytesIntact
  BY DEF IInv, ArtifactRows, PublishedBytesIntact, NewRow
<1>2. IInv => StorageSafe
  BY <1>1 DEF IInv, StorageSafe
<1> QED
  BY <1>2, Invariance, PTL

(* A name that is public throughout is owned only after an administrator    *)
(* approved it: the MayPublish condition and the approval's lock suffice.   *)
THEOREM NoSilentShadowing == Spec => []PublicNameNeedsApproval
<1>1. IInv => PublicNameNeedsApproval
  BY DEF IInv
<1> QED
  BY <1>1, Invariance, PTL

(* 200 and 409 tell the publisher what the tables hold, and the audit trail *)
(* holds every stored row and the collisions each approval was about.       *)
THEOREM Truthful == Spec => []ToldTheTruth
<1>1. IInv => AuditIsTrue
  BY DEF IInv, ArtifactRows, ProjectRows, AuditIsTrue
<1>2. IInv => ToldTheTruth
  BY <1>1 DEF IInv, ToldTheTruth
<1> QED
  BY <1>2, Invariance, PTL

-----------------------------------------------------------------------------
(* Who waits for whom.                                                      *)

\* The statement u is about to run waits for a lock of v's open transaction:
\* on the project, for the upsert and the UPDATE, or on the file name, for the
\* INSERT.
WaitsFor(u, v) ==
    \/ /\ pc[u] = "record"
       /\ v \in claiming /\ ProjectOf(v) = ProjectOf(u)
    \/ /\ pc[u] = "write"
       /\ v \in inserted \ {u} /\ request[v].file = request[u].file
    \/ /\ pc[u] = "claim"
       /\ ProjectOf(u) \in recorded \ claimed /\ HasFile(Visible(u), ProjectOf(u))
       /\ v \in claiming /\ ProjectOf(v) = ProjectOf(u)

Waits(u) == \E v \in Upload : WaitsFor(u, v)

\* The statement v runs next waits for nobody, and its transaction ends with
\* its commit, or with its replica gone.
GoesOn(v) == /\ v \in inserted \cup claiming
             /\ pc[v] \in {"claim", "select", "commit", "crashed"}
             /\ ~Waits(v)

\* However many publishers share names and file names, waiting is no circle: it
\* ends with a transaction that goes on, after two steps at most (a publisher of
\* the same file waits for one that waits for the claim of a third).
WaitsEnd ==
    \A u, v \in Upload : WaitsFor(u, v) =>
        GoesOn(v) \/ (Waits(v) /\ \A w \in Upload : WaitsFor(v, w) => GoesOn(w))

\* Nobody shares a lock: one open transaction has inserted a file name, and one
\* has updated a project.
OneHolder == /\ \A u, v \in inserted : request[u].file = request[v].file => u = v
             /\ \A u, v \in claiming : ProjectOf(u) = ProjectOf(v) => u = v

(* A step keeps the locks exclusive.                                        *)
LEMMA OneHolderStep ==
    ASSUME IInv, IInv', OneHolder, [Next]_vars
    PROVE  OneHolder'
<1>1. \A u, v \in inserted' : request'[u].file = request'[v].file => u = v
  BY DEF IInv, Transactions, InsertedRow
<1>2. request' = request /\ \A u : ProjectOf(u)' = ProjectOf(u)
  BY Effects DEF ProjectOf
<1>3. CASE UNCHANGED transaction
  BY <1>1, <1>2, <1>3 DEF OneHolder, transaction
<1>4. ASSUME NEW u \in Upload, Write(u) \/ Claim(u) \/ CloseTransaction(u)
      PROVE  \A v, w \in claiming' : ProjectOf(v) = ProjectOf(w) => v = w
  <2>1. claiming' \subseteq claiming \/ (claiming' = claiming \cup {u} /\ ~ProjectLocked(ProjectOf(u)))
    BY <1>4 DEF Write, Claim, CloseTransaction
  <2> QED
    BY <2>1 DEF OneHolder, ProjectLocked
<1>5. CASE (\E n \in Name : Approve(n)) \/ UNCHANGED vars
  BY <1>3, <1>5 DEF Approve, vars
<1>6. ASSUME NEW u \in Upload, UploadStep(u)
      PROVE  OneHolder'
  <2>1. UNCHANGED transaction \/ Write(u) \/ Claim(u) \/ CloseTransaction(u)
    BY <1>6, TransactionEffects DEF IInv
  <2> QED
    BY <1>1, <1>2, <1>3, <1>4, <2>1 DEF OneHolder
<1> QED
  BY <1>5, <1>6 DEF Next, UploadStep

(* The locks are exclusive: a file name is being published, and a name being *)
(* claimed, by one transaction at a time.                                   *)
THEOREM LocksAreExclusive == Spec => []OneHolder
<1>1. Init => OneHolder
  BY DEF Init, OneHolder
<1>2. IInv /\ IInv' /\ OneHolder /\ [Next]_vars => OneHolder'
  BY OneHolderStep
<1> QED
  BY <1>1, <1>2, Invariance, PTL DEF Spec

(* A transaction that is claiming a name has nothing more to wait for.      *)
LEMMA ClaimingGoesOn ==
    ASSUME IInv, NEW v \in claiming
    PROVE  GoesOn(v)
<1>1. pc[v] \in {"select", "commit", "crashed"} /\ v \in inserted
  BY DEF IInv, Transactions, ClaimingRow
<1> QED
  BY <1>1 DEF GoesOn, Waits, WaitsFor

(* One that inserted its row waits at most for the claim of another.        *)
LEMMA InsertedGoesOn ==
    ASSUME IInv, NEW v \in inserted
    PROVE  /\ \A w \in Upload : WaitsFor(v, w) => w \in claiming
           /\ ~Waits(v) => GoesOn(v)
<1>1. pc[v] \in {"claim", "select", "commit", "crashed"}
  BY DEF IInv, Transactions, InsertedRow
<1> QED
  BY <1>1 DEF GoesOn, WaitsFor

(* No set of uploads waits for each other for ever: what UploadsEnd needs of *)
(* every state, for any number of uploads.                                  *)
THEOREM NoCircularWait == Spec => []WaitsEnd
<1>1. IInv => WaitsEnd
  <2> SUFFICES ASSUME IInv, NEW u \in Upload, NEW v \in Upload, WaitsFor(u, v)
               PROVE  GoesOn(v) \/ (Waits(v) /\ \A w \in Upload : WaitsFor(v, w) => GoesOn(w))
      BY DEF WaitsEnd
  <2>1. v \in claiming \/ v \in inserted
    BY DEF WaitsFor
  <2> QED
    BY <2>1, ClaimingGoesOn, InsertedGoesOn
<1> QED
  BY <1>1, Invariance, PTL

-----------------------------------------------------------------------------
(* The refinement of LatePrivateIndex.                                      *)

\* What may still be published, whoever decided it.
Decided == {request[u] : u \in Deciding}

(* What a client is given are the rows: every row has its bytes.            *)
LEMMA ServedRows ==
    ASSUME ArtifactRows, ArtifactRows'
    PROVE  /\ Served = {[file |-> r.file, sha256 |-> r.sha256] : r \in artifacts}
           /\ Served' = {[file |-> r.file, sha256 |-> r.sha256] : r \in artifacts'}
<1>1. \A r \in artifacts : r.key \in objects /\ request[r.key].sha256 = r.sha256
  BY DEF ArtifactRows, NewRow
<1>2. \A r \in artifacts' : r.key \in objects' /\ request'[r.key].sha256 = r.sha256
  BY DEF ArtifactRows, NewRow
<1>3. {q \in artifacts : q.key \in objects} = artifacts
  BY <1>1
<1>4. {q \in artifacts' : q.key \in objects'} = artifacts'
  BY <1>2
<1> QED
  BY <1>1, <1>2, <1>3, <1>4 DEF Served

(* What a step of u does to the tables, by what it was about to do.         *)
LEMMA UploadEffects ==
    ASSUME TypeOK, NEW u \in Upload, UploadStep(u)
    PROVE  \/ UNCHANGED catalog
           \/ pc[u] = "record" /\ RecordCollisions(u) /\ pc'[u] # "write" /\ UNCHANGED inserted
           \/ pc[u] = "commit" /\ CommitTransaction(u) /\ CloseTransaction(u)
<1>1. CASE \/ Arrive(u) \/ Validate(u) \/ ReadProject(u) \/ Fail(u)
           \/ \E hits \in SUBSET Index : LookUp(u, hits)
           \/ Insert(u) \/ Write(u) \/ Claim(u) \/ Select(u) \/ Rollback(u) \/ Abandoned(u)
           \/ Cleanup(u) \/ CleanupLost(u)
  BY <1>1 DEF Arrive, Refuse, Begin, Receive, ReceiveFails, Validate, ReadProject, Fail, LookUp, Insert,
              Write, Claim, Select, Rollback, Abandoned, Cleanup, CleanupLost
<1>2. CASE Record(u) \/ RecordLost(u)
  BY <1>2 DEF TypeOK, Record, RecordLost, TryCommit, Answer, Goto, transaction
<1>3. CASE Commit(u) \/ CommitLost(u) \/ Crash(u)
  BY <1>3 DEF Commit, CommitLost, Crash
<1> QED
  BY <1>1, <1>2, <1>3 DEF UploadStep, Process, Break

(* Only an INSERT that its condition allows decides on something new.       *)
LEMMA DecidingMoves ==
    ASSUME IInv, NEW u \in Upload, UploadStep(u)
    PROVE  /\ \A v \in Upload : v # u => (v \in Deciding' <=> v \in Deciding)
           /\ u \in Deciding' => u \in Deciding \/ (Insert(u) /\ MayPublish(ProjectOf(u)))
<1>0. TypeOK /\ Transactions
  BY DEF IInv
<1>1. \A v \in Upload : v # u => (v \in Deciding' <=> v \in Deciding)
  BY <1>0, Frame DEF Deciding
<1>2. ASSUME u \notin Deciding, u \in Deciding' PROVE Insert(u) /\ MayPublish(ProjectOf(u))
  <2>1. pc'[u] = "write" \/ u \in inserted'
    BY <1>2 DEF Deciding
  <2>2. CASE Write(u)
    BY <1>2, <2>2 DEF Write, Deciding
  <2>3. CASE u \in inserted' /\ ~Write(u)
    BY <1>0, <1>2, <2>3, TransactionEffects DEF transaction, Claim, CloseTransaction, Deciding
  <2>4. CASE pc'[u] = "write" /\ ~Insert(u)
    <3> USE DEF Goto, Answer, EndWith, TryCommit
    <3>1. pc[u] # "write"
      BY <1>2 DEF Deciding
    <3> QED
      BY <1>0, <2>4, <3>1
      DEF TypeOK, UploadStep, Arrive, Process, Break, Refuse, Begin, Receive, ReceiveFails, Validate,
          ReadProject, LookUp, Record, Write, Claim, Select, Commit, RecordLost, Fail, CommitLost,
          Rollback, Cleanup, CleanupLost, Crash, Abandoned
  <2>5. CASE Insert(u)
    BY <1>0, <1>2, <2>5 DEF Insert, Goto, Deciding, transaction, TypeOK
  <2> QED
    BY <2>1, <2>2, <2>3, <2>4, <2>5
<1> QED
  BY <1>1, <1>2

(* The same, of what it decides on.                                         *)
LEMMA DecidedMoves ==
    ASSUME IInv, NEW u \in Upload, UploadStep(u), request' = request
    PROVE  \/ Decided' = Decided
           \/ Decided' = Decided \ {request[u]}
           \/ Decided' = Decided \cup {request[u]} /\ Insert(u) /\ MayPublish(ProjectOf(u))
<1>1. \A v \in Upload : v # u => (v \in Deciding' <=> v \in Deciding)
  BY DecidingMoves
<1>2. CASE u \in Deciding \/ u \notin Deciding'
  BY <1>1, <1>2 DEF Decided, Deciding
<1>3. CASE u \notin Deciding /\ u \in Deciding'
  <2>1. Insert(u) /\ MayPublish(ProjectOf(u))
    BY <1>3, DecidingMoves
  <2>2. Decided' = Decided \cup {request[u]}
    BY <1>1, <1>3 DEF Decided, Deciding
  <2> QED
    BY <2>1, <2>2
<1> QED
  BY <1>2, <1>3

(* Private publishing on PostgreSQL implements its abstract specification:  *)
(* a step is one of Collide, Approve, Decide, Publish and Withdraw, or      *)
(* changes nothing that is promised.                                        *)
THEOREM Refinement == Spec => ImplementsLateIndex
<1> DEFINE Pending == {n \in Name : collisions[n] # {}}
           Bytes(r) == [file |-> r.file, sha256 |-> r.sha256]
<1>1. Init => Promise!Init
  BY DEF Init, Promise!Init, Served, Deciding
<1>2. ASSUME IInv, IInv', [Next]_vars PROVE [Promise!Next]_(Promise!vars)
  <2>0. TypeOK /\ ProjectRows /\ ArtifactRows /\ Transactions
    BY <1>2 DEF IInv
  <2>1. Served = {Bytes(r) : r \in artifacts} /\ Served' = {Bytes(r) : r \in artifacts'}
    BY <1>2, ServedRows DEF IInv
  <2>2. request' = request
    BY <1>2, Effects
  <2>3. CASE UNCHANGED vars
    BY <2>1, <2>3 DEF vars, catalog, projects, transaction, Promise!vars, Deciding
  <2>4. ASSUME NEW n \in Name, Approve(n) PROVE [Promise!Next]_(Promise!vars)
    <3>1. Decided' = Decided /\ Served' = Served
      BY <2>1, <2>4, ApproveFrame DEF Decided, Deciding, transaction
    <3>2. Promise!Approve(n)
      BY <2>4, <3>1 DEF Approve, Promise!Approve, Decided
    <3> QED
      BY <3>2 DEF Promise!Next, Promise!Approve
  <2>5. ASSUME NEW u \in Upload, UploadStep(u) PROVE [Promise!Next]_(Promise!vars)
    <3> DEFINE b == request[u]
    <3>0. b \in Promise!Content /\ FileName[b.file] = ProjectOf(u) /\ ProjectOf(u) \in Name
      BY <2>0, FileNameAssumption DEF TypeOK, Promise!Content, ProjectOf
    <3>1. CASE UNCHANGED catalog
      <4>1. UNCHANGED <<Pending, approved, claimed, Served>>
        BY <2>1, <3>1 DEF catalog, projects
      <4>2. CASE Decided' = Decided
        BY <4>1, <4>2 DEF Promise!vars, Decided
      <4>3. CASE Decided' = Decided \ {b}
        <5>1. Promise!Withdraw(b)
          BY <4>1, <4>3 DEF Promise!Withdraw, Decided
        <5> QED
          BY <3>0, <5>1 DEF Promise!Next, Promise!Withdraw
      <4>4. CASE Decided' = Decided \cup {b} /\ MayPublish(ProjectOf(u))
        <5>1. FileName[b.file] \in Pending => FileName[b.file] \in approved \cup claimed
          BY <3>0, <4>4 DEF MayPublish
        <5>2. Promise!Decide(b)
          BY <4>1, <4>4, <5>1 DEF Promise!Decide, Decided
        <5> QED
          BY <3>0, <5>2 DEF Promise!Next, Promise!Decide
      <4> QED
        BY <1>2, <2>2, <2>5, <4>2, <4>3, <4>4, DecidedMoves
    <3>2. CASE pc[u] = "record" /\ RecordCollisions(u) /\ pc'[u] # "write" /\ UNCHANGED inserted
      <4>1. Decided' = Decided
        <5>1. \A v \in Upload : v \in Deciding' <=> v \in Deciding
          BY <2>0, <2>5, <3>2, Frame DEF Deciding
        <5> QED
          BY <2>2, <5>1 DEF Decided, Deciding
      <4>2. UNCHANGED <<approved, claimed, Served>>
        BY <2>1, <3>2 DEF RecordCollisions
      <4>3. CASE MayRecord(ProjectOf(u)) /\ found[u] # {}
        <5>1. Pending' = Pending \cup {ProjectOf(u)}
          BY <2>0, <3>0, <3>2, <4>3 DEF RecordCollisions, TypeOK
        <5>2. Promise!Collide(ProjectOf(u))
          BY <4>1, <4>2, <4>3, <5>1 DEF MayRecord, Promise!Collide, Decided
        <5> QED
          BY <3>0, <5>2 DEF Promise!Next, Promise!Collide
      <4>4. CASE ~(MayRecord(ProjectOf(u)) /\ found[u] # {})
        <5>1. Pending' = Pending
          BY <2>0, <3>0, <3>2, <4>4 DEF RecordCollisions, MayRecord, TypeOK
        <5> QED
          BY <4>1, <4>2, <5>1 DEF Promise!vars, Decided
      <4> QED
        BY <4>3, <4>4
    <3>3. CASE pc[u] = "commit" /\ CommitTransaction(u) /\ CloseTransaction(u)
      <4>1. Decided' \in {Decided, Decided \ {b}}
        BY <1>2, <2>2, <2>5, <3>3, DecidedMoves DEF Insert
      <4>2. UNCHANGED <<Pending, approved>>
        BY <3>3 DEF CommitTransaction
      <4>3. CASE u \in inserted
        <5>1. artifacts' = artifacts \cup {NewRow(u)} /\ claimed' = claimed \cup {ProjectOf(u)}
          BY <1>2, <3>3, <4>3, Committed
        <5>2. Bytes(NewRow(u)) = b
          BY <2>0 DEF NewRow, TypeOK
        <5>3. Served' = Served \cup {b}
          BY <2>1, <5>1, <5>2
        <5>4. \A p \in Served : p.file # b.file
          BY <2>0, <2>1, <4>3 DEF Transactions, InsertedRow
        <5>5. b \in Decided
          BY <4>3 DEF Decided, Deciding
        <5>6. Promise!Publish(b)
          BY <3>0, <4>1, <4>2, <5>1, <5>3, <5>4, <5>5 DEF Promise!Publish, Decided
        <5> QED
          BY <3>0, <5>6 DEF Promise!Next, Promise!Publish
      <4>4. CASE u \notin inserted
        <5>1. UNCHANGED <<artifacts, claimed>>
          BY <1>2, <3>3, <4>4, Committed
        <5>2. Served' = Served
          BY <2>1, <5>1
        <5>3. CASE Decided' = Decided
          BY <4>2, <5>1, <5>2, <5>3 DEF Promise!vars, Decided
        <5>4. CASE Decided' = Decided \ {b}
          <6>1. Promise!Withdraw(b)
            BY <4>2, <5>1, <5>2, <5>4 DEF Promise!Withdraw, Decided
          <6> QED
            BY <3>0, <6>1 DEF Promise!Next, Promise!Withdraw
        <5> QED
          BY <4>1, <5>3, <5>4
      <4> QED
        BY <4>3, <4>4
    <3> QED
      BY <2>0, <2>5, <3>1, <3>2, <3>3, UploadEffects
  <2> QED
    BY <1>2, <2>3, <2>4, <2>5 DEF Next, UploadStep
<1> QED
  BY <1>1, <1>2, Invariance, PTL DEF Spec, ImplementsLateIndex, Promise!Spec

-----------------------------------------------------------------------------
(* What a late collision lacks (CollisionNeedsApproval) takes a publisher   *)
(* whose INSERT was allowed before the collision was recorded.  A name is   *)
(* blocked once there is none: its collision is neither acknowledged nor    *)
(* claimed, and no upload of it is past the condition of its INSERT.        *)
Blocked(n) == Shadowing(n) /\ \A u \in Deciding : ProjectOf(u) # n

(* A step keeps the name blocked, unless it is the approval.                *)
Blocks(n) == Blocked(n) => Blocked(n)' \/ n \in approved'

BlockedUntilApproval == [][\A n \in Name : Blocks(n)]_vars

(* A commit claims only names that a decided upload is of.                  *)
LEMMA ClaimMoves ==
    ASSUME IInv, [Next]_vars, NEW n \in Name, Blocked(n)
    PROVE  n \notin claimed'
<1>1. n \notin claimed /\ \A u \in inserted : ProjectOf(u) # n
  BY DEF Blocked, Shadowing, Deciding, IInv, TypeOK
<1>2. ASSUME NEW u \in Upload, pc[u] = "commit", CommitTransaction(u) PROVE n \notin claimed'
  BY <1>1, <1>2, Committed
<1>3. ASSUME NEW u \in Upload, RecordCollisions(u) PROVE claimed' = claimed
  BY <1>3 DEF RecordCollisions
<1> QED
  BY <1>1, <1>2, <1>3, Effects, ApproveFrame DEF catalog, projects

(* Every step keeps blocked names blocked until an approval.                *)
LEMMA BlocksStep ==
    ASSUME IInv, [Next]_vars, NEW n \in Name
    PROVE  Blocks(n)
<1> SUFFICES ASSUME Blocked(n), n \notin approved' PROVE Blocked(n)'
    BY DEF Blocks
<1>1. request' = request /\ collisions'[n] # {} /\ n \notin claimed'
  BY Monotone, ClaimMoves DEF IInv, Blocked, Shadowing
<1>2. ~MayPublish(n)
  BY DEF Blocked, Shadowing, MayPublish
<1>3. \A u \in Upload : u \in Deciding' => u \in Deciding \/ ProjectOf(u) # n
  <2>1. CASE UNCHANGED vars
    BY <2>1 DEF vars, transaction, Deciding
  <2>2. ASSUME NEW m \in Name, Approve(m) PROVE UNCHANGED <<pc, inserted>>
    BY <2>2 DEF Approve, transaction
  <2>3. ASSUME NEW v \in Upload, UploadStep(v), NEW u \in Upload, u \in Deciding'
        PROVE  u \in Deciding \/ ProjectOf(u) # n
    BY <1>2, <2>3, DecidingMoves
  <2> QED
    BY <2>1, <2>2, <2>3 DEF Next, UploadStep, Deciding
<1>4. \A u \in Deciding' : u \in Upload /\ (ProjectOf(u) # n)'
  BY <1>1, <1>3 DEF Deciding, Blocked, ProjectOf
<1> QED
  BY <1>1, <1>4 DEF Blocked, Shadowing

(* Once the uploads under way have ended, a recorded collision keeps the    *)
(* name from being owned until an administrator approves it, whoever        *)
(* publishes, records or crashes: only they can own it silently.            *)
THEOREM CollisionBlocks == Spec => BlockedUntilApproval
<1>1. IInv /\ [Next]_vars => \A n \in Name : Blocks(n)
  BY BlocksStep
<1>2. Spec => [][\A n \in Name : Blocks(n)]_vars
  BY <1>1, Invariance, PTL DEF Spec
<1> QED
  BY <1>2 DEF BlockedUntilApproval
=============================================================================
