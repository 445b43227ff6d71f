----------------------- MODULE PrivatePackagesProofs ------------------------
(***************************************************************************)
(* Theorems about PrivatePackages.  Everything rests on IInv: its parts    *)
(* ProjectRows, ArtifactRows and RequestKnows say what the tables and each *)
(* request's locals have in common, which the safety properties alone do   *)
(* not.  One lemma per part shows that every step preserves it.            *)
(***************************************************************************)
EXTENDS PrivatePackages, TLAPS

-----------------------------------------------------------------------------
(* Every step of an upload or of an approval keeps every variable's type.   *)
LEMMA TypeStep == TypeOK /\ [Next]_vars => TypeOK'
<1> SUFFICES ASSUME TypeOK, [Next]_vars PROVE TypeOK'
    OBVIOUS
<1> USE FileNameAssumption DEF FileNameAssumption, TypeOK, Running, Ended, Outcome, ArtifactRow, UploadEvent, ApprovalEvent,
      projects, bucket, locals, admins, audit, Goto, Fault, EndWith, Answer, ProjectOf
<1>1. ASSUME NEW u \in Upload, Refuse(u) \/ Begin(u) \/ BeginLost(u) PROVE TypeOK'
  BY <1>1 DEF Refuse, Begin, BeginLost
<1>2. ASSUME NEW u \in Upload, Receive(u) \/ ReceiveFails(u) \/ ReceiveLost(u) PROVE TypeOK'
  BY <1>2 DEF Receive, ReceiveFails, ReceiveLost
<1>3. ASSUME NEW u \in Upload, Validate(u) PROVE TypeOK'
  BY <1>3 DEF Validate
<1>4. ASSUME NEW u \in Upload, ReadProject(u) PROVE TypeOK'
  BY <1>4 DEF ReadProject
<1>5. ASSUME NEW u \in Upload, NEW hits \in SUBSET Index, LookUp(u, hits) PROVE TypeOK'
  BY <1>5 DEF LookUp
<1>6. ASSUME NEW u \in Upload, Record(u) \/ RecordLost(u) PROVE TypeOK'
  <2>1. ProjectOf(u) \in Name
    OBVIOUS
  <2>2. recorded' \in SUBSET Name /\ collisions' \in [Name -> SUBSET Index]
    BY <1>6, <2>1 DEF Record, RecordLost, RecordCollisions
  <2>3. UNCHANGED <<approved, claimed>>
    BY <1>6 DEF Record, RecordLost, RecordCollisions
  <2>4. QED
    BY <1>6, <2>2, <2>3 DEF Record, RecordLost
<1>7. ASSUME NEW u \in Upload, Recheck(u) \/ Fail(u) PROVE TypeOK'
  BY <1>7 DEF Recheck, Fail
<1>8. ASSUME NEW u \in Upload, Commit(u) PROVE TypeOK'
  BY <1>8 DEF Commit, PublishBatch, InsertRow, NewRow, UploadedEvent
<1>9. ASSUME NEW u \in Upload, CommitLost(u) PROVE TypeOK'
  BY <1>9 DEF CommitLost, PublishBatch, InsertRow, NewRow, UploadedEvent
<1>10. ASSUME NEW u \in Upload, Reread(u) \/ RereadLost(u) PROVE TypeOK'
  BY <1>10 DEF Reread, RereadLost
<1>11. ASSUME NEW u \in Upload, Cleanup(u) \/ CleanupLost(u) \/ Crash(u) PROVE TypeOK'
  BY <1>11 DEF Cleanup, CleanupLost, Crash
<1>12. ASSUME NEW a \in Admin, AdminStep(a) PROVE TypeOK'
  <2>1. CASE ApproveRead(a)
    BY <2>1 DEF ApproveRead
  <2>2. CASE ApproveBatch(a)
    BY <2>2 DEF ApproveBatch, ApprovedEvent
  <2>3. CASE ApproveLost(a)
    BY <2>3 DEF ApproveLost
  <2>4. QED
    BY <1>12, <2>1, <2>2, <2>3 DEF AdminStep
<1>13. CASE UNCHANGED vars
  BY <1>13 DEF vars
<1>14. QED
  BY <1>1, <1>2, <1>3, <1>4, <1>5, <1>6, <1>7, <1>8, <1>9, <1>10, <1>11, <1>12, <1>13
  DEF Next, UploadStep


(* A step by one upload request leaves the others' state alone. *)
LEMMA Frame ==
    ASSUME TypeOK, NEW u \in Upload, UploadStep(u), NEW v \in Upload, v # u
    PROVE  /\ pc'[v] = pc[v] /\ found'[v] = found[v] /\ outcome'[v] = outcome[v]
           /\ v \in objects' <=> v \in objects
           /\ v \in multipart' <=> v \in multipart
           /\ v \in completed' <=> v \in completed
           /\ v \in commit_attempted' <=> v \in commit_attempted
           /\ v \in discard' <=> v \in discard
           /\ v \in faulted' <=> v \in faulted
<1> USE DEF TypeOK, bucket, locals, Goto, Fault, EndWith, Answer
<1>1. CASE Refuse(u) \/ Begin(u) \/ BeginLost(u) \/ Receive(u) \/ ReceiveFails(u) \/ ReceiveLost(u)
  BY <1>1 DEF Refuse, Begin, BeginLost, Receive, ReceiveFails, ReceiveLost
<1>2. CASE Validate(u) \/ ReadProject(u) \/ (\E hits \in SUBSET Index : LookUp(u, hits))
  BY <1>2 DEF Validate, ReadProject, LookUp
<1>3. CASE Record(u) \/ RecordLost(u) \/ Recheck(u) \/ Fail(u)
  BY <1>3 DEF Record, RecordLost, Recheck, Fail
<1>4. CASE Commit(u) \/ CommitLost(u) \/ Reread(u) \/ RereadLost(u)
  BY <1>4 DEF Commit, CommitLost, Reread, RereadLost
<1>5. CASE Cleanup(u) \/ CleanupLost(u) \/ Crash(u)
  BY <1>5 DEF Cleanup, CleanupLost, Crash
<1>6. QED
  BY <1>1, <1>2, <1>3, <1>4, <1>5 DEF UploadStep

(* An approval step leaves every upload request alone. *)
LEMMA AdminFrame ==
    ASSUME NEW a \in Admin, AdminStep(a)
    PROVE  UNCHANGED <<request, pc, locals, outcome, bucket, faulted, artifacts, recorded,
                       collisions, claimed, uploadAudit>>
BY DEF AdminStep, ApproveRead, ApproveBatch, ApproveLost, projects, audit

(* The four ways a step may change D1. *)
LEMMA Effects ==
    ASSUME [Next]_vars
    PROVE  /\ request' = request
           /\ \/ UNCHANGED <<projects, artifacts, audit>>
              \/ \E u \in Upload :
                    pc[u] = "record" /\ RecordCollisions(u) /\ UNCHANGED <<artifacts, audit>>
              \/ \E u \in Upload :
                    (Commit(u) \/ CommitLost(u)) /\ pc[u] = "commit" /\ PublishBatch(u)
              \/ \E a \in Admin : ApproveBatch(a)
<1>1. ASSUME NEW u \in Upload,
             Refuse(u) \/ Begin(u) \/ BeginLost(u) \/ Receive(u) \/ ReceiveFails(u)
             \/ ReceiveLost(u) \/ Validate(u) \/ ReadProject(u)
             \/ (\E hits \in SUBSET Index : LookUp(u, hits))
      PROVE UNCHANGED <<request, projects, artifacts, audit>>
  BY <1>1 DEF Refuse, Begin, BeginLost, Receive, ReceiveFails, ReceiveLost, Validate,
              ReadProject, LookUp
<1>2. ASSUME NEW u \in Upload,
             Recheck(u) \/ Fail(u) \/ Reread(u) \/ RereadLost(u) \/ Cleanup(u)
             \/ CleanupLost(u) \/ Crash(u)
      PROVE UNCHANGED <<request, projects, artifacts, audit>>
  BY <1>2 DEF Recheck, Fail, Reread, RereadLost, Cleanup, CleanupLost, Crash
<1>3. ASSUME NEW u \in Upload, Record(u) \/ RecordLost(u)
      PROVE request' = request /\ pc[u] = "record" /\ RecordCollisions(u)
            /\ UNCHANGED <<artifacts, audit>>
  BY <1>3 DEF Record, RecordLost
<1>4. ASSUME NEW u \in Upload, Commit(u) \/ CommitLost(u)
      PROVE /\ request' = request
            /\ (pc[u] = "commit" /\ PublishBatch(u)) \/ UNCHANGED <<projects, artifacts, audit>>
  BY <1>4 DEF Commit, CommitLost
<1>5. ASSUME NEW a \in Admin, AdminStep(a)
      PROVE request' = request /\ (ApproveBatch(a) \/ UNCHANGED <<projects, artifacts, audit>>)
  BY <1>5 DEF AdminStep, ApproveRead, ApproveBatch, ApproveLost
<1>6. CASE UNCHANGED vars
  BY <1>6 DEF vars
<1>7. QED
  BY <1>1, <1>2, <1>3, <1>4, <1>5, <1>6 DEF Next, UploadStep

(* Nothing recorded in D1 is ever taken back. *)
LEMMA Monotone ==
    ASSUME TypeOK, [Next]_vars
    PROVE  /\ recorded \subseteq recorded' /\ claimed \subseteq claimed'
           /\ approved \subseteq approved' /\ artifacts \subseteq artifacts'
           /\ \A n \in Name : collisions[n] # {} => collisions'[n] = collisions[n]
<1>1. CASE UNCHANGED <<projects, artifacts, audit>>
  BY <1>1 DEF projects
<1>2. CASE \E u \in Upload : pc[u] = "record" /\ RecordCollisions(u) /\ UNCHANGED <<artifacts, audit>>
  <2> PICK u \in Upload : RecordCollisions(u) /\ UNCHANGED <<artifacts, audit>>
    BY <1>2
  <2> QED
    BY FileNameAssumption DEF FileNameAssumption, TypeOK, RecordCollisions, MayRecord, ProjectOf
<1>3. CASE \E u \in Upload : pc[u] = "commit" /\ PublishBatch(u)
  BY <1>3 DEF PublishBatch, InsertRow
<1>4. CASE \E a \in Admin : ApproveBatch(a)
  BY <1>4 DEF ApproveBatch
<1>5. QED
  BY <1>1, <1>2, <1>3, <1>4, Effects

(* What the publishing batch does, given that its request may publish. *)
LEMMA PublishEffect ==
    ASSUME TypeOK, ArtifactRows, NEW u \in Upload, pc[u] = "commit", PublishBatch(u)
    PROVE  \/ /\ UNCHANGED <<artifacts, uploadAudit, projects, approvalAudit>>
              /\ ~MayPublish(ProjectOf(u)) \/ \E r \in artifacts : r.file = request[u].file
           \/ /\ MayPublish(ProjectOf(u))
              /\ \A r \in artifacts : r.file # request[u].file
              /\ artifacts' = artifacts \cup {NewRow(u)}
              /\ claimed' = claimed \cup {ProjectOf(u)}
              /\ uploadAudit' = uploadAudit \cup {UploadedEvent(u)}
              /\ UNCHANGED <<recorded, collisions, approved, approvalAudit>>
<1>1. \A r \in artifacts : r.key # u /\ FileName[r.file] \in claimed
  BY DEF ArtifactRows, BeforeCommit
<1>2. CASE MayPublish(ProjectOf(u)) /\ \A r \in artifacts : r.file # request[u].file
  <2>1. artifacts' = artifacts \cup {NewRow(u)}
    BY <1>2 DEF PublishBatch, InsertRow, NewRow
  <2>2. NewRow(u) \in artifacts' /\ NewRow(u).key = u /\ FileName[NewRow(u).file] = ProjectOf(u)
    BY <2>1 DEF NewRow, ProjectOf
  <2>3. HasFile(artifacts', ProjectOf(u)) /\ Stored(artifacts', u)
    BY <2>2 DEF HasFile, Stored
  <2>4. QED
    BY <1>2, <2>1, <2>3 DEF PublishBatch, MayPublish
<1>3. CASE ~(MayPublish(ProjectOf(u)) /\ \A r \in artifacts : r.file # request[u].file)
  <2>1. artifacts' = artifacts
    BY <1>3 DEF PublishBatch, InsertRow, NewRow
  <2>2. ~Stored(artifacts', u)
    BY <1>1, <2>1 DEF Stored
  <2>3. HasFile(artifacts', ProjectOf(u)) => ProjectOf(u) \in claimed
    BY <1>1, <2>1 DEF HasFile
  <2>4. QED
    BY <1>3, <2>1, <2>2, <2>3 DEF PublishBatch, projects
<1>4. QED
  BY <1>2, <1>3

(* A step keeps private_projects: what is owned or approved has a row, what  *)
(* is approved has collisions, and no collision is shadowed unapproved.      *)
LEMMA ProjectRowsStep ==
    ASSUME IInv, [Next]_vars PROVE ProjectRows'
<1> USE FileNameAssumption, PublicNameAssumption
    DEF FileNameAssumption, PublicNameAssumption, ProjectRows, CollisionNeedsApproval
<1>0. TypeOK /\ TypeOK' /\ ProjectRows /\ ArtifactRows /\ RequestKnows /\ ApproverKnows
  BY TypeStep DEF IInv
<1>1. CASE UNCHANGED <<projects, artifacts, audit>>
  BY <1>0, <1>1 DEF projects
<1>2. CASE \E u \in Upload : pc[u] = "record" /\ RecordCollisions(u) /\ UNCHANGED <<artifacts, audit>>
  <2> PICK u \in Upload : pc[u] = "record" /\ RecordCollisions(u)
    BY <1>2
  <2>1. ProjectOf(u) \in Name /\ (ProjectOf(u) \in PublicName => found[u] # {})
    BY <1>0 DEF TypeOK, RequestKnows, Knows, ProjectOf
  <2>2. CASE MayRecord(ProjectOf(u))
    BY <1>0, <2>1, <2>2 DEF TypeOK, RecordCollisions, MayRecord
  <2>3. CASE ~MayRecord(ProjectOf(u))
    BY <1>0, <2>1, <2>3 DEF TypeOK, RecordCollisions, MayRecord
  <2>4. QED
    BY <2>2, <2>3
<1>3. CASE \E u \in Upload : pc[u] = "commit" /\ PublishBatch(u)
  <2> PICK u \in Upload : pc[u] = "commit" /\ PublishBatch(u)
    BY <1>3
  <2>1. ProjectOf(u) \in recorded
    BY <1>0 DEF RequestKnows, Knows
  <2>2. /\ UNCHANGED <<recorded, collisions, approved>>
        /\ \/ claimed' = claimed
           \/ claimed' = claimed \cup {ProjectOf(u)} /\ MayPublish(ProjectOf(u))
    BY <1>0, PublishEffect DEF projects
  <2>3. QED
    BY <1>0, <2>1, <2>2 DEF TypeOK, MayPublish
<1>4. CASE \E a \in Admin : ApproveBatch(a)
  BY <1>0, <1>4 DEF TypeOK, ApproverKnows, ApproveBatch, MayApprove
<1>5. QED
  BY <1>1, <1>2, <1>3, <1>4, Effects

(* The request whose object a row names has only the end of `upload` before
   it, and keeps that object. *)
LEMMA RowKept ==
    ASSUME IInv, [Next]_vars, NEW r \in artifacts
    PROVE  /\ r.key \in objects'
           /\ pc'[r.key] \notin BeforeCommit
           /\ pc'[r.key] = "cleanup" => ~Discards(r.key)'
<1>0. TypeOK /\ ArtifactRows /\ Knows(r.key) /\ r.key \in Upload
  <2>1. TypeOK /\ ArtifactRows /\ RequestKnows
    BY DEF IInv
  <2>2. r.key \in Upload
    BY <2>1 DEF TypeOK, ArtifactRow
  <2>3. QED
    BY <2>1, <2>2 DEF RequestKnows
<1>1. r = NewRow(r.key) /\ r.key \in objects /\ pc[r.key] \notin BeforeCommit
      /\ (pc[r.key] = "cleanup" => ~Discards(r.key))
  BY <1>0 DEF ArtifactRows
<1>2. CASE \E u \in Upload : UploadStep(u) /\ u # r.key
  BY <1>0, <1>1, <1>2, Frame DEF Discards
<1>3. CASE UploadStep(r.key)
  <2> DEFINE u == r.key
  <2>1. CASE Reread(u)
    <3>1. \A q \in artifacts : q.file = request[u].file => q = r
      BY <1>0, <1>1 DEF ArtifactRows, NewRow
    <3>2. r.file = request[u].file
      BY <1>1 DEF NewRow
    <3>3. u \notin discard'
      BY <1>0, <2>1, <3>1, <3>2 DEF Reread, TypeOK
    <3>4. pc' = [pc EXCEPT ![u] = "cleanup"] /\ objects' = objects
      BY <2>1 DEF Reread, Answer, Goto, bucket
    <3>5. QED
      BY <1>0, <1>1, <3>3, <3>4 DEF TypeOK, Discards, BeforeCommit
  <2>2. CASE RereadLost(u)
    BY <1>0, <1>1, <2>2
    DEF RereadLost, Knows, TypeOK, Discards, BeforeCommit, Answer, Goto, bucket, locals
  <2>3. CASE Cleanup(u) \/ CleanupLost(u)
    BY <1>0, <1>1, <2>3
    DEF Cleanup, CleanupLost, TypeOK, BeforeCommit, EndWith, Goto, bucket, locals
  <2>4. CASE Crash(u)
    BY <1>0, <1>1, <2>4 DEF Crash, TypeOK, BeforeCommit, Goto, bucket
  <2>5. QED
    BY <1>1, <1>3, <2>1, <2>2, <2>3, <2>4
    DEF UploadStep, BeforeCommit, Refuse, Begin, BeginLost, Receive, ReceiveFails, ReceiveLost,
        Validate, ReadProject, LookUp, Record, RecordLost, Recheck, Fail, Commit, CommitLost
<1>4. CASE \E a \in Admin : AdminStep(a)
  BY <1>1, <1>4, AdminFrame DEF Discards, bucket, locals
<1>5. CASE UNCHANGED vars
  BY <1>1, <1>5 DEF vars, Discards, bucket, locals
<1>6. QED
  BY <1>2, <1>3, <1>4, <1>5 DEF Next

(* A step keeps private_artifacts: one row per file name, each with the      *)
(* object its request wrote, which that request will not discard.            *)
LEMMA ArtifactRowsStep ==
    ASSUME IInv, [Next]_vars PROVE ArtifactRows'
<1>0. TypeOK /\ ProjectRows /\ ArtifactRows /\ RequestKnows /\ request' = request
  BY Effects DEF IInv
<1> DEFINE RowOK(r) == /\ r = NewRow(r.key)
                       /\ r.key \in objects
                       /\ FileName[r.file] \in claimed
                       /\ pc[r.key] \notin BeforeCommit
                       /\ pc[r.key] = "cleanup" => ~Discards(r.key)
<1>1. ASSUME NEW r \in artifacts PROVE RowOK(r)'
  BY <1>0, Monotone, RowKept DEF ArtifactRows, NewRow
<1>2. CASE artifacts' = artifacts
  BY <1>0, <1>1, <1>2 DEF ArtifactRows
<1>3. CASE artifacts' # artifacts
  <2>1. PICK u \in Upload : (Commit(u) \/ CommitLost(u)) /\ pc[u] = "commit" /\ PublishBatch(u)
    BY <1>3, Effects DEF ApproveBatch
  <2>2. /\ \A r \in artifacts : r.file # request[u].file
        /\ artifacts' = artifacts \cup {NewRow(u)}
        /\ claimed' = claimed \cup {ProjectOf(u)}
    BY <1>0, <1>3, <2>1, PublishEffect
  <2>3. RowOK(NewRow(u))'
    <3>1. objects' = objects /\ u \in objects /\ pc'[u] \in {"reread", "cleanup"}
          /\ u \in commit_attempted'
      BY <1>0, <2>1 DEF Commit, CommitLost, RequestKnows, Knows, Holding, TypeOK, Goto, Answer,
                        bucket
    <3>2. QED
      BY <1>0, <2>2, <3>1 DEF NewRow, ProjectOf, Discards, BeforeCommit
  <2>4. QED
    BY <1>0, <1>1, <2>2, <2>3 DEF ArtifactRows, NewRow
<1>4. QED
  BY <1>2, <1>3

(* What a request knows survives the steps of others. *)
LEMMA KnowsKept ==
    ASSUME IInv, [Next]_vars, NEW v \in Upload,
           UNCHANGED <<pc[v], found[v]>>,
           v \in objects' <=> v \in objects, v \in multipart' <=> v \in multipart,
           v \in completed' <=> v \in completed,
           v \in commit_attempted' <=> v \in commit_attempted,
           v \in discard' <=> v \in discard, v \in faulted' <=> v \in faulted
    PROVE  Knows(v)'
<1>1. Knows(v) /\ TypeOK /\ request' = request
  BY Effects DEF IInv, RequestKnows
<1>2. ProjectOf(v) \in Name
  BY <1>1, FileNameAssumption DEF FileNameAssumption, TypeOK, ProjectOf
<1>3. QED
  BY <1>1, <1>2, Monotone DEF Knows, ProjectOf, Stored

(* After the batch the file name is bound, or a collision explains why not. *)
LEMMA CommitTells ==
    ASSUME IInv, NEW u \in Upload, Commit(u)
    PROVE  \/ \E r \in artifacts' : r.file = request[u].file
           \/ collisions'[ProjectOf(u)] # {}
<1>1. TypeOK /\ ArtifactRows /\ Knows(u) /\ pc[u] = "commit" /\ PublishBatch(u)
  BY DEF IInv, RequestKnows, Commit
<1>2. CASE MayPublish(ProjectOf(u)) /\ \A r \in artifacts : r.file # request[u].file
  <2>1. artifacts' = artifacts \cup {NewRow(u)}
    BY <1>1, <1>2, PublishEffect
  <2>2. NewRow(u).file = request[u].file
    BY DEF NewRow
  <2>3. QED
    BY <2>1, <2>2
<1>3. CASE \E r \in artifacts : r.file = request[u].file
  BY <1>1, <1>3 DEF PublishBatch, InsertRow, NewRow
<1>4. CASE ~MayPublish(ProjectOf(u))
  <2>1. ProjectOf(u) \in recorded
    BY <1>1 DEF Knows
  <2>2. collisions[ProjectOf(u)] # {} /\ collisions' = collisions
    BY <1>1, <1>4, <2>1 DEF MayPublish, PublishBatch
  <2>3. QED
    BY <2>2
<1>5. QED
  BY <1>2, <1>3, <1>4

(* A step keeps what every upload's locals say of the tables and the bucket. *)
LEMMA RequestKnowsStep ==
    ASSUME IInv, [Next]_vars PROVE RequestKnows'
<1>0. TypeOK /\ ProjectRows /\ ArtifactRows /\ RequestKnows /\ request' = request
  BY Effects DEF IInv
<1>1. ASSUME NEW u \in Upload, UploadStep(u) PROVE Knows(u)'
  <2>0. Knows(u) /\ ProjectOf(u) \in Name /\ ProjectOf(u)' = ProjectOf(u)
    BY <1>0, FileNameAssumption DEF FileNameAssumption, TypeOK, ProjectOf, RequestKnows
  <2> USE <1>0, <2>0 DEF TypeOK, Knows, BeforeCommit, Holding, bucket, locals, projects, Goto, EndWith, Answer, Fault
  <2>1. CASE Refuse(u)
    BY <2>1 DEF Refuse
  <2>2. CASE Begin(u)
    BY <2>2 DEF Begin
  <2>3. CASE BeginLost(u)
    BY <2>3 DEF BeginLost
  <2>4. CASE Receive(u)
    BY <2>4 DEF Receive
  <2>5. CASE ReceiveFails(u)
    BY <2>5 DEF ReceiveFails
  <2>6. CASE ReceiveLost(u)
    BY <2>6 DEF ReceiveLost
  <2>7. CASE Validate(u)
    BY <2>7 DEF Validate
  <2>8. CASE ReadProject(u)
    BY <2>8 DEF ReadProject, ProjectRows
  <2>9. CASE \E hits \in SUBSET Index : LookUp(u, hits)
    BY <2>9 DEF LookUp
  <2>10. CASE Record(u)
    BY <2>10 DEF Record, RecordCollisions
  <2>11. CASE RecordLost(u)
    BY <2>11 DEF RecordLost, RecordCollisions
  <2>12. CASE Recheck(u)
    BY <2>12 DEF Recheck
  <2>13. CASE Fail(u)
    BY <2>13 DEF Fail
  <2>14. CASE Commit(u)
    <3>1. \/ \E r \in artifacts' : r.file = request[u].file
          \/ collisions'[ProjectOf(u)] # {}
      BY <2>14, CommitTells
    <3>2. ProjectOf(u) \in recorded'
      BY <2>14 DEF Commit, PublishBatch
    <3>3. QED
      BY <2>14, <3>1, <3>2 DEF Commit
  <2>15. CASE CommitLost(u)
    BY <2>15 DEF CommitLost
  <2>16. CASE Reread(u)
    BY <2>16 DEF Reread, Stored
  <2>17. CASE RereadLost(u)
    BY <2>17 DEF RereadLost
  <2>18. CASE Cleanup(u)
    BY <2>18 DEF Cleanup
  <2>19. CASE CleanupLost(u)
    BY <2>19 DEF CleanupLost
  <2>20. CASE Crash(u)
    BY <2>20 DEF Crash
  <2>21. QED
    BY <1>1, <2>1, <2>2, <2>3, <2>4, <2>5, <2>6, <2>7, <2>8, <2>9, <2>10, <2>11, <2>12, <2>13, <2>14, <2>15, <2>16, <2>17, <2>18, <2>19, <2>20 DEF UploadStep
<1>2. ASSUME NEW u \in Upload, UploadStep(u), NEW v \in Upload, v # u PROVE Knows(v)'
  BY <1>0, <1>2, Frame, KnowsKept
<1>3. ASSUME NEW v \in Upload, UNCHANGED vars \/ \E a \in Admin : AdminStep(a) PROVE Knows(v)'
  <2>1. UNCHANGED <<pc, locals, bucket, faulted>>
    BY <1>3, AdminFrame DEF vars
  <2>2. QED
    BY <2>1, KnowsKept DEF locals, bucket
<1>4. QED
  BY <1>1, <1>2, <1>3 DEF Next, RequestKnows

(* A step keeps what an approval read: recorded collisions never change.     *)
LEMMA ApproverKnowsStep ==
    ASSUME IInv, [Next]_vars PROVE ApproverKnows'
<1>0. TypeOK /\ ApproverKnows
  BY DEF IInv
<1>1. ASSUME NEW a \in Admin, AdminStep(a) PROVE ApproverKnows'
  <2>1. collisions' = collisions
    BY <1>1, AdminFrame
  <2>2. CASE ApproveRead(a)
    BY <1>0, <2>1, <2>2 DEF TypeOK, ApproverKnows, ApproveRead
  <2>3. CASE ApproveBatch(a) \/ ApproveLost(a)
    BY <1>0, <2>1, <2>3 DEF TypeOK, ApproverKnows, ApproveBatch, ApproveLost
  <2>4. QED
    BY <1>1, <2>2, <2>3 DEF AdminStep
<1>2. CASE UNCHANGED admins
  BY <1>0, <1>2, Monotone DEF TypeOK, ApproverKnows, admins
<1>3. CASE UNCHANGED vars \/ \E u \in Upload : UploadStep(u)
  BY <1>2, <1>3
  DEF vars, UploadStep, Refuse, Begin, BeginLost, Receive, ReceiveFails, ReceiveLost, Validate, ReadProject, LookUp, Record,
      RecordLost, Recheck, Fail, Commit, CommitLost, Reread, RereadLost, Cleanup, CleanupLost, Crash
<1>4. QED
  BY <1>1, <1>3 DEF Next

(* A step keeps OrphansOnlyAfterFault: `finally` discards what no row names.  *)
LEMMA OrphansStep ==
    ASSUME IInv, [Next]_vars PROVE OrphansOnlyAfterFault'
<1>0. TypeOK /\ OrphansOnlyAfterFault /\ RequestKnows /\ artifacts \subseteq artifacts'
  BY Monotone DEF IInv
<1>1. ASSUME NEW u \in Upload, UploadStep(u), pc'[u] \in Ended, u \notin faulted'
      PROVE u \notin multipart' /\ (u \in objects' => Stored(artifacts, u)')
  <2>0. Knows(u)
    BY <1>0 DEF RequestKnows
  <2>1. CASE Refuse(u) \/ ReceiveFails(u)
    BY <1>0, <2>0, <2>1 DEF Refuse, ReceiveFails, Knows, TypeOK, bucket
  <2>2. CASE Cleanup(u)
    BY <1>0, <1>1, <2>0, <2>2 DEF Cleanup, Knows, Holding, TypeOK, Discards, Stored, locals
  <2>3. CASE BeginLost(u) \/ ReceiveLost(u) \/ CleanupLost(u) \/ Crash(u)
    BY <1>1, <2>3 DEF BeginLost, ReceiveLost, CleanupLost, Crash, Fault
  <2>4. CASE pc'[u] \notin Ended
    BY <1>1, <2>4
  <2>5. QED
    BY <1>0, <1>1, <2>1, <2>2, <2>3, <2>4
    DEF TypeOK, Ended, UploadStep, Goto, Answer, Begin, Receive, Validate, ReadProject, LookUp, Record, RecordLost, Recheck, Fail, Commit, CommitLost, Reread, RereadLost
<1>2. ASSUME NEW v \in Upload, pc'[v] \in Ended, v \notin faulted',
             ~UploadStep(v)
      PROVE v \notin multipart' /\ (v \in objects' => Stored(artifacts, v)')
  <2>1. /\ pc'[v] = pc[v]
        /\ v \in objects' <=> v \in objects
        /\ v \in multipart' <=> v \in multipart
        /\ v \in faulted' <=> v \in faulted
    <3>1. CASE \E u \in Upload : UploadStep(u)
      BY <1>0, <1>2, <3>1, Frame
    <3>2. CASE UNCHANGED vars \/ \E a \in Admin : AdminStep(a)
      BY <3>2, AdminFrame DEF vars, bucket
    <3>3. QED
      BY <3>1, <3>2 DEF Next
  <2>2. QED
    BY <1>0, <1>2, <2>1 DEF OrphansOnlyAfterFault, Stored
<1>3. QED
  BY <1>1, <1>2 DEF OrphansOnlyAfterFault

(* A step keeps every answer already given true.                             *)
LEMMA OutcomeStep ==
    ASSUME IInv, [Next]_vars PROVE AcknowledgedIsPublished' /\ CollisionAnswerApprovable'
<1> DEFINE Same(u) == {r \in artifacts : r.file = request[u].file}
           Ok(u) == /\ outcome[u] \in {"published", "conflict"} =>
                         \E r \in artifacts :
                            /\ r.file = request[u].file
                            /\ (outcome[u] = "published") <=> (r.sha256 = request[u].sha256)
                    /\ outcome[u] = "collision" => collisions[ProjectOf(u)] # {}
<1>0. TypeOK /\ ProjectRows /\ RequestKnows /\ (\A u \in Upload : Ok(u)) /\ request' = request
  <2>1. AcknowledgedIsPublished /\ CollisionAnswerApprovable
    BY DEF IInv
  <2>2. ASSUME NEW u \in Upload PROVE Ok(u)
    <3>1. outcome[u] = "collision" => collisions[ProjectOf(u)] # {}
      BY <2>1 DEF CollisionAnswerApprovable
    <3>2. QED
      BY <2>1, <3>1 DEF AcknowledgedIsPublished
  <2>3. QED
    BY <2>2, Effects DEF IInv
<1>1. \A u \in Upload : ProjectOf(u) \in Name /\ ProjectOf(u)' = ProjectOf(u)
  BY <1>0, FileNameAssumption DEF FileNameAssumption, TypeOK, ProjectOf
<1>2. ASSUME NEW u \in Upload, outcome'[u] = outcome[u] PROVE Ok(u)'
  BY <1>0, <1>1, <1>2, Monotone
<1>3. ASSUME NEW u \in Upload, outcome'[u] \in {"none", "refused", "retry", "failed"} PROVE Ok(u)'
  BY <1>3
<1>4. ASSUME NEW u \in Upload, UploadStep(u) PROVE Ok(u)'
  <2>1. CASE Reread(u)
    <3>1. pc[u] = "reread" /\ outcome' = [outcome EXCEPT ![u] = outcome'[u]]
          /\ UNCHANGED <<artifacts, collisions>>
      BY <1>0, <2>1 DEF Reread, Answer, TypeOK, projects
    <3>2. CASE outcome'[u] = "collision"
      <4>1. Same(u) = {}
        BY <1>0, <2>1, <3>2 DEF Reread, Answer, TypeOK
      <4>2. collisions[ProjectOf(u)] # {}
        BY <1>0, <3>1, <4>1 DEF RequestKnows, Knows
      <4>3. QED
        BY <1>1, <3>1, <3>2, <4>2
    <3>3. CASE outcome'[u] # "collision"
      <4>1. \E r \in artifacts :
               /\ r.file = request[u].file
               /\ outcome'[u] = IF r.sha256 = request[u].sha256 THEN "published" ELSE "conflict"
        BY <1>0, <2>1, <3>3 DEF Reread, Answer, TypeOK
      <4>2. QED
        BY <1>0, <3>1, <3>3, <4>1
    <3>4. QED
      BY <3>2, <3>3
  <2>2. CASE (ReadProject(u) \/ Recheck(u)) /\ outcome'[u] = "collision"
    BY <1>0, <1>1, <2>2 DEF TypeOK, ReadProject, Recheck, Shadowing, Answer, projects
  <2>3. CASE ReadProject(u) \/ Recheck(u)
    BY <1>0, <1>2, <2>2, <2>3 DEF TypeOK, ReadProject, Recheck, Answer
  <2>4. CASE ~(Reread(u) \/ ReadProject(u) \/ Recheck(u))
    BY <1>0, <1>2, <1>3, <1>4, <2>4
    DEF TypeOK, UploadStep, Answer, EndWith, Refuse, Begin, BeginLost, Receive, ReceiveFails, ReceiveLost, Validate, LookUp, Record, RecordLost, Fail, Commit, CommitLost, RereadLost, Cleanup, CleanupLost, Crash
  <2>5. QED
    BY <2>1, <2>3, <2>4
<1>5. ASSUME NEW u \in Upload PROVE Ok(u)'
  <2>1. CASE \E v \in Upload : UploadStep(v) /\ v # u
    BY <1>0, <1>2, <2>1, Frame
  <2>2. CASE UNCHANGED vars \/ \E a \in Admin : AdminStep(a)
    BY <1>2, <2>2, AdminFrame DEF vars
  <2>3. QED
    BY <1>4, <2>1, <2>2 DEF Next
<1>6. QED
  BY <1>5 DEF AcknowledgedIsPublished, CollisionAnswerApprovable

(* A step writes an audit row exactly when it writes what the row is about.   *)
LEMMA AuditStep ==
    ASSUME IInv, [Next]_vars PROVE ApprovalAuditedOnce' /\ UploadAudited'
<1> DEFINE Event(r) == [file |-> r.file, sha256 |-> r.sha256, key |-> r.key]
<1>0. TypeOK /\ ProjectRows /\ ArtifactRows /\ ApproverKnows /\ ApprovalAuditedOnce /\ UploadAudited
  BY DEF IInv
<1>1. CASE UNCHANGED <<projects, artifacts, audit>>
  BY <1>0, <1>1 DEF ApprovalAuditedOnce, UploadAudited, projects, audit
<1>2. CASE \E u \in Upload : RecordCollisions(u) /\ UNCHANGED <<artifacts, audit>>
  <2>1. UNCHANGED <<approved, artifacts, audit>>
    BY <1>2 DEF RecordCollisions
  <2>2. \A e \in approvalAudit : e.name \in approved => collisions'[e.name] = collisions[e.name]
    BY <1>0, Monotone DEF ProjectRows, TypeOK
  <2>3. QED
    BY <1>0, <2>1, <2>2 DEF ApprovalAuditedOnce, UploadAudited, audit
<1>3. CASE \E u \in Upload : pc[u] = "commit" /\ PublishBatch(u)
  <2>1. PICK u \in Upload : pc[u] = "commit" /\ PublishBatch(u)
    BY <1>3
  <2>2. UNCHANGED <<collisions, approved, approvalAudit>>
    BY <2>1 DEF PublishBatch
  <2>3. ApprovalAuditedOnce'
    BY <1>0, <2>2 DEF ApprovalAuditedOnce
  <2>4. CASE UNCHANGED <<artifacts, uploadAudit>>
    BY <1>0, <2>3, <2>4 DEF UploadAudited
  <2>5. CASE artifacts' = artifacts \cup {NewRow(u)} /\ uploadAudit' = uploadAudit \cup {UploadedEvent(u)}
    <3>1. /\ Event(NewRow(u)) = UploadedEvent(u)
          /\ NewRow(u).file = UploadedEvent(u).file
          /\ NewRow(u).sha256 = UploadedEvent(u).sha256
          /\ NewRow(u).key = UploadedEvent(u).key
      BY DEF NewRow, UploadedEvent
    <3>2. QED
      BY <1>0, <2>3, <2>5, <3>1 DEF UploadAudited
  <2>6. QED
    BY <1>0, <2>1, <2>3, <2>4, <2>5, PublishEffect
<1>4. CASE \E a \in Admin : ApproveBatch(a)
  <2>1. PICK a \in Admin : ApproveBatch(a)
    BY <1>4
  <2>2. UploadAudited' /\ collisions' = collisions
    BY <1>0, <2>1 DEF ApproveBatch, UploadAudited
  <2>3. CASE MayApprove(target[a])
    <3>1. /\ approvalAudit' = approvalAudit \cup {ApprovedEvent(a)}
          /\ approved' = approved \cup {target[a]}
          /\ target[a] \notin approved
          /\ seen[a] = collisions[target[a]]
      BY <1>0, <2>1, <2>3 DEF ApproveBatch, MayApprove, ApproverKnows
    <3>2. ApprovedEvent(a).name = target[a] /\ ApprovedEvent(a).collisions = seen[a]
      BY DEF ApprovedEvent
    <3>3. QED
      BY <1>0, <2>2, <3>1, <3>2 DEF ApprovalAuditedOnce
  <2>4. CASE ~MayApprove(target[a])
    BY <1>0, <2>1, <2>2, <2>4 DEF ApproveBatch, ApprovalAuditedOnce
  <2>5. QED
    BY <2>2, <2>3, <2>4
<1>5. QED
  BY <1>1, <1>2, <1>3, <1>4, Effects

(* Empty tables and idle requests satisfy the invariant.                     *)
LEMMA InitIInv == Init => IInv
<1> SUFFICES ASSUME Init PROVE IInv
    OBVIOUS
<1> USE DEF Init
<1>1. TypeOK
  BY FileNameAssumption
  DEF TypeOK, Running, Ended, Outcome, ArtifactRow, UploadEvent, ApprovalEvent
<1>2. ProjectRows /\ ArtifactRows /\ ApproverKnows
  BY DEF ProjectRows, CollisionNeedsApproval, ArtifactRows, ApproverKnows
<1>3. RequestKnows
  BY DEF RequestKnows, Knows, BeforeCommit, Holding
<1>4. OrphansOnlyAfterFault /\ AcknowledgedIsPublished /\ CollisionAnswerApprovable
  BY DEF OrphansOnlyAfterFault, Ended, AcknowledgedIsPublished, CollisionAnswerApprovable
<1>5. ApprovalAuditedOnce /\ UploadAudited
  BY DEF ApprovalAuditedOnce, UploadAudited
<1>6. QED
  BY <1>1, <1>2, <1>3, <1>4, <1>5 DEF IInv

(* IInv is inductive: it holds of every state of every instance, whatever   *)
(* the number of concurrent uploads, approvals, names, files and indexes.   *)
THEOREM Invariance == Spec => []IInv
<1>1. IInv /\ [Next]_vars => IInv'
  <2> SUFFICES ASSUME IInv, [Next]_vars PROVE IInv'
      OBVIOUS
  <2>1. TypeOK'
    BY TypeStep DEF IInv
  <2>2. ProjectRows' /\ ArtifactRows' /\ RequestKnows' /\ ApproverKnows'
    BY ProjectRowsStep, ArtifactRowsStep, RequestKnowsStep, ApproverKnowsStep
  <2>3. OrphansOnlyAfterFault' /\ AcknowledgedIsPublished' /\ CollisionAnswerApprovable'
    BY OrphansStep, OutcomeStep
  <2>4. QED
    BY <2>1, <2>2, <2>3, AuditStep DEF IInv
<1>2. QED
  BY <1>1, InitIInv, PTL DEF Spec

(* Type correctness of private publishing. *)
THEOREM TypeCorrect == Spec => []TypeOK
<1>1. IInv => TypeOK
  BY DEF IInv
<1>2. QED
  BY <1>1, Invariance, PTL

(* The clean-up in `finally` is safe: a published row never loses its       *)
(* object, whatever answer is lost and whenever a request is killed, and no *)
(* request that ended without a fault leaves an orphan in the bucket.       *)
THEOREM StorageIsSafe == Spec => []StorageSafe
<1>1. IInv => PublishedBytesIntact
  BY DEF IInv, ArtifactRows, PublishedBytesIntact, NewRow
<1>2. IInv => OrphansOnlyAfterFault
  BY DEF IInv
<1>3. IInv => StorageSafe
  BY <1>1, <1>2 DEF StorageSafe
<1>4. QED
  BY <1>3, Invariance, PTL

(* No public name is shadowed without an approval: neither one with a       *)
(* recorded collision nor one that has always existed publicly.             *)
THEOREM NoSilentShadowing == Spec => [](CollisionNeedsApproval /\ PublicNameNeedsApproval)
<1>1. IInv => CollisionNeedsApproval /\ PublicNameNeedsApproval
  BY DEF IInv, ProjectRows, CollisionNeedsApproval, PublicNameNeedsApproval
<1>2. QED
  BY <1>1, Invariance, PTL

(* What a publisher is told is true of what is published.                   *)
THEOREM AnswersAreTrue == Spec => []AnswersHold
<1>1. IInv => AnswersHold
  BY DEF IInv, AnswersHold
<1>2. QED
  BY <1>1, Invariance, PTL

(* The audit trail tells exactly what was approved and what was published.  *)
THEOREM AuditIsExact == Spec => []AuditIsTrue
<1>1. IInv => AuditIsTrue
  BY DEF IInv, AuditIsTrue
<1>2. QED
  BY <1>1, Invariance, PTL

(* Private publishing implements its abstract specification: every step of  *)
(* an upload or an approval is one atomic Collide, Approve or Publish, or   *)
(* leaves what is promised unchanged.                                       *)
THEOREM Refinement == Spec => ImplementsPrivateIndex
<1> DEFINE Pending == {n \in Name : collisions[n] # {}}
           Bytes(r) == [file |-> r.file, sha256 |-> r.sha256]
<1>1. Init => Promise!Init
  BY DEF Init, Promise!Init, Served
<1>2. ASSUME IInv, IInv', [Next]_vars PROVE [Promise!Next]_(Promise!vars)
  <2>0. /\ TypeOK /\ ProjectRows /\ ArtifactRows /\ RequestKnows /\ ApproverKnows
        /\ CollisionNeedsApproval
    BY <1>2 DEF IInv, ProjectRows
  <2>1. Served = {Bytes(r) : r \in artifacts} /\ Served' = {Bytes(r) : r \in artifacts'}
    <3>1. ASSUME ArtifactRows PROVE Served = {Bytes(r) : r \in artifacts}
      <4>1. \A r \in artifacts : r.key \in objects /\ request[r.key].sha256 = r.sha256
        BY <3>1 DEF ArtifactRows, NewRow
      <4>2. {q \in artifacts : q.key \in objects} = artifacts
        BY <4>1
      <4>3. QED
        BY <4>1, <4>2 DEF Served
    <3>2. ASSUME ArtifactRows' PROVE Served' = {Bytes(r) : r \in artifacts'}
      <4>1. \A r \in artifacts' : r.key \in objects' /\ request'[r.key].sha256 = r.sha256
        BY <3>2 DEF ArtifactRows, NewRow
      <4>2. {q \in artifacts' : q.key \in objects'} = artifacts'
        BY <4>1
      <4>3. QED
        BY <4>1, <4>2 DEF Served
    <3>3. QED
      BY <1>2, <3>1, <3>2 DEF IInv
  <2>2. CASE UNCHANGED <<projects, artifacts, audit>>
    BY <2>1, <2>2 DEF projects, Promise!vars
  <2>3. ASSUME NEW u \in Upload, pc[u] = "record", RecordCollisions(u), UNCHANGED artifacts
        PROVE [Promise!Next]_(Promise!vars)
    <3>0. ProjectOf(u) \in Name
      BY <2>0, FileNameAssumption DEF FileNameAssumption, TypeOK, ProjectOf
    <3>1. UNCHANGED <<approved, claimed>> /\ Served' = Served
      BY <2>1, <2>3 DEF RecordCollisions
    <3>2. CASE MayRecord(ProjectOf(u)) /\ found[u] # {}
      <4>1. Pending' = Pending \cup {ProjectOf(u)}
        BY <2>0, <2>3, <3>0, <3>2 DEF RecordCollisions, TypeOK
      <4>2. Promise!Collide(ProjectOf(u))
        BY <3>1, <3>2, <4>1 DEF MayRecord, Promise!Collide
      <4>3. QED
        BY <3>0, <4>2 DEF Promise!Next, Promise!Collide
    <3>3. CASE ~(MayRecord(ProjectOf(u)) /\ found[u] # {})
      <4>1. Pending' = Pending
        BY <2>0, <2>3, <3>0, <3>3 DEF RecordCollisions, MayRecord, TypeOK
      <4>2. QED
        BY <3>1, <4>1 DEF Promise!vars
    <3>4. QED
      BY <3>2, <3>3
  <2>4. ASSUME NEW u \in Upload, pc[u] = "commit", PublishBatch(u)
        PROVE [Promise!Next]_(Promise!vars)
    <3>1. CASE UNCHANGED <<artifacts, projects>>
      BY <2>1, <3>1 DEF projects, Promise!vars
    <3>2. CASE /\ MayPublish(ProjectOf(u))
               /\ \A r \in artifacts : r.file # request[u].file
               /\ artifacts' = artifacts \cup {NewRow(u)}
               /\ claimed' = claimed \cup {ProjectOf(u)}
               /\ UNCHANGED <<recorded, collisions, approved>>
      <4> DEFINE b == Bytes(NewRow(u))
      <4>1. b.file = request[u].file /\ b \in [file : File, sha256 : Digest]
        BY <2>0 DEF NewRow, TypeOK
      <4>2. Served' = Served \cup {b}
        BY <2>1, <3>2
      <4>3. \A p \in Served : p.file # b.file
        BY <2>1, <3>2, <4>1
      <4>4. ProjectOf(u) \in Pending => ProjectOf(u) \in approved
        BY <2>0, <3>2 DEF MayPublish, CollisionNeedsApproval
      <4>5. Promise!Publish(b)
        BY <3>2, <4>1, <4>2, <4>3, <4>4 DEF Promise!Publish, ProjectOf
      <4>6. QED
        BY <4>1, <4>5 DEF Promise!Next, Promise!Content
    <3>3. QED
      BY <2>0, <2>4, <3>1, <3>2, PublishEffect
  <2>5. ASSUME NEW a \in Admin, ApproveBatch(a) PROVE [Promise!Next]_(Promise!vars)
    <3>1. UNCHANGED <<collisions, claimed, artifacts>> /\ Served' = Served
      BY <2>1, <2>5 DEF ApproveBatch
    <3>2. target[a] \in Pending
      BY <2>0, <2>5 DEF ApproverKnows, ApproveBatch, TypeOK
    <3>3. CASE MayApprove(target[a])
      <4>1. Promise!Approve(target[a])
        BY <2>5, <3>1, <3>2, <3>3 DEF ApproveBatch, Promise!Approve
      <4>2. QED
        BY <3>2, <4>1 DEF Promise!Next
    <3>4. CASE ~MayApprove(target[a])
      BY <2>5, <3>1, <3>4 DEF ApproveBatch, Promise!vars
    <3>5. QED
      BY <3>3, <3>4
  <2>6. QED
    BY <1>2, <2>2, <2>3, <2>4, <2>5, Effects
<1>3. QED
  BY <1>1, <1>2, Invariance, PTL DEF Spec, ImplementsPrivateIndex, Promise!Spec
=============================================================================
