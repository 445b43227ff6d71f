--------------------------- MODULE PrivateService ---------------------------
(***************************************************************************)
(* Private publishing on Azure: POST /upload/ (PrivatePackageService in    *)
(* private_service.py), its statements against PostgreSQL (postgres.py),   *)
(* the administrator's approval, and the blobs (azure_storage.py).         *)
(*                                                                         *)
(* Unlike the D1 batch of PrivatePackages, publish_private_artifact sends  *)
(* its statements one at a time in a READ COMMITTED transaction: each      *)
(* statement sees what is committed when it starts and what its own        *)
(* transaction wrote.  Two locks matter: a row inserted under a file name  *)
(* makes another INSERT of that name wait, and it takes KEY SHARE on its   *)
(* project (the foreign key), which only SELECT ... FOR UPDATE waits for;  *)
(* an UPDATE of the project makes every other writer of the project wait.  *)
(* record_private_collisions and approve_private_project hold the lock of  *)
(* their project from their first to their last statement: one step each.  *)
(***************************************************************************)
CONSTANTS Name,        \* normalized project names
          File,        \* distribution file names
          Digest,      \* file contents, named by their SHA-256
          Index,       \* public indexes asked for the name
          Upload,      \* upload requests, and the blob names they create
          FileName,    \* the project a file name belongs to
          PublicName   \* names that exist on a public index throughout

ASSUME FileNameAssumption == FileName \in [File -> Name]
ASSUME PublicNameAssumption == PublicName \subseteq Name

VARIABLES
    recorded,          \* private_projects: names with a row
    collisions,        \* private_projects.collisions
    approved,          \* private_projects.approved_at IS NOT NULL
    claimed,           \* private_projects.claimed_at IS NOT NULL
    artifacts,         \* private_artifacts
    uploadAudit,       \* policy_audit, event_type 'private.uploaded'
    approvalAudit,     \* policy_audit, event_type 'private.collision-approved'
    inserted,          \* uploads whose open transaction inserted their row
    claiming,          \* uploads whose open transaction set claimed_at
    objects,           \* blobs with a committed block list
    request, pc, found, completed, commit_attempted, discard, saved, outcome,
    faulted            \* requests hit by a crash or a failed call

projects == <<recorded, collisions, approved, claimed>>
catalog == <<projects, artifacts, uploadAudit, approvalAudit>>
transaction == <<inserted, claiming>>
locals == <<found, completed, commit_attempted, discard, saved>>
vars == <<catalog, transaction, objects, request, pc, locals, outcome, faulted>>

ArtifactRow == [file : File, sha256 : Digest, key : Upload]
ApprovalEvent == [name : Name, collisions : SUBSET Index]

InTransaction == {"insert", "write", "claim", "select", "commit"}
Received == {"validate", "claimable", "lookup", "record"} \cup InTransaction \cup {"cleanup"}
Ended == {"done", "crashed"}
Outcome == {"none", "refused", "collision", "conflict", "retry", "published"}

TypeOK ==
    /\ recorded \in SUBSET Name
    /\ collisions \in [Name -> SUBSET Index]
    /\ approved \in SUBSET Name
    /\ claimed \in SUBSET Name
    /\ artifacts \in SUBSET ArtifactRow
    /\ uploadAudit \in SUBSET ArtifactRow
    /\ approvalAudit \in SUBSET ApprovalEvent
    /\ inserted \in SUBSET Upload
    /\ claiming \in SUBSET Upload
    /\ objects \in SUBSET Upload
    /\ request \in [Upload -> [file : File, sha256 : Digest]]
    /\ pc \in [Upload -> {"idle", "receive"} \cup Received \cup Ended]
    /\ found \in [Upload -> SUBSET Index]
    /\ completed \in SUBSET Upload
    /\ commit_attempted \in SUBSET Upload
    /\ discard \in SUBSET Upload
    /\ saved \in [Upload -> SUBSET ArtifactRow]
    /\ outcome \in [Upload -> Outcome]
    /\ faulted \in SUBSET Upload

Init ==
    /\ recorded = {}
    /\ collisions = [n \in Name |-> {}]
    /\ approved = {}
    /\ claimed = {}
    /\ artifacts = {}
    /\ uploadAudit = {}
    /\ approvalAudit = {}
    /\ inserted = {}
    /\ claiming = {}
    /\ objects = {}
    /\ request \in [Upload -> [file : File, sha256 : Digest]]
    /\ pc = [u \in Upload |-> "idle"]
    /\ found = [u \in Upload |-> {}]
    /\ completed = {}
    /\ commit_attempted = {}
    /\ discard = Upload
    /\ saved = [u \in Upload |-> {}]
    /\ outcome = [u \in Upload |-> "none"]
    /\ faulted = {}

-----------------------------------------------------------------------------
(* Helpers *)

ProjectOf(u) == FileName[request[u].file]

Goto(u, label) == pc' = [pc EXCEPT ![u] = label]

\* Leave the try block with an answer; the finally block runs next.
Answer(u, what) == /\ Goto(u, "cleanup")
                   /\ outcome' = [outcome EXCEPT ![u] = what]

\* The request ends without reaching the clean-up of the finally block.
EndWith(u, what) == /\ Goto(u, "done")
                    /\ outcome' = [outcome EXCEPT ![u] = what]

Fault(u) == faulted' = faulted \cup {u}

NewRow(u) == [file |-> request[u].file, sha256 |-> request[u].sha256, key |-> u]

\* What a statement of u's transaction sees in private_artifacts.
Visible(u) == artifacts \cup (IF u \in inserted THEN {NewRow(u)} ELSE {})

HasFile(rows, n) == \E r \in rows : FileName[r.file] = n

\* An unacknowledged collision makes the name unavailable to publishers.
Shadowing(n) == collisions[n] # {} /\ n \notin claimed \cup approved

\* Another open transaction inserted the same file name.
FileLocked(u) == \E v \in inserted \ {u} : request[v].file = request[u].file

\* An open transaction updated the project.
ProjectLocked(n) == \E v \in claiming : ProjectOf(v) = n

\* An open transaction refers to the project by its foreign key.
ProjectReferenced(n) == \E v \in inserted : ProjectOf(v) = n

-----------------------------------------------------------------------------
(* Receiving the distribution: a blob is visible from commit_block_list on. *)

\* Publishing disabled, bad credentials, or headers refused.
Refuse(u) == /\ pc[u] = "idle"
             /\ EndWith(u, "refused")
             /\ UNCHANGED <<catalog, transaction, objects, request, locals, faulted>>

Begin(u) == /\ pc[u] = "idle"
            /\ Goto(u, "receive")
            /\ UNCHANGED <<catalog, transaction, objects, request, locals, outcome, faulted>>

Receive(u) == /\ pc[u] = "receive"
              /\ Goto(u, "validate")
              /\ objects' = objects \cup {u}
              /\ completed' = completed \cup {u}
              /\ UNCHANGED <<catalog, transaction, request, found, commit_attempted, discard,
                             saved, outcome, faulted>>

\* A malformed or oversized stream, a block that could not be staged, or a
\* commit_block_list that raised, before or after it took effect.
ReceiveFails(u) ==
    /\ pc[u] = "receive"
    /\ \/ EndWith(u, "refused") /\ UNCHANGED <<objects, faulted>>
       \/ EndWith(u, "retry") /\ objects' \in {objects, objects \cup {u}} /\ Fault(u)
    /\ UNCHANGED <<catalog, transaction, request, locals>>

Validate(u) == /\ pc[u] = "validate"
               /\ \/ Goto(u, "claimable") /\ UNCHANGED outcome
                  \/ Answer(u, "refused")
               /\ UNCHANGED <<catalog, transaction, objects, request, locals, faulted>>

-----------------------------------------------------------------------------
(* _claimable: may this publisher use the name? *)

\* Publishing starts: from here on the outcome of a failure is unknown.
TryCommit(u) == /\ Goto(u, "insert")
                /\ commit_attempted' = commit_attempted \cup {u}

ReadProject(u) ==
    LET n == ProjectOf(u) IN
    /\ pc[u] = "claimable"
    /\ \/ n \in claimed \cup approved /\ TryCommit(u) /\ UNCHANGED outcome
       \/ Shadowing(n) /\ Answer(u, "collision") /\ UNCHANGED commit_attempted
       \/ /\ n \notin claimed \cup approved /\ collisions[n] = {}
          /\ Goto(u, "lookup") /\ UNCHANGED <<outcome, commit_attempted>>
    /\ UNCHANGED <<catalog, transaction, objects, request, found, completed, discard, saved,
                   faulted>>

\* Mutant: the list of collisions is reset for every index asked.
LookUpLastIndex(u, hits) ==
    /\ pc[u] = "lookup"
    /\ ProjectOf(u) \in PublicName => hits # {}
    /\ Goto(u, "record")
    /\ found' = [found EXCEPT ![u] = hits \cap {CHOOSE i \in Index : TRUE}]
    /\ UNCHANGED <<catalog, transaction, objects, request, completed,
                   commit_attempted, discard, saved, outcome, faulted>>

\* One HEAD per distinct index: 200 is a collision, 404 is not.
LookUp(u, hits) == /\ pc[u] = "lookup"
                   /\ ProjectOf(u) \in PublicName => hits # {}
                   /\ Goto(u, "record")
                   /\ found' = [found EXCEPT ![u] = hits]
                   /\ UNCHANGED <<catalog, transaction, objects, request, completed,
                                  commit_attempted, discard, saved, outcome, faulted>>

\* Mutant: the approval no longer fixes the collisions.
MayRecordUnclaimed(n) == n \notin claimed

\* The condition of the upsert's DO UPDATE.
MayRecord(n) == n \notin claimed \cup approved /\ collisions[n] = {}

RecordCollisions(u) ==
    LET n == ProjectOf(u) IN
    /\ ~ProjectLocked(n)
    /\ recorded' = recorded \cup {n}
    /\ collisions' = IF MayRecord(n) THEN [collisions EXCEPT ![n] = found[u]] ELSE collisions
    /\ UNCHANGED <<approved, claimed, artifacts, uploadAudit, approvalAudit>>

\* The upsert, and the decision on the row its transaction then reads.
Record(u) ==
    /\ pc[u] = "record"
    /\ RecordCollisions(u)
    /\ UNCHANGED <<transaction, objects, request, found, completed, discard, saved, faulted>>
    /\ IF Shadowing(ProjectOf(u))'
       THEN Answer(u, "collision") /\ UNCHANGED commit_attempted
       ELSE TryCommit(u) /\ UNCHANGED outcome

\* The commit took effect and its answer was lost.
RecordLost(u) == /\ pc[u] = "record"
                 /\ RecordCollisions(u)
                 /\ Answer(u, "retry")
                 /\ UNCHANGED <<transaction, objects, request, locals, faulted>>

\* A read, a HEAD request or the upsert raised without effect.
Fail(u) == /\ pc[u] \in {"validate", "claimable", "lookup", "record"}
           /\ Answer(u, "retry")
           /\ UNCHANGED <<catalog, transaction, objects, request, locals, faulted>>

-----------------------------------------------------------------------------
(* publish_private_artifact, statement by statement *)

\* The WHERE clause of the INSERT ... SELECT.
MayPublish(n) == n \in recorded /\ (collisions[n] = {} \/ n \in approved \cup claimed)

\* INSERT ... SELECT: the condition is evaluated on the statement's snapshot.
Insert(u) == /\ pc[u] = "insert"
             /\ Goto(u, IF MayPublish(ProjectOf(u)) THEN "write" ELSE "claim")
             /\ UNCHANGED <<catalog, transaction, objects, request, locals, outcome, faulted>>

\* ON CONFLICT (project, filename) DO NOTHING: the same statement waits until
\* no other transaction may still commit the file name.
Write(u) == /\ pc[u] = "write"
            /\ ~FileLocked(u)
            /\ inserted' = IF \E r \in artifacts : r.file = request[u].file
                           THEN inserted ELSE inserted \cup {u}
            /\ Goto(u, "claim")
            /\ UNCHANGED <<catalog, claiming, objects, request, locals, outcome, faulted>>

\* Mutant: a project that another publisher is claiming is skipped (SKIP LOCKED).
ClaimSkipsLocked(u) ==
    LET n == ProjectOf(u) IN
    /\ pc[u] = "claim"
    /\ claiming' = IF n \in recorded \ claimed /\ HasFile(Visible(u), n) /\ ~ProjectLocked(n)
                   THEN claiming \cup {u} ELSE claiming
    /\ Goto(u, "select")
    /\ UNCHANGED <<catalog, inserted, objects, request, locals, outcome, faulted>>

\* UPDATE private_projects SET claimed_at, unless the name is claimed: it waits
\* for another transaction that updated the row, which may roll back.
Claim(u) ==
    LET n == ProjectOf(u) IN
    /\ pc[u] = "claim"
    /\ IF n \in recorded \ claimed /\ HasFile(Visible(u), n)
       THEN ~ProjectLocked(n) /\ claiming' = claiming \cup {u}
       ELSE UNCHANGED claiming
    /\ Goto(u, "select")
    /\ UNCHANGED <<catalog, inserted, objects, request, locals, outcome, faulted>>

\* SELECT sha256, object_key; the audit row is written if it is this upload's.
Select(u) ==
    /\ pc[u] = "select"
    /\ saved' = [saved EXCEPT ![u] = {r \in Visible(u) : r.file = request[u].file}]
    /\ Goto(u, "commit")
    /\ UNCHANGED <<catalog, transaction, objects, request, found, completed, commit_attempted,
                   discard, outcome, faulted>>

\* The audit row of the transaction: written if this upload's row is stored.
Event(u) == {r \in saved[u] : r.key = u}

\* Everything the transaction wrote becomes visible at once.
CommitTransaction(u) ==
    LET own == IF u \in inserted THEN {NewRow(u)} ELSE {} IN
    /\ artifacts' = artifacts \cup own
    /\ claimed' = IF u \in claiming THEN claimed \cup {ProjectOf(u)} ELSE claimed
    /\ uploadAudit' = uploadAudit \cup Event(u)
    /\ UNCHANGED <<recorded, collisions, approved, approvalAudit>>

\* Mutant: the connection is returned without ending its transaction.
LeavesTransaction(u) == UNCHANGED transaction

\* Nothing of u's transaction is left, and its locks are free.
CloseTransaction(u) == inserted' = inserted \ {u} /\ claiming' = claiming \ {u}

\* What the request makes of the row it selected.
AnswerFor(u) == IF saved[u] = {} THEN "collision"
                ELSE IF \E r \in saved[u] : r.sha256 = request[u].sha256 THEN "published"
                ELSE "conflict"

\* COMMIT succeeded: the blob stays if its row was stored.
Commit(u) ==
    /\ pc[u] = "commit"
    /\ CommitTransaction(u)
    /\ CloseTransaction(u)
    /\ commit_attempted' = commit_attempted \ {u}
    /\ discard' = IF \E r \in saved[u] : r.key = u THEN discard \ {u} ELSE discard
    /\ Answer(u, AnswerFor(u))
    /\ UNCHANGED <<objects, request, found, completed, saved, faulted>>

\* COMMIT, or closing the connection after it, raised.
CommitLost(u) ==
    /\ pc[u] = "commit"
    /\ CommitTransaction(u) \/ UNCHANGED catalog
    /\ CloseTransaction(u)
    /\ Answer(u, "retry")
    /\ Fault(u)
    /\ UNCHANGED <<objects, request, locals>>

\* Connecting or a statement failed (a deadlock with an approval that waits
\* for two publishers is such a failure): the transaction is rolled back.
Rollback(u) ==
    /\ pc[u] \in InTransaction
    /\ CloseTransaction(u)
    /\ Answer(u, "retry")
    /\ Fault(u)
    /\ UNCHANGED <<catalog, objects, request, locals>>

-----------------------------------------------------------------------------
(* finally *)

\* Mutant: the blob is deleted although COMMIT may have taken effect.
DiscardsUncertain(u) == u \in completed /\ u \in discard

Discards(u) == u \in completed /\ u \in discard /\ u \notin commit_attempted

Cleanup(u) == /\ pc[u] = "cleanup"
              /\ objects' = IF Discards(u) THEN objects \ {u} ELSE objects
              /\ Goto(u, "done")
              /\ UNCHANGED <<catalog, transaction, request, locals, outcome, faulted>>

\* delete_blob raised, which replaces the answer by 503, retry the same file.
CleanupLost(u) == /\ pc[u] = "cleanup"
                  /\ Discards(u)
                  /\ objects' \in {objects, objects \ {u}}
                  /\ EndWith(u, "retry")
                  /\ Fault(u)
                  /\ UNCHANGED <<catalog, transaction, request, locals>>

\* The replica is gone.  A COMMIT it had sent may still take effect; an open
\* transaction stays until the server notices.
Crash(u) ==
    /\ pc[u] \in {"receive"} \cup Received
    /\ Goto(u, "crashed")
    /\ outcome' = [outcome EXCEPT ![u] = "none"]
    /\ Fault(u)
    /\ \/ pc[u] = "commit" /\ CommitTransaction(u) /\ CloseTransaction(u)
       \/ UNCHANGED <<catalog, transaction>>
    /\ UNCHANGED <<objects, request, locals>>

\* The server rolls back a transaction whose client is gone.
Abandoned(u) == /\ pc[u] = "crashed"
                /\ u \in inserted \cup claiming
                /\ CloseTransaction(u)
                /\ UNCHANGED <<catalog, objects, request, pc, locals, outcome, faulted>>

-----------------------------------------------------------------------------
(* approve_private_project: SELECT ... FOR UPDATE waits for publishers too. *)

Approve(n) ==
    /\ n \in recorded /\ collisions[n] # {} /\ n \notin approved
    /\ ~ProjectLocked(n) /\ ~ProjectReferenced(n)
    /\ approved' = approved \cup {n}
    /\ approvalAudit' = approvalAudit \cup {[name |-> n, collisions |-> collisions[n]]}
    /\ UNCHANGED <<recorded, collisions, claimed, artifacts, uploadAudit, transaction, objects,
                   request, pc, locals, outcome, faulted>>

-----------------------------------------------------------------------------
Arrive(u) == Refuse(u) \/ Begin(u) \/ Receive(u) \/ ReceiveFails(u)

\* Steps the service takes of itself once the bytes are received.
Process(u) == \/ Validate(u) \/ ReadProject(u) \/ (\E hits \in SUBSET Index : LookUp(u, hits))
              \/ Record(u) \/ Insert(u) \/ Write(u) \/ Claim(u) \/ Select(u) \/ Commit(u)
              \/ Cleanup(u)

\* Steps that only a failure takes.
Break(u) == RecordLost(u) \/ Fail(u) \/ CommitLost(u) \/ Rollback(u) \/ CleanupLost(u) \/ Crash(u)

Next == \/ \E u \in Upload : Arrive(u) \/ Process(u) \/ Break(u) \/ Abandoned(u)
        \/ \E n \in Name : Approve(n)

Spec == Init /\ [][Next]_vars

\* A request whose bytes are received goes on unless it fails, and the server
\* rolls back what a dead replica left open.  Nothing makes a statement that
\* waits for a lock fail.
FairSpec == Spec /\ \A u \in Upload : WF_vars(Process(u)) /\ WF_vars(Abandoned(u))

-----------------------------------------------------------------------------
(* Properties *)

\* A published row always has its blob: however statements fail, answers are
\* lost and replicas die, `finally` deletes no bytes a client may be sent to.
PublishedBytesIntact ==
    \A r \in artifacts : r.key \in objects /\ r.sha256 = request[r.key].sha256

\* No request that ran to its end, without a crash or a failed call, leaves a
\* blob that no row refers to.
OrphansOnlyAfterFault ==
    \A u \in objects : pc[u] \in Ended /\ u \notin faulted => \E r \in artifacts : r.key = u

\* What the clean-up in `finally` must keep and what it must remove, on every
\* path through the upload.
StorageSafe == PublishedBytesIntact /\ OrphansOnlyAfterFault

\* The two tables agree between transactions, whichever of several publishers
\* of a new name claimed it and whichever of them were rolled back: a name is
\* owned exactly when a file is published under it.
ClaimedWithItsFiles == claimed = {FileName[r.file] : r \in artifacts}

\* The same, where every variable has its type.
Consistent == TypeOK /\ ClaimedWithItsFiles

\* A name that exists on a public index throughout is owned only after an
\* approval, in every order of lookups, upserts, statements and commits.
PublicNameNeedsApproval == claimed \cap PublicName \subseteq approved

\* A publisher who is told 200 finds its bytes published under the file name;
\* one who is told 409 for different bytes finds other bytes there; and a file
\* name is never bound to two files.
AcknowledgedIsPublished ==
    /\ \A u \in Upload : outcome[u] \in {"published", "conflict"} =>
          \E r \in artifacts :
              /\ r.file = request[u].file
              /\ (outcome[u] = "published") <=> (r.sha256 = request[u].sha256)
    /\ \A r, q \in artifacts : r.file = q.file => r = q

\* The audit trail has exactly the uploads whose rows were stored, although the
\* event is written before the transaction commits; and the collisions that an
\* administrator acknowledged are those the project carries from then on.
AuditIsTrue ==
    /\ uploadAudit = artifacts
    /\ \A e \in approvalAudit : e.name \in approved /\ e.collisions = collisions[e.name]

\* Whatever a publisher is told, and whatever an auditor reads, is true of the
\* tables.
ToldTheTruth == AcknowledgedIsPublished /\ AuditIsTrue

\* A name with a recorded public collision is owned only after an approval:
\* "Add administrator approval and audit records before a private name can
\* shadow an existing PyPI or configured-upstream project" (CHANGELOG.md:18).
CollisionNeedsApproval ==
    \A n \in claimed : collisions[n] # {} => n \in approved

\* What a client is given: the bytes of the blob that a row names.
Served == {[file |-> r.file, sha256 |-> request[r.key].sha256] :
              r \in {q \in artifacts : q.key \in objects}}

\* The uploads whose INSERT was allowed and may still be committed.
Deciding == {u \in Upload : pc[u] = "write" \/ u \in inserted}

Promise == INSTANCE LatePrivateIndex WITH
               pending <- {n \in Name : collisions[n] # {}},
               owned <- claimed,
               published <- Served,
               decided <- {request[u] : u \in Deciding}

\* Private publishing on PostgreSQL implements LatePrivateIndex: seen through
\* what is served, a name is owned from its first file on, a file name keeps
\* its bytes, and only what was allowed at some moment is ever published.
ImplementsLateIndex == Promise!Spec

\* Publishers wait for each other's rows and claims, but every request whose
\* bytes are received ends: no order of locks, failures and dead replicas
\* leaves one waiting for ever.
UploadsEnd == \A u \in Upload : pc[u] \in Received ~> pc[u] \in Ended
=============================================================================
