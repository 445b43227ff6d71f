-------------------------- MODULE PrivatePackages ---------------------------
(***************************************************************************)
(* Private publishing on Cloudflare: POST /upload/ (PrivatePackages in     *)
(* private_packages.py), the administrator's collision approval            *)
(* (worker.py), the two D1 tables and the R2 bucket they share.            *)
(*                                                                         *)
(* Every upload request u runs the steps between two awaits of `upload`    *)
(* atomically and may be interleaved with every other request after each   *)
(* of them.  It stores its bytes under a fresh key "private/<uuid4>": the  *)
(* key is u itself.  A D1 batch is one transaction and D1 runs             *)
(* transactions one at a time.  Any call to D1 or R2 may raise, before or  *)
(* after it took effect, and the isolate may be killed at any await.       *)
(***************************************************************************)
CONSTANTS Name,        \* normalized project names
          File,        \* distribution file names
          Digest,      \* file contents, named by their SHA-256
          Index,       \* public indexes asked for the name
          Upload,      \* upload requests, and the object keys they create
          Admin,       \* approval requests
          FileName,    \* the project a file name belongs to
          PublicName   \* names that exist on a public index throughout

ASSUME FileNameAssumption == FileName \in [File -> Name]
ASSUME PublicNameAssumption == PublicName \subseteq Name

VARIABLES
    recorded,          \* private_projects: names with a row
    collisions,        \* private_projects.collisions
    approved,          \* private_projects.approved_at IS NOT NULL
    claimed,           \* private_projects.claimed_at IS NOT NULL
    artifacts,         \* private_artifacts
    uploadAudit,       \* policy_audit, event_type 'private.uploaded'
    approvalAudit,     \* policy_audit, event_type 'private.collision-approved'
    objects,           \* keys of complete R2 objects
    multipart,         \* keys of multipart uploads neither completed nor aborted
    request,           \* what each upload carries
    pc, found, completed, commit_attempted, discard, outcome,
    apc, target, seen, \* the approval requests
    faulted            \* requests hit by a crash or a lost answer

projects == <<recorded, collisions, approved, claimed>>
audit == <<uploadAudit, approvalAudit>>
bucket == <<objects, multipart>>
locals == <<found, completed, commit_attempted, discard>>
admins == <<apc, target, seen>>
vars == <<projects, artifacts, audit, bucket, request, pc, locals, outcome,
          admins, faulted>>

ArtifactRow == [file : File, sha256 : Digest, key : Upload]
UploadEvent == [file : File, sha256 : Digest, key : Upload]
ApprovalEvent == [name : Name, collisions : SUBSET Index, by : Admin]

Running == {"receive", "validate", "claimable", "lookup", "record", "recheck",
            "commit", "reread", "cleanup"}
Ended == {"done", "crashed"}
Outcome == {"none", "refused", "collision", "conflict", "retry", "published", "failed"}

TypeOK ==
    /\ recorded \in SUBSET Name
    /\ collisions \in [Name -> SUBSET Index]
    /\ approved \in SUBSET Name
    /\ claimed \in SUBSET Name
    /\ artifacts \in SUBSET ArtifactRow
    /\ uploadAudit \in SUBSET UploadEvent
    /\ approvalAudit \in SUBSET ApprovalEvent
    /\ objects \in SUBSET Upload
    /\ multipart \in SUBSET Upload
    /\ request \in [Upload -> [file : File, sha256 : Digest]]
    /\ pc \in [Upload -> {"idle"} \cup Running \cup Ended]
    /\ found \in [Upload -> SUBSET Index]
    /\ completed \in SUBSET Upload
    /\ commit_attempted \in SUBSET Upload
    /\ discard \in SUBSET Upload
    /\ outcome \in [Upload -> Outcome]
    /\ apc \in [Admin -> {"idle", "approve", "done"}]
    /\ target \in [Admin -> Name]
    /\ seen \in [Admin -> SUBSET Index]
    /\ faulted \in SUBSET Upload

Init ==
    /\ recorded = {}
    /\ collisions = [n \in Name |-> {}]
    /\ approved = {}
    /\ claimed = {}
    /\ artifacts = {}
    /\ uploadAudit = {}
    /\ approvalAudit = {}
    /\ objects = {}
    /\ multipart = {}
    /\ request \in [Upload -> [file : File, sha256 : Digest]]
    /\ pc = [u \in Upload |-> "idle"]
    /\ found = [u \in Upload |-> {}]
    /\ completed = {}
    /\ commit_attempted = {}
    /\ discard = {}
    /\ outcome = [u \in Upload |-> "none"]
    /\ apc = [a \in Admin |-> "idle"]
    /\ target \in [Admin -> Name]
    /\ seen = [a \in Admin |-> {}]
    /\ faulted = {}

-----------------------------------------------------------------------------
(* Helpers *)

ProjectOf(u) == FileName[request[u].file]

Goto(u, label) == pc' = [pc EXCEPT ![u] = label]

\* Leave the try block with an answer; the finally block runs next.
Answer(u, what) == /\ Goto(u, "cleanup")
                   /\ outcome' = [outcome EXCEPT ![u] = what]

\* The request ends without reaching the clean-up of the finally block.
EndWith(u, what) == /\ Goto(u, "done")
                    /\ outcome' = [outcome EXCEPT ![u] = what]

Fault(u) == faulted' = faulted \cup {u}

\* An unacknowledged collision makes the name unavailable to publishers.
Shadowing(n) == collisions[n] # {} /\ n \notin claimed \cup approved

-----------------------------------------------------------------------------
(* Receiving the distribution *)

\* Wrong method, publishing disabled, bad credentials, or headers refused
\* before any object is created.
Refuse(u) == /\ pc[u] = "idle"
             /\ EndWith(u, "refused")
             /\ UNCHANGED <<projects, artifacts, audit, bucket, request, locals, admins, faulted>>

Begin(u) == /\ pc[u] = "idle"
            /\ Goto(u, "receive")
            /\ multipart' = multipart \cup {u}
            /\ discard' = discard \cup {u}
            /\ UNCHANGED <<projects, artifacts, audit, objects, request, found, completed,
                           commit_attempted, outcome, admins, faulted>>

\* createMultipartUpload raised, before or after it took effect.
BeginLost(u) == /\ pc[u] = "idle"
                /\ EndWith(u, "retry")
                /\ multipart' \in {multipart, multipart \cup {u}}
                /\ Fault(u)
                /\ UNCHANGED <<projects, artifacts, audit, objects, request, locals, admins>>

Receive(u) == /\ pc[u] = "receive"
              /\ Goto(u, "validate")
              /\ objects' = objects \cup {u}
              /\ multipart' = multipart \ {u}
              /\ completed' = completed \cup {u}
              /\ UNCHANGED <<projects, artifacts, audit, request, found, commit_attempted,
                             discard, outcome, admins, faulted>>

\* A malformed or oversized stream, or a failed part: the upload is aborted.
ReceiveFails(u) == /\ pc[u] = "receive"
                   /\ EndWith(u, "refused") \/ EndWith(u, "retry")
                   /\ multipart' = multipart \ {u}
                   /\ UNCHANGED <<projects, artifacts, audit, objects, request, locals, admins,
                                  faulted>>

\* complete() took effect and then raised, or abort() raised.
ReceiveLost(u) == /\ pc[u] = "receive"
                  /\ EndWith(u, "retry")
                  /\ Fault(u)
                  /\ \/ objects' = objects \cup {u} /\ multipart' = multipart \ {u}
                     \/ UNCHANGED bucket
                  /\ UNCHANGED <<projects, artifacts, audit, request, locals, admins>>

Validate(u) == /\ pc[u] = "validate"
               /\ \/ Goto(u, "claimable") /\ UNCHANGED outcome
                  \/ Answer(u, "refused")
               /\ UNCHANGED <<projects, artifacts, audit, bucket, request, locals, admins, faulted>>

-----------------------------------------------------------------------------
(* _claimable: may this publisher use the name? *)

ReadProject(u) ==
    LET n == ProjectOf(u) IN
    /\ pc[u] = "claimable"
    /\ \/ n \in claimed \cup approved /\ Goto(u, "commit") /\ UNCHANGED outcome
       \/ Shadowing(n) /\ Answer(u, "collision")
       \/ n \notin claimed \cup approved /\ collisions[n] = {}
          /\ Goto(u, "lookup") /\ UNCHANGED outcome
    /\ UNCHANGED <<projects, artifacts, audit, bucket, request, locals, admins, faulted>>

\* Mutant: the list of collisions is reset for every index asked.
LookUpLastIndex(u, hits) ==
    /\ pc[u] = "lookup"
    /\ ProjectOf(u) \in PublicName => hits # {}
    /\ Goto(u, "record")
    /\ found' = [found EXCEPT ![u] = hits \cap {CHOOSE i \in Index : TRUE}]
    /\ UNCHANGED <<projects, artifacts, audit, bucket, request, completed,
                   commit_attempted, discard, outcome, admins, faulted>>

\* One HEAD per distinct index: 200 is a collision, 404 is not.
LookUp(u, hits) == /\ pc[u] = "lookup"
                   /\ ProjectOf(u) \in PublicName => hits # {}
                   /\ Goto(u, "record")
                   /\ found' = [found EXCEPT ![u] = hits]
                   /\ UNCHANGED <<projects, artifacts, audit, bucket, request, completed,
                                  commit_attempted, discard, outcome, admins, faulted>>

\* The condition of the upsert's DO UPDATE.
MayRecord(n) == n \notin claimed \cup approved /\ collisions[n] = {}

RecordCollisions(u) ==
    LET n == ProjectOf(u) IN
    /\ recorded' = recorded \cup {n}
    /\ collisions' = IF MayRecord(n) THEN [collisions EXCEPT ![n] = found[u]] ELSE collisions
    /\ UNCHANGED <<approved, claimed>>

Record(u) == /\ pc[u] = "record"
             /\ RecordCollisions(u)
             /\ Goto(u, "recheck")
             /\ UNCHANGED <<artifacts, audit, bucket, request, locals, outcome, admins, faulted>>

\* The upsert took effect and its answer was lost.
RecordLost(u) == /\ pc[u] = "record"
                 /\ RecordCollisions(u)
                 /\ Answer(u, "retry")
                 /\ UNCHANGED <<artifacts, audit, bucket, request, locals, admins, faulted>>

Recheck(u) == /\ pc[u] = "recheck"
              /\ \/ Shadowing(ProjectOf(u)) /\ Answer(u, "collision")
                 \/ ~Shadowing(ProjectOf(u)) /\ Goto(u, "commit") /\ UNCHANGED outcome
              /\ UNCHANGED <<projects, artifacts, audit, bucket, request, locals, admins, faulted>>

\* A read of R2 or D1, a HEAD request or the upsert raised without effect.
Fail(u) == /\ pc[u] \in {"validate", "claimable", "lookup", "record", "recheck"}
           /\ Answer(u, "retry")
           /\ UNCHANGED <<projects, artifacts, audit, bucket, request, locals, admins, faulted>>

-----------------------------------------------------------------------------
(* The publishing batch and what the publisher learns of it *)

\* Mutant: the INSERT trusts the earlier _claimable.
MayPublishUnchecked(n) == n \in recorded

\* The WHERE clause of the INSERT ... SELECT.
MayPublish(n) == n \in recorded /\ (collisions[n] = {} \/ n \in approved \cup claimed)

NewRow(u) == [file |-> request[u].file, sha256 |-> request[u].sha256, key |-> u]

\* Mutant: ON CONFLICT DO UPDATE.
InsertOrReplaceRow(rows, row) == {r \in rows : r.file # row.file} \cup {row}

\* ON CONFLICT (project, filename) DO NOTHING
InsertRow(rows, row) ==
    IF \E r \in rows : r.file = row.file THEN rows ELSE rows \cup {row}

HasFile(rows, n) == \E r \in rows : FileName[r.file] = n

UploadedEvent(u) == [file |-> request[u].file, sha256 |-> request[u].sha256, key |-> u]

Stored(rows, u) == \E r \in rows : r.key = u

\* Three statements, one transaction.
PublishBatch(u) ==
    LET n == ProjectOf(u) IN
    /\ artifacts' = IF MayPublish(n) THEN InsertRow(artifacts, NewRow(u)) ELSE artifacts
    /\ claimed' = IF n \in recorded /\ HasFile(artifacts', n) THEN claimed \cup {n} ELSE claimed
    /\ uploadAudit' = IF Stored(artifacts', u) THEN uploadAudit \cup {UploadedEvent(u)}
                      ELSE uploadAudit
    /\ UNCHANGED <<recorded, collisions, approved, approvalAudit>>

Commit(u) == /\ pc[u] = "commit"
             /\ PublishBatch(u)
             /\ commit_attempted' = commit_attempted \cup {u}
             /\ Goto(u, "reread")
             /\ UNCHANGED <<bucket, request, found, completed, discard, outcome, admins, faulted>>

\* The batch raised: nobody knows whether it took effect.
CommitLost(u) == /\ pc[u] = "commit"
                 /\ PublishBatch(u) \/ UNCHANGED <<projects, artifacts, audit>>
                 /\ commit_attempted' = commit_attempted \cup {u}
                 /\ Answer(u, "retry")
                 /\ Fault(u)
                 /\ UNCHANGED <<bucket, request, found, completed, discard, admins>>

\* SELECT sha256, object_key: was it this upload that was stored?
Reread(u) ==
    LET saved == {r \in artifacts : r.file = request[u].file} IN
    /\ pc[u] = "reread"
    /\ commit_attempted' = commit_attempted \ {u}
    /\ \/ saved = {} /\ Answer(u, "collision") /\ UNCHANGED discard
       \/ \E r \in saved :
            /\ discard' = IF r.key = u THEN discard \ {u} ELSE discard
            /\ Answer(u, IF r.sha256 = request[u].sha256 THEN "published" ELSE "conflict")
    /\ UNCHANGED <<projects, artifacts, audit, bucket, request, found, completed, admins, faulted>>

RereadLost(u) == /\ pc[u] = "reread"
                 /\ Answer(u, "retry")
                 /\ Fault(u)
                 /\ UNCHANGED <<projects, artifacts, audit, bucket, request, locals, admins>>

-----------------------------------------------------------------------------
(* finally *)

\* Mutant: the object is deleted although the batch may have taken effect.
DiscardsUncertain(u) == u \in completed /\ u \in discard

Discards(u) == u \in completed /\ u \in discard /\ u \notin commit_attempted

Cleanup(u) == /\ pc[u] = "cleanup"
              /\ objects' = IF Discards(u) THEN objects \ {u} ELSE objects
              /\ Goto(u, "done")
              /\ UNCHANGED <<projects, artifacts, audit, multipart, request, locals, outcome,
                             admins, faulted>>

\* delete() raised, which replaces the answer by an unhandled error.
CleanupLost(u) == /\ pc[u] = "cleanup"
                  /\ Discards(u)
                  /\ objects' \in {objects, objects \ {u}}
                  /\ EndWith(u, "failed")
                  /\ Fault(u)
                  /\ UNCHANGED <<projects, artifacts, audit, multipart, request, locals, admins>>

\* The isolate is gone: no finally block, no answer.
Crash(u) == /\ pc[u] \in Running
            /\ Goto(u, "crashed")
            /\ outcome' = [outcome EXCEPT ![u] = "none"]
            /\ Fault(u)
            /\ UNCHANGED <<projects, artifacts, audit, bucket, request, locals, admins>>

-----------------------------------------------------------------------------
(* _approve_private_project *)

ApproveRead(a) ==
    /\ apc[a] = "idle"
    /\ seen' = [seen EXCEPT ![a] = collisions[target[a]]]
    /\ apc' = [apc EXCEPT ![a] = IF collisions[target[a]] = {} THEN "done" ELSE "approve"]
    /\ UNCHANGED <<projects, artifacts, audit, bucket, request, pc, locals, outcome, target,
                   faulted>>

\* Mutant: a second approval is recorded again.
MayApproveAgain(n) == n \in recorded

MayApprove(n) == n \in recorded /\ n \notin approved

ApprovedEvent(a) == [name |-> target[a], collisions |-> seen[a], by |-> a]

ApproveBatch(a) ==
    /\ apc[a] = "approve"
    /\ IF MayApprove(target[a])
       THEN /\ approvalAudit' = approvalAudit \cup {ApprovedEvent(a)}
            /\ approved' = approved \cup {target[a]}
       ELSE UNCHANGED <<approvalAudit, approved>>
    /\ apc' = [apc EXCEPT ![a] = "done"]
    /\ UNCHANGED <<recorded, collisions, claimed, artifacts, uploadAudit, bucket, request, pc,
                   locals, outcome, target, seen, faulted>>

\* The request failed or was killed before its batch took effect.
ApproveLost(a) ==
    /\ apc[a] = "approve"
    /\ apc' = [apc EXCEPT ![a] = "done"]
    /\ UNCHANGED <<projects, artifacts, audit, bucket, request, pc, locals, outcome, target,
                   seen, faulted>>

-----------------------------------------------------------------------------
UploadStep(u) == \/ Refuse(u) \/ Begin(u) \/ BeginLost(u)
                 \/ Receive(u) \/ ReceiveFails(u) \/ ReceiveLost(u)
                 \/ Validate(u) \/ ReadProject(u) \/ (\E hits \in SUBSET Index : LookUp(u, hits))
                 \/ Record(u) \/ RecordLost(u) \/ Recheck(u) \/ Fail(u)
                 \/ Commit(u) \/ CommitLost(u) \/ Reread(u) \/ RereadLost(u)
                 \/ Cleanup(u) \/ CleanupLost(u) \/ Crash(u)

AdminStep(a) == ApproveRead(a) \/ ApproveBatch(a) \/ ApproveLost(a)

Next == \/ \E u \in Upload : UploadStep(u)
        \/ \E a \in Admin : AdminStep(a)

Spec == Init /\ [][Next]_vars

-----------------------------------------------------------------------------
(* Properties *)

\* A published row always has its object, and the object holds the bytes the
\* row's digest was computed from: however answers are lost and requests
\* killed, `finally` never deletes bytes a client may be sent to.
PublishedBytesIntact ==
    \A r \in artifacts : r.key \in objects /\ r.sha256 = request[r.key].sha256

\* No request that ran to its end, without a crash or a lost answer, leaves an
\* unfinished multipart upload or an object that no row refers to.
OrphansOnlyAfterFault ==
    \A u \in Upload : pc[u] \in Ended /\ u \notin faulted =>
        u \notin multipart /\ (u \in objects => Stored(artifacts, u))

\* What the clean-up in `finally` must keep and what it must remove, on every
\* path through the upload.
StorageSafe == PublishedBytesIntact /\ OrphansOnlyAfterFault

\* A name with a recorded public collision is owned only after an approval,
\* whichever publisher found the collision and however late.
CollisionNeedsApproval ==
    \A n \in claimed : collisions[n] # {} => n \in approved

\* A name that exists on a public index throughout is owned only after an
\* approval: no order of lookups, upserts and batches shadows it silently.
PublicNameNeedsApproval == claimed \cap PublicName \subseteq approved

\* A publisher who is told 200 finds its bytes published under the file name;
\* one who is told 409 for different bytes finds other bytes there.
AcknowledgedIsPublished ==
    \A u \in Upload : outcome[u] \in {"published", "conflict"} =>
        \E r \in artifacts :
            /\ r.file = request[u].file
            /\ (outcome[u] = "published") <=> (r.sha256 = request[u].sha256)

\* A publisher sent to the administrator's page finds its project listed there
\* with a collision to acknowledge (_collision's message).
CollisionAnswerApprovable ==
    \A u \in Upload : outcome[u] = "collision" => collisions[ProjectOf(u)] # {}

\* Whatever a publisher is told is true of the tables when it reads it.
AnswersHold == AcknowledgedIsPublished /\ CollisionAnswerApprovable

\* Every approved name has exactly one approval in the audit trail, and that
\* row names the very collisions that the project carries from then on.
ApprovalAuditedOnce ==
    /\ \A n \in approved : \E e \in approvalAudit : e.name = n
    /\ \A e \in approvalAudit : e.name \in approved /\ e.collisions = collisions[e.name]
    /\ \A e, f \in approvalAudit : e.name = f.name => e = f

\* The audit trail and the published files agree: an upload is audited exactly
\* when its row is the one that was stored.
UploadAudited ==
    /\ \A r \in artifacts : [file |-> r.file, sha256 |-> r.sha256, key |-> r.key] \in uploadAudit
    /\ \A e \in uploadAudit : \E r \in artifacts :
          r.file = e.file /\ r.sha256 = e.sha256 /\ r.key = e.key

\* The audit trail tells what was approved and what was stored, exactly once,
\* although both requests write it beside a conditional statement.
AuditIsTrue == ApprovalAuditedOnce /\ UploadAudited

-----------------------------------------------------------------------------
(* What a client is given for a file name: a row whose object is there. *)
Served == {[file |-> r.file, sha256 |-> request[r.key].sha256] :
              r \in {q \in artifacts : q.key \in objects}}

Promise == INSTANCE PrivateIndex WITH
    pending <- {n \in Name : collisions[n] # {}},
    owned <- claimed,
    published <- Served

\* Private publishing implements PrivateIndex: seen through what is served,
\* every step is one atomic operation or invisible.
ImplementsPrivateIndex == Promise!Spec

-----------------------------------------------------------------------------
(* The inductive invariant behind the properties above. *)

BeforeCommit == {"idle", "receive", "validate", "claimable", "lookup", "record", "recheck",
                 "commit"}
Holding == {"validate", "claimable", "lookup", "record", "recheck", "commit", "reread",
            "cleanup"}

\* The rows of private_projects.
ProjectRows ==
    /\ claimed \cup approved \subseteq recorded
    /\ \A n \in Name : collisions[n] # {} => n \in recorded
    /\ \A n \in approved : collisions[n] # {}
    /\ \A n \in recorded \cap PublicName : collisions[n] # {}
    /\ CollisionNeedsApproval

\* The rows of private_artifacts: one per file name, each with the object and
\* under the name of the request that wrote it, and none to be discarded.
ArtifactRows ==
    /\ \A r \in artifacts : /\ r = NewRow(r.key)
                            /\ r.key \in objects
                            /\ FileName[r.file] \in claimed
                            /\ pc[r.key] \notin BeforeCommit
                            /\ pc[r.key] = "cleanup" => ~Discards(r.key)
    /\ \A r, q \in artifacts : r.file = q.file => r = q

\* What a request knows when it is about to take a step.
Knows(u) ==
    /\ pc[u] = "idle" => u \notin multipart
    /\ pc[u] \in {"idle", "receive"} => u \notin objects /\ u \notin completed
    /\ pc[u] \in Holding => u \in objects /\ u \in completed /\ u \notin multipart
    /\ pc[u] \in BeforeCommit => u \notin commit_attempted
    /\ pc[u] \in (BeforeCommit \ {"idle"}) \cup {"reread"} => u \in discard
    /\ pc[u] \in {"recheck", "commit", "reread"} => ProjectOf(u) \in recorded
    /\ pc[u] = "record" /\ ProjectOf(u) \in PublicName => found[u] # {}
    /\ pc[u] = "reread" =>
          /\ u \in commit_attempted
          /\ \/ \E r \in artifacts : r.file = request[u].file
             \/ collisions[ProjectOf(u)] # {}
    /\ pc[u] = "cleanup" /\ u \in commit_attempted => u \in faulted
    /\ pc[u] = "cleanup" /\ u \notin discard => Stored(artifacts, u)

RequestKnows == \A u \in Upload : Knows(u)

\* An approval request acts on the collisions the project still has.
ApproverKnows ==
    \A a \in Admin : apc[a] = "approve" =>
        seen[a] = collisions[target[a]] /\ seen[a] # {}

IInv == /\ TypeOK
        /\ ProjectRows
        /\ ArtifactRows
        /\ RequestKnows
        /\ ApproverKnows
        /\ OrphansOnlyAfterFault
        /\ AcknowledgedIsPublished
        /\ CollisionAnswerApprovable
        /\ ApprovalAuditedOnce
        /\ UploadAudited
=============================================================================
