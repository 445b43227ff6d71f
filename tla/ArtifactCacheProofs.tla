------------------------ MODULE ArtifactCacheProofs -------------------------
(***************************************************************************)
(* Theorems about ArtifactCache, for any number of requests, processes,    *)
(* keys and contents, over each of the three stores.                       *)
(***************************************************************************)
EXTENDS ArtifactCache, TLAPS

\* Where a request holds the lock, and where it fills the cache.
Inside == {"recheck", "stream", "commit", "replace", "reread"}
Filling == {"stream", "commit", "replace", "reread"}

Same(r, q) == of[r] = of[q] /\ want[r] = want[q]

\* What a request knows of its record and its bytes, and what it has committed.
Informed ==
    /\ \A r \in Request : pc[r] \in Waiting =>
          row[r] # None /\ row[r] \in registered[want[r]]
    /\ \A r \in Request : pc[r] = "replace" => kind = "file" /\ Verified(r)
    /\ \A r \in Request : pc[r] = "reread" => stored[want[r]] # None

\* The lock of a key: held inside, by one request of a process.
Exclusive ==
    /\ \A r \in Request : pc[r] \in Inside => r \in holding
    /\ \A r, q \in holding : Same(r, q) => r = q

\* Whoever filled the cache left it filled, and found nobody inside.
Filled ==
    /\ \A r \in Request : outcome[r] = "filled" => pc[r] = "done" /\ stored[want[r]] # None
    /\ \A r, q \in Request : outcome[r] = "filled" /\ pc[q] \in Filling => ~Same(r, q)

\* Where a temporary file can be.
Temporary == \A r \in parts : kind = "file" /\ pc[r] \in {"stream", "commit", "replace", "crashed"}

Secure == TypeOK /\ Informed /\ NothingUnverified
Locking == Secure /\ (kind # "r2" => Exclusive /\ Filled) /\ FilledOnce

-----------------------------------------------------------------------------
(* What any step does to the digests a listing registered: it adds to them. *)
LEMMA Registering ==
    ASSUME TypeOK, [Next]_vars
    PROVE  \A k \in Key : registered[k] \subseteq registered'[k]
<1>1. CASE UNCHANGED registered
  BY <1>1
<1>2. ASSUME NEW k \in Key, NEW b \in Body, Register(k, b)
      PROVE  \A j \in Key : registered[j] \subseteq registered'[j]
  BY <1>2 DEF Register, TypeOK
<1>3. ASSUME NEW r \in Request, Lookup(r) \/ Step(r) \/ Fail(r) \/ Cancel(r)
      PROVE  UNCHANGED registered
  BY <1>3 DEF Lookup, Step, Probe, Acquire, Recheck, Receive, Mismatch, CommitFile, ReplaceFile,
              CommitBlob, PutR2, Reread, Fail, Cancel
<1>4. ASSUME NEW p \in Replica, Die(p)
      PROVE  UNCHANGED registered
  BY <1>4 DEF Die
<1>5. CASE UNCHANGED vars
  BY <1>1, <1>5 DEF vars
<1> QED
  BY <1>1, <1>2, <1>3, <1>4, <1>5 DEF Next

(* What a request asks for, where it runs and the store never change.       *)
LEMMA Asked == ASSUME [Next]_vars PROVE UNCHANGED asked
BY DEF Next, Step, Lookup, Probe, Acquire, Recheck, Receive, Mismatch, CommitFile, ReplaceFile,
       CommitBlob, PutR2, Reread, Fail, Cancel, Die, Register, vars

(* Each step keeps the types.                                               *)
LEMMA TypeStep ==
    ASSUME TypeOK, [Next]_vars
    PROVE  TypeOK'
<1>1. ASSUME NEW r \in Request, Lookup(r)
      PROVE  TypeOK'
  BY <1>1, NoneAssumption, PublishedAssumption DEF TypeOK, Waiting, Ended, store, asked, Lookup, EndWith, Release, Goto
<1>2. ASSUME NEW r \in Request, Probe(r)
      PROVE  TypeOK'
  BY <1>2, NoneAssumption, PublishedAssumption DEF TypeOK, Waiting, Ended, store, asked, Probe, Serve, EndWith, Release, Goto, Cached
<1>3. ASSUME NEW r \in Request, Acquire(r)
      PROVE  TypeOK'
  BY <1>3, NoneAssumption, PublishedAssumption DEF TypeOK, Waiting, Ended, store, asked, Acquire, Goto
<1>4. ASSUME NEW r \in Request, Recheck(r)
      PROVE  TypeOK'
  BY <1>4, NoneAssumption, PublishedAssumption DEF TypeOK, Waiting, Ended, store, asked, Recheck, CachedMeanwhile, Cached, Serve, EndWith, Release, Goto
<1>5. ASSUME NEW r \in Request, Mismatch(r)
      PROVE  TypeOK'
  BY <1>5, NoneAssumption, PublishedAssumption DEF TypeOK, Waiting, Ended, store, asked, Mismatch, EndWith, Release, Goto, Unlink
<1>6. ASSUME NEW r \in Request, CommitFile(r)
      PROVE  TypeOK'
  BY <1>6, NoneAssumption, PublishedAssumption DEF TypeOK, Waiting, Ended, store, asked, CommitFile, Verified, Cached, Unlink, Serve, EndWith, Release, Goto
<1>16. ASSUME NEW r \in Request, ReplaceFile(r)
      PROVE  TypeOK'
  BY <1>16, NoneAssumption, PublishedAssumption DEF TypeOK, Waiting, Ended, store, asked, ReplaceFile, Verified, Unlink, Serve, EndWith, Release, Goto
<1>7. ASSUME NEW r \in Request, CommitBlob(r)
      PROVE  TypeOK'
  BY <1>7, NoneAssumption, PublishedAssumption DEF TypeOK, Waiting, Ended, store, asked, CommitBlob, Verified, Put, EndWith, Release, Goto
<1>8. ASSUME NEW r \in Request, PutR2(r)
      PROVE  TypeOK'
  BY <1>8, NoneAssumption, PublishedAssumption DEF TypeOK, Waiting, Ended, store, asked, PutR2, Verified, Put, Goto
<1>9. ASSUME NEW r \in Request, Reread(r)
      PROVE  TypeOK'
  BY <1>9, NoneAssumption, PublishedAssumption DEF TypeOK, Waiting, Ended, store, asked, Reread, Serve, EndWith, Release, Goto
<1>10. ASSUME NEW r \in Request, Fail(r)
      PROVE  TypeOK'
  BY <1>10, NoneAssumption, PublishedAssumption DEF TypeOK, Waiting, Ended, store, asked, Fail, Verified, Put, EndWith, Release, Goto, Unlink
<1>11. ASSUME NEW r \in Request, Cancel(r)
      PROVE  TypeOK'
  BY <1>11, NoneAssumption, PublishedAssumption DEF TypeOK, Waiting, Ended, store, asked, Cancel, EndWith, Release, Goto, Unlink
<1>12. ASSUME NEW r \in Request, NEW b \in Body, Receive(r, b)
      PROVE  TypeOK'
  BY <1>12, NoneAssumption, PublishedAssumption DEF TypeOK, Waiting, Ended, store, asked, Receive, Goto
<1>13. ASSUME NEW p \in Replica, Die(p)
      PROVE  TypeOK'
  BY <1>13, NoneAssumption, PublishedAssumption DEF TypeOK, Waiting, Ended, store, asked, Die
<1>14. ASSUME NEW k \in Key, NEW b \in Body, Register(k, b)
      PROVE  TypeOK'
  BY <1>14, NoneAssumption, PublishedAssumption DEF TypeOK, Waiting, Ended, store, asked, Register
<1>15. ASSUME UNCHANGED vars
      PROVE  TypeOK'
  BY <1>15 DEF TypeOK, Waiting, Ended, store, asked, vars
<1> QED
  BY <1>1, <1>2, <1>3, <1>4, <1>5, <1>6, <1>7, <1>8, <1>9, <1>10, <1>11, <1>12, <1>13, <1>14, <1>15, <1>16 DEF Next, Step

(* Each step keeps what requests know of their records and contents.        *)
LEMMA InformedStep ==
    ASSUME Secure, [Next]_vars
    PROVE  Informed' /\ NothingUnverified'
<1>1. ASSUME NEW r \in Request, Lookup(r)
      PROVE  Informed' /\ NothingUnverified'
  BY <1>1, NoneAssumption, Registering DEF Secure, TypeOK, Informed, NothingUnverified, Verified, Waiting, Ended, store, asked, Lookup, EndWith, Release, Goto
<1>2. ASSUME NEW r \in Request, Probe(r)
      PROVE  Informed' /\ NothingUnverified'
  BY <1>2, NoneAssumption, Registering DEF Secure, TypeOK, Informed, NothingUnverified, Verified, Waiting, Ended, store, asked, Probe, Serve, EndWith, Release, Goto, Cached
<1>3. ASSUME NEW r \in Request, Acquire(r)
      PROVE  Informed' /\ NothingUnverified'
  BY <1>3, NoneAssumption, Registering DEF Secure, TypeOK, Informed, NothingUnverified, Verified, Waiting, Ended, store, asked, Acquire, Goto
<1>4. ASSUME NEW r \in Request, Recheck(r)
      PROVE  Informed' /\ NothingUnverified'
  BY <1>4, NoneAssumption, Registering DEF Secure, TypeOK, Informed, NothingUnverified, Verified, Waiting, Ended, store, asked, Recheck, CachedMeanwhile, Cached, Serve, EndWith, Release, Goto
<1>5. ASSUME NEW r \in Request, Mismatch(r)
      PROVE  Informed' /\ NothingUnverified'
  BY <1>5, NoneAssumption, Registering DEF Secure, TypeOK, Informed, NothingUnverified, Verified, Waiting, Ended, store, asked, Mismatch, EndWith, Release, Goto, Unlink
<1>6. ASSUME NEW r \in Request, CommitFile(r)
      PROVE  Informed' /\ NothingUnverified'
  BY <1>6, NoneAssumption, Registering DEF Secure, TypeOK, Informed, NothingUnverified, Verified, Waiting, Ended, store, asked, CommitFile, Cached, Unlink, Serve, EndWith, Release, Goto
<1>16. ASSUME NEW r \in Request, ReplaceFile(r)
      PROVE  Informed' /\ NothingUnverified'
  BY <1>16, NoneAssumption, Registering DEF Secure, TypeOK, Informed, NothingUnverified, Verified, Waiting, Ended, store, asked, ReplaceFile, Unlink, Serve, EndWith, Release, Goto
<1>7. ASSUME NEW r \in Request, CommitBlob(r)
      PROVE  Informed' /\ NothingUnverified'
  BY <1>7, NoneAssumption, Registering DEF Secure, TypeOK, Informed, NothingUnverified, Verified, Waiting, Ended, store, asked, CommitBlob, Put, EndWith, Release, Goto
<1>8. ASSUME NEW r \in Request, PutR2(r)
      PROVE  Informed' /\ NothingUnverified'
  BY <1>8, NoneAssumption, Registering DEF Secure, TypeOK, Informed, NothingUnverified, Verified, Waiting, Ended, store, asked, PutR2, Put, Goto
<1>9. ASSUME NEW r \in Request, Reread(r)
      PROVE  Informed' /\ NothingUnverified'
  BY <1>9, NoneAssumption, Registering DEF Secure, TypeOK, Informed, NothingUnverified, Verified, Waiting, Ended, store, asked, Reread, Serve, EndWith, Release, Goto
<1>10. ASSUME NEW r \in Request, Fail(r)
      PROVE  Informed' /\ NothingUnverified'
  BY <1>10, NoneAssumption, Registering DEF Secure, TypeOK, Informed, NothingUnverified, Verified, Waiting, Ended, store, asked, Fail, Put, EndWith, Release, Goto, Unlink
<1>11. ASSUME NEW r \in Request, Cancel(r)
      PROVE  Informed' /\ NothingUnverified'
  BY <1>11, NoneAssumption, Registering DEF Secure, TypeOK, Informed, NothingUnverified, Verified, Waiting, Ended, store, asked, Cancel, EndWith, Release, Goto, Unlink
<1>12. ASSUME NEW r \in Request, NEW b \in Body, Receive(r, b)
      PROVE  Informed' /\ NothingUnverified'
  BY <1>12, NoneAssumption, Registering DEF Secure, TypeOK, Informed, NothingUnverified, Verified, Waiting, Ended, store, asked, Receive, Goto
<1>13. ASSUME NEW p \in Replica, Die(p)
      PROVE  Informed' /\ NothingUnverified'
  BY <1>13, NoneAssumption, Registering DEF Secure, TypeOK, Informed, NothingUnverified, Verified, Waiting, Ended, store, asked, Die
<1>14. ASSUME NEW k \in Key, NEW b \in Body, Register(k, b)
      PROVE  Informed' /\ NothingUnverified'
  BY <1>14, NoneAssumption, Registering DEF Secure, TypeOK, Informed, NothingUnverified, Verified, Waiting, Ended, store, asked, Register
<1>15. ASSUME UNCHANGED vars
      PROVE  Informed' /\ NothingUnverified'
  BY <1>15 DEF Secure, TypeOK, Informed, NothingUnverified, Verified, Waiting, Ended, store, asked, vars
<1> QED
  BY <1>1, <1>2, <1>3, <1>4, <1>5, <1>6, <1>7, <1>8, <1>9, <1>10, <1>11, <1>12, <1>13, <1>14, <1>15, <1>16 DEF Next, Step

(* Each step keeps the lock exclusive.                                      *)
LEMMA ExclusiveStep ==
    ASSUME Locking, [Next]_vars, kind # "r2"
    PROVE  Exclusive'
<1>1. ASSUME NEW r \in Request, Lookup(r)
      PROVE  Exclusive'
  BY <1>1 DEF Locking, Secure, TypeOK, Exclusive, Same, Inside, Waiting, Ended, store, asked, Lookup, EndWith, Release, Goto
<1>2. ASSUME NEW r \in Request, Probe(r)
      PROVE  Exclusive'
  BY <1>2 DEF Locking, Secure, TypeOK, Exclusive, Same, Inside, Waiting, Ended, store, asked, Probe, Serve, EndWith, Release, Goto, Cached
<1>3. ASSUME NEW r \in Request, Acquire(r)
      PROVE  Exclusive'
  BY <1>3 DEF Locking, Secure, TypeOK, Exclusive, Same, Inside, Waiting, Ended, store, asked, Acquire, Goto, Locked
<1>4. ASSUME NEW r \in Request, Recheck(r)
      PROVE  Exclusive'
  BY <1>4 DEF Locking, Secure, TypeOK, Exclusive, Same, Inside, Waiting, Ended, store, asked, Recheck, CachedMeanwhile, Cached, Serve, EndWith, Release, Goto
<1>5. ASSUME NEW r \in Request, Mismatch(r)
      PROVE  Exclusive'
  BY <1>5 DEF Locking, Secure, TypeOK, Exclusive, Same, Inside, Waiting, Ended, store, asked, Mismatch, EndWith, Release, Goto, Unlink
<1>6. ASSUME NEW r \in Request, CommitFile(r)
      PROVE  Exclusive'
  BY <1>6 DEF Locking, Secure, TypeOK, Exclusive, Same, Inside, Waiting, Ended, store, asked, CommitFile, Verified, Cached, Unlink, Serve, EndWith, Release, Goto
<1>16. ASSUME NEW r \in Request, ReplaceFile(r)
      PROVE  Exclusive'
  BY <1>16 DEF Locking, Secure, TypeOK, Exclusive, Same, Inside, Waiting, Ended, store, asked, ReplaceFile, Verified, Unlink, Serve, EndWith, Release, Goto
<1>7. ASSUME NEW r \in Request, CommitBlob(r)
      PROVE  Exclusive'
  BY <1>7 DEF Locking, Secure, TypeOK, Exclusive, Same, Inside, Waiting, Ended, store, asked, CommitBlob, Verified, Put, EndWith, Release, Goto
<1>8. ASSUME NEW r \in Request, PutR2(r)
      PROVE  Exclusive'
  BY <1>8 DEF Locking, Secure, TypeOK, Exclusive, Same, Inside, Waiting, Ended, store, asked, PutR2, Verified, Put, Goto
<1>9. ASSUME NEW r \in Request, Reread(r)
      PROVE  Exclusive'
  BY <1>9 DEF Locking, Secure, TypeOK, Exclusive, Same, Inside, Waiting, Ended, store, asked, Reread, Serve, EndWith, Release, Goto
<1>10. ASSUME NEW r \in Request, Fail(r)
      PROVE  Exclusive'
  BY <1>10 DEF Locking, Secure, TypeOK, Exclusive, Same, Inside, Waiting, Ended, store, asked, Fail, Verified, Put, EndWith, Release, Goto, Unlink
<1>11. ASSUME NEW r \in Request, Cancel(r)
      PROVE  Exclusive'
  BY <1>11 DEF Locking, Secure, TypeOK, Exclusive, Same, Inside, Waiting, Ended, store, asked, Cancel, EndWith, Release, Goto, Unlink
<1>12. ASSUME NEW r \in Request, NEW b \in Body, Receive(r, b)
      PROVE  Exclusive'
  BY <1>12 DEF Locking, Secure, TypeOK, Exclusive, Same, Inside, Waiting, Ended, store, asked, Receive, Goto
<1>13. ASSUME NEW p \in Replica, Die(p)
      PROVE  Exclusive'
  BY <1>13 DEF Locking, Secure, TypeOK, Exclusive, Same, Inside, Waiting, Ended, store, asked, Die
<1>14. ASSUME NEW k \in Key, NEW b \in Body, Register(k, b)
      PROVE  Exclusive'
  BY <1>14 DEF Locking, Secure, TypeOK, Exclusive, Same, Inside, Waiting, Ended, store, asked, Register
<1>15. ASSUME UNCHANGED vars
      PROVE  Exclusive'
  BY <1>15 DEF Locking, Secure, TypeOK, Exclusive, Same, Inside, Waiting, Ended, store, asked, vars
<1> QED
  BY <1>1, <1>2, <1>3, <1>4, <1>5, <1>6, <1>7, <1>8, <1>9, <1>10, <1>11, <1>12, <1>13, <1>14, <1>15, <1>16 DEF Next, Step

(* Each step keeps who filled the cache alone with it.                      *)
LEMMA FilledStep ==
    ASSUME Locking, [Next]_vars, kind # "r2"
    PROVE  Filled' /\ FilledOnce'
<1>1. ASSUME NEW r \in Request, Lookup(r)
      PROVE  Filled' /\ FilledOnce'
  BY <1>1, NoneAssumption DEF Locking, Secure, TypeOK, Informed, Exclusive, Filled, FilledOnce, Filling, Same, Inside, Waiting, Ended, store, asked, Lookup, EndWith, Release, Goto
<1>2. ASSUME NEW r \in Request, Probe(r)
      PROVE  Filled' /\ FilledOnce'
  BY <1>2, NoneAssumption DEF Locking, Secure, TypeOK, Informed, Exclusive, Filled, FilledOnce, Filling, Same, Inside, Waiting, Ended, store, asked, Probe, Serve, EndWith, Release, Goto, Cached
<1>3. ASSUME NEW r \in Request, Acquire(r)
      PROVE  Filled' /\ FilledOnce'
  BY <1>3, NoneAssumption DEF Locking, Secure, TypeOK, Informed, Exclusive, Filled, FilledOnce, Filling, Same, Inside, Waiting, Ended, store, asked, Acquire, Goto
<1>4. ASSUME NEW r \in Request, Recheck(r)
      PROVE  Filled' /\ FilledOnce'
  BY <1>4, NoneAssumption DEF Locking, Secure, TypeOK, Informed, Exclusive, Filled, FilledOnce, Filling, Same, Inside, Waiting, Ended, store, asked, Recheck, CachedMeanwhile, Cached, Serve, EndWith, Release, Goto
<1>5. ASSUME NEW r \in Request, Mismatch(r)
      PROVE  Filled' /\ FilledOnce'
  BY <1>5, NoneAssumption DEF Locking, Secure, TypeOK, Informed, Exclusive, Filled, FilledOnce, Filling, Same, Inside, Waiting, Ended, store, asked, Mismatch, EndWith, Release, Goto, Unlink
<1>6. ASSUME NEW r \in Request, CommitFile(r)
      PROVE  Filled' /\ FilledOnce'
  BY <1>6, NoneAssumption DEF Locking, Secure, TypeOK, Informed, Exclusive, Filled, FilledOnce, Filling, Same, Inside, Waiting, Ended, store, asked, CommitFile, Verified, Cached, Unlink, Serve, EndWith, Release, Goto
<1>16. ASSUME NEW r \in Request, ReplaceFile(r)
      PROVE  Filled' /\ FilledOnce'
  BY <1>16, NoneAssumption DEF Locking, Secure, TypeOK, Informed, Exclusive, Filled, FilledOnce, Filling, Same, Inside, Waiting, Ended, store, asked, ReplaceFile, Verified, Unlink, Serve, EndWith, Release, Goto
<1>7. ASSUME NEW r \in Request, CommitBlob(r)
      PROVE  Filled' /\ FilledOnce'
  BY <1>7, NoneAssumption DEF Locking, Secure, TypeOK, Informed, Exclusive, Filled, FilledOnce, Filling, Same, Inside, Waiting, Ended, store, asked, CommitBlob, Verified, Put, EndWith, Release, Goto
<1>8. ASSUME NEW r \in Request, PutR2(r)
      PROVE  Filled' /\ FilledOnce'
  BY <1>8, NoneAssumption DEF Locking, Secure, TypeOK, Informed, Exclusive, Filled, FilledOnce, Filling, Same, Inside, Waiting, Ended, store, asked, PutR2, Verified, Put, Goto
<1>9. ASSUME NEW r \in Request, Reread(r)
      PROVE  Filled' /\ FilledOnce'
  BY <1>9, NoneAssumption DEF Locking, Secure, TypeOK, Informed, Exclusive, Filled, FilledOnce, Filling, Same, Inside, Waiting, Ended, store, asked, Reread, Serve, EndWith, Release, Goto
<1>10. ASSUME NEW r \in Request, Fail(r)
      PROVE  Filled' /\ FilledOnce'
  BY <1>10, NoneAssumption DEF Locking, Secure, TypeOK, Informed, Exclusive, Filled, FilledOnce, Filling, Same, Inside, Waiting, Ended, store, asked, Fail, Verified, Put, EndWith, Release, Goto, Unlink
<1>11. ASSUME NEW r \in Request, Cancel(r)
      PROVE  Filled' /\ FilledOnce'
  BY <1>11, NoneAssumption DEF Locking, Secure, TypeOK, Informed, Exclusive, Filled, FilledOnce, Filling, Same, Inside, Waiting, Ended, store, asked, Cancel, EndWith, Release, Goto, Unlink
<1>12. ASSUME NEW r \in Request, NEW b \in Body, Receive(r, b)
      PROVE  Filled' /\ FilledOnce'
  BY <1>12, NoneAssumption DEF Locking, Secure, TypeOK, Informed, Exclusive, Filled, FilledOnce, Filling, Same, Inside, Waiting, Ended, store, asked, Receive, Goto
<1>13. ASSUME NEW p \in Replica, Die(p)
      PROVE  Filled' /\ FilledOnce'
  BY <1>13, NoneAssumption DEF Locking, Secure, TypeOK, Informed, Exclusive, Filled, FilledOnce, Filling, Same, Inside, Waiting, Ended, store, asked, Die
<1>14. ASSUME NEW k \in Key, NEW b \in Body, Register(k, b)
      PROVE  Filled' /\ FilledOnce'
  BY <1>14, NoneAssumption DEF Locking, Secure, TypeOK, Informed, Exclusive, Filled, FilledOnce, Filling, Same, Inside, Waiting, Ended, store, asked, Register
<1>15. ASSUME UNCHANGED vars
      PROVE  Filled' /\ FilledOnce'
  BY <1>15 DEF Locking, Secure, TypeOK, Informed, Exclusive, Filled, FilledOnce, Filling, Same, Inside, Waiting, Ended, store, asked, vars
<1> QED
  BY <1>1, <1>2, <1>3, <1>4, <1>5, <1>6, <1>7, <1>8, <1>9, <1>10, <1>11, <1>12, <1>13, <1>14, <1>15, <1>16 DEF Next, Step

(* Each step keeps temporary files with the requests that write them.       *)
LEMMA TemporaryStep ==
    ASSUME TypeOK, Temporary, [Next]_vars
    PROVE  Temporary'
<1>1. ASSUME NEW r \in Request, Lookup(r)
      PROVE  Temporary'
  BY <1>1 DEF TypeOK, Temporary, Waiting, Ended, store, asked, Lookup, EndWith, Release, Goto
<1>2. ASSUME NEW r \in Request, Probe(r)
      PROVE  Temporary'
  BY <1>2 DEF TypeOK, Temporary, Waiting, Ended, store, asked, Probe, Serve, EndWith, Release, Goto, Cached
<1>3. ASSUME NEW r \in Request, Acquire(r)
      PROVE  Temporary'
  BY <1>3 DEF TypeOK, Temporary, Waiting, Ended, store, asked, Acquire, Goto
<1>4. ASSUME NEW r \in Request, Recheck(r)
      PROVE  Temporary'
  BY <1>4 DEF TypeOK, Temporary, Waiting, Ended, store, asked, Recheck, CachedMeanwhile, Cached, Serve, EndWith, Release, Goto
<1>5. ASSUME NEW r \in Request, Mismatch(r)
      PROVE  Temporary'
  BY <1>5 DEF TypeOK, Temporary, Waiting, Ended, store, asked, Mismatch, EndWith, Release, Goto, Unlink
<1>6. ASSUME NEW r \in Request, CommitFile(r)
      PROVE  Temporary'
  BY <1>6 DEF TypeOK, Temporary, Waiting, Ended, store, asked, CommitFile, Verified, Cached, Unlink, Serve, EndWith, Release, Goto
<1>16. ASSUME NEW r \in Request, ReplaceFile(r)
      PROVE  Temporary'
  BY <1>16 DEF TypeOK, Temporary, Waiting, Ended, store, asked, ReplaceFile, Verified, Unlink, Serve, EndWith, Release, Goto
<1>7. ASSUME NEW r \in Request, CommitBlob(r)
      PROVE  Temporary'
  BY <1>7 DEF TypeOK, Temporary, Waiting, Ended, store, asked, CommitBlob, Verified, Put, EndWith, Release, Goto
<1>8. ASSUME NEW r \in Request, PutR2(r)
      PROVE  Temporary'
  BY <1>8 DEF TypeOK, Temporary, Waiting, Ended, store, asked, PutR2, Verified, Put, Goto
<1>9. ASSUME NEW r \in Request, Reread(r)
      PROVE  Temporary'
  BY <1>9 DEF TypeOK, Temporary, Waiting, Ended, store, asked, Reread, Serve, EndWith, Release, Goto
<1>10. ASSUME NEW r \in Request, Fail(r)
      PROVE  Temporary'
  BY <1>10 DEF TypeOK, Temporary, Waiting, Ended, store, asked, Fail, Verified, Put, EndWith, Release, Goto, Unlink
<1>11. ASSUME NEW r \in Request, Cancel(r)
      PROVE  Temporary'
  BY <1>11 DEF TypeOK, Temporary, Waiting, Ended, store, asked, Cancel, EndWith, Release, Goto, Unlink
<1>12. ASSUME NEW r \in Request, NEW b \in Body, Receive(r, b)
      PROVE  Temporary'
  BY <1>12 DEF TypeOK, Temporary, Waiting, Ended, store, asked, Receive, Goto
<1>13. ASSUME NEW p \in Replica, Die(p)
      PROVE  Temporary'
  BY <1>13 DEF TypeOK, Temporary, Waiting, Ended, store, asked, Die
<1>14. ASSUME NEW k \in Key, NEW b \in Body, Register(k, b)
      PROVE  Temporary'
  BY <1>14 DEF TypeOK, Temporary, Waiting, Ended, store, asked, Register
<1>15. ASSUME UNCHANGED vars
      PROVE  Temporary'
  BY <1>15 DEF TypeOK, Temporary, Waiting, Ended, store, asked, vars
<1> QED
  BY <1>1, <1>2, <1>3, <1>4, <1>5, <1>6, <1>7, <1>8, <1>9, <1>10, <1>11, <1>12, <1>13, <1>14, <1>15, <1>16 DEF Next, Step

-----------------------------------------------------------------------------
(* Every variable keeps its type, and locks are held inside only.           *)
THEOREM TypeCorrect == Spec => []TypeOK
<1>1. Init => TypeOK
  BY NoneAssumption DEF Init, TypeOK, Waiting
<1>2. TypeOK /\ [Next]_vars => TypeOK'
  BY TypeStep
<1> QED
  BY <1>1, <1>2, PTL DEF Spec

(* What requests know of their records keeps the store verified.            *)
THEOREM SecureInvariance == Spec => []Secure
<1>1. Init => Secure
  <2> SUFFICES ASSUME Init PROVE Informed /\ NothingUnverified
    BY NoneAssumption DEF Init, Secure, TypeOK, Waiting
  <2> QED
    BY DEF Init, Informed, NothingUnverified, Waiting
<1>2. Secure /\ [Next]_vars => Secure'
  BY TypeStep, InformedStep DEF Secure
<1> QED
  BY <1>1, <1>2, PTL DEF Spec

(* No store, lost commit, changed digest or death lets bytes be stored or    *)
(* given that no listing registered (README.md:23).                         *)
THEOREM OnlyVerified == Spec => []NothingUnverified
BY SecureInvariance, PTL DEF Secure

(* What a process knows of the lock of a key stays true.                    *)
THEOREM LockingInvariance == Spec => []Locking
<1>1. Init /\ Secure => Locking
  BY DEF Init, Locking, Exclusive, Filled, FilledOnce, Inside, Filling
<1>2. Locking /\ [Next]_vars => Locking'
  <2> SUFFICES ASSUME Locking, [Next]_vars PROVE Locking'
    OBVIOUS
  <2>1. Secure' /\ kind' = kind
    BY TypeStep, InformedStep, Asked DEF Locking, Secure, asked
  <2>2. CASE kind = "r2"
    BY <2>1, <2>2 DEF Locking, FilledOnce
  <2>3. CASE kind # "r2"
    BY <2>1, <2>3, ExclusiveStep, FilledStep DEF Locking
  <2> QED
    BY <2>2, <2>3
<1> QED
  BY <1>1, <1>2, SecureInvariance, PTL DEF Spec

(* Where there is a lock (files and blobs), one request of a process fills   *)
(* a key; over R2 there is none, and several do.                            *)
THEOREM OneFills == Spec => []FilledOnce
<1>1. Locking => FilledOnce
  BY DEF Locking
<1> QED
  BY <1>1, LockingInvariance, PTL

(* A request that ended, however it did, left no temporary file.            *)
THEOREM FilesRemoved == Spec => []NoPartsLeft
<1>1. Init => Temporary
  BY DEF Init, Temporary
<1>2. TypeOK /\ Temporary /\ [Next]_vars => Temporary'
  BY TemporaryStep
<1>3. Temporary => NoPartsLeft
  BY DEF Temporary, NoPartsLeft
<1> QED
  BY <1>1, <1>2, <1>3, TypeCorrect, PTL DEF Spec

-----------------------------------------------------------------------------
(* Keys whose digest no listing changes: every artifact's, which has its    *)
(* digest in it; only a sidecar may be registered with another one.         *)
OneDigest(k) == \A b, c \in Published[k] : b = c

(* A request that finds a file where it is about to put its own was          *)
(* overtaken, after it looked, by one of another process.                   *)
OvertakenBy(r, q) == want[q] = want[r] /\ of[q] # of[r] /\ outcome[q] = "filled"

Overtaken == \A r \in Request : pc[r] = "replace" /\ Cached(r) => \E q \in Request : OvertakenBy(r, q)

(* Stored bytes stay.  They change only for a key that listings registered  *)
(* several digests for, and in files only where two processes overlapped.   *)
Keeps(k) ==
    stored[k] # None =>
        /\ stored'[k] # None
        /\ OneDigest(k) => stored'[k] = stored[k]
        /\ kind = "file" /\ stored'[k] # stored[k] =>
              \E r, q \in Request : pc[r] = "replace" /\ want[r] = k /\ OvertakenBy(r, q)

BytesStay == [][\A k \in Key : Keeps(k)]_vars

(* What may be put into a store: verified bytes of a request for the key,   *)
(* and into files by one that is past its look at what is there.            *)
LEMMA Replacing ==
    ASSUME Secure, [Next]_vars, NEW k \in Key, stored'[k] # stored[k]
    PROVE  \E r \in Request :
              /\ pc[r] \in Waiting /\ want[r] = k /\ stored'[k] = row[r]
              /\ kind = "file" => pc[r] = "replace" /\ pc'[r] = "done" /\ outcome'[r] = "filled"
<1> USE DEF Secure, TypeOK, store, asked
<1>1. CASE UNCHANGED stored
  BY <1>1
<1>2. ASSUME NEW r \in Request, CommitBlob(r) \/ PutR2(r) \/ Fail(r)
      PROVE  kind # "file" /\ pc[r] \in Waiting /\ want[r] = k /\ stored'[k] = row[r]
  BY <1>2 DEF CommitBlob, PutR2, Fail, Put, Verified, Waiting
<1>3. ASSUME NEW r \in Request, ReplaceFile(r)
      PROVE  /\ pc[r] = "replace" /\ pc[r] \in Waiting /\ want[r] = k /\ stored'[k] = row[r]
             /\ pc'[r] = "done" /\ outcome'[r] = "filled"
  BY <1>3 DEF ReplaceFile, Informed, Verified, Waiting, Serve, EndWith, Goto
<1>4. ASSUME NEW r \in Request, \/ Lookup(r) \/ Probe(r) \/ Acquire(r) \/ Recheck(r) \/ Mismatch(r)
                               \/ (\E b \in Body : Receive(r, b)) \/ CommitFile(r)
                               \/ Reread(r) \/ Cancel(r)
      PROVE  UNCHANGED stored
  BY <1>4 DEF Lookup, Probe, Acquire, Recheck, Mismatch, Receive, CommitFile, Reread, Cancel
<1>5. ASSUME NEW p \in Replica, Die(p) PROVE UNCHANGED stored
  BY <1>5 DEF Die
<1>6. ASSUME NEW j \in Key, NEW b \in Body, Register(j, b) PROVE UNCHANGED stored
  BY <1>6 DEF Register
<1>7. CASE UNCHANGED vars
  BY <1>7 DEF vars
<1> QED
  BY <1>1, <1>2, <1>3, <1>4, <1>5, <1>6, <1>7 DEF Next, Step

(* A request comes to os.replace only where it found no file.               *)
LEMMA LooksFirst ==
    ASSUME TypeOK, [Next]_vars, NEW r \in Request, pc'[r] = "replace"
    PROVE  \/ pc[r] = "replace"
           \/ stored[want[r]] = None /\ UNCHANGED stored
<1> USE DEF TypeOK, Goto, EndWith
<1>1. ASSUME NEW q \in Request, \/ Lookup(q) \/ Probe(q) \/ Acquire(q) \/ Recheck(q) \/ Mismatch(q)
                               \/ (\E b \in Body : Receive(q, b))
      PROVE  pc[r] = "replace"
  BY <1>1 DEF Lookup, Probe, Acquire, Recheck, Mismatch, Receive, Serve
<1>2. ASSUME NEW q \in Request, CommitFile(q)
      PROVE  pc[r] = "replace" \/ (stored[want[r]] = None /\ UNCHANGED stored)
  BY <1>2 DEF CommitFile, Cached, Serve
<1>3. ASSUME NEW q \in Request, \/ ReplaceFile(q) \/ CommitBlob(q) \/ PutR2(q) \/ Reread(q)
                               \/ Fail(q) \/ Cancel(q)
      PROVE  pc[r] = "replace"
  BY <1>3 DEF ReplaceFile, CommitBlob, PutR2, Reread, Fail, Cancel, Serve
<1>4. ASSUME NEW p \in Replica, Die(p) PROVE pc[r] = "replace"
  BY <1>4 DEF Die
<1>5. ASSUME NEW k \in Key, NEW b \in Body, Register(k, b) PROVE pc[r] = "replace"
  BY <1>5 DEF Register
<1>6. CASE UNCHANGED vars
  BY <1>6 DEF vars
<1> QED
  BY <1>1, <1>2, <1>3, <1>4, <1>5, <1>6 DEF Next, Step

(* Who filled the cache has ended, and its answer stays.                    *)
LEMMA FilledStays ==
    ASSUME TypeOK, [Next]_vars, NEW q \in Request, pc[q] = "done"
    PROVE  outcome'[q] = outcome[q]
<1> USE DEF TypeOK, Goto, EndWith, Waiting
<1>1. ASSUME NEW r \in Request, \/ Lookup(r) \/ Probe(r) \/ Acquire(r) \/ Recheck(r) \/ Mismatch(r)
                               \/ (\E b \in Body : Receive(r, b))
      PROVE  outcome'[q] = outcome[q]
  BY <1>1 DEF Lookup, Probe, Acquire, Recheck, Mismatch, Receive, Serve
<1>2. ASSUME NEW r \in Request, \/ CommitFile(r) \/ ReplaceFile(r) \/ CommitBlob(r) \/ PutR2(r)
                               \/ Reread(r) \/ Fail(r) \/ Cancel(r)
      PROVE  outcome'[q] = outcome[q]
  BY <1>2 DEF CommitFile, ReplaceFile, CommitBlob, PutR2, Reread, Fail, Cancel, Serve
<1>3. ASSUME NEW p \in Replica, Die(p) PROVE outcome'[q] = outcome[q]
  BY <1>3 DEF Die
<1>4. ASSUME NEW k \in Key, NEW b \in Body, Register(k, b) PROVE outcome'[q] = outcome[q]
  BY <1>4 DEF Register
<1>5. CASE UNCHANGED vars
  BY <1>5 DEF vars
<1> QED
  BY <1>1, <1>2, <1>3, <1>4, <1>5 DEF Next, Step

(* Whoever is overtaken is so by another process, for its own has one       *)
(* request of the key inside the lock.                                      *)
LEMMA OvertakenStep ==
    ASSUME Locking, Locking', Overtaken, [Next]_vars
    PROVE  Overtaken'
<1> SUFFICES ASSUME NEW r \in Request, pc'[r] = "replace", Cached(r)'
             PROVE  \E q \in Request : OvertakenBy(r, q)'
    BY DEF Overtaken
<1> USE DEF Locking, Secure
<1>1. UNCHANGED <<kind, of, want>>
  BY Asked DEF asked
<1>2. pc[r] = "replace" /\ kind = "file" /\ want[r] \in Key
  BY <1>1, LooksFirst DEF Cached, Informed, TypeOK
<1>3. CASE stored[want[r]] # None
  <2>1. PICK q \in Request : OvertakenBy(r, q)
    BY <1>2, <1>3 DEF Overtaken, Cached
  <2>2. pc[q] = "done"
    BY <1>2, <2>1 DEF Filled, OvertakenBy
  <2>3. outcome'[q] = "filled"
    BY <2>1, <2>2, FilledStays DEF OvertakenBy
  <2> QED
    BY <1>1, <2>1, <2>3 DEF OvertakenBy
<1>4. CASE stored[want[r]] = None
  <2>1. stored'[want[r]] # stored[want[r]]
    BY <1>1, <1>4 DEF Cached
  <2>2. PICK q \in Request : want[q] = want[r] /\ pc[q] = "replace" /\ pc'[q] = "done" /\ outcome'[q] = "filled"
    BY <1>2, <2>1, Replacing
  <2>3. q # r
    BY <2>2
  <2>4. of[q] # of[r]
    BY <1>2, <2>2, <2>3 DEF Exclusive, Inside, Same
  <2> QED
    BY <1>1, <2>2, <2>4 DEF OvertakenBy
<1> QED
  BY <1>3, <1>4

(* Stored bytes never go away, over any store.  What a client was given for  *)
(* an artifact, or for a sidecar whose digest no listing changed, is what    *)
(* every later one is given: no race of downloads, lost commit or death     *)
(* changes it.  The look for a file and os.replace are two calls, so a       *)
(* sidecar's file with another digest may be replaced, but only by a        *)
(* request that looked before another process had put the file there:       *)
(* never where one process serves the directory.                            *)
THEOREM BytesAreImmutable == Spec => BytesStay
<1>1. Init => Overtaken
  BY DEF Init, Overtaken
<1>2. Locking /\ Locking' /\ Overtaken /\ [Next]_vars => Overtaken'
  BY OvertakenStep
<1>3. Locking /\ Overtaken /\ [Next]_vars => \A k \in Key : Keeps(k)
  <2> SUFFICES ASSUME Locking, Overtaken, [Next]_vars,
                      NEW k \in Key, stored[k] # None, stored'[k] # stored[k]
               PROVE  /\ stored'[k] # None /\ ~OneDigest(k)
                      /\ kind = "file" =>
                            \E r, q \in Request : pc[r] = "replace" /\ want[r] = k /\ OvertakenBy(r, q)
      BY DEF Keeps
  <2>1. Secure
    BY DEF Locking
  <2>2. PICK r \in Request : /\ pc[r] \in Waiting /\ want[r] = k /\ stored'[k] = row[r]
                             /\ kind = "file" => pc[r] = "replace"
    BY <2>1, Replacing
  <2>3. row[r] # None /\ row[r] \in registered[k]
    BY <2>1, <2>2 DEF Secure, Informed
  <2>4. registered[k] \subseteq Published[k] /\ stored[k] \in registered[k]
    BY <2>1 DEF Secure, TypeOK, NothingUnverified
  <2>5. ~OneDigest(k)
    BY <2>2, <2>3, <2>4 DEF OneDigest
  <2>6. ASSUME kind = "file"
        PROVE  \E q \in Request : pc[r] = "replace" /\ OvertakenBy(r, q)
    BY <2>2, <2>6 DEF Overtaken, Cached
  <2> QED
    BY <2>2, <2>3, <2>5, <2>6
<1>4. Spec => [][\A k \in Key : Keeps(k)]_vars
  BY <1>1, <1>2, <1>3, LockingInvariance, PTL DEF Spec
<1> QED
  BY <1>4 DEF BytesStay

-----------------------------------------------------------------------------
(* The safety that RequestsEnd rests on: a request that waits for the lock  *)
(* of its key waits for one other, of its own process, which is inside and  *)
(* goes on without waiting.                                                 *)
LockHandedOn ==
    \A r \in Request : pc[r] = "lock" /\ Locked(r) =>
        \E q \in Request : /\ Same(q, r) /\ pc[q] \in Inside
                           /\ \A p \in holding : Same(p, r) => p = q

(* On Cloudflare there is no lock to wait for.                              *)
Unlocked == kind = "r2" => \A r \in Request : pc[r] # "lock"

LEMMA UnlockedStep ==
    ASSUME TypeOK, Unlocked, [Next]_vars
    PROVE  Unlocked'
<1> USE DEF Unlocked, TypeOK, asked, Goto, EndWith
<1>1. ASSUME NEW r \in Request, Lookup(r) \/ Probe(r) \/ Acquire(r) \/ Recheck(r) PROVE Unlocked'
  BY <1>1 DEF Lookup, Probe, Acquire, Recheck, Serve
<1>2. ASSUME NEW r \in Request, (\E b \in Body : Receive(r, b)) \/ Mismatch(r) \/ Reread(r) \/ Cancel(r)
      PROVE  Unlocked'
  BY <1>2 DEF Receive, Mismatch, Reread, Cancel, Serve
<1>3. ASSUME NEW r \in Request, CommitFile(r) \/ ReplaceFile(r) \/ CommitBlob(r) \/ PutR2(r) \/ Fail(r)
      PROVE  Unlocked'
  BY <1>3 DEF CommitFile, ReplaceFile, CommitBlob, PutR2, Fail, Serve
<1>4. ASSUME NEW p \in Replica, Die(p) PROVE Unlocked'
  BY <1>4 DEF Die
<1>5. ASSUME NEW k \in Key, NEW b \in Body, Register(k, b) PROVE Unlocked'
  BY <1>5 DEF Register
<1>6. CASE UNCHANGED vars
  BY <1>6 DEF vars
<1> QED
  BY <1>1, <1>2, <1>3, <1>4, <1>5, <1>6 DEF Next, Step

(* Neither a failure nor a death leaves a lock with nobody inside: whoever  *)
(* waits has one living request of its process before it.                   *)
THEOREM LockMovesOn == Spec => []LockHandedOn
<1>1. Init => Unlocked
  BY DEF Init, Unlocked
<1>2. Locking /\ Unlocked /\ [Next]_vars => Unlocked'
  BY UnlockedStep DEF Locking, Secure
<1>3. Locking /\ Unlocked => LockHandedOn
  <2> SUFFICES ASSUME Locking, Unlocked, NEW r \in Request, pc[r] = "lock", Locked(r)
               PROVE  \E q \in Request : /\ Same(q, r) /\ pc[q] \in Inside
                                         /\ \A p \in holding : Same(p, r) => p = q
      BY DEF LockHandedOn
  <2>1. PICK q \in holding : Same(q, r)
    BY DEF Locked, Same
  <2>2. q \in Request /\ pc[q] \in Inside
    BY DEF Locking, Secure, TypeOK, Inside
  <2>3. \A p \in holding : Same(p, r) => p = q
    BY <2>1 DEF Locking, Unlocked, Exclusive, Same
  <2> QED
    BY <2>1, <2>2, <2>3
<1> QED
  BY <1>1, <1>2, <1>3, LockingInvariance, PTL DEF Spec
=============================================================================
