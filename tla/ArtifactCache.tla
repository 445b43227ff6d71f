--------------------------- MODULE ArtifactCache ----------------------------
(***************************************************************************)
(* Downloads of public artifacts and PEP 658 sidecars through the cache of *)
(* bytes: ArtifactService.get_path (artifacts.py, files),                  *)
(* AzureArtifactService.get_stream (azure_artifacts.py, blobs) and         *)
(* _artifact with _populate_artifact (cloudflare_index.py, R2).            *)
(*                                                                         *)
(* A miss is downloaded, compared with the digest the record had when the  *)
(* request read it, and only then committed under a key that names the     *)
(* artifact.  In one process a lock per key lets one request download      *)
(* while the others wait; on Cloudflare there is none, and the digest is   *)
(* compared by R2's put.  What policy allows is the subject of PublicIndex.*)
(***************************************************************************)
CONSTANTS Key,        \* (sha256, file name): artifacts and sidecars
          Body,       \* contents, named by their SHA-256
          None,       \* neither: no record, nothing stored
          Published,  \* the digests a listing may register for each key
          Request, Replica,
          Stores      \* the kinds of store considered

ASSUME NoneAssumption == None \notin Body
ASSUME PublishedAssumption == Published \in [Key -> SUBSET Body]
ASSUME StoreAssumption == Stores \subseteq {"file", "blob", "r2"}

VARIABLES
    kind,        \* the store of the deployment
    of,          \* the replica that each request is routed to
    registered,  \* the digests registered so far for each key, the present one
    record,      \*   being artifacts.verification_sha256
    stored,      \* the committed bytes of each key
    holding,     \* requests that hold the lock of their key in their process
    parts,       \* requests whose temporary file exists (files)
    staged,      \* requests whose staged blocks are there to be committed (blobs)
    want, pc, row, body, given, outcome

store == <<stored, parts, staged>>
asked == <<kind, of, want>>
vars == <<registered, record, store, holding, asked, pc, row, body, given, outcome>>

Waiting == {"cached", "lock", "recheck", "stream", "commit", "replace", "reread"}
Ended == {"done", "crashed"}

TypeOK ==
    /\ kind \in Stores
    /\ of \in [Request -> Replica]
    /\ registered \in [Key -> SUBSET Body]
    /\ record \in [Key -> Body \cup {None}]
    /\ \A k \in Key : registered[k] \subseteq Published[k]
    /\ \A k \in Key : record[k] # None => record[k] \in registered[k]
    /\ stored \in [Key -> Body \cup {None}]
    /\ \A r \in holding : pc[r] \in {"recheck", "stream", "commit", "replace", "reread"}
    /\ holding \subseteq Request /\ parts \subseteq Request /\ staged \subseteq Request
    /\ want \in [Request -> Key]
    /\ pc \in [Request -> {"idle"} \cup Waiting \cup Ended]
    /\ row \in [Request -> Body \cup {None}]
    /\ body \in [Request -> Body \cup {None}]
    /\ given \in [Request -> Body \cup {None}]
    /\ outcome \in [Request -> {"none", "notFound", "denied", "hit", "filled", "failed"}]

Init ==
    /\ kind \in Stores
    /\ of \in [Request -> Replica]
    /\ registered = [k \in Key |-> {}]
    /\ record = [k \in Key |-> None]
    /\ stored = [k \in Key |-> None]
    /\ holding = {} /\ parts = {} /\ staged = {}
    /\ want \in [Request -> Key]
    /\ pc = [r \in Request |-> "idle"]
    /\ row = [r \in Request |-> None]
    /\ body = [r \in Request |-> None]
    /\ given = [r \in Request |-> None]
    /\ outcome = [r \in Request |-> "none"]

-----------------------------------------------------------------------------
(* Helpers *)

Goto(r, label) == pc' = [pc EXCEPT ![r] = label]

Cached(r) == stored[want[r]] # None

\* asyncio.Lock, one for each key in each process.
Locked(r) == \E q \in holding : of[q] = of[r] /\ want[q] = want[r]

\* Mutant: the lock is given back by requests that stored something only.
ReleasesStored(r) == holding' = IF Cached(r) THEN holding \ {r} ELSE holding

\* Leaving `async with lock`, on every path.
Release(r) == holding' = holding \ {r}

EndWith(r, what) == /\ Goto(r, "done")
                    /\ outcome' = [outcome EXCEPT ![r] = what]
                    /\ Release(r)

Serve(r, how) == /\ EndWith(r, how)
                 /\ given' = [given EXCEPT ![r] = stored'[want[r]]]

\* Mutant: the temporary file is unlinked where the download fails only.
UnlinkNothing(r) == UNCHANGED parts

\* temporary.unlink(missing_ok=True), in finally.
Unlink(r) == parts' = parts \ {r}

-----------------------------------------------------------------------------
(* Listings *)

\* register_artifacts: the digest of a sidecar may change, and the key does not.
Register(k, b) == /\ b \in Published[k]
                  /\ record' = [record EXCEPT ![k] = b]
                  /\ registered' = [registered EXCEPT ![k] = @ \cup {b}]
                  /\ UNCHANGED <<store, holding, asked, pc, row, body, given, outcome>>

-----------------------------------------------------------------------------
(* Downloads *)

\* The record is read and policy asked.
Lookup(r) ==
    /\ pc[r] = "idle"
    /\ row' = [row EXCEPT ![r] = record[want[r]]]
    /\ \/ record[want[r]] = None /\ EndWith(r, "notFound")
       \/ record[want[r]] # None /\ EndWith(r, "denied")
       \/ record[want[r]] # None /\ Goto(r, "cached") /\ UNCHANGED <<outcome, holding>>
    /\ UNCHANGED <<registered, record, store, asked, body, given>>

Probe(r) ==
    /\ pc[r] = "cached"
    /\ UNCHANGED <<registered, record, store, asked, row, body>>
    /\ IF Cached(r) THEN Serve(r, "hit")
       ELSE /\ Goto(r, IF kind = "r2" THEN "stream" ELSE "lock")
            /\ UNCHANGED <<outcome, given, holding>>

Acquire(r) == /\ pc[r] = "lock"
              /\ ~Locked(r)
              /\ holding' = holding \cup {r}
              /\ Goto(r, "recheck")
              /\ UNCHANGED <<registered, record, store, asked, row, body, given, outcome>>

\* Mutant: the cache is not looked at again under the lock.
CachedBefore(r) == FALSE

\* Somebody may have stored it while this request waited.
CachedMeanwhile(r) == Cached(r)

\* Under the lock: hit, or open a temporary file (a staged blob has no trace).
Recheck(r) ==
    /\ pc[r] = "recheck"
    /\ UNCHANGED <<registered, record, stored, staged, asked, row, body>>
    /\ IF CachedMeanwhile(r) THEN Serve(r, "hit") /\ UNCHANGED parts
       ELSE /\ parts' = IF kind = "file" THEN parts \cup {r} ELSE parts
            /\ Goto(r, "stream")
            /\ UNCHANGED <<outcome, given, holding>>

\* The upstream answers with some bytes; on Azure they are staged as they come.
Receive(r, b) ==
    /\ pc[r] = "stream"
    /\ body' = [body EXCEPT ![r] = b]
    /\ staged' = IF kind = "blob" THEN staged \cup {r} ELSE staged
    /\ Goto(r, "commit")
    /\ UNCHANGED <<registered, record, stored, parts, holding, asked, row, given, outcome>>

\* Mutant: the digest is not compared.
AcceptsAny(r) == TRUE

\* digest.hexdigest() == verification_sha256, or the sha256 option of R2's put.
Verified(r) == body[r] = row[r]

\* The bytes replace what is stored; blocks that others staged for the same
\* blob are discarded by commit_block_list.
Put(r) == /\ stored' = [stored EXCEPT ![want[r]] = body[r]]
          /\ staged' = {q \in staged : want[q] # want[r]}

\* Refused source or redirect, HTTP error, timeout, too large, disk or blob
\* error; or the commit raised, perhaps after it took effect.
Fail(r) ==
    /\ pc[r] \in {"stream", "commit", "replace"}
    /\ EndWith(r, "failed")
    /\ Unlink(r)
    /\ \/ UNCHANGED stored /\ staged' = staged \ {r}
       \/ /\ pc[r] = "commit" /\ kind # "file" /\ Verified(r)
          /\ kind = "blob" => r \in staged
          /\ Put(r)
    /\ UNCHANGED <<registered, record, asked, row, body, given>>

Mismatch(r) == /\ pc[r] = "commit"
               /\ ~Verified(r)
               /\ EndWith(r, "failed")
               /\ Unlink(r)
               /\ staged' = staged \ {r}
               /\ UNCHANGED <<registered, record, stored, asked, row, body, given>>

\* destination.exists(): another process was first, or the file is still missing.
CommitFile(r) ==
    /\ pc[r] = "commit" /\ kind = "file" /\ Verified(r)
    /\ UNCHANGED <<registered, record, stored, staged, asked, row, body>>
    /\ IF Cached(r) THEN Unlink(r) /\ Serve(r, "filled")
       ELSE Goto(r, "replace") /\ UNCHANGED <<parts, outcome, given, holding>>

\* os.replace puts the file there, over one that another process put there since.
ReplaceFile(r) ==
    /\ pc[r] = "replace"
    /\ stored' = [stored EXCEPT ![want[r]] = body[r]]
    /\ Unlink(r)
    /\ UNCHANGED <<registered, record, staged, asked, row, body>>
    /\ Serve(r, "filled")

\* A block list that names a discarded block is refused.
CommitBlob(r) ==
    /\ pc[r] = "commit" /\ kind = "blob" /\ Verified(r)
    /\ IF r \in staged
       THEN Put(r) /\ Goto(r, "reread") /\ UNCHANGED <<outcome, holding>>
       ELSE EndWith(r, "failed") /\ UNCHANGED <<stored, staged>>
    /\ UNCHANGED <<registered, record, parts, asked, row, body, given>>

PutR2(r) == /\ pc[r] = "commit" /\ kind = "r2" /\ Verified(r)
            /\ Put(r) /\ Goto(r, "reread")
            /\ UNCHANGED <<registered, record, parts, holding, asked, row, body, given, outcome>>

Reread(r) == /\ pc[r] = "reread"
             /\ UNCHANGED <<registered, record, store, asked, row, body>>
             /\ Serve(r, "filled")

\* The client goes away: CancelledError at an await, of which there is none
\* between exists() and os.replace(), runs every finally.
Cancel(r) == /\ pc[r] \in Waiting \ {"replace"}
             /\ EndWith(r, "none")
             /\ Unlink(r)
             /\ staged' = staged \ {r}
             /\ UNCHANGED <<registered, record, stored, asked, row, body, given>>

\* A process dies with its requests and its locks; its files stay.
Die(p) ==
    LET mine == {r \in Request : of[r] = p /\ pc[r] \in Waiting} IN
    /\ mine # {}
    /\ pc' = [r \in Request |-> IF r \in mine THEN "crashed" ELSE pc[r]]
    /\ holding' = holding \ mine
    /\ staged' = staged \ mine
    /\ UNCHANGED <<registered, record, stored, parts, asked, row, body, given, outcome>>

-----------------------------------------------------------------------------
Step(r) == \/ Probe(r) \/ Acquire(r) \/ Recheck(r)
           \/ (\E b \in Body : Receive(r, b)) \/ Mismatch(r)
           \/ CommitFile(r) \/ ReplaceFile(r) \/ CommitBlob(r) \/ PutR2(r) \/ Reread(r)

Next == \/ \E r \in Request : Lookup(r) \/ Step(r) \/ Fail(r) \/ Cancel(r)
        \/ \E p \in Replica : Die(p)
        \/ \E k \in Key, b \in Body : Register(k, b)

Spec == Init /\ [][Next]_vars

\* A request goes on unless it fails: the upstream answers or times out, and
\* asyncio.Lock is given to waiters in the order they asked.
FairSpec == Spec /\ \A r \in Request : WF_vars(Step(r)) /\ SF_vars(Acquire(r))

-----------------------------------------------------------------------------
(* Properties *)

\* "unverified bytes are never served" (README.md:23): whatever is stored or
\* given under a key has a digest that a listing registered for that key,
\* however downloads, new registrations, lost commits and deaths overlap.
NothingUnverified ==
    /\ \A k \in Key : stored[k] # None => stored[k] \in registered[k]
    /\ \A r \in Request : outcome[r] \in {"hit", "filled"} => given[r] \in registered[want[r]]

\* Where there are locks, of the requests of one process for one key one
\* downloads it: those that waited find it, even when earlier ones failed, were
\* cancelled or refused.
FilledOnce ==
    kind # "r2" =>
        \A r, q \in Request :
            outcome[r] = "filled" /\ outcome[q] = "filled" /\ of[r] = of[q] /\ want[r] = want[q]
                => r = q

\* A request that ended leaves no temporary file: only a dead process does.
NoPartsLeft == \A r \in parts : pc[r] # "done"

\* No failure, cancellation or wrong answer of the request that downloads
\* leaves those behind it waiting for ever.
RequestsEnd == \A r \in Request : pc[r] \in Waiting ~> pc[r] \in Ended
=============================================================================
