# Wheelguard in TLA+

Wheelguard is a policy-enforcing Python package index.  It stands between pip and PyPI: it caches the
upstream metadata and the artifacts, hides releases that are too new, marks and denies releases that OSV
names vulnerable, lets administrators override the policy, and publishes private packages under names that
no public project may shadow.  It runs as a Cloudflare Worker (D1 tables, R2 objects, one isolate per
request) or self-hosted (FastAPI with SQLite and a directory, or PostgreSQL and Azure Blob).

This directory holds TLA+ modules of that program, the TLC runs that check them and the theorems TLAPS
proves about them.  Paths below are those of the repository; `.py` files are in `src/wheelguard/`.

## 1. Inventory

| Component | Code | State | Operations | Interacts with |
|---|---|---|---|---|
| Private publishing, Cloudflare | `private_packages.py`, `upload_form.py`, `distributions.py` | D1 `private_projects`, `private_artifacts`, `policy_audit`; R2 objects and multipart uploads | `upload`: receive, validate, `_claimable`, publish batch, re-read, clean-up | public indexes (HEAD), collision approval |
| Private publishing, self-hosted | `private_service.py`, `postgres.py`, `azure_storage.py` | the same tables in PostgreSQL, Blob objects | the same, in one READ COMMITTED transaction | the same |
| Collision approval | `worker.py` `_approve_private_project`, `postgres.py` | `private_projects.approved_at`, audit | approve | uploads |
| Overrides | `worker.py`, `admin.py`, `admin_service.py`, `postgres.py` | `policy_overrides`, `policy_audit` | create, revoke, replace, decide | listings, downloads |
| Public index, Cloudflare | `cloudflare_index.py` | `projects`, `advisory_scans`, `advisory_targets`, `artifacts` | listing, download decision, scheduled refresh | upstream, OSV, overrides, private claims |
| Public index, self-hosted | `application.py`, `cache.py`, `advisories.py`, `refresh.py`, `database.py` | the same tables | the same | the same |
| Release policy | `policy.py`, `vulnerabilities.py` | none | age rule, fallback | listings, downloads |
| Artifact caches | `artifacts.py`, `azure_artifacts.py`, `cloudflare_index.py` | files, blobs, R2 objects, locks | download, verify, commit, serve | upstream |
| Runtime settings | `runtime_settings.py`, `admin_service.py`, `worker.py` | `settings`; self-hosted also the policy that each process keeps for its downloads | update, reset, configure a process | every listing; downloads only through a page of their process (self-hosted) |
| Repository tokens | `repository_tokens.py`, `token_cli.py`, `postgres.py` | `repository_tokens`, `policy_audit` | create, revoke, authenticate | every request |
| Migration | `migrate.py` | schema, `wheelguard_schema_migrations`, role and rights, an advisory lock | migrate | other executions, the replicas that use the schema |
| Authentication | `auth.py`, `identity.py` | the issuer's keys, cached | validate | uploads |
| Rendering, configuration, admin pages | `simple_api.py`, `config.py`, `worker.py` | none | - | - |

What is hard in it: every `await` of the Worker lets other requests run, and no request holds a lock across
one; a D1 batch is atomic but the checks before it are separate calls; any answer may be lost after its
effect; the isolate may be killed; OSV and upstream are slow and fail, and what was read before the `await`
is used after it; times decide almost everything, at boundaries and in more than one format.  The hazards
are listed, each at its line and with the properties that cover it, in `PROJECT.json`.

What makes each component correct: private publishing must never lose or replace published bytes, never leave
bytes behind without a fault, never take a public name without an approval, and tell publishers and auditors
the truth; an override must end once, on time, with an audit trail that explains the table; the public index
must let nothing through that policy, asked with recent knowledge, would not, and self-hosted by settings that
were in force lately; a migration must apply each file once and in order, whatever dies; a revoked token must
stay out.

## 2. Modules

| Module | Models | Composes |
|---|---|---|
| `PrivateIndex` | what private publishing promises: names are claimed, files appear once and stay | - |
| `PrivatePackages` | `PrivatePackages.upload` and `_approve_private_project` | implements `PrivateIndex` |
| `PrivatePackagesProofs` | theorems about it | `PrivatePackages` |
| `AdminOverrides` | the override requests on D1 and on PostgreSQL, and the decision | - |
| `AdminOverridesProofs` | theorems about it | `AdminOverrides` |
| `ReleasePolicy` | the age rule and the vulnerability fallback, as operators | - |
| `PolicyOverTime` | a listing as time passes | `ReleasePolicy` |
| `PublicIndex` | listings, scans, downloads and refresh of one project | `ReleasePolicy`; overrides and private claims as its environment |
| `PublicIndexProofs` | theorems about it | `PublicIndex` |
| `SelfHostedIndex` | pages and downloads of one project on the self-hosted service, and the runtime settings | `ReleasePolicy`; overrides and private claims as its environment |
| `SelfHostedIndexProofs` | theorems about it | `SelfHostedIndex` |
| `Migrate` | executions of `wheelguard-migrate`, statement by statement | - |
| `RepositoryTokens` | the token commands, starting replicas and authenticating requests | extends `Migrate`: over the schema its executions bring about |
| `DeploymentProofs` | theorems about both | `RepositoryTokens` |
| `LatePrivateIndex` | `PrivateIndex` where publishing takes two steps: deciding that a file may be published, and publishing it | - |
| `PrivateService` | `PrivatePackageService.upload` on PostgreSQL and Azure Blob, statement by statement, and the approval | implements `LatePrivateIndex` |
| `PrivateServiceProofs` | theorems about it | `PrivateService` |
| `AdvisoryRefresh` | which projects the scheduled refresh takes, pass after pass, on both platforms | - |
| `AdvisoryProofs` | theorems about listings over time and about the refresh | `PolicyOverTime`, `AdvisoryRefresh` |
| `ArtifactCache` | the byte caches of public artifacts over files, blobs and R2 | - |
| `ArtifactCacheProofs` | theorems about it | `ArtifactCache` |
| `MC*` | the instances TLC checks | the module after `MC` |

A definition that a comment introduces with "Mutant:" is not part of a specification: it is a plausible wrong
version of the definition after it, and every checked property fails when one of them takes its place.

### PrivatePackages

The state is the two tables, the audit trail and the bucket, and for each upload request its program counter
and its local variables `completed`, `commit_attempted` and `discard`, named as in the code.  One action is
what a request does between two awaits; a D1 batch is one action.  Each call has a `...Lost` variant, which
takes effect and then raises, and an upload may `Crash` at any await.  The clean-up in `finally` is a step of
its own, taken on every path and itself exposed to faults.  The name a file belongs to is a constant function,
its contents a digest.  `PublicName` are the names a public index has throughout, so that an interleaving of
lookups can be judged.

### AdminOverrides

`store`, chosen once, says which database.  On D1 a request checks and then applies its batch, in two steps; on
PostgreSQL the two are one step, since the row lock and the rowcount make the transaction behave so.  Times are
counted in half seconds, those with and those without a fraction, because D1 compares ISO texts: `LaterAsText` is the
comparison as it
is made, `Later` the one meant.

### ReleasePolicy and PolicyOverTime

A version is a natural number and a file a version with an upload time or none.  `Allows`, `Fallback`,
`Visible` and `Eligible` are `ReleasePolicy.apply`, `automatic_fixed_version_allows`, the listing's and the
download's combination of the two.  `PolicyOverTime` only lets time pass.

### PublicIndex

One project.  The world outside releases files, discloses vulnerabilities, sets overrides and claims the name
at any moment.  A listing is the sequence of awaits of `_project`: ownership, the cached metadata (after which
it takes its `now`), upstream, the upsert, the advisory target, the cached scan, OSV, the scan's batch, the
overrides, the artifact registration.  A refresh is that of `refresh_active_advisories` for a single target.
A download goes from the registered artifact through `_artifact_policy_denial` to its verdict.  OSV is asked
about every version at one moment (the code asks in batches of 500); it withdraws nothing.  Times are whole
numbers: the texts of this module's tables are ordered as their times are, except as `AdminOverrides` shows.
`osv_enabled` is true throughout.  `noted` is the history of the times that listings recorded as their target's.
The project is new, or cached from earlier with its target pruned.

### SelfHostedIndex

A page is the sequence of awaits of `simple_project`: ownership and the settings (on PostgreSQL only; SQLite has
neither), `configure_policy`, `CachingRepository.get_project`, the advisory target, `OsvAdvisoryPolicy.apply`,
the overrides, the registration of what it links to.  Three of them take a `now` of their own.  A download asks
for anything registered, looks at the policy of its process when it decides whether to ask the advisories and,
with other values perhaps, again when their row arrives.  The settings are in the database, but what downloads
follow is what the last page on their process put there (`policy`), and the deployment's defaults after a
`Restart`.  `held`, `inForce` and `basis` are the history that says which settings those can have been: the ones
there were since that page began.  A scan's row is that of one version set; several stand side by side, unlike on
Cloudflare, and a download takes the latest of whatever set.  `UpdateSettings` and `ResetSetting` change
`osv_enabled` and `advisory_ttl_seconds`; the ages and the metadata TTL are constants.  A download begins again
and again; a page runs once.  `Quiet` bounds when the world moves, `MaxChanges` how often administrators and a
private claim do.

### Migrate and RepositoryTokens

Each statement of an execution is a step: `pg_advisory_lock` (granted in the order of asking, `queue`), the
look at each file's row, the file, its row, COMMIT, the role, the grants, COMMIT, and the unlock of `finally`.
`txn` is what its open transaction has written.  A statement may fail (`Raise`, `RaiseInFinally`), an execution
may be killed at any point (`Die`), and its session, with its lock, ends when the server notices (`Abandoned`).
Executions of different releases have different files (`Packaged`).

`RepositoryTokens` adds what uses that schema: `initialize` lets a replica start when two tables are there, and
then requests authenticate, while `wheelguard token create` and `revoke` run as READ COMMITTED transactions.
A statement that waits, for a row or for the unique index on active names, is enabled when the other transaction
has ended; a commit may take effect unheard of (`CreateLost`, `RevokeLost`).  All tokens have one name, which is
where they can be in each other's way.  `authenticate_repository_token` is one statement, in two steps: what its
snapshot matches, and the answer, which may come after a revocation it waited for.

### PrivateService

The self-hosted twin of `PrivatePackages`, with the same clean-up and the same locals, but another way to
publish: `publish_private_artifact` sends INSERT, UPDATE, SELECT and the audit INSERT one at a time in a READ
COMMITTED transaction.  `inserted` and `claiming` are what open transactions have written and not committed;
they are also the locks others wait for.  INSERT is two steps: its condition is evaluated on the snapshot the
statement starts with (`Insert`), and only then may it wait for a conflicting file name (`Write`).  `COMMIT`
may raise after it took effect, a replica may die with its transaction open, and the server rolls that back in
its own time (`Abandoned`).  `record_private_collisions` and `approve_private_project` hold the row lock of the
project from their first statement to their last and are one step each.  This module does not implement
`PrivateIndex`: a name may be owned although a collision was recorded first (`late_collision` in section 5).  It
implements `LatePrivateIndex`, in which what was decided may be published later: deciding is the INSERT's
condition, publishing is COMMIT, and a transaction that ends without a row withdraws.

### AdvisoryRefresh

Several targets and a batch.  Times are the orders they induce, as sets of pairs: `asked` on the targets, by
`requested_at`, and `checked` on the scans, by `checked_at`, where several may be equal.  A page takes its time
before it waits for upstream and OSV and writes it afterwards whatever is there by then (`cloudflare_index.py:235`,
252 and 410, `advisories.py:58` and 70), and any number of pages may be under way.  So `Request` and `Evaluate`
file a row at any place among those there: before, between, beside or after them.  A pass on Cloudflare files all
its scans under the moment it began, which has a place of its own in the order (`Pass`); on the self-hosted
service `apply` takes a time for each project.  This keeps the state space finite while the program runs for ever.

What is assumed of the time a page takes is only that it ends.  `settled` are the scans whose time lies before
that of everything still under way; `Settle` is the end of what began by then.  Three more bounds are the settings':
no page lasts as long as the active window (a day at least) or the advisory TTL (a minute at least), so that what
it writes is neither lapsed nor stale at once, and no pass as long as the TTL.  The replicas' clocks are taken for one.

`hosting` chooses the query (`database.py:238` or `cloudflare_index.py:519`), when expired targets are deleted, and
whether a current scan is used again.  The query is stated by its result (`Taken`): active targets in their order,
and of those beyond the limit none that comes before one taken.  `NoScan` are projects that never get a scan, their
files having no version or OSV never answering; `raising`, some of `Fatal`, are those at whose turn an exception
ends every pass (`Raise`), while `Abort` is one that may come at any time.

### ArtifactCache

One request is its steps between awaits; `holding` is the `asyncio.Lock` of a key, which exists once in every
process; `of` routes a request to a `Replica`.  `kind`, chosen once, says what a commit is: a look for the file and
then `os.replace` of a temporary one, in two steps because another process may do either in between; a block list;
or a `put` of R2 that compares the digest itself.  A sidecar's digest may be registered anew under the same key
while a download of the old one runs, so the bytes replaced may be others.  What commit_block_list does to the
blocks of other uploads to the same blob is Azure's documented behaviour, not the repository's code.

## 3. Runs

Deadlock is off in all runs but `advisory_refresh`: every request ends, and the clock of the modules that have one is bounded.

| Run | Instance | Shows |
|---|---|---|
| `private_packages` | 2 uploads, 2 approvals, 2 names (one public) with a file each, 2 digests, 2 indexes | published bytes stay and a request without a fault leaves none behind, names are not taken without an approval, answers and audit rows are true, and the whole implements `PrivateIndex` |
| `private_service` | 2 uploads, 2 names (one public), 3 files, 2 digests, 2 indexes, the approval | the same on PostgreSQL, and names are claimed with their files, through failed statements, lost commits and dead replicas; no order of row locks leaves a publisher waiting |
| `late_collision` | the same | violation, section 5 |
| `overrides` | either database, 3 requests of any kind, one version, 3 half-second steps | acknowledged requests take effect, audit trail and table explain each other, overrides expire on time and the newest decides (to the second on D1), each is ended once (PostgreSQL) |
| `d1_replaced_twice` | D1 | violation, section 5 |
| `policy_over_time` | all sets of up to 3 files of 3 versions, with every upload time and none, every scan, an override; minimum age 3, floor 1 | the fallback is a last resort, is given, gives way, and the listing never goes dark |
| `public_index` | 1 listing, 1 refresh, 1 download, 2 versions, overrides and a claim, times 0-2 | listings mark, the fallback is a last resort, exposure is bounded and an owned name answers nothing public, while the refresh and the listing overwrite each other's scans, of other version sets too; failing refreshes never renew a scan; targets in use are kept |
| `known_vulnerable` | 2 listings, 2 downloads | violation, section 5 |
| `self_hosted` | either hosting, 1 process, 2 pages, 1 download that repeats, 2 versions (the first may be disclosed, the second overridden), OSV on or off with TTL 1, one change by an administrator or publisher, times 0-2 | downloads follow some setting there was since their process's last page began; rows are true of their times whoever wrote them last; pages mark, have no early release but as a last resort, and lack nothing older than the metadata TTL |
| `deployment` | a release with 1 file and one with 2, 1 replica, 2 creates, 2 revokes, 1 request | files are applied once and in order, success means ready, replicas have their tables, tokens and audit explain each other, revocation is final, and no execution waits for ever |
| `advisory_refresh` | either service, 3 projects, batch of 2, one project that never gets a scan, one that may end every pass | nobody jumps the queue but by a request, by its own scan, or by a page or pass that began before it, whatever times slow pages write; a project in use gets a current scan again and again while a batch has room |
| `artifact_cache` | files, blobs or R2, 2 requests routed to 2 processes in any way, an artifact and a sidecar | nothing unverified is stored or given; one request of a process fills a key (files, blobs); no temporary file is left; whatever becomes of the holder of a lock, the waiter ends |

Why the bounds are enough: every hazard listed needs two requests of one kind at most, plus one that observes
(three for overrides, where a third request may act on the result of two; a listing and a refresh are two that
scan); two versions are one that is vulnerable and its fix, three let a fallback move from one fix to the next;
the times reach past every TTL and age of the instance, with a step on both sides of each boundary.  A request
runs once: the effect of a request that repeats is that of another one; only `AdvisoryRefresh`, whose question
is about repetition, goes on for ever.  A refresh needs a batch smaller than the targets and one target that
takes a place without using it; a cache needs two requests that share a lock and one that does not; two
executions of a migration are one that holds the lock and one that waits, and those of an older and of a newer
release; two commands of a kind are one that commits and one that waits for it.  One change of settings between
two pages is enough for them to disagree, and `self_hosted` has one process, since processes share the database
alone.  The theorems remove the bounds where they apply.

The liveness properties `UploadsEnd`, `CurrentWhileRoom`, `RequestsEnd` and `JobsEnd` assume fairness:

* `PrivateService!FairSpec`: weak fairness of what the service does by itself once the bytes are received
  (`Process`), since the event loop resumes a coroutine whose call has returned, and of `Abandoned`, since the
  server drops a dead connection.  Failures are never required to happen: a waiter must end without one.
* `AdvisoryRefresh!FairSpec`: weak fairness of `Start` (the cron trigger, the interval task); strong fairness of
  `Prune` or `Finish` and of each project's `Refresh`, `Skip` or `Raise`; weak fairness of `Settle`, since a page
  ends.  The strong part says that outages and killed passes are not the rule: a pass that may abort before a
  project every time refreshes nothing, whatever its query.  It grants a project its turn only if the query takes
  it again and again and the pass comes so far, which is the question: a project in `raising` has its turn and
  ends the pass, every time.
* `ArtifactCache!FairSpec`: weak fairness of a request's next step (upstream answers or the client's timeout
  fires), strong fairness of `Acquire` (`asyncio.Lock` wakes its waiters in the order they came).
* `RepositoryTokens!FairSpec`: weak fairness of each execution's statements and of `Abandoned`, strong fairness
  of `GrantLock`: PostgreSQL grants a lock in the order in which it was asked for.

## 4. Proofs

Eight modules hold theorems; all assumptions are the `ASSUME`s of the modules they extend (types of the constants,
disjointness of the request names), which TLC evaluates in every run.

* `PrivatePackagesProofs`: `IInv` is inductive for any number of uploads, approvals, names, files and indexes.
  Beside types it relates the flags to the program counter (what `finally` may assume), every published row to a
  complete object that no running request will discard, every upload past `recheck` to what it knew, the claim to
  an approval or to an empty collision list, and the audit trail to the tables.  `StorageSafe` alone is not
  inductive: that the bytes stay needs that whoever deletes an object is its own upload, and that this upload
  knows its row does not name it.  From `IInv` follow type correctness, the named properties and `Refinement`:
  each step of `PrivatePackages` is a step of `PrivateIndex` or a stutter.
* `PrivateServiceProofs`: for any number of uploads, names, files and indexes.  Here the tables and a decision
  agree at no single moment, so `IInv` says what an open transaction may rely on until it ends (`Transactions`):
  the rows it has locked, that nobody else can commit its file name meanwhile, and that only a transaction which
  has inserted a file claims its name.  `RequestKnows` relates the local flags to what COMMIT may have done: the
  clean-up deletes a blob only where no row can name it any more.  `Consistent` needs both: INSERT and the UPDATE
  that claims the name are separate statements, and a file whose transaction found the name claimed already must
  not become visible without that claim.  `PublicNameNeedsApproval` survives the gap between check and claim
  because the collision of such a name is recorded before INSERT looks.  `Refinement`: every step is `Collide`,
  `Approve`, `Decide`, `Publish` or `Withdraw` of `LatePrivateIndex`, or changes nothing that is promised.
  `NoCircularWait` is the safety half of `UploadsEnd`: for any number of uploads, who waits waits for a holder of
  an exclusive lock (`LocksAreExclusive`) that goes on, or that itself waits for one that does.
  `CollisionBlocks` says what stays true beside the finding `late_collision`.
* `AdminOverridesProofs`: for any number of requests, versions and half seconds, on both databases.  `IInv` adds
  to `Consistent` what rows and events tell of the request that wrote them (`RowsAreWritten`, `EventsAreWritten`),
  and what a request knows of the tables (`RequestKnows`).  The databases need different arguments: on D1 the
  batch trusts the check before it, on PostgreSQL the rows its UPDATE changed, which is why `EndedOnce` can be
  proved of the latter alone.  `EndsAreFinal` is what holds of both: an override that ended is replaced or ended
  again only by requests that had found it active before.  `EndsAtExpiry` and `NewestDecides` follow for every
  pair of times from `TextOrder`, which says how far the order of D1's texts is from the order of the times.
* `AdvisoryProofs`: for every set of files, scan, override and pair of ages, the fallback shows a file only past
  its floor and when nothing safe is old enough, shows the newest fix when every file has an upload time, and time
  withdraws only what it showed.  `StaysLit`: nor does it empty a listing that showed something. What withdraws a
  fallback is old and safe or a newer fix, so this needs a newest one (`NewestFile`): the maximum of a finite set,
  found by well-founded induction over its strict subsets. Of the refresh, for any number of projects, any batch
  size and either query: `TablesOrdered` is inductive.  Targets and scans stay ranked by their times wherever a
  slow page files its row (`FileRanked`: a row put at any place of a ranking leaves a ranking), what lapsed is
  earlier than what did not, and settled scans are earlier than what a pass on Cloudflare will file.  From it follow
  `NoOvertaking` and `RoomIsUsed`.  The first: a project loses its place only to a request, to its own scan, or,
  until its scan is settled, to a scan whose page or pass began no later.  The second: a pass which has room leaves
  out nobody who can be scanned, but on Cloudflare in favour of one that can be and that it does not precede,
  which counts the batch against the targets (`FinitelyMany`).  The two are what `CurrentWhileRoom` needs of every
  state and step.
* `PublicIndexProofs`: for any number of listings, refreshes and downloads, all TTLs, ages and versions, `IInv` is
  inductive.  Its parts: no time lies in the future; every copy of the metadata is a `Snapshot` of upstream, so a
  file in it is there with every earlier file; every scan is `Honest`, so a version it does not name was not
  disclosed before its `checked_at` (a request takes `now` before it asks OSV); what a listing and a download know
  at each step.  From it: what policy let through was not public as vulnerable for the advisory TTL (`Exposure`),
  listings yank what long was (`Marks`), no release below the minimum age is let through while a safe one is old
  enough (`NeverTooEarly`), and nothing public under an owned name (`Ownership`).  For `TargetStays` the
  invariant has `TargetsNoted`: the target carries a time some listing recorded, and one that is gone was pruned
  when such a time was past the active window, whatever overwrote it since.  The step lemmas share `Moves`: what
  any step may do to the world, to the tables and to what a request holds, whichever action it is.
  `SettledStays` says which requests can undo a denial.
* `ArtifactCacheProofs`: for any number of requests, processes, keys and contents.  `NothingUnverified` needs
  that a request between two awaits still holds a digest that was registered (registrations only add), and that a
  blob to be read again is there.  `FilledOnce` needs the lock: whoever is inside holds it, nobody else of the
  process does, and while somebody downloads, nobody of the process has filled that key.  It says nothing of R2,
  where there is no lock and several requests fill a key.  `NoPartsLeft` follows from where a temporary file can
  be.  `BytesAreImmutable`: what is stored never goes away, and changes only where a listing registered
  another digest under the same key.  Of files it says who may change it: a request that looked for the file before
  one of another process had put it there (`Overtaken`), so never where one process has the directory to itself.
  `LockMovesOn`, the safety half of `RequestsEnd`: whoever waits
  for a lock has exactly one living request of its process before it.
* `SelfHostedIndexProofs`: for any number of processes, pages and downloads, all settings, ages and TTLs.  `IInv`
  says of the rows what is true of them whoever wrote them last: the metadata is a `Snapshot` of upstream and has
  all it had `Since` the time it carries, a scan is `Honest`; of each page, what it read and that the settings
  there are now are among those it `held`; of each process, that it follows one of the settings in `inForce`; of
  each download, that its verdict had a cause in its `basis`.  `AdmittedWithCause` is not inductive by itself,
  because the two looks of a download may meet different policies, and because the scan it uses is another
  request's.  Honesty of scans needs that a page takes its `now` before it asks OSV, however late it stores.
  `SettledStays` is the same as for `PublicIndex`: only answers under way at a disclosure can undo a denial.
* `DeploymentProofs`: for any number of executions of any releases, of replicas, commands and requests.
  `MigrateInv` adds to `AppliedInOrder` who has the lock at which statement (`Locking`: whoever has an open
  transaction holds it) and what the transaction has written (`Progress`), from which `NextFile` concludes that
  one more file keeps the order.  `TokensInv` relates each open transaction to the rows it waits for.  `Running`
  keeps a replica's tables, since no step removes one.  `Projection` lets `RepositoryTokens` use what is proved
  of `Migrate`. `WholeFilesOnly`: each step leaves schema and rows alone or adds exactly the next file with its
  row. `LockMovesOn`, the safety half of `JobsEnd`: whoever waits is queued or has the lock, and whoever has it
  waits for nobody.

Theorems without a run of their own (`TablesOrdered`, `RoomIsUsed`, `BytesStay` and the like) were model-checked on
the instances of section 3 before they were proved; those that accompany a finding are violated there without
their condition, so that it is not idle.

Only model-checked: the liveness properties `UploadsEnd`, `CurrentWhileRoom`, `RequestsEnd` and `JobsEnd`, since
liveness under fairness and `ENABLED` are outside this prover's reach.  What each of them needs of single states
and steps is proved, as said above; what remains with TLC is that fairness turns it into progress.  The properties
of the runs that expect a violation (section 5) do not hold of the code and have no theorem.  No module has a
recursive definition, whose value for every input would be an induction over data, also outside its reach.

## 5. Where code and documents disagree

* `d1_replaced_twice`: two concurrent replacements of one override both stand on D1 (`worker.py:378-454`).
  `EndsAreFinal`: only replacements that were checked before the first was written can.
* `known_vulnerable`: a late OSV answer overwrites a newer scan, and a release already denied as vulnerable is let
  through again (`cloudflare_index.py:481`); what still holds is `ExposureBounded` and, once the answers that were
  under way at the disclosure have arrived, `SettledStays`.
* `late_collision`: on PostgreSQL a collision recorded between the INSERT that checked for one and the UPDATE that
  claims the name leaves a claimed name with a collision nobody approved (`postgres.py:297-325`; the D1 batch has
  no such gap).  `CollisionBlocks`: once the uploads under way have ended, the collision blocks the name.

More were met on the way.  They have no run of their own: a property states what holds in spite of them.

* With more projects in use than a batch holds, the self-hosted refresh takes the same ones in every pass (`ORDER
  BY requested_at DESC LIMIT ?`, `database.py:238`, `postgres.py:206`), although `src/README.md` 346-347 says that
  it "periodically refreshes advisories for projects used within the active window".  `Room` in
  `CurrentWhileRoom` asks for a batch that holds them all.
* On the self-hosted service a changed setting reaches a download only through a page that the same process
  answers afterwards, and a restart brings the deployment's values back until then (`application.py:102`,
  `artifacts.py:111`), although `configure_policy` says "for the next request" (`artifacts.py:114`).
  `AdmittedWithCause` states which settings a download can have followed.
* `initialize` says "Verify that the separately migrated schema is available." (`postgres.py:30`), and looks for
  two tables: a replica may start before a later file is applied, or before its role has its rights.
  `Consistent` of `RepositoryTokens` promises the two.
* A late answer of OSV overwrites a newer row of the same version set on the self-hosted service too
  (`advisories.py:70`).  `RowsTruthful`, `AdmittedWithCause` and `SettledStays` hold in spite of it.
* On D1 an override with a whole-second expiry still decides during that second, because `isoformat()` omits a
  zero fraction and "Z" sorts after "." (`cloudflare_index.py:361`).  `EndsAtExpiry` allows D1 that second.
* A safe file without an upload time, itself hidden, suppresses the fallback, since it counts as old enough
  (`vulnerabilities.py:110`).  `TimedFallbackAdmits` is stated for files that have one.
* On Cloudflare projects without versions are never stored as scanned, come first in every pass, and a batch full
  of them keeps all others out (`cloudflare_index.py:519`).  `Room` in `CurrentWhileRoom` excludes that.
* A project at whose turn an exception ends the pass every time keeps those behind it from being refreshed, on
  either service (`refresh.py:65`; the loop of `cloudflare_index.py:531` catches none).  `Blocked` in
  `CurrentWhileRoom` excludes those; what it promises to the projects in front is that they are refreshed still.
* A slow page writes an earlier `requested_at` or `checked_at` over a later one (`cloudflare_index.py:252`, 410;
  `advisories.py:70`), and a project may lose its place in the refresh to one that a page scanned under an earlier
  time.  `NoOvertaking` says that it can do so only until the pages are over that began no later than its scan.
* Two processes with one directory may both see no file; the second replaces that of the first (`artifacts.py:49-52`),
  which matters for a sidecar whose digest changed in between.  `BytesAreImmutable` says when;
  `NothingUnverified` holds of both.
* Two Azure replicas stage blocks of one blob under one name; the commit of the first discards those of the second
  (`CommitBlob`), whose verified download is then refused (`azure_artifacts.py:138`), although
  `tests/test_azure_storage.py:24` tests that blocks do not replace each other.  `NothingUnverified` still holds.

## 6. Plan

What could be added, in this order:

1. The scheduled refresh as a third kind of request in `SelfHostedIndex`: it stores scans as a page does, with
   one batch's settings, and reads projects by the same cache.
2. Several projects in `PublicIndex`, to join it with the choice of targets in `AdvisoryRefresh`.

## 7. Not modelled

* Validation of publisher tokens (`identity.py`, `auth.py`).  It is a function of the request and of the issuer's
  keys.  Those are cached in one variable, which a refresh writes whole, with an expiry that counts from before it
  asked; two refreshes at once differ in nothing but which of two recent answers stays.
* The settings endpoints of the Worker and the audit rows of settings.  Every request of the Worker reads the
  settings itself, so what they change is a parameter of the request, constant in `PublicIndex`.
* Listings and downloads of private packages.  They read the rows, the `block` override and the object, in this
  order; the bytes of a row stay (`StorageSafe`), and `AdminOverrides` has the override.
* The list of tokens, and `last_used_at`, which nothing reads back to decide anything.
* The creation of the SQLite schema at start-up: one process, before it serves.
* HTML, content negotiation, the admin page and its lists, environment parsing, and the archive checks in detail:
  functions of one request without shared state.
