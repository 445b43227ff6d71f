---------------------------- MODULE PublicIndex -----------------------------
(***************************************************************************)
(* One upstream project behind the Cloudflare index (cloudflare_index.py): *)
(* listings (_project), artifact downloads (_artifact) and the scheduled   *)
(* advisory refresh (refresh_active_advisories), over the D1 tables they   *)
(* share, while upstream releases files, OSV discloses vulnerabilities,    *)
(* administrators set overrides and a private upload may claim the name.   *)
(*                                                                         *)
(* Every await is a step of its own; a request keeps what it read and the  *)
(* `now` it took.  Any await may raise, and every request may be slow.     *)
(***************************************************************************)
EXTENDS ReleasePolicy

CONSTANTS Version,      \* versions, newer is greater
          Listing,      \* listing requests
          Refresh,      \* runs of the scheduled refresh
          Download,     \* artifact requests
          MetadataTTL, AdvisoryTTL, ActiveWindow,
          InitialFiles, \* what upstream has at time 0
          Overridable,  \* versions that administrators override
          MayClaim,     \* whether a private upload may claim the name
          MaxTime       \* bound on the clock

ASSUME VersionAssumption == Version \subseteq Nat
ASSUME TimesAssumption == {MetadataTTL, AdvisoryTTL, ActiveWindow, MaxTime} \subseteq Nat
ASSUME ControlAssumption == Overridable \subseteq Version /\ MayClaim \in BOOLEAN
ASSUME RequestsAssumption ==
    Listing \cap Refresh = {} /\ Download \cap (Listing \cup Refresh) = {}

Never == MaxTime + 1                 \* not yet, or no such row
Scanner == Listing \cup Refresh      \* who may query OSV
File == [version : Version, uploaded : (0..MaxTime) \cup {NoTime}]

ASSUME InitialFilesAssumption ==
    /\ InitialFiles # {}
    /\ InitialFiles \subseteq [version : Version, uploaded : {0, NoTime}]

VARIABLES
    now,
    upstream,      \* files upstream lists
    disclosed,     \* when OSV first named a version vulnerable
    projects,      \* row: the cached files and when they were fetched
    requested,     \* advisory_targets.requested_at
    scans,         \* advisory_scans
    registered,    \* artifacts
    override,      \* the active override of each version
    claimed,       \* private_projects.claimed_at IS NOT NULL
    pc, start, payload, cached, answer,      \* listings and refreshes
    dpc, wanted, dstart, evaluation, verdict,   \* downloads
    afterClaim,    \* requests that began once the name was claimed, and
    warned,        \* downloads that began once their version had been denied
    noted          \* times that listings recorded in advisory_targets

world == <<upstream, disclosed>>
tables == <<projects, requested, scans, registered>>
control == <<override, claimed>>
listings == <<pc, start, payload, cached, answer>>
downloads == <<dpc, wanted, dstart, evaluation, verdict>>
history == <<afterClaim, warned, noted>>
vars == <<now, world, tables, control, listings, downloads, history>>

Scan == [key : SUBSET Version, bad : SUBSET Version, checked : 0..Never]
Answer == [files : SUBSET File, yanked : SUBSET Version,
           advisories : {"none", "HIT", "MISS", "STALE", "ERROR"}]

NoScan == [key |-> {}, bad |-> {}, checked |-> Never]
NoAnswer == [files |-> {}, yanked |-> {}, advisories |-> "none"]

Vulnerable == {v \in Version : disclosed[v] <= now}

TypeOK ==
    /\ now \in 0..MaxTime
    /\ upstream \in SUBSET File
    /\ disclosed \in [Version -> 0..Never]
    /\ projects \in [files : SUBSET File, fetched : 0..Never]
    /\ requested \in 0..Never
    /\ scans \in SUBSET Scan
    /\ registered \in SUBSET File
    /\ override \in [Version -> {"none", "allow", "block"}]
    /\ claimed \in BOOLEAN
    /\ pc \in [Scanner -> {"idle", "cached", "fetch", "store", "target", "scan", "osv",
                           "record", "overrides", "register", "prune", "done"}]
    /\ start \in [Scanner -> 0..MaxTime]
    /\ payload \in [Scanner -> SUBSET File]
    /\ cached \in [Scanner -> Scan]
    /\ answer \in [Scanner -> Answer]
    /\ dpc \in [Download -> {"idle", "owns", "overrides", "advisory", "age", "done"}]
    /\ wanted \in [Download -> File]
    /\ dstart \in [Download -> 0..MaxTime]
    /\ evaluation \in [Download -> Scan]
    /\ verdict \in [Download -> {"none", "allowed", "eligible", "vulnerable", "denied"}]
    /\ afterClaim \in SUBSET (Listing \cup Download)
    /\ warned \in SUBSET Download
    /\ noted \in SUBSET (0..MaxTime)

\* The project is new here, or cached from earlier with its target pruned.
Init ==
    /\ now = 0
    /\ upstream = InitialFiles
    /\ disclosed = [v \in Version |-> Never]
    /\ projects \in {[files |-> {}, fetched |-> Never], [files |-> InitialFiles, fetched |-> 0]}
    /\ requested = Never
    /\ scans = {}
    /\ registered = {}
    /\ override = [v \in Version |-> "none"]
    /\ claimed = FALSE
    /\ pc = [s \in Scanner |-> "idle"]
    /\ start = [s \in Scanner |-> 0]
    /\ payload = [s \in Scanner |-> {}]
    /\ cached = [s \in Scanner |-> NoScan]
    /\ answer = [s \in Scanner |-> NoAnswer]
    /\ dpc = [d \in Download |-> "idle"]
    /\ wanted \in [Download -> InitialFiles]
    /\ dstart = [d \in Download |-> 0]
    /\ evaluation = [d \in Download |-> NoScan]
    /\ verdict = [d \in Download |-> "none"]
    /\ afterClaim = {}
    /\ warned = {}
    /\ noted = {}

-----------------------------------------------------------------------------
(* The world outside the request handlers. *)

Tick == /\ now < MaxTime
        /\ now' = now + 1
        /\ UNCHANGED <<world, tables, control, listings, downloads, history>>

\* A new version; its first file carries the time of the upload.
Release(v) == /\ \A f \in upstream : f.version # v
              /\ upstream' = upstream \cup {[version |-> v, uploaded |-> now]}
              /\ UNCHANGED <<now, disclosed, tables, control, listings, downloads, history>>

Disclose(v) == /\ \E f \in upstream : f.version = v
               /\ disclosed[v] = Never
               /\ disclosed' = [disclosed EXCEPT ![v] = now]
               /\ UNCHANGED <<now, upstream, tables, control, listings, downloads, history>>

\* AdminOverrides, seen from here.
SetOverride(v, action) ==
    /\ v \in Overridable
    /\ override[v] # action
    /\ override' = [override EXCEPT ![v] = action]
    /\ UNCHANGED <<now, world, tables, claimed, listings, downloads, history>>

\* PrivatePackages, seen from here: a first private file was published.
Claim == /\ MayClaim /\ ~claimed
         /\ claimed' = TRUE
         /\ UNCHANGED <<now, world, tables, override, listings, downloads, history>>

-----------------------------------------------------------------------------
(* Listings: _project *)

Goto(s, label) == pc' = [pc EXCEPT ![s] = label]

\* A request ends, and what it had read is gone.
End(s) == /\ Goto(s, "done")
          /\ payload' = [payload EXCEPT ![s] = {}]
          /\ cached' = [cached EXCEPT ![s] = NoScan]

\* Mutant: ownership is not looked at.
BeginUnowned(l) == /\ pc[l] = "idle"
                   /\ Goto(l, "cached")
                   /\ afterClaim' = IF claimed THEN afterClaim \cup {l} ELSE afterClaim
                   /\ UNCHANGED <<now, world, tables, control, start, payload, cached, answer,
                                  downloads, warned, noted>>

\* An owned name is answered from the private index instead.
Begin(l) == /\ pc[l] = "idle"
            /\ Goto(l, IF claimed THEN "done" ELSE "cached")
            /\ afterClaim' = IF claimed THEN afterClaim \cup {l} ELSE afterClaim
            /\ UNCHANGED <<now, world, tables, control, start, payload, cached, answer,
                           downloads, warned, noted>>

NoProject == projects.fetched = Never

\* _cached_project; `now` is taken once the row is there.
ReadCached(l) ==
    /\ pc[l] = "cached"
    /\ start' = [start EXCEPT ![l] = now]
    /\ payload' = [payload EXCEPT ![l] = projects.files]
    /\ Goto(l, IF NoProject \/ now > projects.fetched + MetadataTTL THEN "fetch" ELSE "target")
    /\ UNCHANGED <<now, world, tables, control, cached, answer, downloads, history>>

Fetch(l) == /\ pc[l] = "fetch"
            /\ payload' = [payload EXCEPT ![l] = upstream]
            /\ Goto(l, "store")
            /\ UNCHANGED <<now, world, tables, control, start, cached, answer, downloads, history>>

\* STALE: upstream failed and there is a row, however old.
FetchFails(l) == /\ pc[l] = "fetch"
                 /\ payload[l] # {}
                 /\ Goto(l, "target")
                 /\ UNCHANGED <<now, world, tables, control, start, payload, cached, answer,
                                downloads, history>>

StoreProject(l) == /\ pc[l] = "store"
                   /\ projects' = [files |-> payload[l], fetched |-> start[l]]
                   /\ Goto(l, "target")
                   /\ UNCHANGED <<now, world, requested, scans, registered, control, start,
                                  payload, cached, answer, downloads, history>>

RecordTarget(l) == /\ pc[l] = "target"
                   /\ requested' = start[l]
                   /\ noted' = noted \cup {start[l]}
                   /\ Goto(l, "scan")
                   /\ UNCHANGED <<now, world, projects, scans, registered, control, start,
                                  payload, cached, answer, downloads, afterClaim, warned>>

-----------------------------------------------------------------------------
(* _evaluate_advisories, which listings and refreshes share *)

Versions(files) == {f.version : f \in files}

\* The scan is not older than the advisory TTL.
Fresh(s, at) == at <= s.checked + AdvisoryTTL

Evaluated(s, scan, status) ==
    /\ cached' = [cached EXCEPT ![s] = scan]
    /\ answer' = [answer EXCEPT ![s].advisories = status]

\* _cached_advisories: a scan of these very versions.  A refresh forces OSV.
ReadScan(s) ==
    LET key == Versions(payload[s])
        rows == {r \in scans : r.key = key}
    IN
    /\ pc[s] = "scan"
    /\ \/ /\ rows = {}
          /\ Evaluated(s, NoScan, "none")
          /\ Goto(s, "osv")
       \/ \E r \in rows :
          /\ Evaluated(s, r, IF s \in Listing /\ Fresh(r, start[s]) THEN "HIT" ELSE "none")
          /\ Goto(s, IF s \in Listing /\ Fresh(r, start[s]) THEN "overrides" ELSE "osv")
    /\ UNCHANGED <<now, world, tables, control, start, payload, downloads, history>>

\* Where a request goes once its advisories are evaluated.
Onward(s) == IF s \in Listing THEN "overrides" ELSE "prune"

\* _query_osv: what OSV knows when it answers, filed under the time `now` that
\* the request took when it began.
QueryOsv(s) ==
    LET key == Versions(payload[s]) IN
    /\ pc[s] = "osv"
    /\ Evaluated(s, [key |-> key, bad |-> key \cap Vulnerable, checked |-> start[s]], "MISS")
    /\ Goto(s, "record")
    /\ UNCHANGED <<now, world, tables, control, start, payload, downloads, history>>

\* Mutant: an old scan is stored again under the time of this request.
OsvFailsTouching(s) ==
    /\ pc[s] = "osv"
    /\ cached' = [cached EXCEPT ![s].checked = start[s]]
    /\ answer' = [answer EXCEPT ![s].advisories = IF cached[s] = NoScan THEN "ERROR" ELSE "STALE"]
    /\ Goto(s, IF cached[s] = NoScan THEN Onward(s) ELSE "record")
    /\ UNCHANGED <<now, world, tables, control, start, payload, downloads, history>>

\* Mutant: a failure without an old scan is reported like an answer.
OsvFailsSilently(s) ==
    /\ pc[s] = "osv"
    /\ answer' = [answer EXCEPT ![s].advisories = IF cached[s] = NoScan THEN "MISS" ELSE "STALE"]
    /\ Goto(s, Onward(s))
    /\ UNCHANGED <<now, world, tables, control, start, payload, cached, downloads, history>>

\* The old scan if there is one, and otherwise none at all.
OsvFails(s) ==
    /\ pc[s] = "osv"
    /\ answer' = [answer EXCEPT ![s].advisories = IF cached[s] = NoScan THEN "ERROR" ELSE "STALE"]
    /\ Goto(s, Onward(s))
    /\ UNCHANGED <<now, world, tables, control, start, payload, cached, downloads, history>>

\* _store_advisories: upsert one version set, delete every other.
StoreScan(s) ==
    LET upserted == {r \in scans : r.key # cached[s].key} \cup {cached[s]} IN
    /\ pc[s] = "record"
    /\ scans' = {r \in upserted : r.key = cached[s].key}
    /\ Goto(s, Onward(s))
    /\ UNCHANGED <<now, world, projects, requested, registered, control, start, payload, cached,
                   answer, downloads, history>>

\* _active_overrides, then the policy, at the request's own time.
ReadOverrides(l) ==
    /\ pc[l] = "overrides"
    /\ answer' = [answer EXCEPT ![l].files = Visible(payload[l], cached[l].bad, override, start[l]),
                                ![l].yanked = cached[l].bad]
    /\ Goto(l, "register")
    /\ UNCHANGED <<now, world, tables, control, start, payload, cached, downloads, history>>

\* _register_and_rewrite, and the response.
Register(l) == /\ pc[l] = "register"
               /\ registered' = registered \cup answer[l].files
               /\ End(l)
               /\ UNCHANGED <<now, world, projects, requested, scans, control, start, answer,
                              downloads, history>>

-----------------------------------------------------------------------------
(* refresh_active_advisories *)

\* A project used inside the active window, cached and not privately owned.
Select(r) ==
    /\ pc[r] = "idle"
    /\ start' = [start EXCEPT ![r] = now]
    /\ Goto(r, IF requested # Never /\ requested + ActiveWindow >= now /\ ~NoProject /\ ~claimed
               THEN "cached" ELSE "prune")
    /\ UNCHANGED <<now, world, tables, control, payload, cached, answer, downloads, history>>

RefreshCached(r) ==
    /\ pc[r] = "cached"
    /\ payload' = [payload EXCEPT ![r] = projects.files]
    /\ Goto(r, "scan")
    /\ UNCHANGED <<now, world, tables, control, start, cached, answer, downloads, history>>

\* Mutant: targets are pruned whatever their age.
PruneAll(r) ==
    /\ pc[r] = "prune"
    /\ requested' = Never
    /\ End(r)
    /\ answer' = [answer EXCEPT ![r] = NoAnswer]
    /\ start' = [start EXCEPT ![r] = 0]
    /\ UNCHANGED <<now, world, projects, scans, registered, control, downloads, history>>

Prune(r) ==
    /\ pc[r] = "prune"
    /\ requested' = IF requested + ActiveWindow < start[r] THEN Never ELSE requested
    /\ End(r)
    /\ answer' = [answer EXCEPT ![r] = NoAnswer]
    /\ start' = [start EXCEPT ![r] = 0]
    /\ UNCHANGED <<now, world, projects, scans, registered, control, downloads, history>>

\* An await raised: no answer, and nothing after it.  A write whose response
\* was lost is the write followed by this.
Fail(s) == /\ pc[s] \notin {"idle", "done"}
           /\ End(s)
           /\ answer' = [answer EXCEPT ![s] = NoAnswer]
           /\ start' = [start EXCEPT ![s] = 0]
           /\ UNCHANGED <<now, world, tables, control, downloads, history>>

-----------------------------------------------------------------------------
(* Downloads: _artifact and _artifact_policy_denial *)

DGoto(d, label) == dpc' = [dpc EXCEPT ![d] = label]

Decide(d, what) == DGoto(d, "done") /\ verdict' = [verdict EXCEPT ![d] = what]

Proceed(d, label) == DGoto(d, label) /\ UNCHANGED verdict

\* A client asks for an artifact that some listing registered.
ReadArtifact(d, f) ==
    /\ dpc[d] = "idle"
    /\ f \in registered
    /\ wanted' = [wanted EXCEPT ![d] = f]
    /\ dstart' = [dstart EXCEPT ![d] = now]
    /\ DGoto(d, "owns")
    /\ afterClaim' = IF claimed THEN afterClaim \cup {d} ELSE afterClaim
    /\ warned' = IF \E e \in Download : verdict[e] = "vulnerable" /\ wanted[e].version = f.version
                 THEN warned \cup {d} ELSE warned
    /\ UNCHANGED <<now, world, tables, control, listings, evaluation, verdict, noted>>

ReadOwner(d) ==
    /\ dpc[d] = "owns"
    /\ IF claimed THEN Decide(d, "denied") ELSE Proceed(d, "overrides")
    /\ UNCHANGED <<now, world, tables, control, listings, wanted, dstart, evaluation, history>>

ReadAction(d) ==
    LET action == override[wanted[d].version] IN
    /\ dpc[d] = "overrides"
    /\ CASE action = "allow" -> Decide(d, "allowed")
         [] action = "block" -> Decide(d, "denied")
         [] OTHER -> Proceed(d, "advisory")
    /\ UNCHANGED <<now, world, tables, control, listings, wanted, dstart, evaluation, history>>

\* now - checked_at < advisory_ttl: strictly, unlike Fresh.
Current(r, d) == dstart[d] < r.checked + AdvisoryTTL

\* The latest scan of the project, of whatever versions.
ReadAdvisory(d) ==
    LET v == wanted[d].version IN
    /\ dpc[d] = "advisory"
    /\ \/ scans = {} /\ Decide(d, "denied") /\ UNCHANGED evaluation
       \/ \E r \in scans :
          /\ \A q \in scans : q.checked <= r.checked
          /\ evaluation' = [evaluation EXCEPT ![d] = r]
          /\ CASE v \notin r.key \/ ~Current(r, d) -> Decide(d, "denied")
               [] v \in r.bad -> Decide(d, "vulnerable")
               [] OTHER -> Proceed(d, "age")
    /\ UNCHANGED <<now, world, tables, control, listings, wanted, dstart, history>>

\* _artifact_age_denial
CheckAge(d) ==
    /\ dpc[d] = "age"
    /\ Decide(d, IF wanted[d] \in Eligible(projects.files, evaluation[d].bad, dstart[d])
                 THEN "eligible" ELSE "denied")
    /\ UNCHANGED <<now, world, tables, control, listings, wanted, dstart, evaluation, history>>

DownloadFails(d) ==
    /\ dpc[d] \notin {"idle", "done"}
    /\ Proceed(d, "done")
    /\ UNCHANGED <<now, world, tables, control, listings, wanted, dstart, evaluation, history>>

-----------------------------------------------------------------------------
World == \/ Tick
         \/ \E v \in Version : \/ Release(v)
                               \/ Disclose(v)
                               \/ \E a \in {"none", "allow", "block"} : SetOverride(v, a)
         \/ Claim

Evaluate(s) == ReadScan(s) \/ QueryOsv(s) \/ OsvFails(s) \/ StoreScan(s) \/ Fail(s)

ListingStep(l) == \/ Begin(l) \/ ReadCached(l) \/ Fetch(l) \/ FetchFails(l) \/ StoreProject(l)
                  \/ RecordTarget(l) \/ ReadOverrides(l) \/ Register(l)

RefreshStep(r) == Select(r) \/ RefreshCached(r) \/ Prune(r)

DownloadStep(d) == \/ \E f \in registered : ReadArtifact(d, f)
                   \/ ReadOwner(d) \/ ReadAction(d) \/ ReadAdvisory(d) \/ CheckAge(d)
                   \/ DownloadFails(d)

Next == \/ World
        \/ \E l \in Listing : ListingStep(l)
        \/ \E r \in Refresh : RefreshStep(r)
        \/ \E s \in Scanner : Evaluate(s)
        \/ \E d \in Download : DownloadStep(d)

Spec == Init /\ [][Next]_vars

-----------------------------------------------------------------------------
(* Properties *)

\* A download that policy let through was checked against OSV within the
\* advisory TTL: its version was not publicly vulnerable for longer than that
\* when the download began, however slow or concurrent the scans were.
ExposureBounded ==
    \A d \in Download : verdict[d] = "eligible" =>
        disclosed[wanted[d].version] + AdvisoryTTL > dstart[d]

\* A listing whose advisories are not reported STALE or in ERROR yanks every
\* release it shows that has been publicly vulnerable for the advisory TTL.
ListingMarks ==
    \A l \in Listing : answer[l].advisories \in {"HIT", "MISS"} =>
        \A f \in answer[l].files :
            f.version \in answer[l].yanked \/ disclosed[f.version] + AdvisoryTTL >= start[l]

TooNew(f, at) == f.uploaded # NoTime /\ ~OldEnough(f, MinimumAge, at)

\* Only vulnerable releases are old enough at that time, upstream itself asked.
OnlyVulnerableAged(at) ==
    \A g \in upstream : OldEnough(g, MinimumAge, at) => disclosed[g.version] <= now

\* A file younger than the minimum age is let through without an override only
\* past the fallback's floor and while every release old enough, also those
\* that no cache has seen yet, is vulnerable: stale metadata, scans of other
\* version sets and slow requests never admit it early.
LastResort ==
    \A d \in Download : verdict[d] = "eligible" /\ TooNew(wanted[d], dstart[d]) =>
        OldEnough(wanted[d], FallbackAge, dstart[d]) /\ OnlyVulnerableAged(dstart[d])

\* A request that began once the name was privately owned gets nothing public,
\* not even through artifact links that were handed out before.
OwnedNeverPublic ==
    \A r \in afterClaim :
        /\ r \in Listing => answer[r].files = {}
        /\ r \in Download => verdict[r] \notin {"allowed", "eligible"}

\* A project that a listing answered stays among those whose advisories are
\* refreshed, unless some listing recorded a time before the active window: a
\* slow one may put its earlier time over a later one.
TargetKept ==
    requested = Never /\ (\E l \in Listing : answer[l].files # {}) =>
        \E t \in noted : t + ActiveWindow < now

\* README: "Known-vulnerable releases are marked as yanked and denied even
\* through an exact lock or previously issued artifact URL": once a download
\* was denied as vulnerable, no later one is let through without an override.
\* (OSV withdraws nothing here.)
KnownStaysDenied == \A d \in warned : verdict[d] # "eligible"

-----------------------------------------------------------------------------
(* The inductive invariant behind ExposureBounded, ListingMarks, LastResort, *)
(* OwnedNeverPublic and TargetKept.                                          *)

\* No time lies in the future.
TimesPast ==
    /\ \A f \in upstream : f.uploaded # NoTime => f.uploaded <= now
    /\ \A s \in Scanner : start[s] <= now
    /\ \A d \in Download : dstart[d] <= now

\* What upstream listed at one moment: with a file, every file before it.
Snapshot(files, all) ==
    /\ files \subseteq all
    /\ \A f \in files, g \in all :
          f.uploaded # NoTime /\ g.uploaded # NoTime /\ g.uploaded < f.uploaded => g \in files

Snapshots ==
    /\ Snapshot(projects.files, upstream)
    /\ \A s \in Scanner : Snapshot(payload[s], upstream) /\ answer[s].files \subseteq upstream
    /\ registered \subseteq upstream
    /\ \A d \in Download : wanted[d] \in upstream

\* A scan never says more than OSV did, nor less than OSV did when it was
\* `checked`: the request asked OSV after it took its `now`.
Honest(r, at, since) ==
    /\ r.bad \subseteq r.key
    /\ r.key # {} => r.checked <= at
    /\ \A v \in r.bad : since[v] <= at
    /\ \A v \in r.key \ r.bad : since[v] >= r.checked

HonestScans ==
    /\ \A r \in scans : Honest(r, now, disclosed)
    /\ \A s \in Scanner : Honest(cached[s], now, disclosed)
    /\ \A d \in Download : Honest(evaluation[d], now, disclosed)

\* What a listing or a refresh knows when it is about to take a step.
ScannerKnows(s) ==
    /\ answer[s].files # {} => pc[s] \in {"register", "done"}
    /\ answer[s].advisories \in {"HIT", "MISS"} =>
          /\ pc[s] \in {"record", "overrides", "register", "prune", "done"}
          /\ pc[s] \in {"record", "overrides"} =>
                cached[s].key = Versions(payload[s]) /\ Fresh(cached[s], start[s])
    /\ s \in afterClaim => pc[s] = "done" /\ answer[s].files = {}

\* The target carries the time of a listing, and is gone only when one was old.
TargetsNoted ==
    /\ requested # Never => requested \in noted
    /\ requested = Never /\ noted # {} => \E t \in noted : t + ActiveWindow < now
    /\ \A l \in Listing :
          pc[l] \in {"scan", "osv", "record", "overrides", "register"} \/ answer[l].files # {} => noted # {}

\* What a download knows from then on.
DownloadKnows(d) ==
    /\ dpc[d] # "done" => verdict[d] = "none"
    /\ dpc[d] = "age" \/ verdict[d] = "eligible" =>
          /\ wanted[d].version \in evaluation[d].key \ evaluation[d].bad
          /\ dstart[d] < evaluation[d].checked + AdvisoryTTL
    /\ d \in afterClaim => claimed /\ dpc[d] \in {"owns", "done"} /\ verdict[d] \in {"none", "denied"}

IInv == /\ TypeOK
        /\ TimesPast
        /\ Snapshots
        /\ HonestScans
        /\ \A s \in Scanner : ScannerKnows(s)
        /\ \A d \in Download : DownloadKnows(d)
        /\ TargetsNoted
        /\ ListingMarks
        /\ LastResort
=============================================================================
