-------------------------- MODULE SelfHostedIndex ---------------------------
(***************************************************************************)
(* One upstream project behind the self-hosted service: project pages      *)
(* (simple_project of application.py, with CachingRepository and           *)
(* OsvAdvisoryPolicy) and downloads up to their policy decision, while     *)
(* upstream releases files, OSV discloses vulnerabilities, administrators  *)
(* change the runtime settings and overrides, a private upload may claim   *)
(* the name, and processes restart.                                        *)
(*                                                                         *)
(* Pages read the settings from the database; downloads do not: they       *)
(* follow what the last page on their process put into its artifact        *)
(* service (configure_policy).  Every await is a step of its own.          *)
(***************************************************************************)
EXTENDS ReleasePolicy

CONSTANTS Version,      \* versions, newer is greater
          Replica,      \* processes of the service
          Page,         \* page requests
          Download,     \* artifact requests
          On,           \* the process each request is routed to
          MetadataTTL,
          Settings,     \* values of osv_enabled and advisory_ttl_seconds
          Default,      \* the deployment's configuration of them
          InitialFiles, \* what upstream has at time 0
          Exposed,      \* versions that OSV may disclose
          Overridable,  \* versions that administrators override
          MaxTime,      \* bound on the clock
          Quiet,        \* bound: from this time on nothing is released or disclosed
          MaxChanges    \* bound on what administrators and private uploads change

ASSUME VersionAssumption == Version \subseteq Nat
ASSUME TimesAssumption == {MetadataTTL, MaxTime, Quiet, MaxChanges} \subseteq Nat
ASSUME RequestsAssumption ==
    /\ Page \cap Download = {}
    /\ On \in [Page \cup Download -> Replica]
ASSUME SettingsAssumption ==
    /\ Settings \subseteq [osv : BOOLEAN, ttl : Nat]
    /\ Default \in Settings
    /\ \A s \in Settings, key \in {"osv", "ttl"} : [s EXCEPT ![key] = Default[key]] \in Settings
ASSUME OverridableAssumption == Overridable \cup Exposed \subseteq Version

Never == MaxTime + 1                 \* not yet, or no such row
File == [version : Version, uploaded : (0..MaxTime) \cup {NoTime}]

ASSUME InitialFilesAssumption ==
    /\ InitialFiles # {}
    /\ InitialFiles \subseteq [version : Version, uploaded : {0, NoTime}]

VARIABLES
    backend,       \* SQLite and files, or PostgreSQL and Azure Blob
    now,
    upstream,      \* files upstream lists
    disclosed,     \* when OSV first named a version vulnerable
    projects,      \* row: the cached files and when they were fetched
    scans,         \* advisory_scans, one row for each version set
    registered,    \* artifacts
    setting,       \* settings, with the defaults of the keys that have no row
    override,      \* the active override of each version
    claimed,       \* private_projects.claimed_at IS NOT NULL
    changes,       \* how often the last three changed, see MaxChanges
    policy,        \* _enforce_advisories and _advisory_ttl of each process
    inForce,       \* history: see below
    page,          \* each page request: where it is and what it has read
    download       \* each download: where it is and what it has read

\* The history of the settings, for AdmittedWithCause.  page[p].held: those
\* there have been since the page began; inForce: since the page began that
\* last configured the process; download[d].basis: the same, when the download
\* looked at the policy.  download[d].late: it began once the name was claimed.

world == <<backend, now, upstream, disclosed>>
tables == <<projects, scans, registered>>
control == <<setting, override, claimed, changes>>
memory == <<policy, inForce>>
vars == <<world, tables, control, memory, page, download>>

Scan == [key : SUBSET Version, bad : SUBSET Version, checked : 0..Never]
NoScan == [key |-> {}, bad |-> {}, checked |-> Never]
NoFile == [version |-> 0, uploaded |-> Never]

PageStates == {"idle", "owns", "settings", "configure", "project", "fetch", "store", "target",
               "scan", "osv", "record", "overrides", "register", "done"}

\* A request before it has read anything.
NewPage == [pc |-> "idle", runtime |-> Default, at |-> 0, start |-> 0, payload |-> {},
            cached |-> NoScan, bad |-> {}, advisories |-> "none", allowed |-> {}, held |-> {}]
NewDownload == [pc |-> "idle", file |-> NoFile, decided |-> 0, basis |-> {}, late |-> FALSE]

Vulnerable == {v \in Version : disclosed[v] <= now}

TypeOK ==
    /\ backend \in {"sqlite", "azure"}
    /\ now \in 0..MaxTime
    /\ upstream \subseteq File
    /\ disclosed \in [Version -> 0..Never]
    /\ projects.files \subseteq File /\ projects.fetched \in 0..Never
    /\ scans \subseteq Scan
    /\ registered \subseteq File
    /\ setting \in Settings
    /\ override \in [Version -> {"none", "allow", "block"}]
    /\ claimed \in BOOLEAN
    /\ changes \in 0..MaxChanges
    /\ policy \in [Replica -> Settings]
    /\ inForce \in [Replica -> SUBSET Settings]
    /\ page \in [Page -> [pc : PageStates, runtime : Settings, at : 0..MaxTime, start : 0..MaxTime,
                          payload : SUBSET File, cached : Scan, bad : SUBSET Version,
                          advisories : {"none", "HIT", "MISS", "STALE", "ERROR", "DISABLED"},
                          allowed : SUBSET Version, held : SUBSET Settings]]
    /\ download \in [Download -> [pc : {"idle", "owns", "overrides", "advisory", "admitted"},
                                  file : File \cup {NoFile}, decided : 0..MaxTime,
                                  basis : SUBSET Settings, late : BOOLEAN]]

Init ==
    /\ backend \in {"sqlite", "azure"}
    /\ now = 0
    /\ upstream = InitialFiles
    /\ disclosed = [v \in Version |-> Never]
    /\ projects = [files |-> {}, fetched |-> Never]
    /\ scans = {}
    /\ registered = {}
    /\ setting \in IF backend = "azure" THEN Settings ELSE {Default}
    /\ override = [v \in Version |-> "none"]
    /\ claimed = FALSE
    /\ changes = 0
    /\ policy = [r \in Replica |-> Default]
    /\ inForce = [r \in Replica |-> {Default}]
    /\ page = [p \in Page |-> NewPage]
    /\ download = [d \in Download |-> NewDownload]

-----------------------------------------------------------------------------
(* The world outside the request handlers. *)

Tick == /\ now < MaxTime
        /\ now' = now + 1
        /\ UNCHANGED <<backend, upstream, disclosed, tables, control, memory, page, download>>

\* A new version; its first file carries the time of the upload.
Release(v) == /\ now < Quiet
              /\ \A f \in upstream : f.version # v
              /\ upstream' = upstream \cup {[version |-> v, uploaded |-> now]}
              /\ UNCHANGED <<backend, now, disclosed, tables, control, memory, page, download>>

Disclose(v) == /\ v \in Exposed
               /\ now < Quiet
               /\ \E f \in upstream : f.version = v
               /\ disclosed[v] = Never
               /\ disclosed' = [disclosed EXCEPT ![v] = now]
               /\ UNCHANGED <<backend, now, upstream, tables, control, memory, page, download>>

Change == /\ backend = "azure"
          /\ changes < MaxChanges
          /\ changes' = changes + 1

\* AdminOverrides, seen from here.
SetOverride(v, action) ==
    /\ Change
    /\ v \in Overridable
    /\ override[v] # action
    /\ override' = [override EXCEPT ![v] = action]
    /\ UNCHANGED <<world, tables, setting, claimed, memory, page, download>>

\* PrivateService, seen from here: a first private file was published.
Claim == /\ Change
         /\ ~claimed
         /\ claimed' = TRUE
         /\ UNCHANGED <<world, tables, setting, override, memory, page, download>>

-----------------------------------------------------------------------------
(* Runtime settings: update_settings and reset_setting, one transaction each. *)

\* The table says s from now on.
Settle(s) ==
    /\ Change
    /\ setting' = s
    /\ page' = [p \in Page |-> IF page[p].pc \in {"owns", "settings", "configure"}
                               THEN [page[p] EXCEPT !.held = @ \cup {s}] ELSE page[p]]
    /\ inForce' = [r \in Replica |-> inForce[r] \cup {s}]
    /\ UNCHANGED <<world, tables, override, claimed, policy, download>>

\* parse_settings_update has refused what is out of bounds, as a whole.
UpdateSettings(s) == s # setting /\ Settle(s)

ResetSetting(key) == setting[key] # Default[key] /\ Settle([setting EXCEPT ![key] = Default[key]])

-----------------------------------------------------------------------------
(* Pages: simple_project, and CachingRepository.get_project *)

\* The request ends, and what it had read is gone.
EndPage(p) == page' = [page EXCEPT ![p] = [NewPage EXCEPT !.pc = "done"]]

\* On SQLite there is nobody to ask who owns the name, nor a settings table.
Begin(p) ==
    /\ page[p].pc = "idle"
    /\ page' = [page EXCEPT ![p].pc = IF backend = "azure" THEN "owns" ELSE "configure",
                            ![p].held = {setting}]
    /\ UNCHANGED <<world, tables, control, memory, download>>

\* An owned name is answered from the private packages instead.
ReadOwner(p) ==
    /\ page[p].pc = "owns"
    /\ IF claimed THEN EndPage(p) ELSE page' = [page EXCEPT ![p].pc = "settings"]
    /\ UNCHANGED <<world, tables, control, memory, download>>

\* state.settings(): the rows are there, the connection is still to be closed.
ReadSettings(p) ==
    /\ page[p].pc = "settings"
    /\ page' = [page EXCEPT ![p].pc = "configure", ![p].runtime = setting]
    /\ UNCHANGED <<world, tables, control, memory, download>>

\* Mutant: the artifact service is configured once, by the first page.
ConfigureOnce(p) ==
    /\ page[p].pc = "configure"
    /\ IF \E q \in Page : On[q] = On[p] /\ page[q].pc \notin {"idle", "owns", "settings", "configure"}
       THEN UNCHANGED policy
       ELSE policy' = [policy EXCEPT ![On[p]] = page[p].runtime]
    /\ inForce' = [inForce EXCEPT ![On[p]] = page[p].held]
    /\ page' = [page EXCEPT ![p].pc = "project", ![p].at = now, ![p].held = {}]
    /\ UNCHANGED <<world, tables, control, download>>

\* configure_policy, for every request of this process from now on; get_project
\* takes its `now` before it asks the database.
Configure(p) ==
    /\ page[p].pc = "configure"
    /\ policy' = [policy EXCEPT ![On[p]] = page[p].runtime]
    /\ inForce' = [inForce EXCEPT ![On[p]] = page[p].held]
    /\ page' = [page EXCEPT ![p].pc = "project", ![p].at = now, ![p].held = {}]
    /\ UNCHANGED <<world, tables, control, download>>

\* With these files the page takes its own `now`, and goes to the advisories if
\* the settings it read say so.
Listed(p, files) ==
    LET osv == page[p].runtime.osv IN
    page' = [page EXCEPT ![p].payload = files, ![p].start = now, ![p].at = 0,
                         ![p].pc = IF osv THEN "target" ELSE "overrides",
                         ![p].advisories = IF osv THEN "none" ELSE "DISABLED"]

\* The row, if it is there and fresh.
ReadProject(p) ==
    /\ page[p].pc = "project"
    /\ IF projects.fetched = Never \/ page[p].at > projects.fetched + MetadataTTL
       THEN page' = [page EXCEPT ![p].pc = "fetch", ![p].payload = projects.files]
       ELSE Listed(p, projects.files)
    /\ UNCHANGED <<world, tables, control, memory, download>>

Fetch(p) == /\ page[p].pc = "fetch"
            /\ page' = [page EXCEPT ![p].pc = "store", ![p].payload = upstream]
            /\ UNCHANGED <<world, tables, control, memory, download>>

\* STALE: upstream failed or has no such project, and there is a row.
FetchFails(p) ==
    /\ page[p].pc = "fetch"
    /\ page[p].payload # {}
    /\ Listed(p, page[p].payload)
    /\ UNCHANGED <<world, tables, control, memory, download>>

\* Mutant: the row says when it was stored, not when upstream was asked.
StoreProjectNow(p) ==
    /\ page[p].pc = "store"
    /\ projects' = [files |-> page[p].payload, fetched |-> now]
    /\ Listed(p, page[p].payload)
    /\ UNCHANGED <<world, scans, registered, control, memory, download>>

StoreProject(p) ==
    /\ page[p].pc = "store"
    /\ projects' = [files |-> page[p].payload, fetched |-> page[p].at]
    /\ Listed(p, page[p].payload)
    /\ UNCHANGED <<world, scans, registered, control, memory, download>>

-----------------------------------------------------------------------------
(* Pages: OsvAdvisoryPolicy.apply *)

\* record_advisory_target (the set the scheduled refresh works on); apply takes
\* a `now` of its own.
RecordTarget(p) ==
    /\ page[p].pc = "target"
    /\ page' = [page EXCEPT ![p].pc = "scan", ![p].at = now]
    /\ UNCHANGED <<world, tables, control, memory, download>>

Versions(files) == {f.version : f \in files}

\* The advisories a page goes on with.
Evaluated(p, scan, status) ==
    page' = [page EXCEPT ![p].bad = scan.bad, ![p].advisories = status, ![p].at = 0,
                         ![p].cached = IF status = "MISS" THEN scan ELSE NoScan,
                         ![p].pc = IF status = "MISS" THEN "record" ELSE "overrides"]

\* A scan of these very versions, not older than the page's advisory TTL.
ReadScan(p) ==
    LET rows == {r \in scans : r.key = Versions(page[p].payload)} IN
    /\ page[p].pc = "scan"
    /\ \/ rows = {} /\ page' = [page EXCEPT ![p].pc = "osv"]
       \/ \E r \in rows : IF page[p].at <= r.checked + page[p].runtime.ttl
                          THEN Evaluated(p, r, "HIT")
                          ELSE page' = [page EXCEPT ![p].pc = "osv", ![p].cached = r]
    /\ UNCHANGED <<world, tables, control, memory, download>>

\* What OSV knows when it answers, filed under the time before it was asked.
QueryOsv(p) ==
    LET key == Versions(page[p].payload) IN
    /\ page[p].pc = "osv"
    /\ Evaluated(p, [key |-> key, bad |-> key \cap Vulnerable, checked |-> page[p].at], "MISS")
    /\ UNCHANGED <<world, tables, control, memory, download>>

\* Mutant: a failure with an old scan is reported like a fresh one.
OsvFailsSilently(p) ==
    /\ page[p].pc = "osv"
    /\ Evaluated(p, page[p].cached, IF page[p].cached = NoScan THEN "ERROR" ELSE "HIT")
    /\ UNCHANGED <<world, tables, control, memory, download>>

\* The old scan if there is one, and otherwise none at all.
OsvFails(p) ==
    /\ page[p].pc = "osv"
    /\ Evaluated(p, page[p].cached, IF page[p].cached = NoScan THEN "ERROR" ELSE "STALE")
    /\ UNCHANGED <<world, tables, control, memory, download>>

\* Mutant: the scan is filed under the time it is stored.
StoreScanNow(p) ==
    /\ page[p].pc = "record"
    /\ scans' = {r \in scans : r.key # page[p].cached.key} \cup {[page[p].cached EXCEPT !.checked = now]}
    /\ page' = [page EXCEPT ![p].pc = "overrides", ![p].cached = NoScan]
    /\ UNCHANGED <<world, projects, registered, control, memory, download>>

\* put_advisories: upsert one version set, and keep every other.
StoreScan(p) ==
    /\ page[p].pc = "record"
    /\ scans' = {r \in scans : r.key # page[p].cached.key} \cup {page[p].cached}
    /\ page' = [page EXCEPT ![p].pc = "overrides", ![p].cached = NoScan]
    /\ UNCHANGED <<world, projects, registered, control, memory, download>>

\* active_overrides (none on SQLite), then the policy, at the page's own time.
ReadOverrides(p) ==
    /\ page[p].pc = "overrides"
    /\ page' = [page EXCEPT ![p].pc = "register",
                            ![p].payload = Visible(@, page[p].bad, override, page[p].start),
                            ![p].allowed = {v \in Version : override[v] = "allow"}]
    /\ UNCHANGED <<world, tables, control, memory, download>>

\* rewrite_urls registers what it links to; then the response.
Register(p) == /\ page[p].pc = "register"
               /\ registered' = registered \cup page[p].payload
               /\ EndPage(p)
               /\ UNCHANGED <<world, projects, scans, control, memory, download>>

\* An await raised: no answer, and nothing after it.  A write whose response
\* was lost is the write followed by this.
Fail(p) == /\ page[p].pc \notin {"idle", "done"}
           /\ EndPage(p)
           /\ UNCHANGED <<world, tables, control, memory, download>>

-----------------------------------------------------------------------------
(* Downloads: get_path and get_stream up to the decision *)

\* Its name is free for another request.
EndDownload(d) == download' = [download EXCEPT ![d] = NewDownload]

\* The policy of the process, as it is at this moment, on a download at step x.
\* An override decides by itself (AdminOverrides); with the advisory check off
\* the rest is admitted; and otherwise the scan is asked.
Enforced(d, x, action) ==
    IF action # "none" THEN NewDownload
    ELSE [x EXCEPT !.pc = IF policy[On[d]].osv THEN "advisory" ELSE "admitted",
                   !.decided = now,
                   !.basis = inForce[On[d]]]

\* A client asks for an artifact that some page registered.
ReadArtifact(d, f) ==
    LET begun == [NewDownload EXCEPT !.pc = "owns", !.file = f, !.late = claimed] IN
    /\ download[d].pc = "idle"
    /\ download' = [download EXCEPT ![d] = IF backend = "azure" THEN begun ELSE Enforced(d, begun, "none")]
    /\ UNCHANGED <<world, tables, control, memory, page>>

ReadProjectRow(d) ==
    /\ download[d].pc = "owns"
    /\ IF claimed THEN EndDownload(d) ELSE download' = [download EXCEPT ![d].pc = "overrides"]
    /\ UNCHANGED <<world, tables, control, memory, page>>

ReadAction(d) ==
    /\ download[d].pc = "overrides"
    /\ download' = [download EXCEPT ![d] = Enforced(d, @, override[download[d].file.version])]
    /\ UNCHANGED <<world, tables, control, memory, page>>

\* _authorize: the latest scan of the project, of whatever versions, and the
\* TTL that the process has when the row arrives.
Authorize(d) ==
    LET v == download[d].file.version IN
    /\ download[d].pc = "advisory"
    /\ \/ scans = {} /\ EndDownload(d)
       \/ \E r \in scans :
          /\ \A q \in scans : q.checked <= r.checked
          /\ IF v \in r.key \ r.bad /\ now < r.checked + policy[On[d]].ttl
             THEN download' = [download EXCEPT ![d].pc = "admitted", ![d].decided = now,
                                               ![d].basis = inForce[On[d]]]
             ELSE EndDownload(d)
    /\ UNCHANGED <<world, tables, control, memory, page>>

\* An await raised, or the file was admitted: ArtifactCache takes over.
Leave(d) == /\ download[d].pc # "idle"
            /\ EndDownload(d)
            /\ UNCHANGED <<world, tables, control, memory, page>>

-----------------------------------------------------------------------------
\* A process restarts: its requests end, and its artifact service starts with
\* the deployment's configuration until a page is asked for.
Restart(r) ==
    /\ policy' = [policy EXCEPT ![r] = Default]
    /\ inForce' = [inForce EXCEPT ![r] = {Default, setting}]
    /\ page' = [p \in Page |-> IF On[p] = r /\ page[p].pc # "idle"
                               THEN [NewPage EXCEPT !.pc = "done"] ELSE page[p]]
    /\ download' = [d \in Download |-> IF On[d] = r THEN NewDownload ELSE download[d]]
    /\ UNCHANGED <<world, tables, control>>

World == \/ Tick
         \/ \E v \in Version : \/ Release(v)
                               \/ Disclose(v)
                               \/ \E a \in {"none", "allow", "block"} : SetOverride(v, a)
         \/ Claim
         \/ \E s \in Settings : UpdateSettings(s)
         \/ \E key \in {"osv", "ttl"} : ResetSetting(key)

PageStep(p) == \/ Begin(p) \/ ReadOwner(p) \/ ReadSettings(p) \/ Configure(p)
               \/ ReadProject(p) \/ Fetch(p) \/ FetchFails(p) \/ StoreProject(p)
               \/ RecordTarget(p) \/ ReadScan(p) \/ QueryOsv(p) \/ OsvFails(p) \/ StoreScan(p)
               \/ ReadOverrides(p) \/ Register(p) \/ Fail(p)

DownloadStep(d) == \/ \E f \in registered : ReadArtifact(d, f)
                   \/ ReadProjectRow(d) \/ ReadAction(d) \/ Authorize(d) \/ Leave(d)

Next == \/ World
        \/ \E p \in Page : PageStep(p)
        \/ \E d \in Download : DownloadStep(d)
        \/ \E r \in Replica : Restart(r)

Spec == Init /\ [][Next]_vars

-----------------------------------------------------------------------------
(* Properties *)

\* The cached rows are true of the time they carry, whichever page stored them,
\* however late and over what: the project's files are all that upstream had by
\* then, a scan names every version of its set that was public by then.
RowsTruthful ==
    /\ projects.fetched # Never =>
           \A f \in upstream : f.uploaded # NoTime /\ f.uploaded < projects.fetched => f \in projects.files
    /\ \A r \in scans : \A v \in r.key \ r.bad : disclosed[v] >= r.checked

\* The same, one row for each version set, and every variable has its type.
Consistent ==
    /\ TypeOK
    /\ RowsTruthful
    /\ \A q, r \in scans : q.key = r.key => q = r

\* A file that policy let a download have is one the administrators' settings
\* admit: since the page began that its process follows (or since the process
\* started), the advisory check was off, or the version had not been publicly
\* vulnerable for an advisory TTL of that time.  Slow scans, scans of other
\* version sets, another page that reconfigures the process between the two
\* looks of a download, and restarts do not change that.  Nor is it a file of
\* a name that was privately owned when the download began.
AdmittedWithCause ==
    \A d \in Download : download[d].pc = "admitted" =>
        /\ ~download[d].late
        /\ \E s \in download[d].basis :
               ~s.osv \/ disclosed[download[d].file.version] + s.ttl > download[d].decided

\* A page that does not report its advisories STALE, in ERROR or DISABLED yanks
\* every release it shows that has been publicly vulnerable for the TTL.
PageMarks ==
    \A p \in Page : page[p].pc = "register" /\ page[p].advisories \in {"HIT", "MISS"} =>
        \A f \in page[p].payload :
            f.version \in page[p].bad \/ disclosed[f.version] + page[p].runtime.ttl >= page[p].start

TooNew(f, t) == f.uploaded # NoTime /\ ~OldEnough(f, MinimumAge, t)

\* A page shows a file younger than the minimum age without an override only
\* past the fallback's floor and while every release that upstream itself has
\* and that is old enough is vulnerable, however old its metadata and scan are.
PageLastResort ==
    \A p \in Page : page[p].pc = "register" =>
        \A f \in page[p].payload :
            TooNew(f, page[p].start) /\ f.version \notin page[p].allowed =>
                /\ OldEnough(f, FallbackAge, page[p].start)
                /\ \A g \in upstream :
                       OldEnough(g, MinimumAge, page[p].start) => disclosed[g.version] <= now

\* A page that upstream did not fail has every release that upstream had for
\* longer than the metadata TTL when the page asked, although a slow page may
\* put what it fetched earlier over what another fetched later.
MetadataCurrent ==
    [][\A p \in Page :
          page[p].pc \in {"project", "store"} /\ page'[p].pc \in {"target", "overrides"} =>
              \A f \in upstream : f.uploaded # NoTime /\ f.uploaded + MetadataTTL < page[p].at =>
                  f \in page'[p].payload]_vars
=============================================================================
