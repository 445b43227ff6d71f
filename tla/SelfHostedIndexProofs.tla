----------------------- MODULE SelfHostedIndexProofs ------------------------
(***************************************************************************)
(* Theorems about SelfHostedIndex: for every number of processes, pages    *)
(* and downloads, all versions, settings, TTLs and ages, the cached rows   *)
(* are true, downloads follow some setting there was, pages mark, and the  *)
(* fallback stays a last resort.  All of them rest on IInv.                *)
(***************************************************************************)
EXTENDS SelfHostedIndex, TLAPS

-----------------------------------------------------------------------------
(* The inductive invariant.                                                 *)

\* What upstream has and OSV says is of the past; SQLite has no settings, and
\* no name is claimed there.
WorldInv ==
    /\ \A f \in upstream : f.uploaded # NoTime => f.uploaded <= now
    /\ \A v \in Version : disclosed[v] <= now \/ disclosed[v] = Never
    /\ backend = "sqlite" => setting = Default /\ ~claimed

\* Files as upstream had them at some moment: with one file, all that was there
\* before it.
Snapshot(files) ==
    /\ files \subseteq upstream
    /\ \A f \in files, g \in upstream :
           g.uploaded = NoTime \/ (f.uploaded # NoTime /\ g.uploaded < f.uploaded) => g \in files

\* All that upstream had before time t.
Since(files, t) == \A f \in upstream : f.uploaded # NoTime /\ f.uploaded < t => f \in files

\* A scan names what was public when it was asked for, and nothing that is not.
Honest(r) ==
    /\ r.key # {} => r.checked <= now
    /\ \A v \in r.bad : v \in Version /\ disclosed[v] <= now
    /\ \A v \in r.key \ r.bad : disclosed[v] >= r.checked

RowsInv ==
    /\ Snapshot(projects.files)
    /\ projects.fetched # Never => projects.fetched <= now /\ Since(projects.files, projects.fetched)
    /\ \A r \in scans : r.checked <= now /\ Honest(r)
    /\ \A q, r \in scans : q.key = r.key => q = r

\* A process follows one of the settings there have been.
PolicyInv == \A r \in Replica : policy[r] \in inForce[r]

Marked(x) ==
    \A f \in x.payload : f.version \in x.bad \/ disclosed[f.version] + x.runtime.ttl >= x.start

LastResort(x) ==
    \A f \in x.payload :
        TooNew(f, x.start) /\ f.version \notin x.allowed =>
            /\ OldEnough(f, FallbackAge, x.start)
            /\ \A g \in upstream : OldEnough(g, MinimumAge, x.start) => disclosed[g.version] <= now

\* What a page request x knows.
PageInv(x) ==
    /\ x.at <= now /\ x.start <= now
    /\ x.pc = "idle" => x.runtime = Default
    /\ x.pc \in {"owns", "settings", "configure"} => setting \in x.held
    /\ x.pc = "configure" => x.runtime \in x.held
    /\ x.payload \subseteq upstream
    /\ x.pc # "register" => Snapshot(x.payload)
    /\ x.pc = "store" => Since(x.payload, x.at)
    /\ x.pc \in {"scan", "osv"} => x.start <= x.at
    /\ Honest(x.cached)
    /\ x.pc = "record" => x.cached.checked <= now
    /\ \A v \in x.bad : disclosed[v] <= now
    /\ x.pc \in {"record", "overrides", "register"} /\ x.advisories \in {"HIT", "MISS"} => Marked(x)
    /\ x.pc = "register" => LastResort(x)

\* What a download x knows.
DownloadInv(x) ==
    /\ x.pc # "idle" => x.file \in File
    /\ x.pc = "owns" /\ x.late => claimed
    /\ x.pc \in {"overrides", "advisory", "admitted"} => ~x.late
    /\ x.pc = "admitted" =>
          /\ x.decided <= now
          /\ \E s \in x.basis :
                 ~s.osv \/ (s.ttl # 0 /\ disclosed[x.file.version] + s.ttl > x.decided)

IInv ==
    /\ TypeOK /\ WorldInv /\ RowsInv /\ PolicyInv
    /\ \A p \in Page : PageInv(page[p])
    /\ \A d \in Download : DownloadInv(download[d])

-----------------------------------------------------------------------------
(* Types *)

PageType == [pc : PageStates, runtime : Settings, at : 0..MaxTime, start : 0..MaxTime,
             payload : SUBSET File, cached : Scan, bad : SUBSET Version,
             advisories : {"none", "HIT", "MISS", "STALE", "ERROR", "DISABLED"},
             allowed : SUBSET Version, held : SUBSET Settings]

DownloadType == [pc : {"idle", "owns", "overrides", "advisory", "admitted"},
                 file : File \cup {NoFile}, decided : 0..MaxTime,
                 basis : SUBSET Settings, late : BOOLEAN]

\* What is fetched, stored and remembered outside the requests.
RowTypes ==
    /\ projects.files \subseteq File /\ projects.fetched \in 0..Never
    /\ scans \subseteq Scan
    /\ registered \subseteq File

(* The requests' records, their numbers, and the values they start with.    *)
LEMMA Typed ==
    ASSUME TypeOK
    PROVE  /\ page \in [Page -> PageType]
           /\ download \in [Download -> DownloadType]
           /\ NewPage \in PageType
           /\ NewDownload \in DownloadType
           /\ NoScan \in Scan
<1>1. NoScan \in Scan
  BY TimesAssumption DEF NoScan, Scan, Never
<1>2. NewPage \in PageType
  BY <1>1, TimesAssumption, SettingsAssumption DEF NewPage, PageType, PageStates
<1>3. NewDownload \in DownloadType
  BY TimesAssumption DEF NewDownload, DownloadType
<1> QED
  BY <1>1, <1>2, <1>3 DEF TypeOK, PageType, DownloadType

(* Times are numbers, and a disclosure or a row that is not there lies      *)
(* beyond all of them.                                                      *)
LEMMA Numbers ==
    ASSUME TypeOK
    PROVE  /\ now \in Nat /\ now < Never /\ Never \in Nat
           /\ \A v \in Version : disclosed[v] \in Nat
           /\ projects.fetched \in Nat
           /\ upstream \subseteq File
           /\ \A f \in File : f.version \in Version /\ (f.uploaded \in Nat \/ f.uploaded = NoTime)
           /\ \A r \in Scan : r.checked \in Nat /\ r.key \subseteq Version /\ r.bad \subseteq Version
           /\ \A s \in Settings : s.ttl \in Nat /\ s.osv \in BOOLEAN
           /\ NoTime \notin Nat
  BY TimesAssumption, SettingsAssumption, NoTimeAssumption DEF TypeOK, Never, File, Scan

(* The same of a page's record.                                             *)
LEMMA PageNumbers ==
    ASSUME TypeOK, NEW x \in PageType
    PROVE  /\ x.at \in Nat /\ x.start \in Nat
           /\ x.payload \subseteq File
           /\ x.cached \in Scan
           /\ x.bad \subseteq Version
           /\ x.runtime \in Settings
           /\ x.held \subseteq Settings
  BY TimesAssumption DEF PageType

-----------------------------------------------------------------------------
(* What a page's step does to its own record, and to nobody else's.         *)
Progress(p) ==
    /\ page' \in [Page -> PageType]
    /\ PageInv(page'[p])
    /\ \A q \in Page \ {p} : page'[q] = page[q]

(* A request that ends knows nothing any more.                              *)
LEMMA Ended ==
    ASSUME TypeOK, NEW label \in {"idle", "done"}
    PROVE  [NewPage EXCEPT !.pc = label] \in PageType /\ PageInv([NewPage EXCEPT !.pc = label])
<1> DEFINE x == [NewPage EXCEPT !.pc = label]
<1>1. x = [pc |-> label, runtime |-> Default, at |-> 0, start |-> 0, payload |-> {},
           cached |-> NoScan, bad |-> {}, advisories |-> "none", allowed |-> {}, held |-> {}]
  BY DEF NewPage
<1>2. x \in PageType
  BY Typed, label \in PageStates DEF PageType, PageStates
<1>3. PageInv(x)
  BY <1>1, Numbers DEF PageInv, Snapshot, Honest, NoScan
<1> QED
  BY <1>2, <1>3

(* EndPage is such a step.                                                  *)
LEMMA EndPageStep ==
    ASSUME TypeOK, NEW p \in Page, EndPage(p)
    PROVE  Progress(p)
<1>1. [NewPage EXCEPT !.pc = "done"] \in PageType /\ PageInv([NewPage EXCEPT !.pc = "done"])
  BY Ended
<1>2. page' = [page EXCEPT ![p] = [NewPage EXCEPT !.pc = "done"]]
  BY DEF EndPage
<1> QED
  BY <1>1, <1>2, Typed DEF Progress

(* The reads before the project: nothing is known yet but the settings.     *)
LEMMA EarlySteps ==
    ASSUME TypeOK, WorldInv, NEW p \in Page, PageInv(page[p]),
           Begin(p) \/ ReadOwner(p) \/ ReadSettings(p) \/ Configure(p)
    PROVE  Progress(p)
<1> DEFINE x == page[p]
<1>0. page \in [Page -> PageType] /\ x \in PageType
  BY Typed
<1>1. CASE Begin(p)
  <2> DEFINE y == [x EXCEPT !.pc = IF backend = "azure" THEN "owns" ELSE "configure",
                            !.held = {setting}]
  <2>1. page' = [page EXCEPT ![p] = y]
    BY <1>0, <1>1 DEF Begin
  <2>2. y \in PageType
    BY <1>0 DEF PageType, PageStates, TypeOK
  <2>3. x.pc = "idle"
    BY <1>1 DEF Begin
  <2>4. PageInv(y)
    <3>0. y.pc = IF backend = "azure" THEN "owns" ELSE "configure"
      BY <1>0 DEF PageType
    <3>1. /\ y.runtime = x.runtime /\ y.held = {setting} /\ y.payload = x.payload
          /\ y.at = x.at /\ y.start = x.start /\ y.cached = x.cached /\ y.bad = x.bad
      BY <1>0 DEF PageType
    <3>2. y.pc = "configure" => setting = Default
      BY <3>0 DEF TypeOK, WorldInv
    <3> HIDE DEF y
    <3> QED
      BY <2>3, <3>0, <3>1, <3>2 DEF PageInv
  <2> QED
    BY <1>0, <2>1, <2>2, <2>4 DEF Progress
<1>2. CASE ReadOwner(p)
  <2>1. CASE EndPage(p)
    BY <2>1, EndPageStep
  <2>2. CASE page' = [page EXCEPT ![p].pc = "settings"]
    <3> DEFINE y == [x EXCEPT !.pc = "settings"]
    <3>1. page' = [page EXCEPT ![p] = y]
      BY <1>0, <2>2
    <3>2. y \in PageType
      BY <1>0 DEF PageType, PageStates
    <3>3. x.pc = "owns"
      BY <1>2 DEF ReadOwner
    <3>4. PageInv(y)
      BY <1>0, <3>3 DEF PageInv, PageType
    <3> QED
      BY <1>0, <3>1, <3>2, <3>4 DEF Progress
  <2> QED
    BY <1>2, <2>1, <2>2 DEF ReadOwner
<1>3. CASE ReadSettings(p)
  <2> DEFINE y == [x EXCEPT !.pc = "configure", !.runtime = setting]
  <2>1. page' = [page EXCEPT ![p] = y]
    BY <1>0, <1>3 DEF ReadSettings
  <2>2. y \in PageType
    BY <1>0 DEF PageType, PageStates, TypeOK
  <2>3. x.pc = "settings"
    BY <1>3 DEF ReadSettings
  <2>4. PageInv(y)
    <3>1. /\ y.pc = "configure" /\ y.runtime = setting /\ y.held = x.held /\ y.payload = x.payload
          /\ y.at = x.at /\ y.start = x.start /\ y.cached = x.cached /\ y.bad = x.bad
      BY <1>0 DEF PageType
    <3> HIDE DEF y
    <3> QED
      BY <2>3, <3>1 DEF PageInv
  <2> QED
    BY <1>0, <2>1, <2>2, <2>4 DEF Progress
<1>4. CASE Configure(p)
  <2> DEFINE y == [x EXCEPT !.pc = "project", !.at = now, !.held = {}]
  <2>1. page' = [page EXCEPT ![p] = y]
    BY <1>0, <1>4 DEF Configure
  <2>2. y \in PageType
    BY <1>0 DEF PageType, PageStates, TypeOK
  <2>3. x.pc = "configure"
    BY <1>4 DEF Configure
  <2>4. PageInv(y)
    BY <1>0, <2>3, Numbers DEF PageInv, PageType
  <2> QED
    BY <1>0, <2>1, <2>2, <2>4 DEF Progress
<1> QED
  BY <1>1, <1>2, <1>3, <1>4

(* A page goes on with files that were upstream's at some moment.           *)
LEMMA ListedStep ==
    ASSUME TypeOK, NEW p \in Page, PageInv(page[p]), page[p].pc \in {"project", "fetch", "store"},
           NEW files \in SUBSET File, Snapshot(files), Listed(p, files)
    PROVE  Progress(p)
<1> DEFINE x == page[p]
           osv == x.runtime.osv
           y == [x EXCEPT !.payload = files, !.start = now, !.at = 0,
                          !.pc = IF osv THEN "target" ELSE "overrides",
                          !.advisories = IF osv THEN "none" ELSE "DISABLED"]
<1>0. page \in [Page -> PageType] /\ x \in PageType
  BY Typed
<1>1. page' = [page EXCEPT ![p] = y]
  BY <1>0 DEF Listed
<1>2. y \in PageType
  <2>1. (IF osv THEN "target" ELSE "overrides") \in PageStates
    BY DEF PageStates
  <2>2. (IF osv THEN "none" ELSE "DISABLED") \in {"none", "DISABLED"}
    OBVIOUS
  <2>3. now \in 0..MaxTime /\ 0 \in 0..MaxTime
    BY TimesAssumption DEF TypeOK
  <2> HIDE DEF osv
  <2> QED
    BY <1>0, <2>1, <2>2, <2>3 DEF PageType
<1>3. PageInv(y)
  <2>1. /\ y.payload = files /\ y.start = now /\ y.at = 0 /\ y.cached = x.cached /\ y.bad = x.bad
        /\ y.pc \in {"target", "overrides"}
        /\ y.pc = "overrides" => y.advisories = "DISABLED"
    BY <1>0 DEF PageType
  <2> HIDE DEF y
  <2> QED
    BY <2>1, Numbers DEF PageInv, Snapshot
<1> QED
  BY <1>0, <1>1, <1>2, <1>3 DEF Progress

(* The project's row, upstream's answer, and the row that is written.       *)
LEMMA ProjectSteps ==
    ASSUME TypeOK, WorldInv, RowsInv, NEW p \in Page, PageInv(page[p]),
           ReadProject(p) \/ Fetch(p) \/ FetchFails(p) \/ StoreProject(p)
    PROVE  Progress(p)
<1> DEFINE x == page[p]
<1>0. page \in [Page -> PageType] /\ x \in PageType
  BY Typed
<1>1. CASE ReadProject(p)
  <2>1. CASE Listed(p, projects.files)
    <3>1. Snapshot(projects.files) /\ projects.files \in SUBSET File
      BY DEF RowsInv, TypeOK
    <3> QED
      BY <1>1, <2>1, <3>1, ListedStep DEF ReadProject
  <2>2. CASE page' = [page EXCEPT ![p].pc = "fetch", ![p].payload = projects.files]
    <3> DEFINE y == [x EXCEPT !.pc = "fetch", !.payload = projects.files]
    <3>1. page' = [page EXCEPT ![p] = y]
      BY <1>0, <2>2
    <3>2. y \in PageType
      BY <1>0 DEF PageType, PageStates, TypeOK
    <3>3. x.pc = "project"
      BY <1>1 DEF ReadProject
    <3>4. PageInv(y)
      <4>1. Snapshot(projects.files)
        BY DEF RowsInv
      <4>2. /\ y.payload = projects.files /\ y.pc = "fetch" /\ y.cached = x.cached /\ y.bad = x.bad
            /\ y.at = x.at /\ y.start = x.start
        BY <1>0 DEF PageType
      <4> HIDE DEF y
      <4> QED
        BY <4>1, <4>2 DEF PageInv, Snapshot
    <3> QED
      BY <1>0, <3>1, <3>2, <3>4 DEF Progress
  <2> QED
    BY <1>1, <2>1, <2>2 DEF ReadProject
<1>2. CASE Fetch(p)
  <2> DEFINE y == [x EXCEPT !.pc = "store", !.payload = upstream]
  <2>1. page' = [page EXCEPT ![p] = y]
    BY <1>0, <1>2 DEF Fetch
  <2>2. y \in PageType
    BY <1>0 DEF PageType, PageStates, TypeOK
  <2>3. PageInv(y)
    <3>1. /\ y.payload = upstream /\ y.pc = "store" /\ y.cached = x.cached /\ y.bad = x.bad
          /\ y.at = x.at /\ y.start = x.start
      BY <1>0 DEF PageType
    <3>2. Snapshot(upstream) /\ Since(upstream, x.at)
      BY DEF Snapshot, Since
    <3> HIDE DEF y
    <3> QED
      BY <3>1, <3>2 DEF PageInv, Snapshot
  <2> QED
    BY <1>0, <2>1, <2>2, <2>3 DEF Progress
<1>3. CASE FetchFails(p)
  <2>1. x.pc = "fetch" /\ Listed(p, x.payload) /\ x.payload \in SUBSET File
    BY <1>0, <1>3 DEF FetchFails, PageType
  <2>2. Snapshot(x.payload)
    BY <2>1 DEF PageInv
  <2> QED
    BY <2>1, <2>2, ListedStep
<1>4. CASE StoreProject(p)
  <2>1. x.pc = "store" /\ Listed(p, x.payload) /\ x.payload \in SUBSET File
    BY <1>0, <1>4 DEF StoreProject, PageType
  <2>2. Snapshot(x.payload)
    BY <2>1 DEF PageInv
  <2> QED
    BY <2>1, <2>2, ListedStep
<1> QED
  BY <1>1, <1>2, <1>3, <1>4

(* A scan of these versions that is recent enough marks what long was       *)
(* public.                                                                  *)
LEMMA ScanMarks ==
    ASSUME TypeOK, NEW x \in PageType, NEW r \in Scan, Honest(r), r.key = Versions(x.payload),
           x.start <= x.at, x.at <= r.checked + x.runtime.ttl
    PROVE  \A f \in x.payload : f.version \in r.bad \/ disclosed[f.version] + x.runtime.ttl >= x.start
<1> SUFFICES ASSUME NEW f \in x.payload, f.version \notin r.bad
             PROVE  disclosed[f.version] + x.runtime.ttl >= x.start
    OBVIOUS
<1>1. f \in File /\ x.start \in Nat /\ x.at \in Nat /\ x.runtime \in Settings
  BY PageNumbers
<1>2. x.runtime.ttl \in Nat /\ r.checked \in Nat /\ disclosed[f.version] \in Nat
  BY <1>1, Numbers
<1>3. f.version \in r.key \ r.bad
  BY DEF Versions
<1>4. disclosed[f.version] >= r.checked
  BY <1>3 DEF Honest
<1> QED
  BY <1>1, <1>2, <1>4

(* A page goes on with the advisories of such a scan, or says that it does  *)
(* not.                                                                     *)
LEMMA EvaluatedStep ==
    ASSUME TypeOK, NEW p \in Page, PageInv(page[p]), page[p].pc \in {"scan", "osv"},
           NEW scan \in Scan, Honest(scan),
           NEW status \in {"HIT", "MISS", "STALE", "ERROR"}, Evaluated(p, scan, status),
           status \in {"HIT", "MISS"} =>
               /\ scan.checked <= now
               /\ \A f \in page[p].payload :
                      f.version \in scan.bad
                      \/ disclosed[f.version] + page[p].runtime.ttl >= page[p].start
    PROVE  Progress(p)
<1> DEFINE x == page[p]
           kept == IF status = "MISS" THEN scan ELSE NoScan
           label == IF status = "MISS" THEN "record" ELSE "overrides"
           y == [x EXCEPT !.bad = scan.bad, !.advisories = status, !.at = 0, !.cached = kept,
                          !.pc = label]
<1>0. page \in [Page -> PageType] /\ x \in PageType /\ NoScan \in Scan
  BY Typed
<1>1. page' = [page EXCEPT ![p] = y]
  BY <1>0 DEF Evaluated
<1>2. kept \in Scan /\ label \in {"record", "overrides"} /\ Honest(kept)
      /\ (label = "record" => status = "MISS" /\ kept = scan)
  BY <1>0 DEF Honest, NoScan
<1>3. /\ y.bad = scan.bad /\ y.advisories = status /\ y.at = 0 /\ y.cached = kept /\ y.pc = label
      /\ y.payload = x.payload /\ y.start = x.start /\ y.runtime = x.runtime
  <2> HIDE DEF kept, label
  <2> QED
    BY <1>0 DEF PageType
<1>4. y \in PageType
  <2>1. scan.bad \in SUBSET Version /\ 0 \in 0..MaxTime /\ label \in PageStates
    BY <1>2, TimesAssumption DEF Scan, PageStates
  <2> HIDE DEF kept, label
  <2> QED
    BY <1>0, <1>2, <2>1 DEF PageType
<1>5. PageInv(y)
  <2>1. \A v \in scan.bad : disclosed[v] <= now
    BY DEF Honest
  <2>2. status \in {"HIT", "MISS"} => Marked(y)
    BY <1>3 DEF Marked
  <2>3. Snapshot(x.payload) /\ x.payload \subseteq upstream /\ x.start <= now
    BY DEF PageInv
  <2> HIDE DEF y, kept, label
  <2> QED
    BY <1>2, <1>3, <2>1, <2>2, <2>3, Numbers DEF PageInv
<1> QED
  BY <1>0, <1>1, <1>4, <1>5 DEF Progress

(* OsvAdvisoryPolicy.apply: the target, the scan that is there, OSV, and    *)
(* the row that is written.                                                 *)
LEMMA AdvisorySteps ==
    ASSUME TypeOK, RowsInv, NEW p \in Page, PageInv(page[p]),
           RecordTarget(p) \/ ReadScan(p) \/ QueryOsv(p) \/ OsvFails(p) \/ StoreScan(p)
    PROVE  Progress(p)
<1> DEFINE x == page[p]
<1>0. page \in [Page -> PageType] /\ x \in PageType /\ NoScan \in Scan
  BY Typed
<1>1. CASE RecordTarget(p)
  <2> DEFINE y == [x EXCEPT !.pc = "scan", !.at = now]
  <2>1. page' = [page EXCEPT ![p] = y]
    BY <1>0, <1>1 DEF RecordTarget
  <2>2. y \in PageType
    BY <1>0 DEF PageType, PageStates, TypeOK
  <2>3. x.pc = "target"
    BY <1>1 DEF RecordTarget
  <2>4. PageInv(y)
    <3>1. /\ y.pc = "scan" /\ y.at = now /\ y.payload = x.payload /\ y.start = x.start
          /\ y.cached = x.cached /\ y.bad = x.bad
      BY <1>0 DEF PageType
    <3> HIDE DEF y
    <3> QED
      BY <2>3, <3>1, Numbers DEF PageInv
  <2> QED
    BY <1>0, <2>1, <2>2, <2>4 DEF Progress
<1>2. CASE ReadScan(p)
  <2>0. x.pc = "scan" /\ x.start <= x.at
    BY <1>2 DEF ReadScan, PageInv
  <2>1. CASE page' = [page EXCEPT ![p].pc = "osv"]
    <3> DEFINE y == [x EXCEPT !.pc = "osv"]
    <3>1. page' = [page EXCEPT ![p] = y]
      BY <1>0, <2>1
    <3>2. y \in PageType
      BY <1>0 DEF PageType, PageStates
    <3>3. PageInv(y)
      BY <1>0, <2>0 DEF PageInv, PageType
    <3> QED
      BY <1>0, <3>1, <3>2, <3>3 DEF Progress
  <2>2. ASSUME NEW r \in scans, r.key = Versions(x.payload), x.at <= r.checked + x.runtime.ttl,
               Evaluated(p, r, "HIT")
        PROVE  Progress(p)
    <3>1. r \in Scan /\ Honest(r) /\ r.checked <= now
      BY DEF TypeOK, RowsInv
    <3>2. \A f \in x.payload : f.version \in r.bad \/ disclosed[f.version] + x.runtime.ttl >= x.start
      BY <1>0, <2>0, <2>2, <3>1, ScanMarks
    <3> QED
      BY <2>0, <2>2, <3>1, <3>2, EvaluatedStep
  <2>3. ASSUME NEW r \in scans, page' = [page EXCEPT ![p].pc = "osv", ![p].cached = r]
        PROVE  Progress(p)
    <3> DEFINE y == [x EXCEPT !.pc = "osv", !.cached = r]
    <3>1. page' = [page EXCEPT ![p] = y]
      BY <1>0, <2>3
    <3>2. y \in PageType
      BY <1>0 DEF PageType, PageStates, TypeOK
    <3>3. PageInv(y)
      <4>1. Honest(r)
        BY DEF RowsInv
      <4>2. /\ y.pc = "osv" /\ y.cached = r /\ y.at = x.at /\ y.start = x.start
            /\ y.payload = x.payload /\ y.bad = x.bad
        BY <1>0 DEF PageType
      <4> HIDE DEF y
      <4> QED
        BY <2>0, <4>1, <4>2 DEF PageInv
    <3> QED
      BY <1>0, <3>1, <3>2, <3>3 DEF Progress
  <2> QED
    BY <1>2, <2>1, <2>2, <2>3 DEF ReadScan
<1>3. CASE QueryOsv(p)
  <2> DEFINE key == Versions(x.payload)
             r == [key |-> key, bad |-> key \cap Vulnerable, checked |-> x.at]
  <2>1. x.pc = "osv" /\ x.start <= x.at /\ x.at <= now /\ Evaluated(p, r, "MISS")
    BY <1>3 DEF QueryOsv, PageInv
  <2>2. key \subseteq Version /\ x.at \in Nat /\ x.runtime.ttl \in Nat /\ x.at \in 0..Never
    BY <1>0, PageNumbers, Numbers, <2>1 DEF Versions
  <2>3. r \in Scan
    BY <2>2 DEF Scan
  <2>4. Honest(r)
    BY <2>1, <2>2, Numbers DEF Honest, Vulnerable
  <2>5. \A f \in x.payload : f.version \in r.bad \/ disclosed[f.version] + x.runtime.ttl >= x.start
    <3>1. r.key = Versions(x.payload) /\ x.at <= r.checked + x.runtime.ttl
      BY <2>2
    <3> QED
      BY <1>0, <2>1, <2>3, <2>4, <3>1, ScanMarks
  <2>6. r.checked <= now
    BY <2>1
  <2> HIDE DEF r
  <2> QED
    BY <2>1, <2>3, <2>4, <2>5, <2>6, EvaluatedStep
<1>4. CASE OsvFails(p)
  <2>1. PICK status \in {"STALE", "ERROR"} : Evaluated(p, x.cached, status)
    BY <1>4 DEF OsvFails
  <2>2. x.pc = "osv" /\ Honest(x.cached) /\ x.cached \in Scan
    BY <1>0, <1>4, PageNumbers DEF OsvFails, PageInv
  <2> QED
    BY <2>1, <2>2, EvaluatedStep
<1>5. CASE StoreScan(p)
  <2> DEFINE y == [x EXCEPT !.pc = "overrides", !.cached = NoScan]
  <2>1. page' = [page EXCEPT ![p] = y]
    BY <1>0, <1>5 DEF StoreScan
  <2>2. y \in PageType
    BY <1>0 DEF PageType, PageStates
  <2>3. x.pc = "record"
    BY <1>5 DEF StoreScan
  <2>4. PageInv(y)
    <3>1. /\ y.pc = "overrides" /\ y.cached = NoScan /\ y.at = x.at /\ y.start = x.start
          /\ y.payload = x.payload /\ y.bad = x.bad /\ y.advisories = x.advisories
          /\ y.runtime = x.runtime
      BY <1>0 DEF PageType
    <3>2. Honest(NoScan)
      BY DEF Honest, NoScan
    <3> HIDE DEF y
    <3> QED
      BY <2>3, <3>1, <3>2 DEF PageInv, Marked
  <2> QED
    BY <1>0, <2>1, <2>2, <2>4 DEF Progress
<1> QED
  BY <1>1, <1>2, <1>3, <1>4, <1>5

(* What a page shows too early, it shows because of the fallback, of which  *)
(* upstream itself then has nothing better.                                 *)
LEMMA FallbackMeans ==
    ASSUME TypeOK, NEW files \in SUBSET File, NEW bad, NEW at \in Nat, Snapshot(files),
           NEW f \in Visible(files, bad, override, at), TooNew(f, at), override[f.version] # "allow"
    PROVE  /\ OldEnough(f, FallbackAge, at)
           /\ \A g \in upstream : OldEnough(g, MinimumAge, at) => g.version \in bad
<1>1. f \in files /\ f.version \in Version /\ f.uploaded \in Nat
  BY Numbers DEF Visible, TooNew
<1>2. Allows(f, Actions(Fallback(files, bad, at), override, f.version), at)
  BY DEF Visible
<1>3. override[f.version] = "none"
  BY <1>1, <1>2 DEF TypeOK, Allows, Actions
<1>4. f.version \in Fallback(files, bad, at) /\ OldEnough(f, FallbackAge, at)
  BY <1>2, <1>3 DEF Allows, TooNew, Actions
<1>5. AgedSafe(files, bad, at) = {}
  BY <1>4 DEF Fallback
<1>6. SUFFICES ASSUME NEW g \in upstream, OldEnough(g, MinimumAge, at) PROVE g.version \in bad
  BY <1>4
<1>7. g.uploaded \in Nat /\ g.uploaded # NoTime /\ MinimumAge \in Nat
  BY <1>6, Numbers, AgesAssumption DEF OldEnough
<1>8. g.uploaded < f.uploaded /\ f.uploaded # NoTime
  BY <1>1, <1>6, <1>7 DEF TooNew, OldEnough
<1>9. g \in files
  BY <1>1, <1>8 DEF Snapshot
<1>10. g.version \in bad \/ g.version \in AgedSafe(files, bad, at)
  BY <1>6, <1>9 DEF AgedSafe, Safe
<1> QED
  BY <1>5, <1>10

(* The overrides and the policy, the links and the response, and any        *)
(* failure on the way.                                                      *)
LEMMA LastSteps ==
    ASSUME TypeOK, WorldInv, NEW p \in Page, PageInv(page[p]),
           ReadOverrides(p) \/ Register(p) \/ Fail(p)
    PROVE  Progress(p)
<1> DEFINE x == page[p]
<1>0. page \in [Page -> PageType] /\ x \in PageType
  BY Typed
<1>1. CASE ReadOverrides(p)
  <2> DEFINE shown == Visible(x.payload, x.bad, override, x.start)
             allowed == {v \in Version : override[v] = "allow"}
             y == [x EXCEPT !.pc = "register", !.payload = shown, !.allowed = allowed]
  <2>0. x.pc = "overrides" /\ Snapshot(x.payload) /\ x.payload \subseteq upstream
    BY <1>1 DEF ReadOverrides, PageInv
  <2>1. page' = [page EXCEPT ![p] = y]
    BY <1>0, <1>1 DEF ReadOverrides
  <2>2. shown \subseteq x.payload
    BY DEF Visible
  <2>3. y \in PageType
    <3>1. shown \in SUBSET File /\ allowed \in SUBSET Version
      BY <1>0, <2>2, PageNumbers
    <3> HIDE DEF shown, allowed
    <3> QED
      BY <1>0, <3>1 DEF PageType, PageStates
  <2>4. /\ y.pc = "register" /\ y.payload = shown /\ y.allowed = allowed /\ y.at = x.at
        /\ y.start = x.start /\ y.cached = x.cached /\ y.bad = x.bad /\ y.runtime = x.runtime
        /\ y.advisories = x.advisories
    <3> HIDE DEF shown, allowed
    <3> QED
      BY <1>0 DEF PageType
  <2>5. LastResort(y)
    <3> SUFFICES ASSUME NEW f \in shown, TooNew(f, x.start), f.version \notin allowed
                 PROVE  /\ OldEnough(f, FallbackAge, x.start)
                        /\ \A g \in upstream :
                               OldEnough(g, MinimumAge, x.start) => disclosed[g.version] <= now
      <4> HIDE DEF shown, allowed, y
      <4> QED
        BY <2>4 DEF LastResort
    <3>1. f \in File /\ x.start \in Nat /\ x.payload \in SUBSET File
      BY <1>0, <2>2, PageNumbers
    <3>2. override[f.version] # "allow"
      BY <3>1, Numbers
    <3>3. /\ OldEnough(f, FallbackAge, x.start)
          /\ \A g \in upstream : OldEnough(g, MinimumAge, x.start) => g.version \in x.bad
      BY <2>0, <3>1, <3>2, FallbackMeans
    <3> QED
      BY <3>3 DEF PageInv
  <2>6. x.advisories \in {"HIT", "MISS"} => Marked(y)
    <3> HIDE DEF shown, y
    <3> QED
      BY <2>0, <2>2, <2>4 DEF PageInv, Marked
  <2>7. PageInv(y)
    <3> HIDE DEF shown, allowed, y
    <3> QED
      BY <2>0, <2>2, <2>4, <2>5, <2>6 DEF PageInv
  <2> QED
    BY <1>0, <2>1, <2>3, <2>7 DEF Progress
<1>2. CASE Register(p)
  BY <1>2, EndPageStep DEF Register
<1>3. CASE Fail(p)
  BY <1>3, EndPageStep DEF Fail
<1> QED
  BY <1>1, <1>2, <1>3

(* Every page's step, then, keeps what that page knows.                     *)
LEMMA PageSteps ==
    ASSUME TypeOK, WorldInv, RowsInv, NEW p \in Page, PageInv(page[p]), PageStep(p)
    PROVE  Progress(p)
  BY EarlySteps, ProjectSteps, AdvisorySteps, LastSteps DEF PageStep

-----------------------------------------------------------------------------
(* What the world may do, whichever of its actions it is.                   *)
WorldMoves ==
    /\ now <= now'
    /\ upstream \subseteq upstream'
    /\ \A f \in upstream' \ upstream : f.uploaded = now
    /\ \A v \in Version : disclosed'[v] = disclosed[v] \/ (disclosed[v] = Never /\ disclosed'[v] = now)

(* Every step is such a move.                                               *)
LEMMA Moves == TypeOK /\ [Next]_vars => WorldMoves
<1> SUFFICES ASSUME TypeOK, [Next]_vars PROVE WorldMoves
    OBVIOUS
<1> USE DEF WorldMoves
<1>0. now \in Nat /\ disclosed \in [Version -> 0..Never]
  BY Numbers DEF TypeOK
<1>1. CASE UNCHANGED world
  BY <1>0, <1>1 DEF world
<1>2. CASE Tick
  BY <1>0, <1>2 DEF Tick
<1>3. ASSUME NEW v \in Version, Release(v) PROVE WorldMoves
  BY <1>0, <1>3 DEF Release
<1>4. ASSUME NEW v \in Version, Disclose(v) PROVE WorldMoves
  BY <1>0, <1>4 DEF Disclose
<1>5. ASSUME NEW v \in Version, NEW a \in {"none", "allow", "block"}, SetOverride(v, a)
      PROVE  UNCHANGED world
  BY <1>5 DEF SetOverride
<1>6. ASSUME Claim PROVE UNCHANGED world
  BY <1>6 DEF Claim
<1>7. ASSUME NEW s \in Settings, UpdateSettings(s) PROVE UNCHANGED world
  BY <1>7 DEF UpdateSettings, Settle
<1>8. ASSUME NEW key \in {"osv", "ttl"}, ResetSetting(key) PROVE UNCHANGED world
  BY <1>8 DEF ResetSetting, Settle
<1>9. ASSUME NEW p \in Page, PageStep(p) PROVE UNCHANGED world
  BY <1>9 DEF PageStep, Begin, ReadOwner, ReadSettings, Configure, ReadProject, Fetch, FetchFails,
     StoreProject, RecordTarget, ReadScan, QueryOsv, OsvFails, StoreScan, ReadOverrides, Register, Fail
<1>10. ASSUME NEW d \in Download, DownloadStep(d) PROVE UNCHANGED world
  BY <1>10 DEF DownloadStep, ReadArtifact, ReadProjectRow, ReadAction, Authorize, Leave
<1>11. ASSUME NEW r \in Replica, Restart(r) PROVE UNCHANGED world
  BY <1>11 DEF Restart
<1>12. CASE UNCHANGED vars
  BY <1>1, <1>12 DEF vars
<1> QED
  BY <1>1, <1>2, <1>3, <1>4, <1>5, <1>6, <1>7, <1>8, <1>9, <1>10, <1>11, <1>12 DEF Next, World

(* Files as upstream had them at some moment stay that: nothing is released *)
(* with an earlier time.                                                    *)
LEMMA SnapshotKept ==
    ASSUME TypeOK, WorldInv, WorldMoves, NEW files, Snapshot(files)
    PROVE  Snapshot(files)'
<1> SUFFICES ASSUME NEW f \in files, NEW g \in upstream',
                    g.uploaded = NoTime \/ (f.uploaded # NoTime /\ g.uploaded < f.uploaded)
             PROVE  g \in files
  BY DEF Snapshot, WorldMoves
<1>1. f \in upstream /\ now \in Nat /\ now # NoTime
  BY Numbers DEF Snapshot
<1>2. f.uploaded # NoTime => f.uploaded \in Nat /\ f.uploaded <= now
  BY <1>1, Numbers DEF WorldInv
<1>3. g \in upstream
  BY <1>1, <1>2 DEF WorldMoves
<1> QED
  BY <1>3 DEF Snapshot

(* What was complete at a past moment stays complete at it.                 *)
LEMMA SinceKept ==
    ASSUME TypeOK, WorldMoves, NEW files, NEW t \in Nat, t <= now, Since(files, t)
    PROVE  Since(files, t)'
<1>1. now \in Nat
  BY Numbers
<1> QED
  BY <1>1 DEF Since, WorldMoves

(* A scan stays honest: what it does not name is public only after it.      *)
LEMMA HonestKept ==
    ASSUME TypeOK, TypeOK', WorldMoves, NEW r \in Scan, Honest(r)
    PROVE  Honest(r)'
<1>1. now \in Nat /\ now' \in Nat /\ now <= now' /\ now < Never /\ Never \in Nat
  BY Numbers, TimesAssumption DEF WorldMoves, TypeOK
<1>2. r.checked \in Nat /\ r.key \subseteq Version
  BY Numbers
<1>3. \A v \in Version : disclosed[v] \in Nat /\
          (disclosed'[v] = disclosed[v] \/ (disclosed[v] = Never /\ disclosed'[v] = now))
  BY Numbers DEF WorldMoves
<1> QED
  BY <1>1, <1>2, <1>3 DEF Honest

(* What a page knows stays true, whatever the world does meanwhile.         *)
LEMMA PageKept ==
    ASSUME TypeOK, TypeOK', WorldInv, WorldMoves, NEW x \in PageType, PageInv(x), setting' = setting
    PROVE  PageInv(x)'
<1>1. now \in Nat /\ now' \in Nat /\ now <= now' /\ now < Never /\ Never \in Nat
  BY Numbers, TimesAssumption DEF WorldMoves, TypeOK
<1>2. \A v \in Version : disclosed[v] \in Nat /\
          (disclosed'[v] = disclosed[v] \/ (disclosed[v] = Never /\ disclosed'[v] = now))
  BY Numbers DEF WorldMoves
<1>3. /\ x.at \in Nat /\ x.start \in Nat /\ x.payload \subseteq File /\ x.cached \in Scan
      /\ x.bad \subseteq Version /\ x.runtime.ttl \in Nat /\ x.cached.checked \in Nat
  BY PageNumbers, Numbers
<1>4. x.at <= now' /\ x.start <= now' /\ (x.pc = "record" => x.cached.checked <= now')
  BY <1>1, <1>3 DEF PageInv
<1>5. x.payload \subseteq upstream'
  BY DEF PageInv, WorldMoves
<1>6. x.pc # "register" => Snapshot(x.payload)'
  BY SnapshotKept DEF PageInv
<1>7. x.pc = "store" => Since(x.payload, x.at)'
  BY <1>3, SinceKept DEF PageInv
<1>8. Honest(x.cached)'
  BY <1>3, HonestKept DEF PageInv
<1>9. \A v \in x.bad : disclosed'[v] <= now'
  BY <1>1, <1>2, <1>3 DEF PageInv
<1>10. ASSUME Marked(x) PROVE Marked(x)'
  <2> SUFFICES ASSUME NEW f \in x.payload, f.version \notin x.bad
               PROVE  disclosed'[f.version] + x.runtime.ttl >= x.start
    BY DEF Marked
  <2>1. f.version \in Version
    BY <1>3, Numbers
  <2>2. disclosed[f.version] + x.runtime.ttl >= x.start
    BY <1>10 DEF Marked
  <2>3. x.start <= now
    BY DEF PageInv
  <2> QED
    BY <1>1, <1>2, <1>3, <2>1, <2>2, <2>3
<1>11. ASSUME LastResort(x) PROVE LastResort(x)'
  <2> SUFFICES ASSUME NEW f \in x.payload, TooNew(f, x.start), f.version \notin x.allowed
               PROVE  /\ OldEnough(f, FallbackAge, x.start)
                      /\ \A g \in upstream' :
                             OldEnough(g, MinimumAge, x.start) => disclosed'[g.version] <= now'
    BY DEF LastResort, TooNew, OldEnough
  <2>1. /\ OldEnough(f, FallbackAge, x.start)
        /\ \A g \in upstream : OldEnough(g, MinimumAge, x.start) => disclosed[g.version] <= now
    BY <1>11 DEF LastResort
  <2> SUFFICES ASSUME NEW g \in upstream', OldEnough(g, MinimumAge, x.start)
               PROVE  disclosed'[g.version] <= now'
    BY <2>1
  <2>2. f.uploaded \in Nat /\ MinimumAge \in Nat /\ FallbackAge \in Nat /\ f.uploaded # NoTime
    BY <1>3, Numbers, AgesAssumption DEF TooNew
  <2>3. f.uploaded <= x.start /\ x.start < f.uploaded + MinimumAge
    BY <1>3, <2>1, <2>2 DEF TooNew, OldEnough
  <2>4. CASE g \in upstream
    <3>1. g.version \in Version /\ disclosed[g.version] <= now
      BY <2>1, <2>4, Numbers
    <3> QED
      BY <1>1, <1>2, <3>1
  <2>5. CASE g \notin upstream
    <3>1. g.uploaded = now /\ x.start <= now
      BY <2>5 DEF WorldMoves, PageInv
    <3>2. now + MinimumAge <= x.start
      BY <3>1 DEF OldEnough
    <3> QED
      BY <1>1, <1>3, <2>2, <2>3, <3>1, <3>2
  <2> QED
    BY <2>4, <2>5
<1> QED
  BY <1>4, <1>5, <1>6, <1>7, <1>8, <1>9, <1>10, <1>11 DEF PageInv

(* So does what a download knows.                                           *)
LEMMA DownloadKept ==
    ASSUME TypeOK, TypeOK', WorldMoves, NEW x \in DownloadType, DownloadInv(x), claimed => claimed'
    PROVE  DownloadInv(x)'
<1>1. now \in Nat /\ now' \in Nat /\ now <= now' /\ now < Never /\ Never \in Nat
  BY Numbers, TimesAssumption DEF WorldMoves, TypeOK
<1>2. \A v \in Version : disclosed[v] \in Nat /\
          (disclosed'[v] = disclosed[v] \/ (disclosed[v] = Never /\ disclosed'[v] = now))
  BY Numbers DEF WorldMoves
<1>3. x.decided \in Nat /\ x.basis \subseteq Settings
  BY TimesAssumption DEF DownloadType
<1>4. ASSUME x.pc = "admitted"
      PROVE  /\ x.decided <= now'
             /\ \E s \in x.basis :
                    ~s.osv \/ (s.ttl # 0 /\ disclosed'[x.file.version] + s.ttl > x.decided)
  <2>1. x.file.version \in Version /\ x.decided <= now
    BY <1>4, Numbers DEF DownloadInv
  <2>2. PICK s \in x.basis : ~s.osv \/ (s.ttl # 0 /\ disclosed[x.file.version] + s.ttl > x.decided)
    BY <1>4 DEF DownloadInv
  <2>3. s.ttl \in Nat
    BY <1>3, Numbers
  <2>4. ~s.osv \/ (s.ttl # 0 /\ disclosed'[x.file.version] + s.ttl > x.decided)
    BY <1>1, <1>2, <1>3, <2>1, <2>2, <2>3
  <2> QED
    BY <1>1, <1>3, <2>1, <2>4
<1> QED
  BY <1>4 DEF DownloadInv

-----------------------------------------------------------------------------
(* A page's step leaves the rest alone, but for the tables and the policy.  *)
LEMMA PageFrame ==
    ASSUME NEW p \in Page, PageStep(p)
    PROVE  UNCHANGED <<world, control, download>>
  BY DEF PageStep, Begin, ReadOwner, ReadSettings, Configure, ReadProject, Fetch, FetchFails,
     StoreProject, RecordTarget, ReadScan, QueryOsv, OsvFails, StoreScan, ReadOverrides, Register, Fail

(* The tables are what they were, or what a page holds is written there.    *)
LEMMA PageTables ==
    ASSUME NEW p \in Page, PageStep(p)
    PROVE  /\ \/ projects' = projects
              \/ /\ page[p].pc = "store"
                 /\ projects' = [files |-> page[p].payload, fetched |-> page[p].at]
           /\ \/ scans' = scans
              \/ /\ page[p].pc = "record"
                 /\ scans' = {r \in scans : r.key # page[p].cached.key} \cup {page[p].cached}
           /\ registered' = registered \/ registered' = registered \cup page[p].payload
  BY DEF PageStep, Begin, ReadOwner, ReadSettings, Configure, ReadProject, Fetch, FetchFails,
     StoreProject, RecordTarget, ReadScan, QueryOsv, OsvFails, StoreScan, ReadOverrides, Register, Fail,
     tables

(* The policy of a process is left alone, or is the page's from now on.     *)
LEMMA PageMemory ==
    ASSUME NEW p \in Page, PageStep(p)
    PROVE  \/ UNCHANGED memory
           \/ /\ page[p].pc = "configure"
              /\ policy' = [policy EXCEPT ![On[p]] = page[p].runtime]
              /\ inForce' = [inForce EXCEPT ![On[p]] = page[p].held]
  BY DEF PageStep, Begin, ReadOwner, ReadSettings, Configure, ReadProject, Fetch, FetchFails,
     StoreProject, RecordTarget, ReadScan, QueryOsv, OsvFails, StoreScan, ReadOverrides, Register, Fail

(* A download's step leaves everything but the download alone.              *)
LEMMA DownloadFrame ==
    ASSUME NEW d \in Download, DownloadStep(d)
    PROVE  UNCHANGED <<world, tables, control, memory, page>>
  BY DEF DownloadStep, ReadArtifact, ReadProjectRow, ReadAction, Authorize, Leave

(* What a download's step makes of its record.                              *)
LEMMA DownloadRecord ==
    ASSUME TypeOK, NEW d \in Download, DownloadStep(d)
    PROVE  \E y \in DownloadType : download' = [download EXCEPT ![d] = y]
<1> DEFINE x == download[d]
<1>0. /\ download \in [Download -> DownloadType] /\ x \in DownloadType /\ NewDownload \in DownloadType
      /\ On[d] \in Replica /\ inForce[On[d]] \in SUBSET Settings /\ now \in 0..MaxTime
  BY Typed, RequestsAssumption DEF TypeOK
<1>1. ASSUME NEW z \in DownloadType, NEW action, download' = [download EXCEPT ![d] = Enforced(d, z, action)]
      PROVE  \E y \in DownloadType : download' = [download EXCEPT ![d] = y]
  <2>1. Enforced(d, z, action) \in DownloadType
    <3> DEFINE label == IF policy[On[d]].osv THEN "advisory" ELSE "admitted"
    <3>1. label \in {"advisory", "admitted"}
      OBVIOUS
    <3>2. Enforced(d, z, action) = NewDownload
          \/ Enforced(d, z, action) = [z EXCEPT !.pc = label, !.decided = now, !.basis = inForce[On[d]]]
      BY DEF Enforced
    <3> HIDE DEF label
    <3> QED
      BY <1>0, <3>1, <3>2 DEF DownloadType
  <2> QED
    BY <1>1, <2>1
<1>2. ASSUME EndDownload(d) PROVE \E y \in DownloadType : download' = [download EXCEPT ![d] = y]
  BY <1>0, <1>2 DEF EndDownload
<1>3. ASSUME NEW f \in registered, ReadArtifact(d, f)
      PROVE  \E y \in DownloadType : download' = [download EXCEPT ![d] = y]
  <2> DEFINE begun == [NewDownload EXCEPT !.pc = "owns", !.file = f, !.late = claimed]
  <2>1. begun \in DownloadType
    BY <1>0 DEF TypeOK, DownloadType
  <2>2. CASE backend = "azure"
    BY <1>3, <2>1, <2>2 DEF ReadArtifact
  <2>3. CASE backend # "azure"
    <3>1. download' = [download EXCEPT ![d] = Enforced(d, begun, "none")]
      BY <1>3, <2>3 DEF ReadArtifact
    <3> HIDE DEF begun
    <3> QED
      BY <1>1, <2>1, <3>1
  <2> QED
    BY <2>2, <2>3
<1>4. ASSUME ReadProjectRow(d) PROVE \E y \in DownloadType : download' = [download EXCEPT ![d] = y]
  <2>1. CASE EndDownload(d)
    BY <1>2, <2>1
  <2>2. CASE download' = [download EXCEPT ![d].pc = "overrides"]
    <3>1. [x EXCEPT !.pc = "overrides"] \in DownloadType
      BY <1>0 DEF DownloadType
    <3> QED
      BY <1>0, <2>2, <3>1
  <2> QED
    BY <1>4, <2>1, <2>2 DEF ReadProjectRow
<1>5. ASSUME ReadAction(d) PROVE \E y \in DownloadType : download' = [download EXCEPT ![d] = y]
  <2>1. download' = [download EXCEPT ![d] = Enforced(d, x, override[x.file.version])]
    BY <1>0, <1>5 DEF ReadAction
  <2> QED
    BY <1>0, <1>1, <2>1
<1>6. ASSUME Authorize(d) PROVE \E y \in DownloadType : download' = [download EXCEPT ![d] = y]
  <2>1. CASE EndDownload(d)
    BY <1>2, <2>1
  <2>2. CASE download' = [download EXCEPT ![d].pc = "admitted", ![d].decided = now,
                                          ![d].basis = inForce[On[d]]]
    <3>1. [x EXCEPT !.pc = "admitted", !.decided = now, !.basis = inForce[On[d]]] \in DownloadType
      BY <1>0 DEF DownloadType
    <3> QED
      BY <1>0, <2>2, <3>1
  <2> QED
    BY <1>6, <2>1, <2>2 DEF Authorize
<1>7. ASSUME Leave(d) PROVE \E y \in DownloadType : download' = [download EXCEPT ![d] = y]
  BY <1>2, <1>7 DEF Leave
<1> QED
  BY <1>3, <1>4, <1>5, <1>6, <1>7 DEF DownloadStep

(* Every step keeps every variable's type.                                  *)
LEMMA TypeStep ==
    TypeOK /\ WorldInv /\ RowsInv /\ (\A p \in Page : PageInv(page[p])) /\ [Next]_vars => TypeOK'
<1> SUFFICES ASSUME TypeOK, WorldInv, RowsInv, \A p \in Page : PageInv(page[p]), [Next]_vars
             PROVE  TypeOK'
    OBVIOUS
<1> USE DEF world, tables, control, memory
<1>0. /\ page \in [Page -> PageType] /\ download \in [Download -> DownloadType]
      /\ NewPage \in PageType /\ NewDownload \in DownloadType
  BY Typed
<1>1. CASE Tick
  BY <1>0, <1>1, TimesAssumption DEF Tick, TypeOK, Never
<1>2. ASSUME NEW v \in Version, Release(v) PROVE TypeOK'
  BY <1>0, <1>2 DEF Release, File, TypeOK
<1>3. ASSUME NEW v \in Version, Disclose(v) PROVE TypeOK'
  BY <1>0, <1>3, TimesAssumption DEF Disclose, TypeOK, Never
<1>4. ASSUME NEW v \in Version, NEW a \in {"none", "allow", "block"}, SetOverride(v, a) PROVE TypeOK'
  BY <1>0, <1>4, TimesAssumption DEF SetOverride, Change, TypeOK
<1>5. ASSUME Claim PROVE TypeOK'
  BY <1>0, <1>5, TimesAssumption DEF Claim, Change, TypeOK
<1>6. ASSUME NEW s \in Settings, Settle(s) PROVE TypeOK'
  <2>1. page' \in [Page -> PageType]
    <3>1. \A p \in Page : [page[p] EXCEPT !.held = @ \cup {s}] \in PageType
      BY <1>0 DEF PageType
    <3> QED
      BY <1>0, <1>6, <3>1 DEF Settle
  <2>2. inForce' \in [Replica -> SUBSET Settings] /\ setting' \in Settings /\ changes' \in 0..MaxChanges
    BY <1>6, TimesAssumption DEF Settle, Change, TypeOK
  <2> QED
    BY <1>6, <2>1, <2>2 DEF Settle, TypeOK, PageType
<1>7. ASSUME NEW key \in {"osv", "ttl"}, ResetSetting(key) PROVE TypeOK'
  <2>1. [setting EXCEPT ![key] = Default[key]] \in Settings
    BY SettingsAssumption DEF TypeOK
  <2> QED
    BY <1>6, <1>7, <2>1 DEF ResetSetting
<1>8. ASSUME NEW p \in Page, PageStep(p) PROVE TypeOK'
  <2>1. page' \in [Page -> PageType]
    BY <1>8, PageSteps DEF Progress
  <2>2. UNCHANGED <<world, control, download>>
    BY <1>8, PageFrame
  <2>3. /\ page[p].payload \subseteq File /\ page[p].at \in 0..MaxTime /\ page[p].cached \in Scan
        /\ page[p].runtime \in Settings /\ page[p].held \in SUBSET Settings
    BY <1>0 DEF PageType
  <2>4. RowTypes'
    <3>1. \/ projects' = projects
          \/ projects' = [files |-> page[p].payload, fetched |-> page[p].at]
      BY <1>8, PageTables
    <3>2. projects'.files \subseteq File /\ projects'.fetched \in 0..Never
      BY <2>3, <3>1, TimesAssumption DEF TypeOK, Never
    <3>3. scans' \subseteq Scan
      BY <1>8, <2>3, PageTables DEF TypeOK
    <3>4. registered' \subseteq File
      BY <1>8, <2>3, PageTables DEF TypeOK
    <3> QED
      BY <3>2, <3>3, <3>4 DEF RowTypes
  <2>5. policy' \in [Replica -> Settings] /\ inForce' \in [Replica -> SUBSET Settings]
    BY <1>8, <2>3, PageMemory DEF TypeOK
  <2> QED
    BY <2>1, <2>2, <2>4, <2>5 DEF TypeOK, RowTypes, PageType
<1>9. ASSUME NEW d \in Download, DownloadStep(d) PROVE TypeOK'
  <2>1. download' \in [Download -> DownloadType]
    BY <1>0, <1>9, DownloadRecord
  <2>2. UNCHANGED <<world, tables, control, memory, page>>
    BY <1>9, DownloadFrame
  <2> QED
    BY <2>1, <2>2 DEF TypeOK, DownloadType
<1>10. ASSUME NEW r \in Replica, Restart(r) PROVE TypeOK'
  <2>1. [NewPage EXCEPT !.pc = "done"] \in PageType
    BY Ended
  <2>2. page' \in [Page -> PageType] /\ download' \in [Download -> DownloadType]
    BY <1>0, <1>10, <2>1 DEF Restart
  <2>3. policy' \in [Replica -> Settings] /\ inForce' \in [Replica -> SUBSET Settings]
    BY <1>10, SettingsAssumption DEF Restart, TypeOK
  <2>4. UNCHANGED <<world, tables, control>>
    BY <1>10 DEF Restart
  <2> QED
    BY <2>2, <2>3, <2>4 DEF TypeOK, PageType, DownloadType
<1>11. CASE UNCHANGED vars
  BY <1>11 DEF vars, TypeOK
<1> QED
  BY <1>1, <1>2, <1>3, <1>4, <1>5, <1>6, <1>7, <1>8, <1>9, <1>10, <1>11
     DEF Next, World, UpdateSettings

-----------------------------------------------------------------------------
(* Whoever it is that moves, upstream and OSV stay of the past, and nobody  *)
(* changes settings or claims a name on SQLite.                             *)
LEMMA WorldInvStep == TypeOK /\ TypeOK' /\ WorldInv /\ [Next]_vars => WorldInv'
<1> SUFFICES ASSUME TypeOK, TypeOK', WorldInv, [Next]_vars PROVE WorldInv'
    OBVIOUS
<1>1. WorldMoves
  BY Moves
<1>2. now \in Nat /\ now' \in Nat /\ now <= now' /\ now < Never /\ Never \in Nat
  BY <1>1, Numbers, TimesAssumption DEF WorldMoves, TypeOK
<1>3. \A f \in upstream' : f.uploaded # NoTime => f.uploaded <= now'
  <2>1. \A f \in upstream : f.uploaded # NoTime => f.uploaded \in Nat /\ f.uploaded <= now
    BY Numbers DEF WorldInv
  <2> QED
    BY <1>1, <1>2, <2>1 DEF WorldMoves
<1>4. \A v \in Version : disclosed'[v] <= now' \/ disclosed'[v] = Never
  <2>1. \A v \in Version : disclosed[v] \in Nat
    BY Numbers
  <2> QED
    BY <1>1, <1>2, <2>1 DEF WorldMoves, WorldInv
<1>5. backend' = "sqlite" => setting' = Default /\ ~claimed'
  <2>1. backend' = backend /\ (Change \/ UNCHANGED <<setting, claimed>>)
    <3> USE DEF world, control
    <3>1. ASSUME NEW p \in Page, PageStep(p) PROVE UNCHANGED <<backend, setting, claimed>>
      BY <3>1, PageFrame
    <3>2. ASSUME NEW d \in Download, DownloadStep(d) PROVE UNCHANGED <<backend, setting, claimed>>
      BY <3>2, DownloadFrame
    <3> QED
      BY <3>1, <3>2 DEF Next, World, Tick, Release, Disclose, SetOverride, Claim, UpdateSettings,
         ResetSetting, Settle, Restart, vars
  <2> QED
    BY <2>1 DEF WorldInv, Change
<1> QED
  BY <1>3, <1>4, <1>5 DEF WorldInv

(* The rows stay true, whichever page writes them and however late.         *)
LEMMA RowsStep ==
    /\ TypeOK /\ TypeOK' /\ WorldInv /\ RowsInv /\ (\A p \in Page : PageInv(page[p]))
    /\ [Next]_vars
    => RowsInv'
<1> SUFFICES ASSUME TypeOK, TypeOK', WorldInv, RowsInv, \A p \in Page : PageInv(page[p]), [Next]_vars
             PROVE  RowsInv'
    OBVIOUS
<1>1. WorldMoves
  BY Moves
<1>2. now \in Nat /\ now' \in Nat /\ now <= now'
  BY <1>1, Numbers, TimesAssumption DEF WorldMoves, TypeOK
<1>3. CASE UNCHANGED <<projects, scans>>
  <2>1. Snapshot(projects.files)'
    BY <1>1, <1>3, SnapshotKept DEF RowsInv
  <2>2. projects.fetched # Never => projects.fetched <= now' /\ Since(projects.files, projects.fetched)'
    <3>1. projects.fetched \in Nat
      BY Numbers
    <3>2. ASSUME projects.fetched # Never PROVE Since(projects.files, projects.fetched)'
      <4>1. projects.fetched <= now /\ Since(projects.files, projects.fetched)
        BY <3>2 DEF RowsInv
      <4>2. \A f \in upstream' : f.uploaded # NoTime /\ f.uploaded < projects.fetched => f \in projects.files
        BY <1>1, <1>2, <3>1, <4>1 DEF Since, WorldMoves
      <4> QED
        BY <1>3, <4>2 DEF Since
    <3> QED
      BY <1>2, <3>1, <3>2 DEF RowsInv
  <2>3. \A r \in scans : r.checked <= now' /\ Honest(r)'
    <3> TAKE r \in scans
    <3>1. r \in Scan /\ r.checked \in Nat /\ r.checked <= now /\ Honest(r)
      BY Numbers DEF TypeOK, RowsInv
    <3> QED
      BY <1>1, <1>2, <3>1, HonestKept
  <2> QED
    BY <1>3, <2>1, <2>2, <2>3 DEF RowsInv, Since
<1>4. ASSUME NEW p \in Page, PageStep(p) PROVE RowsInv'
  <2> DEFINE x == page[p]
  <2>1. UNCHANGED world /\ PageInv(x) /\ x \in PageType
    BY <1>4, PageFrame, Typed
  <2>2. UNCHANGED <<now, upstream, disclosed>>
    BY <2>1 DEF world
  <2>3. Snapshot(projects'.files) /\ (projects'.fetched # Never =>
            projects'.fetched <= now /\ Since(projects'.files, projects'.fetched))
    <3>1. CASE projects' = projects
      BY <3>1 DEF RowsInv
    <3>2. CASE x.pc = "store" /\ projects' = [files |-> x.payload, fetched |-> x.at]
      BY <2>1, <3>2 DEF PageInv
    <3> QED
      BY <1>4, <3>1, <3>2, PageTables
  <2>4. (\A r \in scans' : r.checked <= now /\ Honest(r)) /\ (\A q, r \in scans' : q.key = r.key => q = r)
    <3>1. CASE scans' = scans
      BY <3>1 DEF RowsInv
    <3>2. CASE /\ x.pc = "record"
               /\ scans' = {r \in scans : r.key # x.cached.key} \cup {x.cached}
      <4>1. x.cached.checked <= now /\ Honest(x.cached)
        BY <2>1, <3>2 DEF PageInv
      <4> QED
        BY <3>2, <4>1 DEF RowsInv
    <3> QED
      BY <1>4, <3>1, <3>2, PageTables
  <2> QED
    BY <2>2, <2>3, <2>4 DEF RowsInv, Snapshot, Since, Honest
<1>5. CASE World
  BY <1>3, <1>5 DEF World, Tick, Release, Disclose, SetOverride, Claim, UpdateSettings, ResetSetting,
     Settle, tables
<1>6. ASSUME NEW d \in Download, DownloadStep(d) PROVE RowsInv'
  BY <1>3, <1>6, DownloadFrame DEF tables
<1>7. ASSUME NEW r \in Replica, Restart(r) PROVE RowsInv'
  BY <1>3, <1>7 DEF Restart, tables
<1>8. CASE UNCHANGED vars
  BY <1>3, <1>8 DEF vars, tables
<1> QED
  BY <1>4, <1>5, <1>6, <1>7, <1>8 DEF Next

(* A process follows a setting there has been since its page began.         *)
LEMMA PolicyStep ==
    TypeOK /\ PolicyInv /\ (\A p \in Page : PageInv(page[p])) /\ [Next]_vars => PolicyInv'
<1> SUFFICES ASSUME TypeOK, PolicyInv, \A p \in Page : PageInv(page[p]), [Next]_vars PROVE PolicyInv'
    OBVIOUS
<1> USE DEF memory, PolicyInv
<1>0. policy \in [Replica -> Settings] /\ inForce \in [Replica -> SUBSET Settings]
  BY DEF TypeOK
<1>1. CASE UNCHANGED memory
  BY <1>1
<1>2. ASSUME NEW s \in Settings, Settle(s) PROVE PolicyInv'
  BY <1>0, <1>2 DEF Settle
<1>3. ASSUME NEW key \in {"osv", "ttl"}, ResetSetting(key) PROVE PolicyInv'
  BY <1>0, <1>3 DEF ResetSetting, Settle
<1>4. ASSUME NEW p \in Page, PageStep(p) PROVE PolicyInv'
  <2>1. CASE /\ page[p].pc = "configure"
             /\ policy' = [policy EXCEPT ![On[p]] = page[p].runtime]
             /\ inForce' = [inForce EXCEPT ![On[p]] = page[p].held]
    <3>1. page[p].runtime \in page[p].held
      BY <2>1 DEF PageInv
    <3> QED
      BY <1>0, <2>1, <3>1
  <2> QED
    BY <1>1, <1>4, <2>1, PageMemory
<1>5. ASSUME NEW d \in Download, DownloadStep(d) PROVE PolicyInv'
  BY <1>1, <1>5, DownloadFrame
<1>6. ASSUME NEW r \in Replica, Restart(r) PROVE PolicyInv'
  BY <1>0, <1>6 DEF Restart
<1>7. CASE World
  BY <1>1, <1>2, <1>3, <1>7 DEF World, Tick, Release, Disclose, SetOverride, Claim, UpdateSettings
<1>8. CASE UNCHANGED vars
  BY <1>1, <1>8 DEF vars
<1> QED
  BY <1>4, <1>5, <1>6, <1>7, <1>8 DEF Next

-----------------------------------------------------------------------------
(* With the same world and settings, to know something now is to know it    *)
(* after the step.                                                          *)
LEMMA PageSame ==
    ASSUME UNCHANGED <<now, upstream, disclosed, setting>>, NEW p, PageInv(page'[p])
    PROVE  PageInv(page[p])'
  BY DEF PageInv, Snapshot, Since, Honest, Marked, LastResort, TooNew, OldEnough

(* What every page knows survives every step of anyone.                     *)
LEMMA PagesStep ==
    /\ TypeOK /\ TypeOK' /\ WorldInv /\ RowsInv /\ (\A p \in Page : PageInv(page[p]))
    /\ [Next]_vars
    => \A p \in Page : PageInv(page[p])'
<1> SUFFICES ASSUME TypeOK, TypeOK', WorldInv, RowsInv, \A p \in Page : PageInv(page[p]), [Next]_vars,
                    NEW p \in Page
             PROVE  PageInv(page[p])'
    OBVIOUS
<1> DEFINE x == page[p]
<1>0. page \in [Page -> PageType] /\ x \in PageType /\ PageInv(x) /\ WorldMoves
  BY Typed, Moves
<1>1. CASE UNCHANGED <<page, setting>>
  <2>1. \A y \in PageType : PageInv(y) => PageInv(y)'
    BY <1>0, <1>1, PageKept
  <2>2. \A y \in PageType : PageInv(y)' /\ y = page'[p] => PageInv(page[p])'
    BY DEF PageInv, Snapshot, Since, Honest, Marked, LastResort, TooNew, OldEnough
  <2> QED
    BY <1>0, <1>1, <2>1, <2>2
<1>2. ASSUME NEW s, Settle(s) PROVE PageInv(page[p])'
  <2>1. UNCHANGED <<now, upstream, disclosed>> /\ setting' = s
    BY <1>2 DEF Settle, world
  <2>2. CASE x.pc \in {"owns", "settings", "configure"}
    <3> DEFINE y == [x EXCEPT !.held = @ \cup {s}]
    <3>1. page'[p] = y
      BY <1>0, <1>2, <2>2 DEF Settle
    <3>2. /\ y.held = x.held \cup {s} /\ y.pc = x.pc /\ y.runtime = x.runtime /\ y.at = x.at
          /\ y.start = x.start /\ y.payload = x.payload /\ y.cached = x.cached /\ y.bad = x.bad
          /\ y.advisories = x.advisories
      BY <1>0 DEF PageType
    <3> HIDE DEF y
    <3> QED
      BY <1>0, <2>1, <2>2, <3>1, <3>2 DEF PageInv, Snapshot, Since, Honest
  <2>3. CASE x.pc \notin {"owns", "settings", "configure"}
    <3>1. page'[p] = x
      BY <1>0, <1>2, <2>3 DEF Settle
    <3> QED
      BY <1>0, <2>1, <2>3, <3>1
         DEF PageInv, Snapshot, Since, Honest, Marked, LastResort, TooNew, OldEnough
  <2> QED
    BY <2>2, <2>3
<1>3. ASSUME NEW q \in Page, PageStep(q) PROVE PageInv(page[p])'
  <2>1. UNCHANGED <<now, upstream, disclosed, setting>>
    BY <1>3, PageFrame DEF world, control
  <2>2. PageInv(page'[p])
    BY <1>0, <1>3, PageSteps DEF Progress
  <2> QED
    BY <2>1, <2>2, PageSame
<1>4. ASSUME NEW d \in Download, DownloadStep(d) PROVE PageInv(page[p])'
  BY <1>1, <1>4, DownloadFrame DEF control
<1>5. ASSUME NEW r \in Replica, Restart(r) PROVE PageInv(page[p])'
  <2>1. UNCHANGED <<now, upstream, disclosed, setting>>
    BY <1>5 DEF Restart, world, control
  <2>2. page'[p] = x \/ page'[p] = [NewPage EXCEPT !.pc = "done"]
    BY <1>0, <1>5 DEF Restart
  <2>3. PageInv(page'[p])
    BY <1>0, <2>2, Ended
  <2> QED
    BY <2>1, <2>3, PageSame
<1>6. CASE World
  BY <1>1, <1>2, <1>6 DEF World, Tick, Release, Disclose, SetOverride, Claim, UpdateSettings,
     ResetSetting, control
<1>7. CASE UNCHANGED vars
  BY <1>1, <1>7 DEF vars, control
<1> QED
  BY <1>3, <1>4, <1>5, <1>6, <1>7 DEF Next

(* A download that is let through, when it is, has its cause.               *)
LEMMA EnforcedKnows ==
    ASSUME TypeOK, PolicyInv, NEW d \in Download, NEW z \in DownloadType, NEW action,
           z.file \in File, ~z.late
    PROVE  DownloadInv(Enforced(d, z, action))
<1> DEFINE pol == policy[On[d]]
           label == IF pol.osv THEN "advisory" ELSE "admitted"
           y == [z EXCEPT !.pc = label, !.decided = now, !.basis = inForce[On[d]]]
<1>1. CASE action # "none"
  BY <1>1 DEF Enforced, NewDownload, DownloadInv
<1>2. CASE action = "none"
  <2>1. Enforced(d, z, action) = y
    BY <1>2 DEF Enforced
  <2>2. /\ y.pc = label /\ y.decided = now /\ y.basis = inForce[On[d]] /\ y.file = z.file
        /\ y.late = z.late
    <3> HIDE DEF label
    <3> QED
      BY DEF DownloadType
  <2>3. label \in {"advisory", "admitted"} /\ (label = "admitted" => ~pol.osv)
    OBVIOUS
  <2>4. pol \in inForce[On[d]] /\ now \in Nat
    BY RequestsAssumption, Numbers DEF PolicyInv
  <2> HIDE DEF y, label, pol
  <2>5. DownloadInv(y)
    BY <2>2, <2>3, <2>4 DEF DownloadInv
  <2> QED
    BY <2>1, <2>5
<1> QED
  BY <1>1, <1>2

(* The scan a download is let through with was asked for within the TTL of  *)
(* the policy that it follows.                                              *)
LEMMA AuthorizeKnows ==
    ASSUME TypeOK, RowsInv, PolicyInv, NEW d \in Download, DownloadInv(download[d]), Authorize(d)
    PROVE  DownloadInv(download'[d])
<1> DEFINE x == download[d]
           v == x.file.version
           pol == policy[On[d]]
<1>0. /\ download \in [Download -> DownloadType] /\ x \in DownloadType /\ x.pc = "advisory"
      /\ x.file \in File /\ ~x.late
  BY Typed DEF Authorize, DownloadInv
<1>1. CASE EndDownload(d)
  BY <1>0, <1>1 DEF EndDownload, NewDownload, DownloadInv
<1>2. ASSUME NEW r \in scans, v \in r.key \ r.bad, now < r.checked + pol.ttl,
             download' = [download EXCEPT ![d].pc = "admitted", ![d].decided = now,
                                          ![d].basis = inForce[On[d]]]
      PROVE  DownloadInv(download'[d])
  <2>1. /\ pol \in inForce[On[d]] /\ pol \in Settings /\ pol.ttl \in Nat /\ now \in Nat
        /\ r.checked \in Nat /\ r.checked <= now /\ v \in Version /\ disclosed[v] \in Nat
    BY <1>0, RequestsAssumption, Numbers DEF PolicyInv, TypeOK, RowsInv
  <2>2. disclosed[v] >= r.checked
    BY <1>2 DEF RowsInv, Honest
  <2>3. pol.ttl # 0 /\ disclosed[v] + pol.ttl > now
    BY <1>2, <2>1, <2>2
  <2>4. /\ download'[d].pc = "admitted" /\ download'[d].decided = now
        /\ download'[d].basis = inForce[On[d]] /\ download'[d].file = x.file
        /\ download'[d].late = x.late
    BY <1>0, <1>2 DEF DownloadType
  <2> QED
    BY <1>0, <2>1, <2>3, <2>4 DEF DownloadInv
<1> QED
  BY <1>1, <1>2 DEF Authorize

(* What every download knows survives every step of anyone.                 *)
LEMMA DownloadsStep ==
    /\ TypeOK /\ TypeOK' /\ WorldInv /\ RowsInv /\ PolicyInv /\ (\A d \in Download : DownloadInv(download[d]))
    /\ [Next]_vars
    => \A d \in Download : DownloadInv(download[d])'
<1> SUFFICES ASSUME TypeOK, TypeOK', WorldInv, RowsInv, PolicyInv,
                    \A d \in Download : DownloadInv(download[d]), [Next]_vars, NEW d \in Download
             PROVE  DownloadInv(download[d])'
    OBVIOUS
<1> DEFINE x == download[d]
<1>0. /\ download \in [Download -> DownloadType] /\ x \in DownloadType /\ NewDownload \in DownloadType
      /\ DownloadInv(x) /\ WorldMoves /\ claimed \in BOOLEAN
  BY Typed, Moves DEF TypeOK
<1>1. CASE download'[d] = x /\ (claimed => claimed')
  <2>1. \A y \in DownloadType : DownloadInv(y) => DownloadInv(y)'
    BY <1>0, <1>1, DownloadKept
  <2>2. \A y \in DownloadType : DownloadInv(y)' /\ y = download'[d] => DownloadInv(download[d])'
    BY DEF DownloadInv
  <2> QED
    BY <1>0, <1>1, <2>1, <2>2
<1>2. CASE download'[d] = NewDownload
  BY <1>2 DEF DownloadInv, NewDownload
<1>3. CASE DownloadStep(d)
  <2>1. UNCHANGED <<now, disclosed, claimed>>
    BY <1>3, DownloadFrame DEF world, control
  <2>2. ASSUME DownloadInv(download'[d]) PROVE DownloadInv(download[d])'
    BY <2>1, <2>2 DEF DownloadInv
  <2>3. ASSUME NEW f \in registered, ReadArtifact(d, f) PROVE DownloadInv(download'[d])
    <3> DEFINE begun == [NewDownload EXCEPT !.pc = "owns", !.file = f, !.late = claimed]
    <3>1. begun.pc = "owns" /\ begun.file = f /\ begun.late = claimed /\ f \in File
      BY <1>0 DEF NewDownload, TypeOK
    <3>2. begun \in DownloadType
      BY <1>0, <3>1 DEF DownloadType
    <3> HIDE DEF begun
    <3>3. CASE backend = "azure"
      <4>1. download'[d] = begun
        BY <1>0, <2>3, <3>3 DEF ReadArtifact, begun
      <4> QED
        BY <3>1, <4>1 DEF DownloadInv
    <3>4. CASE backend # "azure"
      <4>1. download'[d] = Enforced(d, begun, "none")
        BY <1>0, <2>3, <3>4 DEF ReadArtifact, begun
      <4>2. ~claimed
        BY <3>4 DEF TypeOK, WorldInv
      <4> QED
        BY <3>1, <3>2, <4>1, <4>2, EnforcedKnows
    <3> QED
      BY <3>3, <3>4
  <2>4. ASSUME ReadProjectRow(d) PROVE DownloadInv(download'[d])
    <3>1. x.pc = "owns" /\ x.file \in File
      BY <1>0, <2>4 DEF ReadProjectRow, DownloadInv
    <3>2. CASE claimed
      BY <1>0, <2>4, <3>2 DEF ReadProjectRow, EndDownload, NewDownload, DownloadInv
    <3>3. CASE ~claimed
      <4>1. download' = [download EXCEPT ![d].pc = "overrides"]
        BY <2>4, <3>3 DEF ReadProjectRow
      <4>2. download'[d].pc = "overrides" /\ download'[d].file = x.file /\ download'[d].late = x.late
        BY <1>0, <4>1 DEF DownloadType
      <4> QED
        BY <1>0, <3>1, <3>3, <4>2 DEF DownloadInv
    <3> QED
      BY <3>2, <3>3
  <2>5. ASSUME ReadAction(d) PROVE DownloadInv(download'[d])
    <3>1. x.pc = "overrides" /\ x.file \in File /\ ~x.late
      BY <1>0, <2>5 DEF ReadAction, DownloadInv
    <3>2. download'[d] = Enforced(d, x, override[x.file.version])
      BY <1>0, <2>5 DEF ReadAction
    <3> QED
      BY <1>0, <3>1, <3>2, EnforcedKnows
  <2>6. ASSUME Authorize(d) PROVE DownloadInv(download'[d])
    BY <1>0, <2>6, AuthorizeKnows
  <2>7. ASSUME Leave(d) PROVE DownloadInv(download'[d])
    BY <1>0, <2>7 DEF Leave, EndDownload, NewDownload, DownloadInv
  <2> QED
    BY <1>3, <2>2, <2>3, <2>4, <2>5, <2>6, <2>7 DEF DownloadStep
<1>4. ASSUME NEW e \in Download, e # d, DownloadStep(e) PROVE DownloadInv(download[d])'
  <2>1. download'[d] = x /\ claimed' = claimed
    BY <1>0, <1>4, DownloadRecord, DownloadFrame DEF control
  <2> QED
    BY <1>1, <2>1
<1>5. ASSUME NEW p \in Page, PageStep(p) PROVE DownloadInv(download[d])'
  BY <1>1, <1>5, PageFrame DEF control
<1>6. ASSUME NEW r \in Replica, Restart(r) PROVE DownloadInv(download[d])'
  <2>1. (download'[d] = x \/ download'[d] = NewDownload) /\ claimed' = claimed
    BY <1>0, <1>6 DEF Restart, control
  <2> QED
    BY <1>1, <1>2, <2>1
<1>7. CASE World
  BY <1>1, <1>7 DEF World, Tick, Release, Disclose, SetOverride, Claim, UpdateSettings, ResetSetting,
     Settle, control
<1>8. CASE UNCHANGED vars
  BY <1>1, <1>8 DEF vars, control
<1> QED
  BY <1>3, <1>4, <1>5, <1>6, <1>7, <1>8 DEF Next

-----------------------------------------------------------------------------
(* IInv holds at the start.                                                 *)
LEMMA InitIInv == Init => IInv
<1> SUFFICES ASSUME Init PROVE IInv
    OBVIOUS
<1>1. InitialFiles \subseteq File /\ \A f \in InitialFiles : f.uploaded \in {0, NoTime}
  BY InitialFilesAssumption, TimesAssumption DEF File
<1>2. NoScan \in Scan /\ NewPage \in PageType /\ NewDownload \in DownloadType
  <2>1. NoScan \in Scan
    BY TimesAssumption DEF NoScan, Scan, Never
  <2> QED
    BY <2>1, TimesAssumption, SettingsAssumption
       DEF NewPage, PageType, PageStates, NewDownload, DownloadType
<1>3. TypeOK
  <2>0. now \in 0..MaxTime /\ changes \in 0..MaxChanges
    BY TimesAssumption DEF Init
  <2>1. /\ backend \in {"sqlite", "azure"} /\ claimed \in BOOLEAN
        /\ upstream \subseteq File /\ scans \subseteq Scan /\ registered \subseteq File
    BY <1>1 DEF Init
  <2>2. /\ disclosed \in [Version -> 0..Never]
        /\ override \in [Version -> {"none", "allow", "block"}]
        /\ projects.files \subseteq File /\ projects.fetched \in 0..Never
    BY TimesAssumption DEF Init, Never
  <2>3. /\ setting \in Settings /\ policy \in [Replica -> Settings]
        /\ inForce \in [Replica -> SUBSET Settings]
    BY SettingsAssumption DEF Init
  <2>4. page \in [Page -> PageType] /\ download \in [Download -> DownloadType]
    BY <1>2 DEF Init
  <2> QED
    BY <2>0, <2>1, <2>2, <2>3, <2>4 DEF TypeOK, PageType, DownloadType
<1>4. WorldInv
  BY <1>1, NoTimeAssumption DEF Init, WorldInv
<1>5. RowsInv
  BY DEF Init, RowsInv, Snapshot
<1>6. PolicyInv
  BY DEF Init, PolicyInv
<1>7. \A p \in Page : PageInv(page[p])
  <2> TAKE p \in Page
  <2>1. page[p] = NewPage /\ now = 0
    BY DEF Init
  <2> QED
    BY <2>1 DEF NewPage, PageInv, Snapshot, Honest, NoScan
<1>8. \A d \in Download : DownloadInv(download[d])
  BY DEF Init, NewDownload, DownloadInv
<1> QED
  BY <1>3, <1>4, <1>5, <1>6, <1>7, <1>8 DEF IInv

(* Every step keeps IInv.                                                   *)
LEMMA StepIInv == IInv /\ [Next]_vars => IInv'
<1> SUFFICES ASSUME IInv, [Next]_vars PROVE IInv'
    OBVIOUS
<1>1. /\ TypeOK /\ WorldInv /\ RowsInv /\ PolicyInv
      /\ \A p \in Page : PageInv(page[p])
      /\ \A d \in Download : DownloadInv(download[d])
  BY DEF IInv
<1>2. TypeOK'
  BY <1>1, TypeStep
<1>3. WorldInv' /\ RowsInv' /\ PolicyInv'
  BY <1>1, <1>2, WorldInvStep, RowsStep, PolicyStep
<1>4. \A p \in Page : PageInv(page[p])'
  BY <1>1, <1>2, PagesStep
<1>5. \A d \in Download : DownloadInv(download[d])'
  BY <1>1, <1>2, DownloadsStep
<1> QED
  BY <1>2, <1>3, <1>4, <1>5 DEF IInv

(* The inductive invariant holds of every behaviour, for any number of      *)
(* processes, pages and downloads, whatever the settings, TTLs and ages.    *)
THEOREM Invariance == Spec => []IInv
<1>1. Init => IInv
  BY InitIInv
<1>2. IInv /\ [Next]_vars => IInv'
  BY StepIInv
<1> QED
  BY <1>1, <1>2, PTL DEF Spec

(* Every variable has its type, and the cached rows are true of the time    *)
(* they carry, one for each version set.                                    *)
THEOREM RowsTrue == Spec => []Consistent
<1>1. IInv => Consistent
  BY DEF IInv, RowsInv, Since, Honest, Consistent, RowsTruthful
<1> QED
  BY <1>1, Invariance, PTL

(* A file that policy lets a download have is one that a setting admits     *)
(* which there has been since the page began that the process follows.      *)
THEOREM Admitted == Spec => []AdmittedWithCause
<1>1. IInv => AdmittedWithCause
  BY DEF IInv, DownloadInv, AdmittedWithCause
<1> QED
  BY <1>1, Invariance, PTL

(* A page with current advisories yanks what has long been public.          *)
THEOREM Marks == Spec => []PageMarks
<1>1. IInv => PageMarks
  BY DEF IInv, PageInv, Marked, PageMarks
<1> QED
  BY <1>1, Invariance, PTL

(* A page shows a file early only as the last resort.                       *)
THEOREM NeverTooEarly == Spec => []PageLastResort
<1>1. IInv => PageLastResort
  BY DEF IInv, PageInv, LastResort, PageLastResort
<1> QED
  BY <1>1, Invariance, PTL

(* A page that upstream did not fail has all that upstream had a metadata   *)
(* TTL before it asked.                                                     *)
THEOREM MetadataIsCurrent == Spec => MetadataCurrent
<1> DEFINE Kept == \A p \in Page :
              page[p].pc \in {"project", "store"} /\ page'[p].pc \in {"target", "overrides"} =>
                  \A f \in upstream : f.uploaded # NoTime /\ f.uploaded + MetadataTTL < page[p].at =>
                      f \in page'[p].payload
<1>1. IInv /\ [Next]_vars => [Kept]_vars
  <2> SUFFICES ASSUME IInv, Next, NEW p \in Page,
                      page[p].pc \in {"project", "store"}, page'[p].pc \in {"target", "overrides"},
                      NEW f \in upstream, f.uploaded # NoTime, f.uploaded + MetadataTTL < page[p].at
               PROVE  f \in page'[p].payload
    OBVIOUS
  <2> DEFINE x == page[p]
  <2>0. /\ page \in [Page -> PageType] /\ x \in PageType /\ TypeOK /\ RowsInv /\ PageInv(x)
        /\ x.at \in Nat /\ f.uploaded \in Nat /\ MetadataTTL \in Nat /\ projects.fetched \in Nat
    BY Typed, PageNumbers, Numbers, TimesAssumption DEF IInv
  <2>1. CASE ReadProject(p)
    <3>1. x.at <= projects.fetched + MetadataTTL /\ projects.fetched # Never /\ Listed(p, projects.files)
      <4>1. CASE projects.fetched = Never \/ x.at > projects.fetched + MetadataTTL
        <5>1. page' = [page EXCEPT ![p].pc = "fetch", ![p].payload = projects.files]
          BY <2>1, <4>1 DEF ReadProject
        <5>2. page'[p].pc = "fetch"
          BY <2>0, <5>1 DEF PageType
        <5> QED
          BY <5>2
      <4>2. CASE ~(projects.fetched = Never \/ x.at > projects.fetched + MetadataTTL)
        BY <2>0, <2>1, <4>2 DEF ReadProject
      <4> QED
        BY <4>1, <4>2
    <3>2. f.uploaded < projects.fetched
      BY <2>0, <3>1
    <3>3. f \in projects.files
      BY <2>0, <3>1, <3>2 DEF RowsInv, Since
    <3>4. page'[p].payload = projects.files
      BY <2>0, <3>1 DEF Listed
    <3> QED
      BY <3>3, <3>4
  <2>2. CASE StoreProject(p)
    <3>1. x.pc = "store" /\ Listed(p, x.payload)
      BY <2>2 DEF StoreProject
    <3>2. f \in x.payload
      BY <2>0, <3>1 DEF PageInv, Since
    <3>3. page'[p].payload = x.payload
      BY <2>0, <3>1 DEF Listed
    <3> QED
      BY <3>2, <3>3
  <2>3. page'[p].pc # x.pc
    OBVIOUS
  <2>4. ASSUME NEW q \in Page, PageStep(q) PROVE f \in page'[p].payload
    <3>1. q = p
      <4>1. WorldInv /\ PageInv(page[q])
        BY DEF IInv
      <4> QED
        BY <2>0, <2>3, <2>4, <4>1, PageSteps DEF Progress
    <3>2. CASE Fail(p)
      BY <2>0, <3>2 DEF Fail, EndPage
    <3> QED
      BY <2>0, <2>1, <2>2, <2>4, <3>1, <3>2 DEF PageStep, Begin, ReadOwner, ReadSettings, Configure,
         Fetch, FetchFails, RecordTarget, ReadScan, QueryOsv, OsvFails, StoreScan, ReadOverrides, Register
  <2>5. ASSUME NEW s, Settle(s) PROVE FALSE
    <3>1. page'[p] = x
      BY <2>0, <2>5 DEF Settle
    <3> QED
      BY <2>3, <3>1
  <2>6. CASE World
    BY <2>3, <2>5, <2>6 DEF World, Tick, Release, Disclose, SetOverride, Claim, UpdateSettings,
       ResetSetting
  <2>7. ASSUME NEW d \in Download, DownloadStep(d) PROVE FALSE
    BY <2>3, <2>7, DownloadFrame
  <2>8. ASSUME NEW r \in Replica, Restart(r) PROVE FALSE
    BY <2>0, <2>3, <2>8 DEF Restart
  <2> QED
    BY <2>4, <2>6, <2>7, <2>8 DEF Next
<1> QED
  BY <1>1, Invariance, PTL DEF Spec, MetadataCurrent
-----------------------------------------------------------------------------
(* A late answer of OSV overwrites a newer row of its version set           *)
(* (advisories.py).  A version is settled once no such answer is left: OSV  *)
(* knows it to be vulnerable, and so do the rows and every page that is     *)
(* about to store one.                                                      *)
Settled(v) ==
    /\ disclosed[v] <= now
    /\ \A r \in scans : v \in r.key => v \in r.bad
    /\ \A p \in Page : page[p].pc = "record" /\ v \in page[p].cached.key => v \in page[p].cached.bad

(* A step keeps what is settled, and admits a download of it only while the *)
(* process does not check advisories.                                       *)
Settles(v) ==
    Settled(v) =>
        /\ Settled(v)'
        /\ \A d \in Download :
               /\ download[d].pc # "admitted"
               /\ download'[d].pc = "admitted"
               /\ download'[d].file.version = v
               => ~policy[On[d]].osv

SettledForGood == [][\A v \in Version : Settles(v)]_vars

\* What OSV answers a page now.
OsvSays(p) == [key |-> Versions(page[p].payload), bad |-> Versions(page[p].payload) \cap Vulnerable,
               checked |-> page[p].at]

(* A page's step that leaves an answer to be stored has just received it.   *)
LEMMA Answered ==
    ASSUME TypeOK, NEW p \in Page, PageStep(p), page'[p].pc = "record"
    PROVE  page'[p].cached = OsvSays(p)
<1> DEFINE x == page[p]
<1>0. page \in [Page -> PageType] /\ x \in PageType
  BY Typed
<1>1. QueryOsv(p)
  <2>1. ASSUME NEW files, Listed(p, files) PROVE FALSE
    BY <1>0, <2>1 DEF Listed, PageType
  <2>2. ~EndPage(p)
    BY <1>0 DEF EndPage, NewPage
  <2>3. ASSUME NEW scan, NEW status \in {"HIT", "STALE", "ERROR"}, Evaluated(p, scan, status) PROVE FALSE
    BY <1>0, <2>3 DEF Evaluated, PageType
  <2>4. ~(Begin(p) \/ ReadOwner(p) \/ ReadSettings(p) \/ Configure(p) \/ Fetch(p) \/ RecordTarget(p))
    BY <1>0, <2>2 DEF Begin, ReadOwner, ReadSettings, Configure, Fetch, RecordTarget, PageType
  <2>5. ~(ReadProject(p) \/ FetchFails(p) \/ StoreProject(p))
    BY <1>0, <2>1 DEF ReadProject, FetchFails, StoreProject, PageType
  <2>6. ~(ReadScan(p) \/ OsvFails(p))
    BY <1>0, <2>3 DEF ReadScan, OsvFails, PageType
  <2>7. ~(StoreScan(p) \/ ReadOverrides(p) \/ Register(p) \/ Fail(p))
    BY <1>0, <2>2 DEF StoreScan, ReadOverrides, Register, Fail, PageType
  <2> QED
    BY <2>4, <2>5, <2>6, <2>7 DEF PageStep
<1> QED
  BY <1>0, <1>1 DEF QueryOsv, Evaluated, OsvSays, PageType

(* What is about to be stored was so already, or is what OSV says now.      *)
LEMMA AboutToStore ==
    ASSUME IInv, [Next]_vars, NEW p \in Page, page'[p].pc = "record"
    PROVE  \/ page[p].pc = "record" /\ page'[p].cached = page[p].cached
           \/ page'[p].cached = OsvSays(p)
<1>0. page \in [Page -> PageType] /\ TypeOK
  BY Typed DEF IInv
<1>1. CASE page' = page
  BY <1>1
<1>2. ASSUME NEW q \in Page, PageStep(q) PROVE page'[p] = page[p] \/ page'[p].cached = OsvSays(p)
  <2>1. \A s \in Page \ {q} : page'[s] = page[s]
    BY <1>2, PageSteps DEF IInv, Progress
  <2> QED
    BY <1>0, <1>2, <2>1, Answered
<1>3. ASSUME NEW s, Settle(s) PROVE page[p].pc = "record" /\ page'[p].cached = page[p].cached
  <2>1. page'[p].pc = page[p].pc /\ page'[p].cached = page[p].cached
    BY <1>0, <1>3 DEF Settle, PageType
  <2> QED
    BY <2>1
<1>4. ASSUME NEW r \in Replica, Restart(r) PROVE page'[p] = page[p]
  BY <1>0, <1>4 DEF Restart, NewPage
<1>5. ASSUME NEW d \in Download, DownloadStep(d) PROVE page' = page
  BY <1>5, DownloadFrame
<1>6. CASE World
  BY <1>1, <1>3, <1>6 DEF World, Tick, Release, Disclose, SetOverride, Claim, UpdateSettings, ResetSetting
<1> QED
  BY <1>1, <1>2, <1>3, <1>4, <1>5, <1>6 DEF Next, vars

(* What is stored was about to be stored.                                   *)
LEMMA StoredScans ==
    ASSUME [Next]_vars, NEW r \in scans'
    PROVE  r \in scans \/ \E p \in Page : page[p].pc = "record" /\ r = page[p].cached
<1>1. ASSUME NEW p \in Page, PageStep(p)
      PROVE  r \in scans \/ (page[p].pc = "record" /\ r = page[p].cached)
  BY <1>1, PageTables
<1>2. ASSUME NEW d \in Download, DownloadStep(d) PROVE scans' = scans
  BY <1>2, DownloadFrame DEF tables
<1>3. CASE World \/ \E q \in Replica : Restart(q)
  BY <1>3 DEF World, Tick, Release, Disclose, SetOverride, Claim, UpdateSettings, ResetSetting, Settle,
     Restart, tables
<1> QED
  BY <1>1, <1>2, <1>3 DEF Next, vars, tables

(* A download is admitted by a process that checks no advisories, or by a   *)
(* row that calls its version safe.                                         *)
LEMMA Admits ==
    ASSUME TypeOK, [Next]_vars, NEW d \in Download,
           download[d].pc # "admitted", download'[d].pc = "admitted"
    PROVE  \/ ~policy[On[d]].osv
           \/ \E r \in scans : download'[d].file.version \in r.key \ r.bad
<1>0. download \in [Download -> DownloadType]
  BY Typed
<1>1. CASE download' = download
  BY <1>1
<1>2. ASSUME NEW e \in Download, DownloadStep(e)
      PROVE  \/ ~policy[On[d]].osv
             \/ \E r \in scans : download'[d].file.version \in r.key \ r.bad
  <2>1. e = d
    BY <1>0, <1>2, DownloadRecord
  <2>2. ASSUME NEW x \in DownloadType, NEW action,
               download' = [download EXCEPT ![d] = Enforced(d, x, action)],
               policy[On[d]].osv
        PROVE  FALSE
    <3>1. Enforced(d, x, action) = NewDownload
          \/ Enforced(d, x, action) = [x EXCEPT !.pc = "advisory", !.decided = now, !.basis = inForce[On[d]]]
      BY <2>2 DEF Enforced
    <3>2. download'[d] = Enforced(d, x, action)
      BY <1>0, <2>2
    <3>3. download'[d].pc # "admitted"
      <4>1. [x EXCEPT !.pc = "advisory", !.decided = now, !.basis = inForce[On[d]]].pc = "advisory"
        BY DEF DownloadType
      <4>2. NewDownload.pc = "idle"
        BY DEF NewDownload
      <4> QED
        BY <3>1, <3>2, <4>1, <4>2
    <3> QED
      BY <1>2, <2>2, <3>3
  <2>3. ~EndDownload(d)
    BY <1>0 DEF EndDownload, NewDownload
  <2>4. ~ReadProjectRow(d) /\ ~Leave(d)
    BY <1>0, <2>3 DEF ReadProjectRow, Leave, DownloadType
  <2>5. ASSUME NEW f \in registered, ReadArtifact(d, f), policy[On[d]].osv PROVE FALSE
    <3> DEFINE begun == [NewDownload EXCEPT !.pc = "owns", !.file = f, !.late = claimed]
    <3>1. begun \in DownloadType /\ begun.pc = "owns"
      <4>1. f \in File /\ claimed \in BOOLEAN /\ NewDownload \in DownloadType
        BY Typed DEF TypeOK
      <4> QED
        BY <4>1 DEF DownloadType
    <3>2. CASE backend = "azure"
      BY <1>0, <2>5, <3>1, <3>2 DEF ReadArtifact
    <3>3. CASE backend # "azure"
      <4>1. download' = [download EXCEPT ![d] = Enforced(d, begun, "none")]
        BY <2>5, <3>3 DEF ReadArtifact
      <4> HIDE DEF begun
      <4> QED
        BY <2>2, <2>5, <3>1, <4>1
    <3> QED
      BY <3>2, <3>3
  <2>6. ASSUME ReadAction(d), policy[On[d]].osv PROVE FALSE
    <3>1. download' = [download EXCEPT ![d] = Enforced(d, download[d], override[download[d].file.version])]
      BY <1>0, <2>6 DEF ReadAction
    <3> QED
      BY <1>0, <2>2, <2>6, <3>1
  <2>7. ASSUME Authorize(d) PROVE \E r \in scans : download'[d].file.version \in r.key \ r.bad
    BY <1>0, <2>3, <2>7 DEF Authorize, DownloadType
  <2> QED
    BY <1>2, <2>1, <2>4, <2>5, <2>6, <2>7 DEF DownloadStep
<1>3. ASSUME NEW q \in Page, PageStep(q) PROVE download' = download
  BY <1>3, PageFrame
<1>4. ASSUME NEW q \in Replica, Restart(q) PROVE FALSE
  BY <1>0, <1>4 DEF Restart, NewDownload
<1>5. CASE World
  BY <1>1, <1>5 DEF World, Tick, Release, Disclose, SetOverride, Claim, UpdateSettings, ResetSetting, Settle
<1> QED
  BY <1>1, <1>2, <1>3, <1>4, <1>5 DEF Next, vars

(* Every step keeps what is settled.                                        *)
LEMMA SettlesStep ==
    ASSUME IInv, [Next]_vars, NEW v \in Version
    PROVE  Settles(v)
<1> SUFFICES ASSUME Settled(v)
             PROVE  /\ Settled(v)'
                    /\ \A d \in Download :
                           /\ download[d].pc # "admitted"
                           /\ download'[d].pc = "admitted"
                           /\ download'[d].file.version = v
                           => ~policy[On[d]].osv
    BY DEF Settles
<1>0. TypeOK /\ TypeOK' /\ WorldMoves
  BY TypeStep, Moves DEF IInv
<1>1. disclosed'[v] <= now'
  <2>1. now \in Nat /\ now' \in Nat /\ disclosed[v] \in Nat /\ disclosed[v] <= now /\ now < Never
    BY <1>0, Numbers, TimesAssumption DEF TypeOK, Settled
  <2> QED
    BY <1>0, <2>1, TimesAssumption DEF WorldMoves, Never
<1>2. \A r \in scans' : v \in r.key => v \in r.bad
  BY StoredScans DEF Settled
<1>3. ASSUME NEW p \in Page, page'[p].pc = "record", v \in page'[p].cached.key
      PROVE  v \in page'[p].cached.bad
  <2>1. CASE page[p].pc = "record" /\ page'[p].cached = page[p].cached
    BY <1>3, <2>1 DEF Settled
  <2>2. CASE page'[p].cached = OsvSays(p)
    BY <1>3, <2>2 DEF OsvSays, Vulnerable, Settled
  <2> QED
    BY <1>3, <2>1, <2>2, AboutToStore
<1>4. ASSUME NEW d \in Download, download[d].pc # "admitted", download'[d].pc = "admitted",
             download'[d].file.version = v
      PROVE  ~policy[On[d]].osv
  BY <1>0, <1>4, Admits DEF Settled
<1> QED
  BY <1>1, <1>2, <1>3, <1>4 DEF Settled

(* Once a version is settled, it stays so for good, whatever pages follow   *)
(* and whichever processes restart, and no process that checks advisories   *)
(* admits a download of it again.                                           *)
THEOREM SettledStays == Spec => SettledForGood
<1>1. IInv /\ [Next]_vars => [\A v \in Version : Settles(v)]_vars
  BY SettlesStep
<1> QED
  BY <1>1, Invariance, PTL DEF Spec, SettledForGood
=============================================================================
