------------------------- MODULE PublicIndexProofs --------------------------
(***************************************************************************)
(* Theorems about PublicIndex: for every number of listings, refreshes and *)
(* downloads, every set of versions and every TTL, what policy lets        *)
(* through was recently checked, and never too new while something safe is *)
(* old enough.  All of them rest on IInv.                                  *)
(***************************************************************************)
EXTENDS PublicIndex, TLAPS

(* A listing and a download never get a file that is not in the metadata.   *)
LEMMA PolicyFilters ==
    ASSUME NEW files, NEW bad, NEW over, NEW at
    PROVE  Visible(files, bad, over, at) \subseteq files /\ Eligible(files, bad, at) \subseteq files
  BY DEF Visible, Eligible

(* How the parts of an answer and of a scan are typed.                      *)
LEMMA AnswerTypes ==
    ASSUME TypeOK, NEW s \in Scanner
    PROVE  /\ \A st \in {"none", "HIT", "MISS", "STALE", "ERROR"} :
                 [answer EXCEPT ![s].advisories = st] \in [Scanner -> Answer]
           /\ \A f \in SUBSET File, y \in SUBSET Version :
                 [answer EXCEPT ![s].files = f, ![s].yanked = y] \in [Scanner -> Answer]
           /\ [answer EXCEPT ![s] = NoAnswer] \in [Scanner -> Answer]
<1>1. answer \in [Scanner -> Answer]
  BY DEF TypeOK
<1>2. NoAnswer \in Answer
  BY DEF NoAnswer, Answer
<1>3. \A st \in {"none", "HIT", "MISS", "STALE", "ERROR"} :
        [answer EXCEPT ![s].advisories = st] \in [Scanner -> Answer]
  BY <1>1 DEF Answer
<1>4. \A f \in SUBSET File, y \in SUBSET Version :
        [answer EXCEPT ![s].files = f, ![s].yanked = y] \in [Scanner -> Answer]
  BY <1>1 DEF Answer
<1>5. [answer EXCEPT ![s] = NoAnswer] \in [Scanner -> Answer]
  BY <1>1, <1>2
<1> QED
  BY <1>3, <1>4, <1>5

(* The labels a listing or a refresh goes through.                          *)
Label == {"idle", "cached", "fetch", "store", "target", "scan", "osv", "record", "overrides",
          "register", "prune", "done"}

(* Every scan a request may hold is a scan.                                 *)
LEMMA ScanTypes ==
    ASSUME TypeOK, NEW s \in Scanner
    PROVE  /\ NoScan \in Scan
           /\ [key |-> Versions(payload[s]), bad |-> Versions(payload[s]) \cap Vulnerable,
               checked |-> start[s]] \in Scan
           /\ \A r \in scans : r \in Scan
<1>1. Versions(payload[s]) \in SUBSET Version
  BY DEF Versions, File, TypeOK
<1>2. start[s] \in 0..Never
  BY TimesAssumption DEF TypeOK, Never
<1> QED
  BY <1>1, <1>2, TimesAssumption DEF TypeOK, Scan, NoScan, Never

(* Every step keeps every variable's type.                                   *)
LEMMA TypeStep == TypeOK /\ [Next]_vars => TypeOK'
<1> SUFFICES ASSUME TypeOK, [Next]_vars PROVE TypeOK'
    OBVIOUS
<1> USE TimesAssumption, VersionAssumption, RequestsAssumption DEF TypeOK, Never, world, tables,
      control, listings, downloads, history, Goto, DGoto
<1>0. Listing \subseteq Scanner /\ Refresh \subseteq Scanner
  BY DEF Scanner
<1>1. ASSUME Tick PROVE TypeOK'
  BY <1>1 DEF Tick
<1>2. ASSUME NEW v \in Version, Release(v) PROVE TypeOK'
  BY <1>2 DEF Release, File
<1>3. ASSUME NEW v \in Version, Disclose(v) PROVE TypeOK'
  BY <1>3 DEF Disclose
<1>4. ASSUME NEW v \in Version, NEW a \in {"none", "allow", "block"}, SetOverride(v, a) PROVE TypeOK'
  BY <1>4 DEF SetOverride
<1>5. ASSUME Claim PROVE TypeOK'
  BY <1>5 DEF Claim
<1>6. ASSUME NEW l \in Listing, Begin(l) PROVE TypeOK'
  BY <1>0, <1>6 DEF Begin
<1>7. ASSUME NEW l \in Listing, ReadCached(l) PROVE TypeOK'
  BY <1>0, <1>7 DEF ReadCached
<1>8. ASSUME NEW l \in Listing, Fetch(l) PROVE TypeOK'
  BY <1>0, <1>8 DEF Fetch
<1>9. ASSUME NEW l \in Listing, FetchFails(l) PROVE TypeOK'
  BY <1>0, <1>9 DEF FetchFails
<1>10. ASSUME NEW l \in Listing, StoreProject(l) PROVE TypeOK'
  BY <1>0, <1>10 DEF StoreProject
<1>11. ASSUME NEW l \in Listing, RecordTarget(l) PROVE TypeOK'
  <2>1. start[l] \in 0..MaxTime
    BY <1>0
  <2>2. requested' \in 0..Never /\ noted' \in SUBSET (0..MaxTime)
    BY <1>11, <2>1 DEF RecordTarget
  <2>3. pc' \in [Scanner -> Label]
    BY <1>0, <1>11 DEF RecordTarget, Label
  <2> QED
    BY <1>11, <2>2, <2>3 DEF RecordTarget, Label
<1>12. ASSUME NEW l \in Listing, ReadOverrides(l) PROVE TypeOK'
  <2>1. Visible(payload[l], cached[l].bad, override, start[l]) \in SUBSET File
    BY <1>0, PolicyFilters
  <2>2. cached[l].bad \in SUBSET Version
    BY <1>0 DEF Scan
  <2>3. answer' \in [Scanner -> Answer]
    BY <1>0, <1>12, <2>1, <2>2, AnswerTypes DEF ReadOverrides
  <2>4. pc' \in [Scanner -> Label]
    BY <1>0, <1>12 DEF ReadOverrides, Label
  <2>5. QED
    BY <1>12, <2>3, <2>4 DEF ReadOverrides, Label
<1>13. ASSUME NEW l \in Listing, Register(l) PROVE TypeOK'
  BY <1>0, <1>13, ScanTypes DEF Register, End, Answer
<1>14. ASSUME NEW r \in Refresh, Select(r) PROVE TypeOK'
  BY <1>0, <1>14 DEF Select
<1>15. ASSUME NEW r \in Refresh, RefreshCached(r) PROVE TypeOK'
  BY <1>0, <1>15 DEF RefreshCached
<1>16. ASSUME NEW r \in Refresh, Prune(r) PROVE TypeOK'
  <2>1. answer' \in [Scanner -> Answer]
    BY <1>0, <1>16, AnswerTypes DEF Prune
  <2>2. cached' \in [Scanner -> Scan]
    BY <1>0, <1>16, ScanTypes DEF Prune, End
  <2>3. pc' \in [Scanner -> Label] /\ payload' \in [Scanner -> SUBSET File]
    BY <1>0, <1>16 DEF Prune, End, Label
  <2>4. requested' \in 0..Never /\ start' \in [Scanner -> 0..MaxTime]
    BY <1>0, <1>16 DEF Prune
  <2>5. QED
    BY <1>16, <2>1, <2>2, <2>3, <2>4 DEF Prune, Label
<1>17. ASSUME NEW s \in Scanner, ReadScan(s) PROVE TypeOK'
  <2>1. cached' \in [Scanner -> Scan]
    BY <1>17, ScanTypes DEF ReadScan, Evaluated
  <2>2. answer' \in [Scanner -> Answer]
    <3>1. PICK st \in {"none", "HIT"} : answer' = [answer EXCEPT ![s].advisories = st]
      BY <1>17 DEF ReadScan, Evaluated
    <3>2. QED
      BY <3>1, AnswerTypes
  <2>3. pc' \in [Scanner -> Label]
    BY <1>17 DEF ReadScan, Label
  <2>4. UNCHANGED <<now, world, tables, control, start, payload, downloads, history>>
    BY <1>17 DEF ReadScan
  <2>5. QED
    BY <2>1, <2>2, <2>3, <2>4 DEF Label
<1>18. ASSUME NEW s \in Scanner, QueryOsv(s) PROVE TypeOK'
  BY <1>18, ScanTypes, AnswerTypes DEF QueryOsv, Evaluated
<1>19. ASSUME NEW s \in Scanner, OsvFails(s) PROVE TypeOK'
  <2>1. answer' \in [Scanner -> Answer]
    BY <1>19, AnswerTypes DEF OsvFails
  <2>2. pc' \in [Scanner -> Label]
    BY <1>19 DEF OsvFails, Onward, Label
  <2>3. QED
    BY <1>19, <2>1, <2>2 DEF OsvFails, Label
<1>20. ASSUME NEW s \in Scanner, StoreScan(s) PROVE TypeOK'
  BY <1>20 DEF StoreScan, Onward
<1>21. ASSUME NEW s \in Scanner, Fail(s) PROVE TypeOK'
  <2>1. answer' \in [Scanner -> Answer]
    BY <1>21, AnswerTypes DEF Fail
  <2>2. cached' \in [Scanner -> Scan]
    BY <1>21, ScanTypes DEF Fail, End
  <2>3. pc' \in [Scanner -> Label] /\ payload' \in [Scanner -> SUBSET File]
    BY <1>21 DEF Fail, End, Label
  <2>4. start' \in [Scanner -> 0..MaxTime]
    BY <1>21 DEF Fail
  <2>5. QED
    BY <1>21, <2>1, <2>2, <2>3, <2>4 DEF Fail, Label
<1>22. ASSUME NEW d \in Download, NEW f \in registered, ReadArtifact(d, f) PROVE TypeOK'
  BY <1>22 DEF ReadArtifact
<1>23. ASSUME NEW d \in Download, ReadOwner(d) PROVE TypeOK'
  BY <1>23 DEF ReadOwner, Decide, Proceed
<1>24. ASSUME NEW d \in Download, ReadAction(d) PROVE TypeOK'
  BY <1>24 DEF ReadAction, Decide, Proceed
<1>25. ASSUME NEW d \in Download, ReadAdvisory(d) PROVE TypeOK'
  <2>1. evaluation' \in [Download -> Scan]
    BY <1>25 DEF ReadAdvisory
  <2>2. dpc' \in [Download -> {"idle", "owns", "overrides", "advisory", "age", "done"}]
    BY <1>25 DEF ReadAdvisory, Decide, Proceed
  <2>3. verdict' \in [Download -> {"none", "allowed", "eligible", "vulnerable", "denied"}]
    BY <1>25 DEF ReadAdvisory, Decide, Proceed
  <2>4. QED
    BY <1>25, <2>1, <2>2, <2>3 DEF ReadAdvisory
<1>26. ASSUME NEW d \in Download, CheckAge(d) PROVE TypeOK'
  BY <1>26 DEF CheckAge, Decide
<1>27. ASSUME NEW d \in Download, DownloadFails(d) PROVE TypeOK'
  BY <1>27 DEF DownloadFails, Proceed
<1>28. CASE UNCHANGED vars
  BY <1>28 DEF vars
<1> QED
  BY <1>1, <1>2, <1>3, <1>4, <1>5, <1>6, <1>7, <1>8, <1>9, <1>10, <1>11, <1>12, <1>13, <1>14,
     <1>15, <1>16, <1>17, <1>18, <1>19, <1>20, <1>21, <1>22, <1>23, <1>24, <1>25, <1>26, <1>27, <1>28
     DEF Next, World, ListingStep, RefreshStep, Evaluate, DownloadStep

-----------------------------------------------------------------------------
(* What a step may do to the world, to what is stored and to what a request *)
(* holds; where the values come from matters, not which step put them there.*)
WorldMoves ==
    /\ now <= now'
    /\ upstream \subseteq upstream'
    /\ \A f \in upstream' \ upstream : f.uploaded = now
    /\ \A v \in Version : disclosed'[v] = disclosed[v] \/ disclosed'[v] = now
    /\ claimed => claimed'

TablesMove ==
    /\ projects'.files = projects.files \/ \E s \in Scanner : projects'.files = payload[s]
    /\ \A r \in scans' : r \in scans \/ \E s \in Scanner : r = cached[s]
    /\ \A f \in registered' : f \in registered \/ \E s \in Scanner : f \in answer[s].files

FromOsv(s) == [key |-> Versions(payload[s]), bad |-> Versions(payload[s]) \cap Vulnerable,
               checked |-> start[s]]

ScannerMoves(s) ==
    /\ start'[s] \in {start[s], now, 0}
    /\ payload'[s] \in {payload[s], {}, projects.files, upstream}
    /\ cached'[s] \in {cached[s], NoScan, FromOsv(s)} \cup scans
    /\ \A f \in answer'[s].files : f \in answer[s].files \/ f \in payload[s]

DownloadMoves(d) ==
    /\ dstart'[d] \in {dstart[d], now}
    /\ wanted'[d] \in {wanted[d]} \cup registered
    /\ evaluation'[d] \in {evaluation[d]} \cup scans

(* Every step moves like that.                                               *)
LEMMA Moves == TypeOK /\ [Next]_vars =>
                  WorldMoves /\ TablesMove /\ (\A s \in Scanner : ScannerMoves(s))
                  /\ (\A d \in Download : DownloadMoves(d))
<1> DEFINE Goal == WorldMoves /\ TablesMove /\ (\A s \in Scanner : ScannerMoves(s))
                  /\ (\A d \in Download : DownloadMoves(d))
<1> SUFFICES ASSUME TypeOK, [Next]_vars PROVE Goal
    OBVIOUS
<1> USE TimesAssumption, PolicyFilters DEF TypeOK, WorldMoves, TablesMove, ScannerMoves, DownloadMoves,
      world, tables, control, listings, downloads, history, NoAnswer
<1>0. Listing \subseteq Scanner /\ Refresh \subseteq Scanner
  BY DEF Scanner
<1>1. ASSUME Tick PROVE Goal
  BY <1>0, <1>1 DEF Tick
<1>2. ASSUME NEW v \in Version, Release(v) PROVE Goal
  BY <1>0, <1>2 DEF Release
<1>3. ASSUME NEW v \in Version, Disclose(v) PROVE Goal
  BY <1>0, <1>3 DEF Disclose
<1>4. ASSUME NEW v \in Version, NEW a \in {"none", "allow", "block"}, SetOverride(v, a) PROVE Goal
  BY <1>0, <1>4 DEF SetOverride
<1>5. ASSUME Claim PROVE Goal
  BY <1>0, <1>5 DEF Claim
<1>6. ASSUME NEW l \in Listing, Begin(l) PROVE Goal
  BY <1>0, <1>6 DEF Begin
<1>7. ASSUME NEW l \in Listing, ReadCached(l) PROVE Goal
  BY <1>0, <1>7 DEF ReadCached
<1>8. ASSUME NEW l \in Listing, Fetch(l) PROVE Goal
  BY <1>0, <1>8 DEF Fetch
<1>9. ASSUME NEW l \in Listing, FetchFails(l) PROVE Goal
  BY <1>0, <1>9 DEF FetchFails
<1>10. ASSUME NEW l \in Listing, StoreProject(l) PROVE Goal
  BY <1>0, <1>10 DEF StoreProject
<1>11. ASSUME NEW l \in Listing, RecordTarget(l) PROVE Goal
  BY <1>0, <1>11 DEF RecordTarget
<1>12. ASSUME NEW l \in Listing, ReadOverrides(l) PROVE Goal
  BY <1>0, <1>12 DEF ReadOverrides
<1>13. ASSUME NEW l \in Listing, Register(l) PROVE Goal
  BY <1>0, <1>13 DEF Register, End
<1>14. ASSUME NEW r \in Refresh, Select(r) PROVE Goal
  BY <1>0, <1>14 DEF Select
<1>15. ASSUME NEW r \in Refresh, RefreshCached(r) PROVE Goal
  BY <1>0, <1>15 DEF RefreshCached
<1>16. ASSUME NEW r \in Refresh, Prune(r) PROVE Goal
  BY <1>0, <1>16 DEF Prune, End
<1>17. ASSUME NEW s \in Scanner, ReadScan(s) PROVE Goal
  <2>1. \A t \in Scanner : cached'[t] \in {cached[t], NoScan} \cup scans
    BY <1>17 DEF ReadScan, Evaluated
  <2>2. PICK st : answer' = [answer EXCEPT ![s].advisories = st]
    BY <1>17 DEF ReadScan, Evaluated
  <2>3. \A t \in Scanner : answer'[t].files = answer[t].files
    BY <2>2 DEF Answer
  <2>4. QED
    BY <1>17, <2>1, <2>3 DEF ReadScan
<1>18. ASSUME NEW s \in Scanner, QueryOsv(s) PROVE Goal
  <2>1. \A t \in Scanner : cached'[t] \in {cached[t], FromOsv(t)}
    BY <1>18 DEF QueryOsv, Evaluated, FromOsv
  <2>2. \A t \in Scanner : answer'[t].files = answer[t].files
    BY <1>18 DEF QueryOsv, Evaluated, Answer
  <2>3. QED
    BY <1>18, <2>1, <2>2 DEF QueryOsv
<1>19. ASSUME NEW s \in Scanner, OsvFails(s) PROVE Goal
  BY <1>0, <1>19 DEF OsvFails, Onward
<1>20. ASSUME NEW s \in Scanner, StoreScan(s) PROVE Goal
  BY <1>0, <1>20 DEF StoreScan, Onward
<1>21. ASSUME NEW s \in Scanner, Fail(s) PROVE Goal
  BY <1>0, <1>21 DEF Fail, End
<1>22. ASSUME NEW d \in Download, NEW f \in registered, ReadArtifact(d, f) PROVE Goal
  BY <1>0, <1>22 DEF ReadArtifact
<1>23. ASSUME NEW d \in Download, ReadOwner(d) PROVE Goal
  BY <1>0, <1>23 DEF ReadOwner, Decide, Proceed
<1>24. ASSUME NEW d \in Download, ReadAction(d) PROVE Goal
  BY <1>0, <1>24 DEF ReadAction, Decide, Proceed
<1>25. ASSUME NEW d \in Download, ReadAdvisory(d) PROVE Goal
  BY <1>0, <1>25 DEF ReadAdvisory, Decide, Proceed
<1>26. ASSUME NEW d \in Download, CheckAge(d) PROVE Goal
  BY <1>0, <1>26 DEF CheckAge, Decide
<1>27. ASSUME NEW d \in Download, DownloadFails(d) PROVE Goal
  BY <1>0, <1>27 DEF DownloadFails, Proceed
<1>28. CASE UNCHANGED vars
  BY <1>28 DEF vars
<1> QED
  BY <1>1, <1>2, <1>3, <1>4, <1>5, <1>6, <1>7, <1>8, <1>9, <1>10, <1>11, <1>12, <1>13, <1>14, <1>15, <1>16, <1>17, <1>18, <1>19, <1>20, <1>21, <1>22, <1>23, <1>24, <1>25, <1>26, <1>27, <1>28
     DEF Next, World, ListingStep, RefreshStep, Evaluate, DownloadStep

-----------------------------------------------------------------------------
(* No step dates anything in the future.                                    *)
LEMMA TimesStep == TypeOK /\ TypeOK' /\ TimesPast /\ [Next]_vars => TimesPast'
<1> SUFFICES ASSUME TypeOK, TypeOK', TimesPast, [Next]_vars PROVE TimesPast'
    OBVIOUS
<1>1. WorldMoves /\ (\A s \in Scanner : ScannerMoves(s)) /\ (\A d \in Download : DownloadMoves(d))
  BY Moves
<1>2. now \in Nat /\ now' \in Nat /\ now <= now'
  BY <1>1, TimesAssumption DEF TypeOK, WorldMoves
<1>3. \A f \in upstream' : f.uploaded # NoTime => f.uploaded <= now'
  <2>1. \A f \in upstream : f.uploaded # NoTime => f.uploaded \in Nat
    BY DEF TypeOK, File
  <2>2. QED
    BY <1>1, <1>2, <2>1 DEF TimesPast, WorldMoves
<1>4. \A s \in Scanner : start'[s] <= now'
  BY <1>1, <1>2 DEF ScannerMoves, TimesPast, TypeOK
<1>5. \A d \in Download : dstart'[d] <= now'
  BY <1>1, <1>2 DEF DownloadMoves, TimesPast, TypeOK
<1> QED
  BY <1>3, <1>4, <1>5 DEF TimesPast

(* A release never slips into the past of a snapshot.                       *)
LEMMA SnapshotKept ==
    ASSUME TypeOK, TimesPast, WorldMoves, NEW files, Snapshot(files, upstream)
    PROVE  Snapshot(files, upstream')
<1>1. SUFFICES ASSUME NEW f \in files, NEW g \in upstream', f.uploaded # NoTime, g.uploaded # NoTime,
                      g.uploaded < f.uploaded
               PROVE  g \in files
  BY DEF Snapshot, WorldMoves
<1>2. f \in upstream /\ f.uploaded \in Nat /\ f.uploaded <= now /\ now \in Nat
  BY <1>1 DEF Snapshot, TimesPast, TypeOK, File
<1>3. g \in upstream
  BY <1>1, <1>2 DEF WorldMoves
<1> QED
  BY <1>1, <1>3 DEF Snapshot

(* Every copy of the metadata stays a snapshot.                             *)
LEMMA SnapshotsStep == TypeOK /\ TimesPast /\ Snapshots /\ [Next]_vars => Snapshots'
<1> SUFFICES ASSUME TypeOK, TimesPast, Snapshots, [Next]_vars PROVE Snapshots'
    OBVIOUS
<1>1. /\ WorldMoves /\ TablesMove
      /\ \A s \in Scanner : ScannerMoves(s)
      /\ \A d \in Download : DownloadMoves(d)
  BY Moves
<1>2. \A files : Snapshot(files, upstream) => Snapshot(files, upstream')
  BY <1>1, SnapshotKept
<1>3. upstream \subseteq upstream'
  BY <1>1 DEF WorldMoves
<1>4. Snapshot({}, upstream) /\ Snapshot(upstream, upstream)
  BY DEF Snapshot
<1>5. \A s \in Scanner : Snapshot(payload[s], upstream) /\ payload[s] \subseteq upstream
  BY DEF Snapshots, Snapshot
<1>6. Snapshot(projects'.files, upstream')
  BY <1>1, <1>2, <1>5 DEF TablesMove, Snapshots
<1>7. \A s \in Scanner : Snapshot(payload'[s], upstream')
  BY <1>1, <1>2, <1>4, <1>5 DEF ScannerMoves, Snapshots
<1>8. \A s \in Scanner : answer'[s].files \subseteq upstream'
  BY <1>1, <1>3, <1>5 DEF ScannerMoves, Snapshots
<1>9. registered' \subseteq upstream'
  BY <1>1, <1>3 DEF TablesMove, Snapshots
<1>10. \A d \in Download : wanted'[d] \in upstream'
  BY <1>1, <1>3 DEF DownloadMoves, Snapshots
<1> QED
  BY <1>6, <1>7, <1>8, <1>9, <1>10 DEF Snapshots

(* A scan that was honest stays so: a disclosure comes later than it.       *)
LEMMA HonestKept ==
    ASSUME TypeOK, TypeOK', WorldMoves, NEW r \in Scan, Honest(r, now, disclosed)
    PROVE  Honest(r, now', disclosed')
<1>1. now \in Nat /\ now' \in Nat /\ now <= now'
  BY TimesAssumption DEF TypeOK, WorldMoves
<1>2. r.checked \in Nat /\ r.key \subseteq Version /\ r.bad \subseteq r.key
  BY TimesAssumption DEF Scan, Never, Honest
<1>3. \A v \in Version : disclosed[v] \in Nat /\ (disclosed'[v] = disclosed[v] \/ disclosed'[v] = now)
  BY TimesAssumption DEF TypeOK, WorldMoves, Never
<1> QED
  BY <1>1, <1>2, <1>3 DEF Honest

(* What OSV answers now is honest about the time the request took earlier.  *)
LEMMA OsvHonest ==
    ASSUME TypeOK, TimesPast, NEW s \in Scanner
    PROVE  Honest(FromOsv(s), now, disclosed)
<1>1. start[s] <= now /\ start[s] \in Nat /\ now \in Nat
  BY DEF TimesPast, TypeOK
<1>2. Versions(payload[s]) \subseteq Version
  BY DEF Versions, TypeOK, File
<1>3. \A v \in Version : disclosed[v] \in Nat
  BY TimesAssumption DEF TypeOK, Never
<1> QED
  BY <1>1, <1>2, <1>3 DEF Honest, FromOsv, Vulnerable

(* Every scan stays honest, in the table and in the hands of a request.     *)
LEMMA HonestStep ==
    TypeOK /\ TypeOK' /\ TimesPast /\ HonestScans /\ [Next]_vars => HonestScans'
<1> SUFFICES ASSUME TypeOK, TypeOK', TimesPast, HonestScans, [Next]_vars PROVE HonestScans'
    OBVIOUS
<1>1. /\ WorldMoves /\ TablesMove
      /\ \A s \in Scanner : ScannerMoves(s)
      /\ \A d \in Download : DownloadMoves(d)
  BY Moves
<1>2. \A r \in Scan : Honest(r, now, disclosed) => Honest(r, now', disclosed')
  BY <1>1, HonestKept
<1>3. \A s \in Scanner : FromOsv(s) \in Scan /\ Honest(FromOsv(s), now, disclosed)
  BY OsvHonest, ScanTypes DEF FromOsv
<1>4. Honest(NoScan, now, disclosed)
  BY DEF Honest, NoScan
<1>5. /\ scans \subseteq Scan /\ NoScan \in Scan
      /\ \A s \in Scanner : cached[s] \in Scan
      /\ \A d \in Download : evaluation[d] \in Scan
  BY TimesAssumption DEF TypeOK, NoScan, Scan, Never
<1>6. \A r \in scans' : Honest(r, now', disclosed')
  BY <1>1, <1>2, <1>5 DEF TablesMove, HonestScans
<1>7. \A s \in Scanner : Honest(cached'[s], now', disclosed')
  BY <1>1, <1>2, <1>3, <1>4, <1>5 DEF ScannerMoves, HonestScans
<1>8. \A d \in Download : Honest(evaluation'[d], now', disclosed')
  BY <1>1, <1>2, <1>5 DEF DownloadMoves, HonestScans
<1> QED
  BY <1>6, <1>7, <1>8 DEF HonestScans

-----------------------------------------------------------------------------
(* What a listing or a refresh knows survives every step of anyone.         *)
LEMMA ScannerKnowsStep ==
    TypeOK /\ TypeOK' /\ (\A s \in Scanner : ScannerKnows(s)) /\ [Next]_vars =>
        \A s \in Scanner : ScannerKnows(s)'
<1> SUFFICES ASSUME TypeOK, TypeOK', \A s \in Scanner : ScannerKnows(s), [Next]_vars,
                    NEW t \in Scanner
             PROVE  ScannerKnows(t)'
    OBVIOUS
<1> USE RequestsAssumption, TimesAssumption DEF ScannerKnows, Goto, world, tables, control, listings,
      downloads, history
<1>0. /\ Listing \subseteq Scanner /\ Refresh \subseteq Scanner
      /\ Listing \cap Refresh = {} /\ Download \cap Scanner = {}
      /\ pc \in [Scanner -> Label] /\ answer \in [Scanner -> Answer]
      /\ cached \in [Scanner -> Scan] /\ start \in [Scanner -> 0..MaxTime]
      /\ payload \in [Scanner -> SUBSET File]
  BY DEF Scanner, Label, TypeOK
<1>1. ASSUME Tick PROVE ScannerKnows(t)'
  BY <1>0, <1>1 DEF Tick
<1>2. ASSUME NEW v \in Version, Release(v) PROVE ScannerKnows(t)'
  BY <1>0, <1>2 DEF Release
<1>3. ASSUME NEW v \in Version, Disclose(v) PROVE ScannerKnows(t)'
  BY <1>0, <1>3 DEF Disclose
<1>4. ASSUME NEW v \in Version, NEW a \in {"none", "allow", "block"}, SetOverride(v, a) PROVE ScannerKnows(t)'
  BY <1>0, <1>4 DEF SetOverride
<1>5. ASSUME Claim PROVE ScannerKnows(t)'
  BY <1>0, <1>5 DEF Claim
<1>6. ASSUME NEW l \in Listing, Begin(l) PROVE ScannerKnows(t)'
  BY <1>0, <1>6 DEF Begin
<1>7. ASSUME NEW l \in Listing, ReadCached(l) PROVE ScannerKnows(t)'
  BY <1>0, <1>7 DEF ReadCached
<1>8. ASSUME NEW l \in Listing, Fetch(l) PROVE ScannerKnows(t)'
  BY <1>0, <1>8 DEF Fetch
<1>9. ASSUME NEW l \in Listing, FetchFails(l) PROVE ScannerKnows(t)'
  BY <1>0, <1>9 DEF FetchFails
<1>10. ASSUME NEW l \in Listing, StoreProject(l) PROVE ScannerKnows(t)'
  BY <1>0, <1>10 DEF StoreProject
<1>11. ASSUME NEW l \in Listing, RecordTarget(l) PROVE ScannerKnows(t)'
  BY <1>0, <1>11 DEF RecordTarget
<1>12. ASSUME NEW l \in Listing, ReadOverrides(l) PROVE ScannerKnows(t)'
  BY <1>0, <1>12 DEF ReadOverrides
<1>13. ASSUME NEW l \in Listing, Register(l) PROVE ScannerKnows(t)'
  BY <1>0, <1>13 DEF Register, End
<1>14. ASSUME NEW r \in Refresh, Select(r) PROVE ScannerKnows(t)'
  BY <1>0, <1>14 DEF Select
<1>15. ASSUME NEW r \in Refresh, RefreshCached(r) PROVE ScannerKnows(t)'
  BY <1>0, <1>15 DEF RefreshCached
<1>16. ASSUME NEW r \in Refresh, Prune(r) PROVE ScannerKnows(t)'
  BY <1>0, <1>16 DEF Prune, End
<1>17. ASSUME NEW s \in Scanner, ReadScan(s) PROVE ScannerKnows(t)'
  <2>1. CASE t # s
    BY <1>0, <1>17, <2>1 DEF ReadScan, Evaluated
  <2>2. CASE t = s
    <3>1. PICK st \in {"none", "HIT"} :
            /\ answer' = [answer EXCEPT ![s].advisories = st]
            /\ st = "HIT" => /\ pc'[s] = "overrides"
                             /\ cached'[s].key = Versions(payload[s])
                             /\ Fresh(cached'[s], start[s])
      BY <1>0, <1>17 DEF ReadScan, Evaluated
    <3>2. answer'[s].files = answer[s].files /\ answer'[s].advisories = st
      BY <1>0, <3>1 DEF Answer
    <3>3. pc[s] = "scan" /\ UNCHANGED <<start, payload, afterClaim>>
      BY <1>17 DEF ReadScan
    <3>4. QED
      BY <1>0, <2>2, <3>1, <3>2, <3>3
  <2>3. QED
    BY <2>1, <2>2
<1>18. ASSUME NEW s \in Scanner, QueryOsv(s) PROVE ScannerKnows(t)'
  <2>1. CASE t # s
    BY <1>0, <1>18, <2>1 DEF QueryOsv, Evaluated
  <2>2. CASE t = s
    <3>1. cached'[s].key = Versions(payload[s]) /\ cached'[s].checked = start[s]
      BY <1>0, <1>18 DEF QueryOsv, Evaluated
    <3>2. start[s] <= start[s] + AdvisoryTTL
      BY <1>0
    <3>3. answer'[s].files = answer[s].files
      BY <1>0, <1>18 DEF QueryOsv, Evaluated, Answer
    <3>4. pc[s] = "osv" /\ pc'[s] = "record" /\ UNCHANGED <<start, payload, afterClaim>>
      BY <1>0, <1>18 DEF QueryOsv
    <3>5. QED
      BY <2>2, <3>1, <3>2, <3>3, <3>4 DEF Fresh
  <2>3. QED
    BY <2>1, <2>2
<1>19. ASSUME NEW s \in Scanner, OsvFails(s) PROVE ScannerKnows(t)'
  BY <1>0, <1>19 DEF OsvFails, Onward
<1>20. ASSUME NEW s \in Scanner, StoreScan(s) PROVE ScannerKnows(t)'
  BY <1>0, <1>20 DEF StoreScan, Onward
<1>21. ASSUME NEW s \in Scanner, Fail(s) PROVE ScannerKnows(t)'
  BY <1>0, <1>21 DEF Fail, End
<1>22. ASSUME NEW d \in Download, NEW f \in registered, ReadArtifact(d, f) PROVE ScannerKnows(t)'
  BY <1>0, <1>22 DEF ReadArtifact
<1>23. ASSUME NEW d \in Download, ReadOwner(d) PROVE ScannerKnows(t)'
  BY <1>0, <1>23 DEF ReadOwner, Decide, Proceed
<1>24. ASSUME NEW d \in Download, ReadAction(d) PROVE ScannerKnows(t)'
  BY <1>0, <1>24 DEF ReadAction, Decide, Proceed
<1>25. ASSUME NEW d \in Download, ReadAdvisory(d) PROVE ScannerKnows(t)'
  BY <1>0, <1>25 DEF ReadAdvisory, Decide, Proceed
<1>26. ASSUME NEW d \in Download, CheckAge(d) PROVE ScannerKnows(t)'
  BY <1>0, <1>26 DEF CheckAge, Decide
<1>27. ASSUME NEW d \in Download, DownloadFails(d) PROVE ScannerKnows(t)'
  BY <1>0, <1>27 DEF DownloadFails, Proceed
<1>28. CASE UNCHANGED vars
  BY <1>28 DEF vars
<1> QED
  BY <1>1, <1>2, <1>3, <1>4, <1>5, <1>6, <1>7, <1>8, <1>9, <1>10, <1>11, <1>12, <1>13, <1>14,
     <1>15, <1>16, <1>17, <1>18, <1>19, <1>20, <1>21, <1>22, <1>23, <1>24, <1>25, <1>26, <1>27, <1>28
     DEF Next, World, ListingStep, RefreshStep, Evaluate, DownloadStep

(* What a download knows survives every step of anyone.                     *)
LEMMA DownloadKnowsStep ==
    TypeOK /\ TypeOK' /\ (\A d \in Download : DownloadKnows(d)) /\ [Next]_vars =>
        \A d \in Download : DownloadKnows(d)'
<1> SUFFICES ASSUME TypeOK, TypeOK', \A d \in Download : DownloadKnows(d), [Next]_vars,
                    NEW e \in Download
             PROVE  DownloadKnows(e)'
    OBVIOUS
<1> USE RequestsAssumption DEF DownloadKnows, Current, DGoto, world, tables, control, listings,
      downloads, history
<1>0. /\ Download \cap (Listing \cup Refresh) = {}
      /\ dpc \in [Download -> {"idle", "owns", "overrides", "advisory", "age", "done"}]
      /\ verdict \in [Download -> {"none", "allowed", "eligible", "vulnerable", "denied"}]
      /\ wanted \in [Download -> File] /\ evaluation \in [Download -> Scan]
      /\ dstart \in [Download -> 0..MaxTime] /\ claimed \in BOOLEAN
  BY DEF TypeOK
<1>1. ASSUME Tick PROVE DownloadKnows(e)'
  BY <1>0, <1>1 DEF Tick
<1>2. ASSUME NEW v \in Version, Release(v) PROVE DownloadKnows(e)'
  BY <1>0, <1>2 DEF Release
<1>3. ASSUME NEW v \in Version, Disclose(v) PROVE DownloadKnows(e)'
  BY <1>0, <1>3 DEF Disclose
<1>4. ASSUME NEW v \in Version, NEW a \in {"none", "allow", "block"}, SetOverride(v, a) PROVE DownloadKnows(e)'
  BY <1>0, <1>4 DEF SetOverride
<1>5. ASSUME Claim PROVE DownloadKnows(e)'
  BY <1>0, <1>5 DEF Claim
<1>6. ASSUME NEW l \in Listing, Begin(l) PROVE DownloadKnows(e)'
  BY <1>0, <1>6 DEF Begin
<1>7. ASSUME NEW l \in Listing, ReadCached(l) PROVE DownloadKnows(e)'
  BY <1>0, <1>7 DEF ReadCached
<1>8. ASSUME NEW l \in Listing, Fetch(l) PROVE DownloadKnows(e)'
  BY <1>0, <1>8 DEF Fetch
<1>9. ASSUME NEW l \in Listing, FetchFails(l) PROVE DownloadKnows(e)'
  BY <1>0, <1>9 DEF FetchFails
<1>10. ASSUME NEW l \in Listing, StoreProject(l) PROVE DownloadKnows(e)'
  BY <1>0, <1>10 DEF StoreProject
<1>11. ASSUME NEW l \in Listing, RecordTarget(l) PROVE DownloadKnows(e)'
  BY <1>0, <1>11 DEF RecordTarget
<1>12. ASSUME NEW l \in Listing, ReadOverrides(l) PROVE DownloadKnows(e)'
  BY <1>0, <1>12 DEF ReadOverrides
<1>13. ASSUME NEW l \in Listing, Register(l) PROVE DownloadKnows(e)'
  BY <1>0, <1>13 DEF Register, End
<1>14. ASSUME NEW r \in Refresh, Select(r) PROVE DownloadKnows(e)'
  BY <1>0, <1>14 DEF Select
<1>15. ASSUME NEW r \in Refresh, RefreshCached(r) PROVE DownloadKnows(e)'
  BY <1>0, <1>15 DEF RefreshCached
<1>16. ASSUME NEW r \in Refresh, Prune(r) PROVE DownloadKnows(e)'
  BY <1>0, <1>16 DEF Prune, End
<1>17. ASSUME NEW s \in Scanner, ReadScan(s) PROVE DownloadKnows(e)'
  BY <1>0, <1>17 DEF ReadScan, Evaluated
<1>18. ASSUME NEW s \in Scanner, QueryOsv(s) PROVE DownloadKnows(e)'
  BY <1>0, <1>18 DEF QueryOsv, Evaluated, FromOsv
<1>19. ASSUME NEW s \in Scanner, OsvFails(s) PROVE DownloadKnows(e)'
  BY <1>0, <1>19 DEF OsvFails, Onward
<1>20. ASSUME NEW s \in Scanner, StoreScan(s) PROVE DownloadKnows(e)'
  BY <1>0, <1>20 DEF StoreScan, Onward
<1>21. ASSUME NEW s \in Scanner, Fail(s) PROVE DownloadKnows(e)'
  BY <1>0, <1>21 DEF Fail, End
<1>22. ASSUME NEW d \in Download, NEW f \in registered, ReadArtifact(d, f) PROVE DownloadKnows(e)'
  BY <1>0, <1>22 DEF ReadArtifact
<1>23. ASSUME NEW d \in Download, ReadOwner(d) PROVE DownloadKnows(e)'
  BY <1>0, <1>23 DEF ReadOwner, Decide, Proceed
<1>24. ASSUME NEW d \in Download, ReadAction(d) PROVE DownloadKnows(e)'
  BY <1>0, <1>24 DEF ReadAction, Decide, Proceed
<1>25. ASSUME NEW d \in Download, ReadAdvisory(d) PROVE DownloadKnows(e)'
  BY <1>0, <1>25 DEF ReadAdvisory, Decide, Proceed
<1>26. ASSUME NEW d \in Download, CheckAge(d) PROVE DownloadKnows(e)'
  BY <1>0, <1>26 DEF CheckAge, Decide
<1>27. ASSUME NEW d \in Download, DownloadFails(d) PROVE DownloadKnows(e)'
  BY <1>0, <1>27 DEF DownloadFails, Proceed
<1>28. CASE UNCHANGED vars
  BY <1>28 DEF vars
<1> QED
  BY <1>1, <1>2, <1>3, <1>4, <1>5, <1>6, <1>7, <1>8, <1>9, <1>10, <1>11, <1>12, <1>13, <1>14,
     <1>15, <1>16, <1>17, <1>18, <1>19, <1>20, <1>21, <1>22, <1>23, <1>24, <1>25, <1>26, <1>27, <1>28
     DEF Next, World, ListingStep, RefreshStep, Evaluate, DownloadStep

-----------------------------------------------------------------------------
(* Once a listing has its files, its answer is what it is until it is gone. *)
AnswerStays(l) == answer'[l].files = {} \/ (answer'[l] = answer[l] /\ start'[l] = start[l])

LEMMA AnswersStay ==
    TypeOK /\ (\A s \in Scanner : ScannerKnows(s)) /\ [Next]_vars =>
        \A l \in Listing : AnswerStays(l) \/ ReadOverrides(l)
<1> SUFFICES ASSUME TypeOK, \A s \in Scanner : ScannerKnows(s), [Next]_vars, NEW t \in Listing
             PROVE  AnswerStays(t) \/ ReadOverrides(t)
    OBVIOUS
<1> DEFINE Goal == AnswerStays(t) \/ ReadOverrides(t)
<1> USE RequestsAssumption DEF AnswerStays, Goto, world, tables, control, listings, downloads, history
<1>0. /\ Listing \subseteq Scanner /\ Refresh \subseteq Scanner /\ t \in Scanner
      /\ Listing \cap Refresh = {}
      /\ answer \in [Scanner -> Answer] /\ start \in [Scanner -> 0..MaxTime]
      /\ answer[t].files # {} => pc[t] \in {"register", "done"}
  BY DEF Scanner, TypeOK, ScannerKnows
<1>1. ASSUME Tick PROVE Goal
  BY <1>0, <1>1 DEF Tick
<1>2. ASSUME NEW v \in Version, Release(v) PROVE Goal
  BY <1>0, <1>2 DEF Release
<1>3. ASSUME NEW v \in Version, Disclose(v) PROVE Goal
  BY <1>0, <1>3 DEF Disclose
<1>4. ASSUME NEW v \in Version, NEW a \in {"none", "allow", "block"}, SetOverride(v, a) PROVE Goal
  BY <1>0, <1>4 DEF SetOverride
<1>5. ASSUME Claim PROVE Goal
  BY <1>0, <1>5 DEF Claim
<1>6. ASSUME NEW l \in Listing, Begin(l) PROVE Goal
  BY <1>0, <1>6 DEF Begin
<1>7. ASSUME NEW l \in Listing, ReadCached(l) PROVE Goal
  BY <1>0, <1>7 DEF ReadCached
<1>8. ASSUME NEW l \in Listing, Fetch(l) PROVE Goal
  BY <1>0, <1>8 DEF Fetch
<1>9. ASSUME NEW l \in Listing, FetchFails(l) PROVE Goal
  BY <1>0, <1>9 DEF FetchFails
<1>10. ASSUME NEW l \in Listing, StoreProject(l) PROVE Goal
  BY <1>0, <1>10 DEF StoreProject
<1>11. ASSUME NEW l \in Listing, RecordTarget(l) PROVE Goal
  BY <1>0, <1>11 DEF RecordTarget
<1>12. ASSUME NEW l \in Listing, ReadOverrides(l) PROVE Goal
  BY <1>0, <1>12 DEF ReadOverrides
<1>13. ASSUME NEW l \in Listing, Register(l) PROVE Goal
  BY <1>0, <1>13 DEF Register, End
<1>14. ASSUME NEW r \in Refresh, Select(r) PROVE Goal
  BY <1>0, <1>14 DEF Select
<1>15. ASSUME NEW r \in Refresh, RefreshCached(r) PROVE Goal
  BY <1>0, <1>15 DEF RefreshCached
<1>16. ASSUME NEW r \in Refresh, Prune(r) PROVE Goal
  BY <1>0, <1>16 DEF Prune, End
<1>17. ASSUME NEW s \in Scanner, ReadScan(s) PROVE Goal
  <2>1. CASE t = s
    <3>1. answer[t].files = {}
      BY <1>0, <1>17, <2>1 DEF ReadScan
    <3>2. PICK st : answer' = [answer EXCEPT ![s].advisories = st]
      BY <1>17 DEF ReadScan, Evaluated
    <3>3. QED
      BY <1>0, <2>1, <3>1, <3>2 DEF Answer
  <2>2. CASE t # s
    <3>1. PICK st : answer' = [answer EXCEPT ![s].advisories = st]
      BY <1>17 DEF ReadScan, Evaluated
    <3>2. QED
      BY <1>0, <1>17, <2>2, <3>1 DEF ReadScan
  <2>3. QED
    BY <2>1, <2>2
<1>18. ASSUME NEW s \in Scanner, QueryOsv(s) PROVE Goal
  BY <1>0, <1>18 DEF QueryOsv, Evaluated, FromOsv
<1>19. ASSUME NEW s \in Scanner, OsvFails(s) PROVE Goal
  BY <1>0, <1>19 DEF OsvFails, Onward
<1>20. ASSUME NEW s \in Scanner, StoreScan(s) PROVE Goal
  BY <1>0, <1>20 DEF StoreScan, Onward
<1>21. ASSUME NEW s \in Scanner, Fail(s) PROVE Goal
  <2>1. CASE t = s
    BY <1>0, <1>21, <2>1 DEF Fail, NoAnswer
  <2>2. CASE t # s
    BY <1>0, <1>21, <2>2 DEF Fail
  <2>3. QED
    BY <2>1, <2>2
<1>22. ASSUME NEW d \in Download, NEW f \in registered, ReadArtifact(d, f) PROVE Goal
  BY <1>0, <1>22 DEF ReadArtifact
<1>23. ASSUME NEW d \in Download, ReadOwner(d) PROVE Goal
  BY <1>0, <1>23 DEF ReadOwner, Decide, Proceed
<1>24. ASSUME NEW d \in Download, ReadAction(d) PROVE Goal
  BY <1>0, <1>24 DEF ReadAction, Decide, Proceed
<1>25. ASSUME NEW d \in Download, ReadAdvisory(d) PROVE Goal
  BY <1>0, <1>25 DEF ReadAdvisory, Decide, Proceed
<1>26. ASSUME NEW d \in Download, CheckAge(d) PROVE Goal
  BY <1>0, <1>26 DEF CheckAge, Decide
<1>27. ASSUME NEW d \in Download, DownloadFails(d) PROVE Goal
  BY <1>0, <1>27 DEF DownloadFails, Proceed
<1>28. CASE UNCHANGED vars
  BY <1>28 DEF vars
<1> QED
  BY <1>1, <1>2, <1>3, <1>4, <1>5, <1>6, <1>7, <1>8, <1>9, <1>10, <1>11, <1>12, <1>13, <1>14,
     <1>15, <1>16, <1>17, <1>18, <1>19, <1>20, <1>21, <1>22, <1>23, <1>24, <1>25, <1>26, <1>27, <1>28
     DEF Next, World, ListingStep, RefreshStep, Evaluate, DownloadStep

(* What a download was allowed stays what it was.                           *)
VerdictStays(d) ==
    verdict'[d] = "eligible" =>
        verdict[d] = "eligible" /\ wanted'[d] = wanted[d] /\ dstart'[d] = dstart[d]

LEMMA VerdictsStay ==
    TypeOK /\ (\A d \in Download : DownloadKnows(d)) /\ [Next]_vars =>
        \A d \in Download : VerdictStays(d) \/ CheckAge(d)
<1> SUFFICES ASSUME TypeOK, \A d \in Download : DownloadKnows(d), [Next]_vars, NEW e \in Download
             PROVE  VerdictStays(e) \/ CheckAge(e)
    OBVIOUS
<1> DEFINE Goal == VerdictStays(e) \/ CheckAge(e)
<1> USE DEF VerdictStays, DGoto, world, tables, control, listings, downloads, history
<1>0. /\ wanted \in [Download -> File] /\ dstart \in [Download -> 0..MaxTime]
      /\ dpc \in [Download -> {"idle", "owns", "overrides", "advisory", "age", "done"}]
      /\ verdict \in [Download -> {"none", "allowed", "eligible", "vulnerable", "denied"}]
      /\ dpc[e] # "done" => verdict[e] = "none"
  BY DEF TypeOK, DownloadKnows
<1>1. ASSUME Tick PROVE Goal
  BY <1>0, <1>1 DEF Tick
<1>2. ASSUME NEW v \in Version, Release(v) PROVE Goal
  BY <1>0, <1>2 DEF Release
<1>3. ASSUME NEW v \in Version, Disclose(v) PROVE Goal
  BY <1>0, <1>3 DEF Disclose
<1>4. ASSUME NEW v \in Version, NEW a \in {"none", "allow", "block"}, SetOverride(v, a) PROVE Goal
  BY <1>0, <1>4 DEF SetOverride
<1>5. ASSUME Claim PROVE Goal
  BY <1>0, <1>5 DEF Claim
<1>6. ASSUME NEW l \in Listing, Begin(l) PROVE Goal
  BY <1>0, <1>6 DEF Begin
<1>7. ASSUME NEW l \in Listing, ReadCached(l) PROVE Goal
  BY <1>0, <1>7 DEF ReadCached
<1>8. ASSUME NEW l \in Listing, Fetch(l) PROVE Goal
  BY <1>0, <1>8 DEF Fetch
<1>9. ASSUME NEW l \in Listing, FetchFails(l) PROVE Goal
  BY <1>0, <1>9 DEF FetchFails
<1>10. ASSUME NEW l \in Listing, StoreProject(l) PROVE Goal
  BY <1>0, <1>10 DEF StoreProject
<1>11. ASSUME NEW l \in Listing, RecordTarget(l) PROVE Goal
  BY <1>0, <1>11 DEF RecordTarget
<1>12. ASSUME NEW l \in Listing, ReadOverrides(l) PROVE Goal
  BY <1>0, <1>12 DEF ReadOverrides
<1>13. ASSUME NEW l \in Listing, Register(l) PROVE Goal
  BY <1>0, <1>13 DEF Register, End
<1>14. ASSUME NEW r \in Refresh, Select(r) PROVE Goal
  BY <1>0, <1>14 DEF Select
<1>15. ASSUME NEW r \in Refresh, RefreshCached(r) PROVE Goal
  BY <1>0, <1>15 DEF RefreshCached
<1>16. ASSUME NEW r \in Refresh, Prune(r) PROVE Goal
  BY <1>0, <1>16 DEF Prune, End
<1>17. ASSUME NEW s \in Scanner, ReadScan(s) PROVE Goal
  BY <1>0, <1>17 DEF ReadScan, Evaluated
<1>18. ASSUME NEW s \in Scanner, QueryOsv(s) PROVE Goal
  BY <1>0, <1>18 DEF QueryOsv, Evaluated, FromOsv
<1>19. ASSUME NEW s \in Scanner, OsvFails(s) PROVE Goal
  BY <1>0, <1>19 DEF OsvFails, Onward
<1>20. ASSUME NEW s \in Scanner, StoreScan(s) PROVE Goal
  BY <1>0, <1>20 DEF StoreScan, Onward
<1>21. ASSUME NEW s \in Scanner, Fail(s) PROVE Goal
  BY <1>0, <1>21 DEF Fail, End
<1>22. ASSUME NEW d \in Download, NEW f \in registered, ReadArtifact(d, f) PROVE Goal
  BY <1>0, <1>22 DEF ReadArtifact
<1>23. ASSUME NEW d \in Download, ReadOwner(d) PROVE Goal
  BY <1>0, <1>23 DEF ReadOwner, Decide, Proceed
<1>24. ASSUME NEW d \in Download, ReadAction(d) PROVE Goal
  BY <1>0, <1>24 DEF ReadAction, Decide, Proceed
<1>25. ASSUME NEW d \in Download, ReadAdvisory(d) PROVE Goal
  BY <1>0, <1>25 DEF ReadAdvisory, Decide, Proceed
<1>26. ASSUME NEW d \in Download, CheckAge(d) PROVE Goal
  BY <1>0, <1>26 DEF CheckAge, Decide
<1>27. ASSUME NEW d \in Download, DownloadFails(d) PROVE Goal
  BY <1>0, <1>27 DEF DownloadFails, Proceed
<1>28. CASE UNCHANGED vars
  BY <1>28 DEF vars
<1> QED
  BY <1>1, <1>2, <1>3, <1>4, <1>5, <1>6, <1>7, <1>8, <1>9, <1>10, <1>11, <1>12, <1>13, <1>14,
     <1>15, <1>16, <1>17, <1>18, <1>19, <1>20, <1>21, <1>22, <1>23, <1>24, <1>25, <1>26, <1>27, <1>28
     DEF Next, World, ListingStep, RefreshStep, Evaluate, DownloadStep
(* A listing that was just filtered yanks what its scan names vulnerable,   *)
(* and what it shows beside that was not vulnerable when it was scanned.    *)
LEMMA FilteredMarks ==
    ASSUME TypeOK, HonestScans, NEW l \in Listing, ScannerKnows(l), ReadOverrides(l),
           answer[l].advisories \in {"HIT", "MISS"}, NEW f \in answer'[l].files
    PROVE  f.version \in answer'[l].yanked \/ disclosed[f.version] + AdvisoryTTL >= start[l]
<1>1. l \in Scanner /\ answer \in [Scanner -> Answer] /\ cached[l] \in Scan
  BY DEF Scanner, TypeOK
<1>2. /\ answer'[l].files = Visible(payload[l], cached[l].bad, override, start[l])
      /\ answer'[l].yanked = cached[l].bad
  BY <1>1 DEF ReadOverrides, Answer
<1>3. f \in payload[l] /\ f.version \in Version
  BY <1>1, <1>2, PolicyFilters DEF TypeOK, File
<1>4. cached[l].key = Versions(payload[l]) /\ start[l] <= cached[l].checked + AdvisoryTTL
  BY DEF ScannerKnows, ReadOverrides, Fresh
<1>5. f.version \in cached[l].key
  BY <1>3, <1>4 DEF Versions
<1>6. f.version \in cached[l].bad \/ disclosed[f.version] >= cached[l].checked
  BY <1>1, <1>5 DEF HonestScans, Honest
<1>7. /\ start[l] \in Nat /\ cached[l].checked \in Nat /\ disclosed[f.version] \in Nat
      /\ AdvisoryTTL \in Nat
  BY <1>1, <1>3, TimesAssumption DEF TypeOK, Scan, Never
<1> QED
  BY <1>2, <1>4, <1>6, <1>7

(* A disclosure comes after every request that has already begun.           *)
LEMMA ListingMarksStep ==
    TypeOK /\ TypeOK' /\ TimesPast /\ HonestScans /\ (\A s \in Scanner : ScannerKnows(s))
    /\ ListingMarks /\ [Next]_vars => ListingMarks'
<1> SUFFICES ASSUME TypeOK, TypeOK', TimesPast, HonestScans,
                    \A s \in Scanner : ScannerKnows(s), ListingMarks, [Next]_vars,
                    NEW l \in Listing, answer'[l].advisories \in {"HIT", "MISS"},
                    NEW f \in answer'[l].files
             PROVE  f.version \in answer'[l].yanked
                    \/ disclosed'[f.version] + AdvisoryTTL >= start'[l]
  BY DEF ListingMarks
<1>1. l \in Scanner /\ answer \in [Scanner -> Answer] /\ answer' \in [Scanner -> Answer]
  BY DEF Scanner, TypeOK
<1>2. f.version \in Version
  BY <1>1 DEF TypeOK, Answer, File
<1>3. disclosed'[f.version] = disclosed[f.version] \/ disclosed'[f.version] = now
  BY <1>2, Moves DEF WorldMoves
<1>4. /\ start[l] <= now /\ now \in Nat /\ start[l] \in Nat /\ AdvisoryTTL \in Nat
      /\ disclosed[f.version] \in Nat
  BY <1>1, <1>2, TimesAssumption DEF TypeOK, TimesPast, Never
<1>5. CASE AnswerStays(l)
  <2>1. answer'[l] = answer[l] /\ start'[l] = start[l]
    BY <1>5 DEF AnswerStays
  <2>2. f.version \in answer[l].yanked \/ disclosed[f.version] + AdvisoryTTL >= start[l]
    BY <2>1 DEF ListingMarks
  <2>3. QED
    BY <1>3, <1>4, <2>1, <2>2
<1>6. CASE ReadOverrides(l)
  <2>1. answer[l].advisories \in {"HIT", "MISS"}
    BY <1>1, <1>6 DEF ReadOverrides, Answer
  <2>2. f.version \in answer'[l].yanked \/ disclosed[f.version] + AdvisoryTTL >= start[l]
    BY <1>1, <1>6, <2>1, FilteredMarks
  <2>3. start' = start /\ disclosed' = disclosed
    BY <1>6 DEF ReadOverrides, world
  <2>4. QED
    BY <2>2, <2>3
<1> QED
  BY <1>5, <1>6, AnswersStay


-----------------------------------------------------------------------------
(* A download of a file that is too new, let through by policy: past the    *)
(* floor, and whatever upstream lists that is old enough is in the metadata *)
(* and named vulnerable by the scan.                                        *)
LEMMA FallbackMeans ==
    ASSUME NEW files, NEW bad, NEW at \in Nat, NEW all, NEW f \in Eligible(files, bad, at),
           Snapshot(files, all), all \subseteq File, TooNew(f, at)
    PROVE  /\ OldEnough(f, FallbackAge, at)
           /\ \A g \in all : OldEnough(g, MinimumAge, at) => g.version \in bad
<1>1. f \in files /\ f \in all /\ f.uploaded # NoTime
  BY DEF Eligible, Snapshot, TooNew
<1>2. Allows(f, IF f.version \in Fallback(files, bad, at) THEN "fallback" ELSE "none", at)
  BY DEF Eligible
<1>3. f.version \in Fallback(files, bad, at) /\ OldEnough(f, FallbackAge, at)
  BY <1>2 DEF Allows, TooNew
<1>4. AgedSafe(files, bad, at) = {}
  BY <1>3 DEF Fallback
<1>5. SUFFICES ASSUME NEW g \in all, OldEnough(g, MinimumAge, at) PROVE g.version \in bad
  BY <1>3
<1>6. f.uploaded \in Nat /\ g.uploaded \in Nat /\ g.uploaded # NoTime /\ MinimumAge \in Nat
  BY <1>1, <1>5, AgesAssumption DEF OldEnough, File
<1>7. g.uploaded < f.uploaded
  BY <1>1, <1>5, <1>6 DEF TooNew, OldEnough
<1>8. g \in files
  BY <1>1, <1>6, <1>7 DEF Snapshot
<1>9. g.version \in bad \/ g.version \in AgedSafe(files, bad, at)
  BY <1>5, <1>8 DEF AgedSafe, Safe
<1> QED
  BY <1>4, <1>9

(* Whatever is vulnerable and old enough stays so, and nothing that upstream *)
(* releases later is old enough for a request that has begun.               *)
LEMMA LastResortStep ==
    TypeOK /\ TypeOK' /\ TimesPast /\ TimesPast' /\ Snapshots /\ HonestScans
    /\ (\A d \in Download : DownloadKnows(d)) /\ LastResort /\ [Next]_vars => LastResort'
<1> SUFFICES ASSUME TypeOK, TypeOK', TimesPast, TimesPast', Snapshots, HonestScans,
                    \A d \in Download : DownloadKnows(d), LastResort, [Next]_vars,
                    NEW d \in Download, verdict'[d] = "eligible", TooNew(wanted'[d], dstart'[d])
             PROVE  /\ OldEnough(wanted'[d], FallbackAge, dstart'[d])
                    /\ \A g \in upstream' : OldEnough(g, MinimumAge, dstart'[d]) =>
                          disclosed'[g.version] <= now'
  BY DEF LastResort, OnlyVulnerableAged, TooNew, OldEnough
<1>1. WorldMoves
  BY Moves
<1>2. now \in Nat /\ now' \in Nat /\ now <= now' /\ dstart[d] \in Nat /\ dstart[d] <= now
  BY <1>1, TimesAssumption DEF TypeOK, TimesPast, WorldMoves
<1>3. CASE VerdictStays(d)
  <2>1. verdict[d] = "eligible" /\ wanted'[d] = wanted[d] /\ dstart'[d] = dstart[d]
    BY <1>3 DEF VerdictStays
  <2>2. OldEnough(wanted[d], FallbackAge, dstart[d]) /\ OnlyVulnerableAged(dstart[d])
    BY <2>1 DEF LastResort
  <2>3. ASSUME NEW g \in upstream', OldEnough(g, MinimumAge, dstart[d])
        PROVE  g \in upstream
    <3>1. SUFFICES ASSUME g.uploaded = now PROVE FALSE
      BY <1>1 DEF WorldMoves
    <3>2. wanted[d].uploaded \in Nat /\ MinimumAge \in Nat /\ FallbackAge \in Nat
      BY <2>2, AgesAssumption DEF TypeOK, File, OldEnough
    <3>3. wanted[d].uploaded <= dstart[d] /\ dstart[d] < wanted[d].uploaded + MinimumAge
      BY <1>2, <2>1, <2>2, <3>2 DEF OldEnough, TooNew
    <3>4. QED
      BY <1>2, <2>3, <3>1, <3>2, <3>3 DEF OldEnough
  <2>4. ASSUME NEW g \in upstream, disclosed[g.version] <= now PROVE disclosed'[g.version] <= now'
    <3>1. g.version \in Version /\ disclosed[g.version] \in Nat
      BY TimesAssumption DEF TypeOK, File, Never
    <3>2. QED
      BY <1>1, <1>2, <2>4, <3>1 DEF WorldMoves
  <2>5. QED
    BY <2>1, <2>2, <2>3, <2>4 DEF OnlyVulnerableAged
<1>4. CASE CheckAge(d)
  <2>1. /\ wanted' = wanted /\ dstart' = dstart /\ upstream' = upstream /\ now' = now
        /\ disclosed' = disclosed
    BY <1>4 DEF CheckAge, world
  <2>2. wanted[d] \in Eligible(projects.files, evaluation[d].bad, dstart[d])
    BY <1>4 DEF CheckAge, Decide, TypeOK
  <2>3. Snapshot(projects.files, upstream) /\ upstream \subseteq File
    BY DEF Snapshots, TypeOK
  <2>4. /\ OldEnough(wanted[d], FallbackAge, dstart[d])
        /\ \A g \in upstream : OldEnough(g, MinimumAge, dstart[d]) => g.version \in evaluation[d].bad
    BY <1>2, <2>1, <2>2, <2>3, FallbackMeans
  <2>5. \A v \in evaluation[d].bad : disclosed[v] <= now
    BY DEF HonestScans, Honest
  <2>6. QED
    BY <2>1, <2>4, <2>5 DEF OnlyVulnerableAged
<1> QED
  BY <1>3, <1>4, VerdictsStay

-----------------------------------------------------------------------------
(* What a step may do to the target: a listing records its time, and only a *)
(* refresh removes what its own time has left behind the active window.     *)
LEMMA TargetMoves ==
    ASSUME TypeOK, [Next]_vars
    PROVE  \/ UNCHANGED <<requested, noted>>
           \/ \E l \in Listing : requested' = start[l] /\ noted' = noted \cup {start[l]}
           \/ /\ requested' = Never /\ noted' = noted
              /\ \E r \in Refresh : requested + ActiveWindow < start[r]
<1> USE DEF world, tables, control, listings, downloads, history
<1>1. CASE World \/ UNCHANGED vars
  BY <1>1 DEF World, Tick, Release, Disclose, SetOverride, Claim, vars
<1>2. ASSUME NEW l \in Listing, ListingStep(l)
      PROVE  UNCHANGED <<requested, noted>> \/ (requested' = start[l] /\ noted' = noted \cup {start[l]})
  BY <1>2 DEF ListingStep, Begin, ReadCached, Fetch, FetchFails, StoreProject, RecordTarget, ReadOverrides, Register
<1>3. ASSUME NEW r \in Refresh, RefreshStep(r)
      PROVE  \/ UNCHANGED <<requested, noted>>
             \/ requested' = Never /\ noted' = noted /\ requested + ActiveWindow < start[r]
  BY <1>3 DEF RefreshStep, Select, RefreshCached, Prune
<1>4. ASSUME NEW s \in Scanner, Evaluate(s) PROVE UNCHANGED <<requested, noted>>
  BY <1>4 DEF Evaluate, ReadScan, QueryOsv, OsvFails, StoreScan, Fail
<1>5. ASSUME NEW d \in Download, DownloadStep(d) PROVE UNCHANGED <<requested, noted>>
  BY <1>5 DEF DownloadStep, ReadArtifact, ReadOwner, ReadAction, ReadAdvisory, CheckAge, DownloadFails
<1> QED
  BY <1>1, <1>2, <1>3, <1>4, <1>5 DEF Next

(* A listing that is past its target.                                       *)
PastTarget == {"scan", "osv", "record", "overrides", "register"}

(* It has recorded it.                                                      *)
LEMMA PastTargetMoves ==
    ASSUME TypeOK, [Next]_vars, NEW t \in Listing, pc'[t] \in PastTarget
    PROVE  pc[t] \in PastTarget \/ noted' # {}
<1> USE RequestsAssumption DEF TypeOK, PastTarget, Goto, End, Scanner
<1> USE DEF world, tables, control, listings, downloads, history
<1>1. CASE World \/ UNCHANGED vars
  BY <1>1 DEF World, Tick, Release, Disclose, SetOverride, Claim, vars
<1>2. ASSUME NEW l \in Listing, ListingStep(l) PROVE pc[t] \in PastTarget \/ noted' # {}
  <2>1. CASE RecordTarget(l)
    BY <2>1 DEF RecordTarget
  <2>2. CASE t # l
    BY <1>2, <2>2 DEF ListingStep, Begin, ReadCached, Fetch, FetchFails, StoreProject, RecordTarget, ReadOverrides, Register
  <2>3. CASE t = l /\ ~RecordTarget(l)
    BY <1>2, <2>3 DEF ListingStep, Begin, ReadCached, Fetch, FetchFails, StoreProject, ReadOverrides, Register
  <2> QED
    BY <2>1, <2>2, <2>3
<1>3. ASSUME NEW r \in Refresh, RefreshStep(r) PROVE pc[t] \in PastTarget
  BY <1>3 DEF RefreshStep, Select, RefreshCached, Prune
<1>4. ASSUME NEW s \in Scanner, Evaluate(s) PROVE pc[t] \in PastTarget
  BY <1>4 DEF Evaluate, ReadScan, QueryOsv, OsvFails, StoreScan, Fail
<1>5. ASSUME NEW d \in Download, DownloadStep(d) PROVE pc[t] \in PastTarget
  BY <1>5 DEF DownloadStep, ReadArtifact, ReadOwner, ReadAction, ReadAdvisory, CheckAge, DownloadFails
<1> QED
  BY <1>1, <1>2, <1>3, <1>4, <1>5 DEF Next

(* A step keeps TargetsNoted: time only makes what was old older.           *)
LEMMA TargetsStep ==
    ASSUME TypeOK, TypeOK', TimesPast, TargetsNoted, \A s \in Scanner : ScannerKnows(s), [Next]_vars
    PROVE  TargetsNoted'
<1>1. /\ now \in Nat /\ now' \in Nat /\ now <= now' /\ ActiveWindow \in Nat /\ MaxTime \in Nat
      /\ requested \in Nat /\ noted \subseteq Nat
      /\ \A s \in Scanner : start[s] \in 0..MaxTime /\ start[s] <= now
  BY Moves, TimesAssumption DEF WorldMoves, TypeOK, TimesPast, Never
<1>2. Listing \subseteq Scanner /\ Refresh \subseteq Scanner
  BY DEF Scanner
<1>3. noted \subseteq noted'
  BY TargetMoves
<1>4. requested' # Never => requested' \in noted'
  BY <1>1, <1>2, TargetMoves DEF TargetsNoted
<1>5. ASSUME requested' = Never, noted' # {} PROVE \E t \in noted' : t + ActiveWindow < now'
  <2>1. CASE UNCHANGED <<requested, noted>>
    <3>1. PICK t \in noted : t + ActiveWindow < now
      BY <1>5, <2>1 DEF TargetsNoted
    <3> QED
      BY <1>1, <1>3, <3>1
  <2>2. ASSUME NEW l \in Listing, requested' = start[l] PROVE FALSE
    BY <1>1, <1>2, <1>5, <2>2 DEF Never
  <2>3. ASSUME NEW r \in Refresh, requested + ActiveWindow < start[r], noted' = noted
        PROVE  \E t \in noted' : t + ActiveWindow < now'
    <3>1. start[r] \in 0..MaxTime /\ start[r] <= now
      BY <1>1, <1>2
    <3>2. requested # Never
      BY <1>1, <2>3, <3>1 DEF Never
    <3>3. requested \in noted'
      BY <2>3, <3>2 DEF TargetsNoted
    <3>4. requested + ActiveWindow < now'
      BY <1>1, <2>3, <3>1
    <3> QED
      BY <3>3, <3>4
  <2> QED
    BY <2>1, <2>2, <2>3, TargetMoves
<1>6. ASSUME NEW l \in Listing, pc'[l] \in PastTarget \/ answer'[l].files # {} PROVE noted' # {}
  <2>1. pc[l] \in PastTarget \/ answer[l].files # {} \/ noted' # {}
    <3>1. AnswerStays(l) \/ pc[l] = "overrides"
      BY AnswersStay DEF ReadOverrides
    <3> QED
      BY <1>6, <3>1, PastTargetMoves DEF AnswerStays, PastTarget
  <2> QED
    BY <1>3, <2>1 DEF TargetsNoted, PastTarget
<1> QED
  BY <1>4, <1>5, <1>6 DEF TargetsNoted, PastTarget

(* IInv holds at the start.                                                 *)
LEMMA InitIInv == Init => IInv
<1> SUFFICES ASSUME Init PROVE IInv
    OBVIOUS
<1>1. InitialFiles \subseteq File /\ \A f \in InitialFiles : f.uploaded \in {0, NoTime}
  BY InitialFilesAssumption, TimesAssumption DEF File
<1>2. NoScan \in Scan /\ NoAnswer \in Answer
  BY TimesAssumption DEF NoScan, NoAnswer, Scan, Answer, Never
<1>3. TypeOK
  <2>1. wanted \in [Download -> File] /\ projects \in [files : SUBSET File, fetched : 0..Never]
    BY <1>1, TimesAssumption DEF Init, Never
  <2>2. /\ cached \in [Scanner -> Scan] /\ answer \in [Scanner -> Answer]
        /\ evaluation \in [Download -> Scan]
    BY <1>2 DEF Init
  <2>3. /\ now \in 0..MaxTime /\ upstream \in SUBSET File /\ requested \in 0..Never
        /\ scans \in SUBSET Scan /\ registered \in SUBSET File
        /\ afterClaim \in SUBSET (Listing \cup Download) /\ warned \in SUBSET Download
        /\ noted \in SUBSET (0..MaxTime)
    BY <1>1, TimesAssumption DEF Init, Never
  <2>4. /\ disclosed \in [Version -> 0..Never]
        /\ override \in [Version -> {"none", "allow", "block"}]
        /\ start \in [Scanner -> 0..MaxTime] /\ payload \in [Scanner -> SUBSET File]
        /\ pc \in [Scanner -> {"idle"}]
    BY TimesAssumption DEF Init, Never
  <2>5. /\ dpc \in [Download -> {"idle"}] /\ dstart \in [Download -> 0..MaxTime]
        /\ verdict \in [Download -> {"none"}]
    BY TimesAssumption DEF Init
  <2>6. claimed \in BOOLEAN
    BY DEF Init
  <2>7. QED
    BY <2>1, <2>2, <2>3, <2>4, <2>5, <2>6 DEF TypeOK
<1>4. TimesPast
  BY <1>1, NoTimeAssumption DEF Init, TimesPast
<1>5. Snapshots
  BY DEF Init, Snapshots, Snapshot, NoAnswer
<1>6. HonestScans
  BY DEF Init, HonestScans, Honest, NoScan
<1>7. \A s \in Scanner : ScannerKnows(s)
  BY DEF Init, ScannerKnows, NoAnswer
<1>8. \A d \in Download : DownloadKnows(d)
  BY DEF Init, DownloadKnows
<1>9. ListingMarks /\ LastResort
  BY <1>7 DEF Init, ListingMarks, LastResort, NoAnswer, Scanner
<1>10. TargetsNoted
  BY DEF Init, TargetsNoted, NoAnswer, Scanner
<1> QED
  BY <1>3, <1>4, <1>5, <1>6, <1>7, <1>8, <1>9, <1>10 DEF IInv

(* Every step keeps IInv.                                                   *)
LEMMA StepIInv == IInv /\ [Next]_vars => IInv'
<1> SUFFICES ASSUME IInv, [Next]_vars PROVE IInv'
    OBVIOUS
<1>1. /\ TypeOK /\ TimesPast /\ Snapshots /\ HonestScans /\ TargetsNoted /\ ListingMarks /\ LastResort
      /\ \A s \in Scanner : ScannerKnows(s)
      /\ \A d \in Download : DownloadKnows(d)
  BY DEF IInv
<1>2. TypeOK'
  BY <1>1, TypeStep
<1>3. TimesPast'
  BY <1>1, <1>2, TimesStep
<1>4. Snapshots'
  BY <1>1, SnapshotsStep
<1>5. HonestScans'
  BY <1>1, <1>2, HonestStep
<1>6. \A s \in Scanner : ScannerKnows(s)'
  BY <1>1, <1>2, ScannerKnowsStep
<1>7. \A d \in Download : DownloadKnows(d)'
  BY <1>1, <1>2, DownloadKnowsStep
<1>8. ListingMarks'
  BY <1>1, <1>2, ListingMarksStep
<1>9. LastResort'
  BY <1>1, <1>2, <1>3, LastResortStep
<1>10. TargetsNoted'
  BY <1>1, <1>2, TargetsStep
<1> QED
  BY <1>2, <1>3, <1>4, <1>5, <1>6, <1>7, <1>8, <1>9, <1>10 DEF IInv

(* The inductive invariant holds of every behaviour, for every number of    *)
(* requests, whatever the TTLs, the ages and the bound on the clock.        *)
THEOREM Invariance == Spec => []IInv
<1>1. Init => IInv
  BY InitIInv
<1>2. IInv /\ [Next]_vars => IInv'
  BY StepIInv
<1> QED
  BY <1>1, <1>2, PTL DEF Spec

(* Every variable keeps its type.                                           *)
THEOREM TypeCorrect == Spec => []TypeOK
<1>1. IInv => TypeOK
  BY DEF IInv
<1> QED
  BY <1>1, Invariance, PTL

(* An artifact request that policy lets through was scanned recently: its   *)
(* version was not public as vulnerable for the advisory TTL.               *)
THEOREM Exposure == Spec => []ExposureBounded
<1>1. IInv => ExposureBounded
  <2>1. SUFFICES ASSUME IInv, NEW d \in Download, verdict[d] = "eligible"
                 PROVE  disclosed[wanted[d].version] + AdvisoryTTL > dstart[d]
    BY DEF ExposureBounded
  <2> DEFINE v == wanted[d].version
  <2>2. v \in evaluation[d].key \ evaluation[d].bad /\ dstart[d] < evaluation[d].checked + AdvisoryTTL
    BY <2>1 DEF IInv, DownloadKnows, Current
  <2>3. disclosed[v] >= evaluation[d].checked
    BY <2>1, <2>2 DEF IInv, HonestScans, Honest
  <2>4. /\ evaluation[d].checked \in Nat /\ disclosed[v] \in Nat /\ dstart[d] \in Nat
        /\ AdvisoryTTL \in Nat
    BY <2>1, TimesAssumption DEF IInv, TypeOK, Scan, File, Never
  <2>5. QED
    BY <2>2, <2>3, <2>4
<1> QED
  BY <1>1, Invariance, PTL

(* A listing with current advisories yanks what has long been vulnerable.   *)
THEOREM Marks == Spec => []ListingMarks
<1>1. IInv => ListingMarks
  BY DEF IInv
<1> QED
  BY <1>1, Invariance, PTL

(* The fallback is a last resort for downloads too, however stale what the  *)
(* request read was.                                                        *)
THEOREM NeverTooEarly == Spec => []LastResort
<1>1. IInv => LastResort
  BY DEF IInv
<1> QED
  BY <1>1, Invariance, PTL

(* A privately owned name never answers with public files.                  *)
THEOREM Ownership == Spec => []OwnedNeverPublic
<1>1. IInv => OwnedNeverPublic
  <2>1. SUFFICES ASSUME IInv, NEW r \in afterClaim
                 PROVE  /\ r \in Listing => answer[r].files = {}
                        /\ r \in Download => verdict[r] \notin {"allowed", "eligible"}
    BY DEF OwnedNeverPublic
  <2>2. r \in Listing => answer[r].files = {}
    BY <2>1 DEF IInv, ScannerKnows, Scanner
  <2>3. r \in Download => verdict[r] \in {"none", "denied"}
    BY <2>1 DEF IInv, DownloadKnows
  <2>4. QED
    BY <2>2, <2>3
<1> QED
  BY <1>1, Invariance, PTL

(* A project in use keeps its advisory target: refreshes remove it only     *)
(* when a listing had recorded a time that the active window has left.      *)
THEOREM TargetStays == Spec => []TargetKept
<1>1. IInv => TargetKept
  BY DEF IInv, TargetsNoted, TargetKept
<1> QED
  BY <1>1, Invariance, PTL

-----------------------------------------------------------------------------
(* What goes wrong with a known vulnerability (KnownStaysDenied) takes a    *)
(* request that asked OSV before the disclosure and stores its answer after *)
(* it.  A version is settled once there is none: OSV knows it to be         *)
(* vulnerable, and so do the scans and every answer about to be stored.     *)
Settled(v) ==
    /\ disclosed[v] <= now
    /\ \A r \in scans : v \in r.key => v \in r.bad
    /\ \A s \in Scanner : pc[s] = "record" /\ v \in cached[s].key => v \in cached[s].bad

(* A step keeps what is settled, and lets no download of it past its        *)
(* advisories.                                                              *)
Settles(v) ==
    Settled(v) =>
        /\ Settled(v)'
        /\ \A d \in Download : wanted[d].version = v /\ dpc[d] = "advisory" => dpc'[d] # "age"

SettledForGood == [][\A v \in Version : Settles(v)]_vars

(* What is about to be stored is an answer that OSV gives now, or was about *)
(* to be stored already.                                                    *)
AboutToStore(s) ==
    pc'[s] = "record" => \/ pc[s] = "record" /\ cached'[s] = cached[s]
                         \/ cached'[s] = FromOsv(s)

(* What is stored was about to be stored.                                   *)
StoredScans ==
    \A r \in scans' : r \in scans \/ \E s \in Scanner : pc[s] = "record" /\ r = cached[s]

(* A download is past its advisories when some scan calls its version safe. *)
PastAdvisory(d) ==
    dpc[d] = "advisory" /\ dpc'[d] = "age" =>
        \E r \in scans : wanted[d].version \in r.key /\ wanted[d].version \notin r.bad

(* Every step moves like that.                                              *)
LEMMA SettlingMoves ==
    ASSUME TypeOK, [Next]_vars
    PROVE  StoredScans /\ (\A s \in Scanner : AboutToStore(s)) /\ (\A d \in Download : PastAdvisory(d))
<1> DEFINE Goal == StoredScans /\ (\A s \in Scanner : AboutToStore(s))
                   /\ (\A d \in Download : PastAdvisory(d))
<1> USE DEF TypeOK, StoredScans, AboutToStore, PastAdvisory, Goto, End, DGoto, Decide, Proceed,
      world, tables, control, listings, downloads, history
<1>0. Listing \subseteq Scanner /\ Refresh \subseteq Scanner
  BY DEF Scanner
<1>1. CASE World \/ UNCHANGED vars
  BY <1>1 DEF World, Tick, Release, Disclose, SetOverride, Claim, vars
<1>2. ASSUME NEW l \in Listing, ListingStep(l) PROVE Goal
  <2>1. scans' = scans /\ dpc' = dpc /\ \A s \in Scanner : pc'[s] = "record" => pc[s] = "record" /\ s # l
    BY <1>0, <1>2 DEF ListingStep, Begin, ReadCached, Fetch, FetchFails, StoreProject, RecordTarget,
       ReadOverrides, Register
  <2>2. \A s \in Scanner : s # l => cached'[s] = cached[s]
    BY <1>0, <1>2 DEF ListingStep, Begin, ReadCached, Fetch, FetchFails, StoreProject, RecordTarget,
       ReadOverrides, Register
  <2> QED
    BY <2>1, <2>2
<1>3. ASSUME NEW r \in Refresh, RefreshStep(r) PROVE Goal
  BY <1>0, <1>3 DEF RefreshStep, Select, RefreshCached, Prune
<1>4. ASSUME NEW s \in Scanner, ReadScan(s) PROVE Goal
  BY <1>4 DEF ReadScan, Evaluated
<1>5. ASSUME NEW s \in Scanner, QueryOsv(s) PROVE Goal
  BY <1>5 DEF QueryOsv, Evaluated, FromOsv
<1>6. ASSUME NEW s \in Scanner, OsvFails(s) PROVE Goal
  BY <1>6 DEF OsvFails, Onward
<1>7. ASSUME NEW s \in Scanner, StoreScan(s) PROVE Goal
  BY <1>7 DEF StoreScan, Onward
<1>8. ASSUME NEW s \in Scanner, Fail(s) PROVE Goal
  BY <1>8 DEF Fail
<1>9. ASSUME NEW d \in Download, DownloadStep(d) PROVE Goal
  <2>1. UNCHANGED <<tables, listings>>
    BY <1>9 DEF DownloadStep, ReadArtifact, ReadOwner, ReadAction, ReadAdvisory, CheckAge, DownloadFails
  <2>2. ASSUME NEW e \in Download, dpc[e] = "advisory", dpc'[e] = "age"
        PROVE  ReadAdvisory(e)
    BY <1>9, <2>2 DEF DownloadStep, ReadArtifact, ReadOwner, ReadAction, ReadAdvisory, CheckAge, DownloadFails
  <2>3. ASSUME NEW e \in Download, ReadAdvisory(e), dpc'[e] = "age"
        PROVE  \E r \in scans : wanted[e].version \in r.key /\ wanted[e].version \notin r.bad
    BY <2>3 DEF ReadAdvisory
  <2> QED
    BY <2>1, <2>2, <2>3
<1> QED
  BY <1>1, <1>2, <1>3, <1>4, <1>5, <1>6, <1>7, <1>8, <1>9 DEF Next, Evaluate

(* Every step keeps what is settled.                                        *)
LEMMA SettlesStep ==
    ASSUME TypeOK, [Next]_vars, NEW v \in Version
    PROVE  Settles(v)
<1> SUFFICES ASSUME Settled(v)
             PROVE  /\ Settled(v)'
                    /\ \A d \in Download : wanted[d].version = v /\ dpc[d] = "advisory" => dpc'[d] # "age"
    BY DEF Settles
<1>1. WorldMoves /\ StoredScans /\ (\A s \in Scanner : AboutToStore(s))
      /\ (\A d \in Download : PastAdvisory(d))
  BY Moves, SettlingMoves
<1>2. now \in Nat /\ now' \in Nat /\ disclosed[v] \in Nat /\ disclosed[v] <= now
  BY <1>1, TimesAssumption, TypeStep DEF TypeOK, Settled, Never
<1>3. disclosed'[v] <= now'
  BY <1>1, <1>2 DEF WorldMoves
<1>4. \A r \in scans' : v \in r.key => v \in r.bad
  BY <1>1 DEF StoredScans, Settled
<1>5. ASSUME NEW s \in Scanner, pc'[s] = "record", v \in cached'[s].key PROVE v \in cached'[s].bad
  <2>1. CASE pc[s] = "record" /\ cached'[s] = cached[s]
    BY <1>5, <2>1 DEF Settled
  <2>2. CASE cached'[s] = FromOsv(s)
    BY <1>2, <1>5, <2>2 DEF FromOsv, Vulnerable
  <2> QED
    BY <1>1, <1>5, <2>1, <2>2 DEF AboutToStore
<1>6. ASSUME NEW d \in Download, wanted[d].version = v, dpc[d] = "advisory", dpc'[d] = "age" PROVE FALSE
  BY <1>1, <1>6 DEF PastAdvisory, Settled
<1> QED
  BY <1>3, <1>4, <1>5, <1>6 DEF Settled

(* Once a version is settled, it stays so for good, whatever requests and   *)
(* refreshes follow, and no download of it passes its advisories again:     *)
(* only answers under way at the disclosure can undo a denial.              *)
THEOREM SettledStays == Spec => SettledForGood
<1>1. IInv /\ [Next]_vars => \A v \in Version : Settles(v)
  BY SettlesStep DEF IInv
<1>2. Spec => [][\A v \in Version : Settles(v)]_vars
  BY <1>1, Invariance, PTL DEF Spec
<1> QED
  BY <1>2 DEF SettledForGood
=============================================================================
