-------------------------- MODULE AdvisoryRefresh ---------------------------
(***************************************************************************)
(* Which projects the scheduled advisory refresh takes: refresh.py with    *)
(* database.py (self-hosted) and refresh_active_advisories                 *)
(* (cloudflare_index.py).  A pass takes at most Limit of the projects      *)
(* requested within the active window; the self-hosted query takes the     *)
(* most recently requested first, the one on Cloudflare the least recently *)
(* scanned.                                                                *)
(*                                                                         *)
(* Times appear as the orders they induce: asked on the targets, by        *)
(* requested_at, and checked on the scans, by checked_at, where several    *)
(* may be equal.  A page writes a time it took before it waited for the    *)
(* upstream and for OSV, and any number of pages may be in flight: what    *)
(* one writes may lie anywhere among the times already there.  Only that   *)
(* no page lasts for ever is known: a scan is settled once all that are in *)
(* flight took their time after it.  What a scan says and when a name      *)
(* becomes private are the subject of PublicIndex.                         *)
(***************************************************************************)
EXTENDS Naturals, Sequences, FiniteSets

CONSTANTS Project,
          Limit,      \* advisory_refresh_batch_size
          Hostings,   \* the services considered
          NoScan,     \* without a version in a file name, or never answered by OSV
          Fatal,      \* projects whose turn may raise every time
          Pass        \* stands for the time a pass on Cloudflare began

ASSUME LimitAssumption == Limit \in Nat \ {0}
ASSUME HostingAssumption == Hostings \subseteq {"self", "cloudflare"}
ASSUME ProjectAssumption == NoScan \subseteq Project /\ Fatal \subseteq Project
ASSUME PassAssumption == Pass \notin Project

VARIABLES
    hosting,     \* the service: never changes
    raising,     \* projects whose scan or turn raises whenever it comes: never changes
    targets,     \* advisory_targets
    asked,       \* <<p, q>> where p was requested before q
    lapsed,      \* targets requested before the active window
    scanned,     \* projects with a row in advisory_scans
    checked,     \* <<p, q>> where the time of p is before that of q
    settled,     \* scans with a time that all pages in flight began after
    fresh,       \* projects whose scan is current and not older than the TTL
    pc, batch,   \* the pass: what it does next and the targets left to do
    expired      \* targets before the cutoff of the pass

params == <<hosting, raising>>
requests == <<targets, asked, lapsed>>
scans == <<scanned, checked, settled, fresh>>
pass == <<pc, batch, expired>>
refreshVars == <<params, requests, scans, pass>>

Active == targets \ lapsed
Running == IF hosting = "cloudflare" /\ pc # "idle" THEN {Pass} ELSE {}
Times == scanned \cup Running
Scannable == Project \ (NoScan \cup raising)

RefreshInit ==
    /\ hosting \in Hostings /\ raising \in SUBSET Fatal
    /\ targets = {} /\ asked = {} /\ lapsed = {}
    /\ scanned = {} /\ checked = {} /\ settled = {} /\ fresh = {}
    /\ pc = "idle" /\ batch = <<>> /\ expired = {}

-----------------------------------------------------------------------------
(* Orders of times *)

\* An order of rows without those that are replaced or deleted.
Leave(order, gone) == {e \in order : e[1] \notin gone /\ e[2] \notin gone}

\* The one row of p comes after those of `early` and before those of `late`.
File(order, p, early, late) == Leave(order, {p}) \cup (early \X {p}) \cup ({p} \X late)

\* A time among those of rows: some are before it, some after, the rest equal.
Around(order, rows, early, late) ==
    /\ \A a \in early, b \in rows \ early : <<a, b>> \in order
    /\ \A a \in rows \ late, b \in late : <<a, b>> \in order
    /\ \A a, b \in rows \ (early \cup late) : <<a, b>> \notin order

-----------------------------------------------------------------------------
(* Page requests *)

\* The project's metadata is there and record_advisory_target writes the time
\* the page took, be it earlier than the one there, but within the window.
Request(p) == /\ targets' = targets \cup {p}
              /\ \E early \in SUBSET (targets \ {p}) : \E late \in SUBSET (targets \ ({p} \cup early)) :
                    /\ Around(asked, targets \ {p}, early, late)
                    /\ lapsed \ {p} \subseteq early
                    /\ asked' = File(asked, p, early, late)
              /\ lapsed' = lapsed \ {p}
              /\ expired' = expired \ {p}
              /\ UNCHANGED <<params, scans, pc, batch>>

\* The scan of p is stored under a time its writer took before.
Store(p, early, late) ==
    /\ Around(checked, Times \ {p}, early, late)
    /\ settled \ {p} \subseteq early
    /\ scanned' = scanned \cup {p}
    /\ checked' = File(checked, p, early, late)
    /\ settled' = settled \ {p}

\* A page found no current scan when it looked and stores one now, whatever
\* was stored meanwhile, before as much as the TTL is over.
Evaluate(p) ==
    /\ p \in targets \cap Scannable
    /\ \E early \in SUBSET (Times \ {p}) : \E late \in SUBSET (Times \ ({p} \cup early)) :
          Store(p, early, late)
    /\ fresh' = fresh \cup {p}
    /\ UNCHANGED <<params, requests, pass>>

\* The pages, and a pass, that took their time at that of the scan of p or
\* before it are all over.
Settle(p) == /\ p \in scanned \ settled
             /\ \A r \in Running : <<p, r>> \in checked
             /\ settled' = {q \in scanned : <<p, q>> \notin checked}
             /\ UNCHANGED <<params, requests, scanned, checked, fresh, pass>>

\* A scan becomes older than the TTL, or the project has new versions.
Age(p) == /\ p \in fresh
          /\ fresh' = fresh \ {p}
          /\ UNCHANGED <<params, requests, scanned, checked, settled, pass>>

\* Time passes, and what was requested no later than p leaves the window.
Lapse(p) == /\ p \in Active
            /\ lapsed' = {q \in targets : <<p, q>> \notin asked}
            /\ UNCHANGED <<params, targets, asked, scans, pass>>

-----------------------------------------------------------------------------
(* The pass *)

\* ORDER BY requested_at DESC
ByRequest(p, q) == <<q, p>> \in asked

ScannedAlike(p, q) == /\ p \in scanned <=> q \in scanned
                      /\ <<p, q>> \notin checked /\ <<q, p>> \notin checked

\* Mutants: DESC for ASC; a project without a scan comes last.
ByScanLatest(p, q) == \/ p \in scanned /\ q \notin scanned
                      \/ <<q, p>> \in checked
                      \/ ScannedAlike(p, q) /\ ByRequest(p, q)
ByScanNeverLast(p, q) == \/ p \in scanned /\ q \notin scanned
                         \/ <<p, q>> \in checked
                         \/ ScannedAlike(p, q) /\ ByRequest(p, q)

\* ORDER BY COALESCE(MAX(checked_at), '') ASC, requested_at DESC
ByScan(p, q) == \/ p \notin scanned /\ q \in scanned
                \/ <<p, q>> \in checked
                \/ ScannedAlike(p, q) /\ ByRequest(p, q)

Precedes(p, q) == IF hosting = "self" THEN ByRequest(p, q) ELSE ByScan(p, q)

\* The query: active targets in their order, and of those beyond LIMIT none
\* comes before one that is taken.
Taken(s) == /\ \A i, j \in DOMAIN s : i < j => s[i] # s[j] /\ ~Precedes(s[j], s[i])
            /\ \A p \in Active \ {s[i] : i \in DOMAIN s} :
                  Len(s) = Limit /\ \A i \in DOMAIN s : ~Precedes(p, s[i])

\* The cutoff is fixed and the targets are read.  On Cloudflare the time at
\* which the pass begins is that of all its scans.
Start == /\ pc = "idle"
         /\ \E n \in 0..Limit : \E s \in [1..n -> Active] : Taken(s) /\ batch' = s
         /\ expired' = lapsed
         /\ \/ hosting = "self" /\ pc' = "prune" /\ UNCHANGED checked
            \/ hosting = "cloudflare" /\ pc' = "scan" /\ checked' = File(checked, Pass, scanned, {})
         /\ UNCHANGED <<params, requests, scanned, settled, fresh>>

\* The time of the pass is of no use when it is over.
NoPass == checked' = Leave(checked, {Pass})

\* Targets requested before the cutoff are deleted: before the scans on the
\* self-hosted service, after them on Cloudflare.
Prune == /\ \/ pc = "prune" /\ pc' = "scan" /\ UNCHANGED checked
            \/ pc = "scan" /\ batch = <<>> /\ hosting = "cloudflare" /\ pc' = "idle" /\ NoPass
         /\ targets' = targets \ expired
         /\ asked' = Leave(asked, expired)
         /\ lapsed' = lapsed \ expired
         /\ expired' = {}
         /\ UNCHANGED <<params, scanned, settled, fresh, batch>>

Finish == /\ pc = "scan" /\ batch = <<>> /\ hosting = "self"
          /\ pc' = "idle"
          /\ UNCHANGED <<params, requests, scans, batch, expired>>

\* A target has a row in projects, so neither pass meets one without.
NextTarget(p) == pc = "scan" /\ batch # <<>> /\ Head(batch) = p

\* apply() uses a current scan; the pass on Cloudflare forces a new one.
UsesScan(p) == hosting = "self" /\ p \in fresh

\* apply() takes its own time, the pass on Cloudflare the one it began at.
Refresh(p) == /\ NextTarget(p)
              /\ p \in Scannable /\ ~UsesScan(p)
              /\ \E early \in SUBSET (Times \ {p}) : \E late \in SUBSET (Times \ ({p} \cup early)) :
                    Pass \notin early \cup late /\ Store(p, early, late)
              /\ fresh' = fresh \cup {p}
              /\ batch' = Tail(batch)
              /\ UNCHANGED <<params, requests, pc, expired>>

\* Nothing is stored: no versions, no answer ever, or a current scan.
Skip(p) == /\ NextTarget(p)
           /\ p \notin raising /\ (p \in NoScan \/ UsesScan(p))
           /\ batch' = Tail(batch)
           /\ UNCHANGED <<params, requests, scans, pc, expired>>

\* OSV fails this time: the pass goes on with the next project.
OsvFails(p) == /\ NextTarget(p)
               /\ p \in Scannable /\ ~UsesScan(p)
               /\ batch' = Tail(batch)
               /\ UNCHANGED <<params, requests, scans, pc, expired>>

\* Any other exception, or the end of the process, ends the pass.
Abort == /\ pc # "idle"
         /\ pc' = "idle"
         /\ batch' = <<>>
         /\ expired' = {}
         /\ NoPass
         /\ UNCHANGED <<params, requests, scanned, settled, fresh>>

\* A project whose turn raises whenever it comes ends every pass that gets so
\* far, and the projects behind it wait.
Raise(p) == NextTarget(p) /\ p \in raising /\ Abort

-----------------------------------------------------------------------------
RefreshNext == \/ \E p \in Project : \/ Request(p) \/ Evaluate(p) \/ Settle(p) \/ Age(p)
                                     \/ Lapse(p) \/ Refresh(p) \/ Skip(p) \/ OsvFails(p)
                                     \/ Raise(p)
               \/ Start \/ Prune \/ Finish \/ Abort

RefreshSpec == RefreshInit /\ [][RefreshNext]_refreshVars

\* Passes are started every interval and go on; a project whose turn comes
\* again and again is not met by an outage or the end of the process every
\* time; and a page does not last for ever.
FairSpec == /\ RefreshSpec
            /\ WF_refreshVars(Start) /\ SF_refreshVars(Prune \/ Finish)
            /\ \A p \in Project : SF_refreshVars(Refresh(p) \/ Skip(p) \/ Raise(p))
            /\ \A p \in Project \ NoScan : WF_refreshVars(Settle(p))

-----------------------------------------------------------------------------
(* Properties *)

RefreshTypeOK ==
    /\ hosting \in Hostings /\ raising \subseteq Fatal
    /\ targets \subseteq Project
    /\ expired \subseteq lapsed /\ lapsed \subseteq targets
    /\ asked \subseteq targets \X targets
    /\ scanned \subseteq Scannable
    /\ settled \subseteq scanned /\ fresh \subseteq scanned
    /\ checked \subseteq Times \X Times
    /\ pc \in {"idle", "prune", "scan"}
    /\ batch \in Seq(Project) /\ Len(batch) <= Limit
    /\ \A i, j \in DOMAIN batch : i # j => batch[i] # batch[j]

\* Times in an order in which several may be equal.
Ranked(order, rows) ==
    /\ \A p, q \in rows : <<p, q>> \in order => <<q, p>> \notin order
    /\ \A p, q, r \in rows : <<p, q>> \in order => <<p, r>> \in order \/ <<r, q>> \in order

\* The tables have the orders the queries sort by, whatever times slow pages
\* write; what lies outside the window is earlier than what is inside, and a
\* settled scan is earlier than what a pass on Cloudflare will file.
TablesOrdered ==
    /\ RefreshTypeOK
    /\ Ranked(asked, targets)
    /\ \A p \in lapsed, q \in Active : <<p, q>> \in asked
    /\ Ranked(checked, Times)
    /\ \A p \in settled, r \in Running : <<p, r>> \in checked

\* Nobody jumps the queue: a project is overtaken by another active one only
\* where one of the two was just requested, where its own scan was stored, or
\* where a page or pass that began no later than its scan was still in flight
\* and stored one for the other.  Once they are over, neither the scans of any
\* page or pass, however slow, nor deletions nor the next pass move it back.
NoOvertaking ==
    [][\A p, q \in Active \cap Active' : Precedes(p, q) /\ ~Precedes(p, q)' =>
          \/ Request(p) \/ Request(q)
          \/ Evaluate(p) \/ Refresh(p)
          \/ p \in scanned \ settled /\ (Evaluate(q) \/ Refresh(q))]_refreshVars

\* A batch has room for every project that can be scanned.
Room == IF hosting = "self" THEN Cardinality(Active) <= Limit
        ELSE Cardinality(Active \cap NoScan) < Limit

\* A pass may end before p's turn whenever it comes.
Blocked(p) == \E q \in Active \cap raising : ~Precedes(p, q)

\* "periodically refreshes advisories for projects used within the active
\* window" (README.md:346-347), as far as the code keeps it: a project that
\* stays active has a current scan again and again while a batch has room, on
\* the self-hosted service for every active project, on Cloudflare for more
\* than those that are never scanned, however many others want their turn, and
\* while no project in front of it ends every pass.  It needs that a pass
\* gives up its place in the order to a project it did not take, and that
\* slow pages, failures and the end of a pass never take a turn away for good.
CurrentWhileRoom ==
    \A p \in Project \ NoScan :
        []<>(p \in fresh \cup raising \/ p \notin Active \/ ~Room \/ Blocked(p))
=============================================================================
