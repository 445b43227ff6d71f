--------------------------- MODULE AdvisoryProofs ----------------------------
(***************************************************************************)
(* Theorems about ReleasePolicy for every set of files, every scan, every  *)
(* override and all ages: when the vulnerability fallback shows a file,    *)
(* when it must, and that time withdraws nothing else.  And about          *)
(* AdvisoryRefresh for any number of projects, batches of any size and     *)
(* either service: the tables keep the orders that the queries sort by,    *)
(* and nobody who waits for a refresh is overtaken or left out of a batch  *)
(* that has room.                                                          *)
(***************************************************************************)
EXTENDS PolicyOverTime, AdvisoryRefresh, FiniteSetTheorems, WellFoundedInduction, TLAPS

(* What every proof below knows of a file.                                  *)
LEMMA FileTypes ==
    ASSUME TypeOK
    PROVE  /\ now \in Nat /\ MinimumAge \in Nat /\ FallbackAge \in Nat
           /\ \A f \in files : f.version \in Version /\ (f.uploaded # NoTime => f.uploaded \in Nat)
           /\ \A v \in Version : override[v] \in {"none", "allow", "block"}
BY AgesAssumption, FilesAssumption DEF TypeOK, Action

(* What is old enough stays so.                                             *)
LEMMA Ages ==
    ASSUME TypeOK, NEW f \in files, NEW age \in Nat, OldEnough(f, age, now)
    PROVE  OldEnough(f, age, now + 1)
BY FileTypes DEF OldEnough

(* A file that nobody overrode is shown for one of three reasons.           *)
LEMMA WhyShown ==
    ASSUME TypeOK, NEW f \in shown, Automatic(f)
    PROVE  \/ OldEnough(f, MinimumAge, now)
           \/ f.uploaded = NoTime
           \/ f.version \in Fallback(files, bad, now) /\ OldEnough(f, FallbackAge, now)
BY DEF shown, Visible, Allows, Actions, Automatic

(* The fallback has a version only if nothing safe is old enough.           *)
LEMMA WhyFallback ==
    ASSUME TypeOK, NEW v \in Fallback(files, bad, now)
    PROVE  /\ v \notin bad
           /\ \A g \in files : OldEnough(g, MinimumAge, now) => g.version \in bad
BY DEF Fallback, Newest, FreshSafe, AgedSafe, Safe

(* The variables keep their types; a scan names versions of the files.      *)
THEOREM TypeCorrect == Spec => []TypeOK
<1>1. Init => TypeOK
  <2>1. SUFFICES ASSUME Init PROVE TypeOK
    OBVIOUS
  <2>2. \A f \in files : f.version \in Version
    BY <2>1, FilesAssumption DEF Init
  <2>3. override \in [Version -> Action \ {"fallback"}]
    BY <2>1 DEF Init, Action
  <2>4. QED
    BY <2>1, <2>2, <2>3, AgesAssumption DEF Init, TypeOK
<1>2. TypeOK /\ [Next]_vars => TypeOK'
  BY DEF TypeOK, Next, vars
<1> QED
  BY <1>1, <1>2, PTL DEF Spec

(* Only past the floor, and only as a last resort (policy.py:110-116 with   *)
(* vulnerabilities.py:114).                                                 *)
THEOREM LastResortOnly == Spec => []FallbackIsLastResort
<1>1. TypeOK => FallbackIsLastResort
  BY WhyShown, WhyFallback DEF FallbackIsLastResort
<1> QED
  BY <1>1, TypeCorrect, PTL

(* Where every file has an upload time, the newest fix past the floor is    *)
(* admitted whenever all that is old enough is vulnerable.                  *)
THEOREM FixAdmitted == Spec => []TimedFallbackAdmits
<1>1. ASSUME TypeOK, Timed,
             NEW a \in files, OldEnough(a, MinimumAge, now),
             \A f \in files : OldEnough(f, MinimumAge, now) => f.version \in bad,
             NEW f \in files, f.version \notin bad, OldEnough(f, FallbackAge, now), Automatic(f),
             \A g \in files : g.version \notin bad /\ OldEnough(g, FallbackAge, now) =>
                g.version <= f.version
      PROVE  f \in shown
  <2>1. bad # {} /\ AgedSafe(files, bad, now) = {}
    BY <1>1 DEF AgedSafe, Safe, Timed
  <2>2. f.version \in FreshSafe(files, bad, now)
    BY <1>1 DEF FreshSafe, Safe, Timed
  <2>3. \A w \in FreshSafe(files, bad, now) : w <= f.version
    BY <1>1 DEF FreshSafe, Safe
  <2>4. f.version \in Fallback(files, bad, now)
    BY <2>1, <2>2, <2>3 DEF Fallback, Newest
  <2>5. QED
    BY <1>1, <2>4 DEF shown, Visible, Allows, Actions, Automatic
<1>2. TypeOK => TimedFallbackAdmits
  BY <1>1 DEF TimedFallbackAdmits, FallbackAdmits
<1> QED
  BY <1>2, TypeCorrect, PTL

(* What time withdraws was shown by the fallback and still below its own    *)
(* minimum age.                                                             *)
LEMMA OnlyFallbacksStep ==
    ASSUME TypeOK, [Next]_vars, NEW f \in shown \ shown'
    PROVE  ~OldEnough(f, MinimumAge, now) /\ f.version \in Fallback(files, bad, now)
<1>1. CASE UNCHANGED vars
  BY <1>1 DEF shown, vars
<1>2. CASE Next
  <2>1. now' = now + 1 /\ UNCHANGED <<files, bad, override>>
    BY <1>2 DEF Next
  <2>2. f \in files /\ f \notin Visible(files, bad, override, now + 1)
    BY <2>1 DEF shown, Visible
  <2>3. override[f.version] # "block"
    BY <2>2 DEF shown, Visible, Allows, Actions
  <2>4. Actions(Fallback(files, bad, now + 1), override, f.version) # "block"
    BY <2>3 DEF Actions
  <2>5. ~OldEnough(f, MinimumAge, now + 1) /\ ~(f.uploaded = NoTime /\ AllowMissing)
    BY <2>2, <2>4 DEF Visible, Allows
  <2>6. ~OldEnough(f, MinimumAge, now)
    BY <2>2, <2>5, Ages, FileTypes
  <2>7. override[f.version] = "none"
    <3>1. override[f.version] # "allow"
      BY <2>2 DEF Visible, Allows, Actions
    <3>2. QED
      BY <2>2, <2>3, <3>1, FileTypes
  <2>8. QED
    BY <2>2, <2>5, <2>6, <2>7 DEF shown, Visible, Allows, Actions
<1> QED
  BY <1>1, <1>2

(* Time withdraws only what the fallback showed, so an upgrade past its own *)
(* minimum age stays.                                                       *)
THEOREM OnlyFallbacksGo == Spec => OnlyFallbacksDisappear
<1>1. TypeOK /\ [Next]_vars =>
        [\A f \in shown \ shown' :
            ~OldEnough(f, MinimumAge, now) /\ f.version \in Fallback(files, bad, now)]_vars
  BY OnlyFallbacksStep
<1> QED
  BY <1>1, TypeCorrect, PTL DEF Spec, OnlyFallbacksDisappear

-----------------------------------------------------------------------------
(* NeverGoesDark: something newest is always there to take the place.       *)

(* Among finitely many files one has the newest version: a set of the files *)
(* newer than one of them that has no strict subset of its kind is empty.   *)
LEMMA NewestFile ==
    ASSUME NEW F, IsFiniteSet(F), F # {}, \A f \in F : f.version \in Nat
    PROVE  \E f \in F : \A g \in F : g.version <= f.version
<1> DEFINE Newer(f) == {g \in F : f.version < g.version}
           Sets == {Newer(f) : f \in F}
<1>1. IsWellFoundedOn(StrictSubsetOrdering(F), SUBSET F)
  BY FS_StrictSubsetOrderingWellFounded, FS_FiniteSubsetsOfFinite
<1>2. Sets \subseteq SUBSET F /\ Sets # {}
  OBVIOUS
<1>3. PICK A \in Sets : \A B \in Sets : ~ (<<B, A>> \in StrictSubsetOrdering(F))
  <2> HIDE DEF Sets
  <2> QED
    BY <1>1, <1>2, WFMin
<1>4. PICK f \in F : A = Newer(f)
  BY <1>3
<1>5. ASSUME NEW g \in Newer(f) PROVE FALSE
  <2>1. Newer(g) \subseteq Newer(f) /\ g \notin Newer(g)
    <3>1. g \in F /\ f.version < g.version
      OBVIOUS
    <3> QED
      BY <3>1
  <2>2. <<Newer(g), Newer(f)>> \in StrictSubsetOrdering(F)
    BY <2>1 DEF StrictSubsetOrdering
  <2> QED
    BY <1>3, <1>4, <2>2
<1> QED
  BY <1>5

(* Time never empties a listing where nothing is blocked (the fallback of   *)
(* vulnerabilities.py:114 gives way only to something else that is shown).  *)
THEOREM StaysLit == Spec => NeverGoesDark
<1>1. ASSUME TypeOK, Next, \A f \in files : override[f.version] # "block", NEW f \in shown
      PROVE  shown' # {}
  <2>0. /\ now' = now + 1 /\ UNCHANGED <<files, bad, override>>
        /\ now \in Nat /\ MinimumAge \in Nat /\ FallbackAge \in Nat
        /\ f \in files /\ IsFiniteSet(files)
        /\ \A g \in files : g.version \in Nat
    BY <1>1, FileTypes, FilesAssumption DEF Next, shown, Visible, TypeOK
  <2>1. \A g \in files : override[g.version] \in {"none", "allow"}
    BY <1>1, FileTypes
  <2>2. \A fb, v : Actions(fb, override, v) = "block" => override[v] = "block"
    BY DEF Actions
  <2>3. ASSUME NEW g \in files, OldEnough(g, MinimumAge, now + 1) PROVE g \in shown'
    BY <2>0, <2>1, <2>2, <2>3 DEF shown, Visible, Allows
  <2>4. CASE f \in shown'
    BY <2>4
  <2>5. CASE f \notin shown'
    <3>1. ~OldEnough(f, MinimumAge, now) /\ f.version \in Fallback(files, bad, now)
      <4>1. \A h \in shown \ shown' : ~OldEnough(h, MinimumAge, now) /\ h.version \in Fallback(files, bad, now)
        BY <1>1, OnlyFallbacksStep
      <4> QED
        BY <2>5, <4>1
    <3>2. f.version \notin bad /\ bad # {} /\ AgedSafe(files, bad, now) = {}
      BY <3>1 DEF Fallback, Newest, FreshSafe, Safe
    <3>3. CASE AgedSafe(files, bad, now + 1) # {}
      <4>1. PICK g \in files : g.version \notin bad /\ (g.uploaded = NoTime \/ OldEnough(g, MinimumAge, now + 1))
        BY <3>3 DEF AgedSafe, Safe
      <4>2. g.uploaded # NoTime
        BY <3>2, <4>1 DEF AgedSafe, Safe
      <4> QED
        BY <2>3, <4>1, <4>2
    <3>4. CASE AgedSafe(files, bad, now + 1) = {}
      <4> DEFINE F == {g \in Safe(files, bad) : /\ g.uploaded # NoTime
                                                /\ ~OldEnough(g, MinimumAge, now + 1)
                                                /\ OldEnough(g, FallbackAge, now + 1)}
      <4>1. F # {}
        <5>1. PICK h \in files : h.version = f.version /\ h.uploaded # NoTime /\ OldEnough(h, FallbackAge, now)
          BY <3>1 DEF Fallback, Newest, FreshSafe, Safe
        <5>2. ~OldEnough(h, MinimumAge, now + 1)
          BY <3>2, <3>4, <5>1 DEF AgedSafe, Safe
        <5>3. OldEnough(h, FallbackAge, now + 1)
          BY <1>1, <2>0, <5>1, Ages
        <5> QED
          BY <3>2, <5>1, <5>2, <5>3 DEF Safe
      <4>2. F \subseteq files /\ IsFiniteSet(F)
        BY <2>0, FS_Subset DEF Safe
      <4>3. PICK g \in F : \A h \in F : h.version <= g.version
        <5> HIDE DEF F
        <5> QED
          BY <2>0, <4>1, <4>2, NewestFile
      <4>4. g.version \in Fallback(files, bad, now + 1)
        <5>1. FreshSafe(files, bad, now + 1) = {h.version : h \in F}
          BY DEF FreshSafe
        <5>2. g.version \in Newest(FreshSafe(files, bad, now + 1))
          BY <4>3, <5>1 DEF Newest
        <5> QED
          BY <3>2, <3>4, <5>2 DEF Fallback
      <4>5. g \in files /\ OldEnough(g, FallbackAge, now + 1)
        BY <4>2, <4>3
      <4>6. Actions(Fallback(files, bad, now + 1), override, g.version) \in {"allow", "fallback"}
        BY <2>1, <4>4, <4>5 DEF Actions
      <4> QED
        BY <2>0, <4>5, <4>6 DEF shown, Visible, Allows
    <3> QED
      BY <3>3, <3>4
  <2> QED
    BY <2>4, <2>5
<1>2. TypeOK /\ [Next]_vars =>
        [(\A f \in files : override[f.version] # "block") /\ shown # {} => shown' # {}]_vars
  BY <1>1
<1> QED
  BY <1>2, TypeCorrect, PTL DEF Spec, NeverGoesDark
-----------------------------------------------------------------------------
(* The scheduled refresh *)

(* What remains of an order.                                                *)
LEMMA LeavePairs ==
    ASSUME NEW order, NEW gone
    PROVE  /\ Leave(order, gone) \subseteq order
           /\ \A q, r : <<q, r>> \in Leave(order, gone) <=>
                         <<q, r>> \in order /\ q \notin gone /\ r \notin gone
<1>1. Leave(order, gone) \subseteq order
    BY DEF Leave
<1>2. ASSUME NEW q, NEW r
      PROVE  <<q, r>> \in Leave(order, gone) <=>
                 <<q, r>> \in order /\ q \notin gone /\ r \notin gone
    <2>1. <<q, r>>[1] = q /\ <<q, r>>[2] = r
        OBVIOUS
    <2>2. QED
        BY <2>1, Zenon DEF Leave
<1>3. QED
    BY <1>1, <1>2

(* The new row comes after and before those it is filed among.              *)
LEMMA FilePairs ==
    ASSUME NEW rows, NEW x, NEW first, NEW last
    PROVE  \A q, r : <<q, r>> \in File(rows, x, first, last) <=>
                         \/ <<q, r>> \in rows /\ q # x /\ r # x
                         \/ q \in first /\ r \in {x}
                         \/ q \in {x} /\ r \in last
<1>1. \A q, r : /\ <<q, r>> \in first \X {x} <=> q \in first /\ r \in {x}
                /\ <<q, r>> \in {x} \X last <=> q \in {x} /\ r \in last
    OBVIOUS
<1>2. \A q, r : <<q, r>> \in Leave(rows, {x}) <=> <<q, r>> \in rows /\ q # x /\ r # x
    BY LeavePairs
<1>3. QED
    BY <1>1, <1>2 DEF File

(* Rows stay in order where one is filed under any time among the others.   *)
LEMMA FileRanked ==
    ASSUME NEW S, NEW order \in SUBSET (S \X S), Ranked(order, S), NEW p,
           NEW early \in SUBSET (S \ {p}), NEW late \in SUBSET (S \ ({p} \cup early)),
           Around(order, S \ {p}, early, late)
    PROVE  /\ File(order, p, early, late) \subseteq (S \cup {p}) \X (S \cup {p})
           /\ Ranked(File(order, p, early, late), S \cup {p})
<1> DEFINE new == File(order, p, early, late)
<1>0. ASSUME NEW q, NEW r
      PROVE  <<q, r>> \in File(order, p, early, late) <=>
                 \/ <<q, r>> \in order /\ q # p /\ r # p
                 \/ q \in early /\ r = p
                 \/ q = p /\ r \in late
    BY FilePairs
<1>1. \A q, r : <<q, r>> \in new <=> \/ <<q, r>> \in order /\ q # p /\ r # p
                                     \/ q \in early /\ r = p
                                     \/ q = p /\ r \in late
    BY ONLY <1>0, Zenon
<1>2. new \subseteq (S \cup {p}) \X (S \cup {p})
    BY LeavePairs DEF File
<1> HIDE DEF new
<1>3. /\ \A q, r \in S : <<q, r>> \in order => <<r, q>> \notin order
      /\ \A q, r, t \in S : <<q, r>> \in order => <<q, t>> \in order \/ <<t, r>> \in order
    BY DEF Ranked
<1>4. /\ \A q \in early, r \in S \ {p} : r \notin early => <<q, r>> \in order
      /\ \A q \in S \ {p}, r \in late : q \notin late => <<q, r>> \in order
    BY DEF Around
<1>5. \A q, r \in S \cup {p} : <<q, r>> \in new => <<r, q>> \notin new
    BY <1>1, <1>3
<1>6. ASSUME NEW q \in S \cup {p}, NEW r \in S \cup {p}, NEW t \in S \cup {p}, <<q, r>> \in new
      PROVE  <<q, t>> \in new \/ <<t, r>> \in new
    <2>1. CASE q # p /\ r # p /\ t # p
        BY <1>1, <1>3, <1>6, <2>1
    <2>2. CASE q # p /\ r # p /\ t = p
        <3>1. <<q, r>> \in order /\ q \in S \ {p} /\ r \in S \ {p}
            BY <1>1, <1>6, <2>2
        <3>2. q \in early \/ r \in late
            <4> SUFFICES ASSUME q \notin early, r \notin late PROVE FALSE
                OBVIOUS
            <4>1. q \notin late
                <5> SUFFICES ASSUME q \in late PROVE FALSE
                    OBVIOUS
                <5>1. <<r, q>> \in order
                    BY <1>4, <3>1
                <5>2. QED
                    BY <1>3, <3>1, <5>1
            <4>2. r \notin early
                <5> SUFFICES ASSUME r \in early PROVE FALSE
                    OBVIOUS
                <5>1. <<r, q>> \in order
                    BY <1>4, <3>1
                <5>2. QED
                    BY <1>3, <3>1, <5>1
            <4>3. QED
                BY <3>1, <4>1, <4>2 DEF Around
        <3>3. QED
            BY <1>1, <2>2, <3>2
    <2>3. CASE q = p
        <3>1. r \in late /\ r # p
            BY <1>1, <1>6, <2>3
        <3>2. t = p \/ t \in late \/ <<t, r>> \in order
            BY <1>4, <3>1
        <3>3. QED
            BY <1>1, <1>6, <2>3, <3>1, <3>2
    <2>4. CASE r = p /\ q # p
        <3>1. q \in early
            BY <1>1, <1>6, <2>4
        <3>2. t = p \/ t \in early \/ <<q, t>> \in order
            BY <1>4, <3>1
        <3>3. QED
            BY <1>1, <1>6, <2>4, <3>1, <3>2
    <2>5. QED
        BY <2>1, <2>2, <2>3, <2>4
<1>7. Ranked(new, S \cup {p})
    BY <1>5, <1>6 DEF Ranked
<1>8. QED
    BY <1>2, <1>7 DEF new

(* Rows stay in order where some are deleted.                               *)
LEMMA LeaveRanked ==
    ASSUME NEW S, NEW order \in SUBSET (S \X S), Ranked(order, S), NEW gone
    PROVE  /\ Leave(order, gone) \subseteq (S \ gone) \X (S \ gone)
           /\ Ranked(Leave(order, gone), S \ gone)
<1>1. Leave(order, gone) \subseteq (S \ gone) \X (S \ gone)
    BY DEF Leave
<1>2. Ranked(Leave(order, gone), S \ gone)
    BY LeavePairs DEF Ranked
<1>3. QED
    BY <1>1, <1>2

-----------------------------------------------------------------------------
(* The parts of TablesOrdered: the targets, the scans and the pass *)

TargetsOK == /\ targets \subseteq Project /\ lapsed \subseteq targets
             /\ asked \subseteq targets \X targets /\ Ranked(asked, targets)
             /\ \A p \in lapsed, q \in Active : <<p, q>> \in asked

ScansOK == /\ scanned \subseteq Scannable /\ settled \subseteq scanned /\ fresh \subseteq scanned
           /\ checked \subseteq Times \X Times /\ Ranked(checked, Times)
           /\ \A p \in settled, r \in Running : <<p, r>> \in checked

PassOK == /\ hosting \in Hostings /\ raising \subseteq Fatal /\ expired \subseteq lapsed
          /\ pc \in {"idle", "prune", "scan"}
          /\ batch \in Seq(Project) /\ Len(batch) <= Limit
          /\ \A i, j \in DOMAIN batch : i # j => batch[i] # batch[j]

(* They are all of it.                                                      *)
LEMMA Parts == /\ TablesOrdered <=> TargetsOK /\ ScansOK /\ PassOK
               /\ TablesOrdered' <=> TargetsOK' /\ ScansOK' /\ PassOK'
BY DEF TablesOrdered, RefreshTypeOK, TargetsOK, ScansOK, PassOK

(* The tables are empty at first.                                           *)
LEMMA TablesInit ==
    ASSUME RefreshInit
    PROVE  TablesOrdered
<1>1. TargetsOK
    BY DEF RefreshInit, TargetsOK, Ranked, Active
<1>2. ScansOK
    BY DEF RefreshInit, ScansOK, Ranked, Times, Running
<1>3. PassOK
    BY LimitAssumption DEF RefreshInit, PassOK
<1>4. QED
    BY <1>1, <1>2, <1>3, Parts

(* What is not touched stays as it was.                                     *)
LEMMA SameTargets ==
    ASSUME TargetsOK, UNCHANGED requests
    PROVE  TargetsOK'
BY DEF requests, TargetsOK, Ranked, Active

LEMMA SameScans ==
    ASSUME ScansOK, UNCHANGED <<scanned, checked, settled, params>>, fresh' \subseteq scanned, Running' = Running
    PROVE  ScansOK'
BY DEF params, ScansOK, Scannable, Ranked, Times

(* A page records its request among the others, and not outside the window. *)
LEMMA RequestOrders ==
    ASSUME TargetsOK, NEW p \in Project, Request(p)
    PROVE  TargetsOK'
<1> USE DEF TargetsOK
<1>0. PICK early \in SUBSET (targets \ {p}) :
          \E late \in SUBSET (targets \ ({p} \cup early)) :
             /\ Around(asked, targets \ {p}, early, late)
             /\ lapsed \ {p} \subseteq early
             /\ asked' = File(asked, p, early, late)
    BY DEF Request
<1>1. PICK late \in SUBSET (targets \ ({p} \cup early)) :
          /\ Around(asked, targets \ {p}, early, late)
          /\ lapsed \ {p} \subseteq early
          /\ asked' = File(asked, p, early, late)
    BY <1>0
<1>2. targets' = targets \cup {p} /\ lapsed' = lapsed \ {p}
    BY DEF Request
<1>3. asked' \subseteq targets' \X targets' /\ Ranked(asked', targets')
    BY <1>1, <1>2, FileRanked
<1>4. \A q \in lapsed', r \in Active' : <<q, r>> \in asked'
    <2>0. ASSUME NEW q, NEW r
          PROVE  <<q, r>> \in File(asked, p, early, late) <=>
                     \/ <<q, r>> \in asked /\ q # p /\ r # p
                     \/ q \in early /\ r = p
                     \/ q = p /\ r \in late
        BY FilePairs
    <2>1. \A q, r : <<q, r>> \in asked' <=> \/ <<q, r>> \in asked /\ q # p /\ r # p
                                            \/ q \in early /\ r = p
                                            \/ q = p /\ r \in late
        BY ONLY <1>1, <2>0, Zenon
    <2>2. QED
        BY <1>1, <1>2, <2>1 DEF Active
<1>5. Ranked(asked, targets)'
    BY <1>3 DEF Ranked
<1>6. QED
    BY <1>2, <1>3, <1>4, <1>5

(* What lapses is earlier than what does not.                               *)
LEMMA LapseOrders ==
    ASSUME TargetsOK, NEW p \in Project, Lapse(p)
    PROVE  TargetsOK' /\ lapsed \subseteq lapsed'
<1>1. /\ p \in targets /\ p \notin lapsed /\ targets' = targets /\ asked' = asked
      /\ lapsed' = {q \in targets : <<p, q>> \notin asked}
    BY DEF Lapse, Active
<1>2. /\ \A q, r \in targets : <<q, r>> \in asked => <<r, q>> \notin asked
      /\ \A q, r, t \in targets : <<q, r>> \in asked => <<q, t>> \in asked \/ <<t, r>> \in asked
    BY DEF TargetsOK, Ranked
<1>3. lapsed \subseteq lapsed'
    BY <1>1, <1>2 DEF TargetsOK, Active
<1>4. \A q \in lapsed', r \in Active' : <<q, r>> \in asked'
    BY <1>1, <1>2 DEF Active
<1>5. QED
    BY <1>1, <1>3, <1>4 DEF TargetsOK, Ranked

(* Deleting targets leaves the others as they were.                         *)
LEMMA PruneOrders ==
    ASSUME TargetsOK, Prune
    PROVE  TargetsOK'
<1>1. /\ targets' = targets \ expired /\ asked' = Leave(asked, expired)
      /\ lapsed' = lapsed \ expired
    BY DEF Prune
<1>2. asked' \subseteq targets' \X targets' /\ Ranked(asked', targets')
    BY <1>1, LeaveRanked DEF TargetsOK
<1>3. \A q \in lapsed', r \in Active' : <<q, r>> \in asked'
    BY <1>1, LeavePairs DEF TargetsOK, Active
<1>4. QED
    BY <1>1, <1>2, <1>3 DEF TargetsOK, Ranked

(* A scan is filed under some time among the others.                        *)
LEMMA StoreOrders ==
    ASSUME ScansOK, NEW p \in Scannable, UNCHANGED <<params, pc>>, fresh' = fresh \cup {p},
           NEW early \in SUBSET (Times \ {p}), NEW late \in SUBSET (Times \ ({p} \cup early)),
           Store(p, early, late)
    PROVE  ScansOK'
<1>1. /\ scanned' = scanned \cup {p} /\ settled' = settled \ {p}
      /\ checked' = File(checked, p, early, late)
      /\ Running' = Running /\ Times' = Times \cup {p} /\ Scannable' = Scannable
    BY DEF Store, params, Running, Times, Scannable
<1>2. checked' \subseteq Times' \X Times' /\ Ranked(checked', Times')
    BY <1>1, FileRanked DEF ScansOK, Store
<1>3. \A q \in settled', r \in Running' : <<q, r>> \in checked'
    <2>1. p \notin Running
        BY PassAssumption DEF Running, Scannable
    <2>2. \A q, r : q # p /\ r # p => (<<q, r>> \in File(checked, p, early, late) <=> <<q, r>> \in checked)
        BY FilePairs
    <2>3. QED
        BY <1>1, <2>1, <2>2 DEF ScansOK
<1>4. QED
    BY <1>1, <1>2, <1>3 DEF ScansOK, Ranked

(* The time at which a pass begins comes after those there are.             *)
LEMMA StartOrders ==
    ASSUME ScansOK, PassOK, Start
    PROVE  ScansOK'
<1>1. UNCHANGED <<params, scanned, settled, fresh>> /\ pc = "idle" /\ hosting' = hosting
    BY DEF Start, params
<1>2. CASE hosting # "cloudflare"
    <2>1. UNCHANGED checked /\ Running' = {} /\ Running = {}
        BY <1>1, <1>2 DEF Start, Running
    <2>2. QED
        BY <1>1, <2>1, SameScans DEF ScansOK
<1>3. CASE hosting = "cloudflare"
    <2>1. /\ Running = {} /\ Running' = {Pass} /\ Times = scanned /\ Times' = Times \cup {Pass}
          /\ Pass \notin scanned /\ checked' = File(checked, Pass, scanned, {})
        BY <1>1, <1>3, PassAssumption DEF Start, Running, Times, ScansOK, Scannable
    <2>2. Around(checked, Times \ {Pass}, scanned, {})
        BY <2>1 DEF Around
    <2>3. checked' \subseteq Times' \X Times' /\ Ranked(checked', Times')
        <3>1. /\ checked \in SUBSET (Times \X Times) /\ Ranked(checked, Times)
              /\ scanned \in SUBSET (Times \ {Pass}) /\ {} \in SUBSET (Times \ ({Pass} \cup scanned))
            BY <2>1 DEF ScansOK
        <3>2. QED
            BY <2>1, <2>2, <3>1, FileRanked
    <2>4. \A q \in settled', r \in Running' : <<q, r>> \in checked'
        <3>1. \A q \in scanned : <<q, Pass>> \in File(checked, Pass, scanned, {})
            BY FilePairs
        <3>2. QED
            BY <1>1, <2>1, <3>1 DEF ScansOK
    <2>5. QED
        BY <1>1, <2>3, <2>4 DEF ScansOK, Ranked, params, Scannable
<1>4. QED
    BY <1>2, <1>3

(* It goes when the pass is over.                                           *)
LEMMA OverOrders ==
    ASSUME ScansOK, UNCHANGED <<params, scanned, settled, fresh>>, NoPass, pc' = "idle"
    PROVE  ScansOK'
<1>1. Running' = {} /\ Times' = scanned /\ Times \ {Pass} = scanned
    BY PassAssumption DEF Running, Times, ScansOK, Scannable
<1>2. checked' \subseteq Times' \X Times' /\ Ranked(checked', Times')
    BY <1>1, LeaveRanked DEF NoPass, ScansOK
<1>3. QED
    BY <1>1, <1>2 DEF ScansOK, Ranked, params, Scannable

(* A batch holds at most Limit active targets, each once.                   *)
LEMMA StartBatch ==
    ASSUME TablesOrdered, Start
    PROVE  /\ batch' \in Seq(Project) /\ Len(batch') <= Limit
           /\ \A i, j \in DOMAIN batch' : i # j => batch'[i] # batch'[j]
<1>1. PICK n \in 0..Limit : batch' \in [1..n -> Active] /\ Taken(batch')
    BY DEF Start
<1>2. batch' \in Seq(Project) /\ Len(batch') = n /\ DOMAIN batch' = 1..n
    BY <1>1, LimitAssumption DEF TablesOrdered, RefreshTypeOK, Active
<1>3. \A i, j \in DOMAIN batch' : i < j => batch'[i] # batch'[j]
    BY <1>1 DEF Taken
<1>4. \A i, j \in DOMAIN batch' : i # j => i < j \/ j < i
    BY <1>2
<1>5. QED
    BY <1>2, <1>3, <1>4, LimitAssumption

(* What is left of a batch holds nothing twice.                             *)
LEMMA TailBatch ==
    ASSUME RefreshTypeOK, batch # <<>>
    PROVE  /\ Tail(batch) \in Seq(Project) /\ Len(Tail(batch)) <= Limit
           /\ \A i, j \in DOMAIN Tail(batch) : i # j => Tail(batch)[i] # Tail(batch)[j]
<1>1. /\ batch \in Seq(Project) /\ Len(batch) \in Nat \ {0} /\ Len(batch) <= Limit
      /\ DOMAIN batch = 1..Len(batch)
    BY LimitAssumption DEF RefreshTypeOK
<1>2. /\ Tail(batch) \in Seq(Project) /\ Len(Tail(batch)) = Len(batch) - 1
      /\ DOMAIN Tail(batch) = 1..(Len(batch) - 1)
      /\ \A i \in 1..(Len(batch) - 1) : Tail(batch)[i] = batch[i + 1]
    BY <1>1
<1>3. \A i, j \in 1..(Len(batch) - 1) :
          i # j => i + 1 \in DOMAIN batch /\ j + 1 \in DOMAIN batch /\ i + 1 # j + 1
    BY <1>1
<1>4. QED
    BY <1>1, <1>2, <1>3, LimitAssumption DEF RefreshTypeOK

(* Every step keeps the types and the orders.                               *)
LEMMA TablesNext ==
    ASSUME TablesOrdered, [RefreshNext]_refreshVars
    PROVE  TablesOrdered'
<1> USE Parts
<1> DEFINE BatchOK == /\ batch \in Seq(Project) /\ Len(batch) <= Limit
                      /\ \A i, j \in DOMAIN batch : i # j => batch[i] # batch[j]
<1>1. ASSUME NEW p \in Project, Request(p)
      PROVE  TablesOrdered'
    <2>1. /\ UNCHANGED <<params, scanned, checked, settled, fresh, pc, batch>>
          /\ expired' = expired \ {p} /\ lapsed' = lapsed \ {p} /\ UNCHANGED <<hosting, raising>>
        BY <1>1 DEF Request, scans, params
    <2>2. Running' = Running
        BY <2>1 DEF Running
    <2>3. PassOK'
        BY <2>1 DEF PassOK
    <2>4. ScansOK'
        BY <2>1, <2>2, SameScans DEF ScansOK
    <2>5. QED
        BY <1>1, <2>3, <2>4, RequestOrders
<1>2. ASSUME NEW p \in Project, Evaluate(p)
      PROVE  TablesOrdered'
    <2>1. UNCHANGED <<params, pc>> /\ UNCHANGED requests /\ PassOK' /\ p \in Scannable
          /\ fresh' = fresh \cup {p}
        BY <1>2 DEF Evaluate, pass, params, requests, PassOK
    <2>2. PICK early \in SUBSET (Times \ {p}) :
              \E late \in SUBSET (Times \ ({p} \cup early)) : Store(p, early, late)
        BY <1>2 DEF Evaluate
    <2>3. ScansOK'
        BY <2>1, <2>2, StoreOrders
    <2>4. QED
        BY <2>1, <2>3, SameTargets
<1>3. ASSUME NEW p \in Project, Settle(p)
      PROVE  TablesOrdered'
    <2>1. /\ UNCHANGED <<params, scanned, checked, fresh, pc, hosting>> /\ UNCHANGED requests
          /\ settled' = {q \in scanned : <<p, q>> \notin checked} /\ p \in scanned
          /\ \A r \in Running : <<p, r>> \in checked
          /\ PassOK'
        BY <1>3 DEF Settle, pass, params, requests, PassOK
    <2>2. Running' = Running /\ Times' = Times /\ Scannable' = Scannable
        BY <2>1 DEF Running, Times, Scannable, params
    <2>3. \A q \in settled', r \in Running : <<q, r>> \in checked
        BY <2>1 DEF ScansOK, Ranked, Times
    <2>4. ScansOK'
        BY <2>1, <2>2, <2>3 DEF ScansOK, Ranked
    <2>5. QED
        BY <2>1, <2>4, SameTargets
<1>4. ASSUME NEW p \in Project, Age(p)
      PROVE  TablesOrdered'
    <2>1. /\ UNCHANGED <<scanned, checked, settled, params>> /\ UNCHANGED requests
          /\ fresh' \subseteq scanned /\ Running' = Running /\ PassOK'
        BY <1>4 DEF Age, pass, params, requests, PassOK, ScansOK, Running
    <2>2. QED
        BY <2>1, SameTargets, SameScans
<1>5. ASSUME NEW p \in Project, Lapse(p)
      PROVE  TablesOrdered'
    <2>1. /\ UNCHANGED <<scanned, checked, settled, params>> /\ fresh' = fresh
          /\ Running' = Running /\ UNCHANGED <<hosting, raising, pc, batch, expired>>
        BY <1>5 DEF Lapse, pass, params, scans, Running
    <2>2. TargetsOK' /\ lapsed \subseteq lapsed'
        BY <1>5, LapseOrders
    <2>3. PassOK'
        BY <2>1, <2>2 DEF PassOK
    <2>4. ScansOK'
        BY <2>1, SameScans DEF ScansOK
    <2>5. QED
        BY <2>2, <2>3, <2>4
<1>6. ASSUME NEW p \in Project, Refresh(p)
      PROVE  TablesOrdered'
    <2>1. /\ UNCHANGED <<params, pc>> /\ UNCHANGED requests /\ UNCHANGED <<hosting, raising, expired, lapsed>>
          /\ p \in Scannable /\ fresh' = fresh \cup {p} /\ batch # <<>> /\ batch' = Tail(batch)
        BY <1>6 DEF Refresh, NextTarget, params, requests
    <2>2. PICK early \in SUBSET (Times \ {p}) :
              \E late \in SUBSET (Times \ ({p} \cup early)) : Store(p, early, late)
        BY <1>6 DEF Refresh
    <2>3. ScansOK'
        BY <2>1, <2>2, StoreOrders
    <2>4. BatchOK'
        BY <2>1, TailBatch DEF TablesOrdered
    <2>5. PassOK'
        BY <2>1, <2>4 DEF PassOK
    <2>6. QED
        BY <2>1, <2>3, <2>5, SameTargets
<1>7. ASSUME NEW p \in Project, Skip(p) \/ OsvFails(p)
      PROVE  TablesOrdered'
    <2>1. /\ UNCHANGED <<scanned, checked, settled, params>> /\ UNCHANGED requests /\ fresh' = fresh
          /\ Running' = Running /\ UNCHANGED <<hosting, raising, pc, expired, lapsed>>
          /\ batch # <<>> /\ batch' = Tail(batch)
        BY <1>7 DEF Skip, OsvFails, NextTarget, params, requests, scans, Running
    <2>2. BatchOK'
        BY <2>1, TailBatch DEF TablesOrdered
    <2>3. PassOK'
        BY <2>1, <2>2 DEF PassOK
    <2>4. ScansOK'
        BY <2>1, SameScans DEF ScansOK
    <2>5. QED
        BY <2>1, <2>3, <2>4, SameTargets
<1>8. CASE Start
    <2>1. /\ UNCHANGED requests /\ UNCHANGED <<hosting, raising, lapsed>>
          /\ expired' = lapsed /\ pc' \in {"prune", "scan"}
        BY <1>8 DEF Start, params, requests
    <2>2. BatchOK'
        BY <1>8, StartBatch
    <2>3. PassOK'
        BY <2>1, <2>2 DEF PassOK
    <2>4. QED
        BY <1>8, <2>1, <2>3, StartOrders, SameTargets
<1>9. CASE Prune
    <2>1. /\ UNCHANGED <<params, scanned, settled, fresh, hosting, raising, batch>> /\ expired' = {}
          /\ \/ pc = "prune" /\ pc' = "scan" /\ UNCHANGED checked
             \/ NoPass /\ pc' = "idle"
        BY <1>9 DEF Prune, params
    <2>2. PassOK'
        BY <2>1 DEF PassOK
    <2>3. CASE pc = "prune" /\ pc' = "scan" /\ UNCHANGED checked
        <3>1. Running' = Running
            BY <2>1, <2>3 DEF Running
        <3>2. ScansOK'
            BY <2>1, <2>3, <3>1, SameScans DEF ScansOK
        <3>3. QED
            BY <1>9, <2>2, <3>2, PruneOrders
    <2>4. CASE NoPass /\ pc' = "idle"
        BY <1>9, <2>1, <2>2, <2>4, PruneOrders, OverOrders
    <2>5. QED
        BY <2>1, <2>3, <2>4
<1>10. CASE Finish
    <2>1. /\ UNCHANGED <<scanned, checked, settled, params>> /\ UNCHANGED requests /\ fresh' = fresh
          /\ UNCHANGED <<hosting, raising, batch, expired, lapsed>> /\ pc' = "idle"
          /\ hosting = "self"
        BY <1>10 DEF Finish, params, requests, scans
    <2>2. Running' = Running
        BY <2>1 DEF Running
    <2>3. PassOK'
        BY <2>1 DEF PassOK
    <2>4. ScansOK'
        BY <2>1, <2>2, SameScans DEF ScansOK
    <2>5. QED
        BY <2>1, <2>3, <2>4, SameTargets
<1>11. ASSUME Abort
       PROVE  TablesOrdered'
    <2>1. /\ UNCHANGED <<params, scanned, settled, fresh>> /\ UNCHANGED requests /\ NoPass
          /\ UNCHANGED <<hosting, raising, lapsed>> /\ pc' = "idle" /\ expired' = {} /\ batch' = <<>>
        BY <1>11 DEF Abort, params, requests
    <2>2. BatchOK'
        BY <2>1, LimitAssumption
    <2>3. PassOK'
        BY <2>1, <2>2 DEF PassOK
    <2>4. QED
        BY <2>1, <2>3, OverOrders, SameTargets
<1>12. CASE UNCHANGED refreshVars
    <2>1. /\ UNCHANGED <<scanned, checked, settled, params>> /\ UNCHANGED requests /\ fresh' = fresh
          /\ UNCHANGED <<hosting, raising, pc, batch, expired, lapsed>>
        BY <1>12 DEF refreshVars, params, requests, scans, pass
    <2>2. Running' = Running
        BY <2>1 DEF Running
    <2>3. PassOK'
        BY <2>1 DEF PassOK
    <2>4. ScansOK'
        BY <2>1, <2>2, SameScans DEF ScansOK
    <2>5. QED
        BY <2>1, <2>3, <2>4, SameTargets
<1>13. QED
    BY <1>1, <1>2, <1>3, <1>4, <1>5, <1>6, <1>7, <1>8, <1>9, <1>10, <1>11, <1>12
       DEF RefreshNext, Raise

(* However a pass interleaves with page requests of any length, failures and *)
(* the end of a pass, for every batch size: the tables stay ordered, and a   *)
(* batch holds nothing twice.                                               *)
THEOREM TablesStayOrdered == RefreshSpec => []TablesOrdered
<1>1. RefreshInit => TablesOrdered
    BY TablesInit
<1>2. TablesOrdered /\ [RefreshNext]_refreshVars => TablesOrdered'
    BY TablesNext
<1>3. QED
    BY <1>1, <1>2, PTL DEF RefreshSpec

-----------------------------------------------------------------------------
(* Where two rows and their requests are as they were, so is their order.   *)
LEMMA SameOrder ==
    ASSUME NEW p, NEW q, hosting' = hosting,
           <<p, q>> \in asked' <=> <<p, q>> \in asked, <<q, p>> \in asked' <=> <<q, p>> \in asked,
           <<p, q>> \in checked' <=> <<p, q>> \in checked, <<q, p>> \in checked' <=> <<q, p>> \in checked,
           p \in scanned' <=> p \in scanned, q \in scanned' <=> q \in scanned
    PROVE  Precedes(p, q)' <=> Precedes(p, q)
BY DEF Precedes, ByRequest, ByScan, ScannedAlike

(* No project comes before itself.                                          *)
LEMMA PrecedesIrreflexive ==
    ASSUME TablesOrdered, NEW p \in targets
    PROVE  ~Precedes(p, p)
BY DEF TablesOrdered, RefreshTypeOK, Ranked, Times, Precedes, ByRequest, ByScan, ScannedAlike

(* Filing a third row does not change the order of two.                     *)
LEMMA FileElsewhere ==
    ASSUME NEW rows, NEW x, NEW first, NEW last, NEW p, NEW q, p # x, q # x
    PROVE  /\ <<p, q>> \in File(rows, x, first, last) <=> <<p, q>> \in rows
           /\ <<q, p>> \in File(rows, x, first, last) <=> <<q, p>> \in rows
BY FilePairs

(* A request of a third project moves neither of two.                       *)
LEMMA RequestElsewhere ==
    ASSUME NEW x \in Project, Request(x), NEW p, NEW q, p # x, q # x
    PROVE  Precedes(p, q)' <=> Precedes(p, q)
<1>1. /\ UNCHANGED <<hosting, scanned, checked>>
      /\ \E early, late : asked' = File(asked, x, early, late)
    BY DEF Request, params, scans
<1>2. PICK early, late : asked' = File(asked, x, early, late)
    BY <1>1
<1>3. /\ <<p, q>> \in asked' <=> <<p, q>> \in asked
      /\ <<q, p>> \in asked' <=> <<q, p>> \in asked
    BY <1>2, FileElsewhere
<1>4. QED
    BY <1>1, <1>3, SameOrder

(* Nor does the scan of a third project.                                    *)
LEMMA StoreElsewhere ==
    ASSUME NEW x, NEW early, NEW late, Store(x, early, late), UNCHANGED <<hosting, asked>>,
           NEW p, NEW q, p # x, q # x
    PROVE  Precedes(p, q)' <=> Precedes(p, q)
<1>1. scanned' = scanned \cup {x} /\ checked' = File(checked, x, early, late)
    BY DEF Store
<1>2. /\ <<p, q>> \in checked' <=> <<p, q>> \in checked
      /\ <<q, p>> \in checked' <=> <<q, p>> \in checked
    BY <1>1, FileElsewhere
<1>3. QED
    BY <1>1, <1>2, SameOrder

(* Whoever is scanned goes behind all that have no scan or a settled one.   *)
LEMMA StoreGoesBehind ==
    ASSUME NEW q, NEW early, NEW late, Store(q, early, late), hosting' = hosting, hosting # "self",
           NEW p, p # q, p \notin scanned \/ p \in settled
    PROVE  Precedes(p, q)'
<1>1. /\ scanned' = scanned \cup {q} /\ checked' = File(checked, q, early, late)
      /\ settled \ {q} \subseteq early
    BY DEF Store
<1>2. CASE p \notin scanned
    BY <1>1, <1>2 DEF Precedes, ByScan
<1>3. CASE p \in settled
    <2>1. p \in early
        BY <1>1, <1>3
    <2>2. <<p, q>> \in File(checked, q, early, late)
        BY <2>1, FilePairs
    <2>3. QED
        BY <1>1, <2>2 DEF Precedes, ByScan
<1>4. QED
    BY <1>2, <1>3

(* NoOvertaking, for one step and two projects.                             *)
LEMMA Overtaken ==
    ASSUME TablesOrdered, [RefreshNext]_refreshVars,
           NEW p \in Active \cap Active', NEW q \in Active \cap Active',
           Precedes(p, q), ~Precedes(p, q)'
    PROVE  \/ Request(p) \/ Request(q)
           \/ Evaluate(p) \/ Refresh(p)
           \/ p \in scanned \ settled /\ (Evaluate(q) \/ Refresh(q))
<1>1. /\ p \in targets /\ q \in targets /\ p \in targets' /\ q \in targets' /\ p # q
      /\ p \in Project /\ q \in Project /\ p # Pass /\ q # Pass
    BY PrecedesIrreflexive, PassAssumption DEF Active, TablesOrdered, RefreshTypeOK
<1>2. ASSUME NEW x \in Project, Request(x)
      PROVE  x = p \/ x = q
    BY <1>2, RequestElsewhere
<1>3. ASSUME NEW x \in Project, Evaluate(x) \/ Refresh(x)
      PROVE  x = p \/ (x = q /\ p \in scanned \ settled)
    <2>1. UNCHANGED <<hosting, asked>>
        BY <1>3 DEF Evaluate, Refresh, params, requests
    <2>2. PICK early, late : Store(x, early, late)
        BY <1>3 DEF Evaluate, Refresh
    <2>3. x = p \/ x = q
        BY <2>1, <2>2, StoreElsewhere
    <2>4. CASE x = q
        <3>1. hosting # "self"
            BY <2>1 DEF Precedes, ByRequest
        <3>2. QED
            BY <1>1, <2>1, <2>2, <2>4, <3>1, StoreGoesBehind
    <2>5. QED
        BY <2>3, <2>4
<1>4. ASSUME NEW x \in Project, Settle(x) \/ Age(x) \/ Lapse(x) \/ Skip(x) \/ OsvFails(x)
      PROVE  FALSE
    <2>1. UNCHANGED <<hosting, asked, scanned, checked>>
        BY <1>4 DEF Settle, Age, Lapse, Skip, OsvFails, params, requests, scans
    <2>2. QED
        BY <2>1, SameOrder
<1>5. ASSUME Start
      PROVE  FALSE
    <2>1. UNCHANGED <<hosting, asked, scanned>>
        BY <1>5 DEF Start, params, requests
    <2>2. checked' = checked \/ checked' = File(checked, Pass, scanned, {})
        BY <1>5 DEF Start
    <2>3. /\ <<p, q>> \in checked' <=> <<p, q>> \in checked
          /\ <<q, p>> \in checked' <=> <<q, p>> \in checked
        BY <1>1, <2>2, FileElsewhere
    <2>4. QED
        BY <2>1, <2>3, SameOrder
<1>6. ASSUME checked' = checked \/ NoPass
      PROVE  /\ <<p, q>> \in checked' <=> <<p, q>> \in checked
             /\ <<q, p>> \in checked' <=> <<q, p>> \in checked
    BY <1>1, <1>6, LeavePairs DEF NoPass
<1>7. ASSUME Prune
      PROVE  FALSE
    <2>1. /\ UNCHANGED <<hosting, scanned>> /\ (checked' = checked \/ NoPass)
          /\ targets' = targets \ expired /\ asked' = Leave(asked, expired)
        BY <1>7 DEF Prune, params
    <2>2. /\ <<p, q>> \in asked' <=> <<p, q>> \in asked
          /\ <<q, p>> \in asked' <=> <<q, p>> \in asked
        BY <1>1, <2>1, LeavePairs
    <2>3. QED
        BY <1>6, <2>1, <2>2, SameOrder
<1>8. ASSUME Finish \/ Abort \/ UNCHANGED refreshVars
      PROVE  FALSE
    <2>1. UNCHANGED <<hosting, asked, scanned>> /\ (checked' = checked \/ NoPass)
        BY <1>8 DEF Finish, Abort, refreshVars, params, requests, scans
    <2>2. QED
        BY <1>6, <2>1, SameOrder
<1>9. QED
    BY <1>2, <1>3, <1>4, <1>5, <1>7, <1>8 DEF RefreshNext, Raise

(* Nobody jumps the queue, on either service, for any number of projects and *)
(* however slow the pages are.                                              *)
THEOREM NobodyOvertakes == RefreshSpec => NoOvertaking
<1>1. TablesOrdered /\ [RefreshNext]_refreshVars =>
          \A p, q \in Active \cap Active' : Precedes(p, q) /\ ~Precedes(p, q)' =>
              \/ Request(p) \/ Request(q)
              \/ Evaluate(p) \/ Refresh(p)
              \/ p \in scanned \ settled /\ (Evaluate(q) \/ Refresh(q))
    BY Overtaken
<1>2. QED
    BY <1>1, TablesStayOrdered, PTL DEF RefreshSpec, NoOvertaking

\* A pass that has room takes every active project that can be scanned, on
\* Cloudflare every one or another that can be and does not come after it.
RoomIsUsed ==
    [][Start /\ Room => \A p \in Active \ NoScan :
          \/ \E i \in DOMAIN batch' : batch'[i] = p
          \/ /\ hosting = "cloudflare"
             /\ \E i \in DOMAIN batch' : /\ batch'[i] \notin NoScan
                                         /\ ~Precedes(p, batch'[i])]_refreshVars

FiniteTargets == IsFiniteSet(targets)

(* There are finitely many targets.                                         *)
LEMMA FinitelyMany == RefreshSpec => []FiniteTargets
<1>1. RefreshInit => FiniteTargets
    BY FS_EmptySet DEF RefreshInit, FiniteTargets
<1>2. FiniteTargets /\ [RefreshNext]_refreshVars => FiniteTargets'
    <2> SUFFICES ASSUME FiniteTargets, [RefreshNext]_refreshVars
                 PROVE  FiniteTargets'
        OBVIOUS
    <2>1. \/ targets' \in SUBSET targets
          \/ \E p \in Project : targets' = targets \cup {p}
        BY DEF RefreshNext, refreshVars, requests, Request, Evaluate, Settle, Age, Lapse, Refresh,
               Skip, OsvFails, Raise, Start, Prune, Finish, Abort
    <2>2. QED
        BY <2>1, FS_Subset, FS_AddElement DEF FiniteTargets
<1>3. QED
    BY <1>1, <1>2, PTL DEF RefreshSpec

(* A batch does not fit into fewer projects than it has places.             *)
LEMMA BatchNeedsRoom ==
    ASSUME NEW s \in Seq(Project), Len(s) = Limit, NEW T, IsFiniteSet(T), Cardinality(T) < Limit,
           \A i, j \in DOMAIN s : i # j => s[i] # s[j]
    PROVE  \E i \in DOMAIN s : s[i] \notin T
<1> SUFFICES ASSUME \A i \in DOMAIN s : s[i] \in T
             PROVE  FALSE
    OBVIOUS
<1>1. DOMAIN s = 1..Limit /\ s \in [1..Limit -> T]
    BY LimitAssumption
<1>2. IsFiniteSet(1..Limit) /\ Cardinality(1..Limit) = Limit
    BY FS_Interval, LimitAssumption
<1>3. \E i, j \in 1..Limit : i # j /\ s[i] = s[j]
    BY <1>1, <1>2, FS_PigeonHole
<1>4. QED
    BY <1>1, <1>3

(* RoomIsUsed, for one project.                                             *)
LEMMA HasItsTurn ==
    ASSUME TablesOrdered, FiniteTargets, Start, Room, NEW p \in Active \ NoScan
    PROVE  \/ \E i \in DOMAIN batch' : batch'[i] = p
           \/ /\ hosting = "cloudflare"
              /\ \E i \in DOMAIN batch' : /\ batch'[i] \notin NoScan
                                          /\ ~Precedes(p, batch'[i])
<1> SUFFICES ASSUME \A i \in DOMAIN batch' : batch'[i] # p
             PROVE  /\ hosting = "cloudflare"
                    /\ \E i \in DOMAIN batch' : /\ batch'[i] \notin NoScan
                                                /\ ~Precedes(p, batch'[i])
    OBVIOUS
<1>1. PICK n \in 0..Limit : batch' \in [1..n -> Active] /\ Taken(batch')
    BY DEF Start
<1>2. /\ batch' \in Seq(Project) /\ Len(batch') = Limit
      /\ \A i, j \in DOMAIN batch' : i # j => batch'[i] # batch'[j]
      /\ \A i \in DOMAIN batch' : batch'[i] \in Active /\ ~Precedes(p, batch'[i])
    BY <1>1, StartBatch DEF Taken
<1>3. IsFiniteSet(Active) /\ Cardinality(Active) \in Nat
    BY FS_Subset, FS_CardinalityType DEF Active, FiniteTargets
<1>4. CASE hosting = "self"
    <2>1. Cardinality(Active) <= Limit
        BY <1>4 DEF Room
    <2>2. IsFiniteSet(Active \ {p}) /\ Cardinality(Active \ {p}) < Limit
        <3>1. p \in Active
            OBVIOUS
        <3>2. /\ IsFiniteSet(Active \ {p})
              /\ Cardinality(Active \ {p}) = Cardinality(Active) - 1
            BY <1>3, <3>1, FS_RemoveElement
        <3>3. QED
            BY <1>3, <2>1, <3>2, LimitAssumption
    <2>3. \E i \in DOMAIN batch' : batch'[i] \notin Active \ {p}
        BY <1>2, <2>2, BatchNeedsRoom
    <2>4. QED
        BY <1>2, <2>3
<1>5. CASE hosting # "self"
    <2>1. IsFiniteSet(Active \cap NoScan) /\ Cardinality(Active \cap NoScan) < Limit
        BY <1>3, <1>5, FS_Subset DEF Room
    <2>2. \E i \in DOMAIN batch' : batch'[i] \notin Active \cap NoScan
        BY <1>2, <2>1, BatchNeedsRoom
    <2>3. hosting = "cloudflare"
        BY <1>5, HostingAssumption DEF TablesOrdered, RefreshTypeOK
    <2>4. QED
        BY <1>2, <2>2, <2>3
<1>6. QED
    BY <1>4, <1>5

(* While a batch has room, nobody who can be scanned is left out for good:   *)
(* what CurrentWhileRoom needs of every pass that begins.                   *)
THEOREM NobodyLeftOut == RefreshSpec => RoomIsUsed
<1>1. TablesOrdered /\ FiniteTargets /\ [RefreshNext]_refreshVars =>
          [Start /\ Room => \A p \in Active \ NoScan :
              \/ \E i \in DOMAIN batch' : batch'[i] = p
              \/ /\ hosting = "cloudflare"
                 /\ \E i \in DOMAIN batch' : /\ batch'[i] \notin NoScan
                                             /\ ~Precedes(p, batch'[i])]_refreshVars
    BY HasItsTurn
<1>2. QED
    BY <1>1, TablesStayOrdered, FinitelyMany, PTL DEF RefreshSpec, RoomIsUsed
=============================================================================
