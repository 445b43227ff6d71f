--------------------------- MODULE PolicyOverTime ---------------------------
(***************************************************************************)
(* One project's listing as time passes, with nothing else changing: what  *)
(* the two cooldowns and the vulnerability fallback of ReleasePolicy mean  *)
(* for a client that asks again and again.                                 *)
(***************************************************************************)
EXTENDS ReleasePolicy, FiniteSets

CONSTANTS Files,      \* the sets of files to try
          Version,    \* their versions
          MaxTime     \* bound on the clock

ASSUME FilesAssumption ==
    /\ Version \subseteq Nat
    /\ Files \subseteq SUBSET [version : Version, uploaded : Nat \cup {NoTime}]
    /\ \A fs \in Files : IsFiniteSet(fs)   \* an index answers a list

VARIABLES now, files, bad, override

vars == <<now, files, bad, override>>

\* Nothing was uploaded in the future; a scan covers the versions of the
\* files; an override on at most one version.
Init == /\ now = MinimumAge
        /\ files \in Files
        /\ \A f \in files : f.uploaded # NoTime => f.uploaded <= now
        /\ bad \in SUBSET {f.version : f \in files}
        /\ \E v \in Version, a \in Action \ {"fallback"} :
              override = [w \in Version |-> IF w = v THEN a ELSE "none"]

Next == /\ now < MaxTime
        /\ now' = now + 1
        /\ UNCHANGED <<files, bad, override>>

Spec == Init /\ [][Next]_vars

TypeOK == /\ now \in Nat
          /\ files \in Files
          /\ bad \subseteq Version
          /\ override \in [Version -> Action \ {"fallback"}]

shown == Visible(files, bad, override, now)
Automatic(f) == override[f.version] = "none"
Timed == \A f \in files : f.uploaded # NoTime

-----------------------------------------------------------------------------
\* Without an administrator's allow, no file with an upload time is shown
\* before the fallback's floor, and none before the minimum age while some
\* safe file is old enough ("only after that floor", "last resort").
FallbackIsLastResort ==
    \A f \in shown : Automatic(f) /\ f.uploaded # NoTime /\ ~OldEnough(f, MinimumAge, now) =>
        /\ OldEnough(f, FallbackAge, now)
        /\ f.version \notin bad
        /\ \A g \in files : OldEnough(g, MinimumAge, now) => g.version \in bad

\* README: "If every release old enough to satisfy the cooldown is known
\* vulnerable, Wheelguard temporarily admits the newest fresh non-vulnerable
\* release" (once past the floor).
FallbackAdmits ==
    LET aged == {f \in files : OldEnough(f, MinimumAge, now)}
        fixes == {f \in files : /\ f.version \notin bad
                                /\ OldEnough(f, FallbackAge, now)}
    IN aged # {} /\ (\A f \in aged : f.version \in bad) =>
          \A f \in fixes : Automatic(f) /\ (\A g \in fixes : g.version <= f.version) => f \in shown

\* The same where every file has an upload time.
TimedFallbackAdmits == Timed => FallbackAdmits

\* An upgrade offered past its own minimum age is never withdrawn by time
\* alone: a file disappears only if it had been shown by the fallback.
OnlyFallbacksDisappear ==
    [][\A f \in shown \ shown' : ~OldEnough(f, MinimumAge, now) /\ f.version \in Fallback(files, bad, now)]_vars

\* A project never goes dark: where nothing is blocked, time alone never
\* empties a listing that had something to install, safe or not.  What
\* withdraws a fallback is always shown in its place.
NeverGoesDark ==
    [][(\A f \in files : override[f.version] # "block") /\ shown # {} => shown' # {}]_vars
=============================================================================
