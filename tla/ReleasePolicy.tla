--------------------------- MODULE ReleasePolicy ----------------------------
(***************************************************************************)
(* Which files of a project a client may have: policy.py (ReleasePolicy)   *)
(* and vulnerabilities.py (automatic_fixed_version_allows) as operators.   *)
(* A version is a natural number, greater for a newer version; a file is a *)
(* record of its version and its upload time, which may be missing.  `bad` *)
(* is the set of versions the advisory scan names vulnerable.              *)
(***************************************************************************)
EXTENDS Naturals

CONSTANTS MinimumAge, FallbackAge,   \* minimum_age, fallback_minimum_age
          AllowMissing,              \* allow_missing_upload_time
          NoTime                     \* no usable upload-time

ASSUME AgesAssumption == MinimumAge \in Nat /\ FallbackAge \in Nat
ASSUME AllowMissingAssumption == AllowMissing \in BOOLEAN
ASSUME NoTimeAssumption == NoTime \notin Nat

Action == {"none", "allow", "block", "fallback"}

OldEnough(f, age, now) == f.uploaded # NoTime /\ f.uploaded + age <= now

Safe(files, bad) == {f \in files : f.version \notin bad}

AgedSafe(files, bad, now) ==
    {f.version : f \in {g \in Safe(files, bad) :
        g.uploaded = NoTime \/ OldEnough(g, MinimumAge, now)}}

FreshSafe(files, bad, now) ==
    {f.version : f \in {g \in Safe(files, bad) :
        g.uploaded # NoTime /\ ~OldEnough(g, MinimumAge, now) /\ OldEnough(g, FallbackAge, now)}}

\* Mutant: the oldest fix is chosen.
Oldest(versions) == {v \in versions : \A w \in versions : v <= w}

Newest(versions) == {v \in versions : \A w \in versions : w <= v}

\* Mutant: the newest fresh release is admitted, whatever is old enough.
FallbackAlways(files, bad, now) == Newest(FreshSafe(files, bad, now))

\* automatic_fixed_version_allows: at most one version.
Fallback(files, bad, now) ==
    IF bad = {} \/ AgedSafe(files, bad, now) # {} THEN {} ELSE Newest(FreshSafe(files, bad, now))

\* Mutant: the floor of the fallback is not applied to the file itself.
AllowsWithoutFloor(f, action, now) ==
    /\ action # "block"
    /\ \/ action \in {"allow", "fallback"}
       \/ OldEnough(f, MinimumAge, now)
       \/ f.uploaded = NoTime /\ AllowMissing

\* Mutant: a file must be older than the minimum age.
AllowsAfterAge(f, action, now) ==
    /\ action # "block"
    /\ \/ action = "allow"
       \/ f.uploaded # NoTime /\ f.uploaded + MinimumAge < now
       \/ f.uploaded = NoTime /\ AllowMissing
       \/ action = "fallback" /\ OldEnough(f, FallbackAge, now)

\* ReleasePolicy.apply on one file.
Allows(f, action, now) ==
    /\ action # "block"
    /\ \/ action = "allow"
       \/ OldEnough(f, MinimumAge, now)
       \/ f.uploaded = NoTime /\ AllowMissing
       \/ action = "fallback" /\ OldEnough(f, FallbackAge, now)

\* automatic_allows.update(overrides): an administrator's action replaces the
\* fallback.
Actions(fallback, override, v) ==
    IF override[v] # "none" THEN override[v] ELSE IF v \in fallback THEN "fallback" ELSE "none"

\* Mutant: a fallback hides every other version.
VisibleFallbackOnly(files, bad, override, now) ==
    {f \in files : /\ Allows(f, Actions(Fallback(files, bad, now), override, f.version), now)
                   /\ Fallback(files, bad, now) # {} => f.version \in Fallback(files, bad, now)}

\* The files a listing keeps.
Visible(files, bad, override, now) ==
    {f \in files : Allows(f, Actions(Fallback(files, bad, now), override, f.version), now)}

\* _artifact_age_denial: the files a download may have without an override.
Eligible(files, bad, now) ==
    {f \in files : Allows(f, IF f.version \in Fallback(files, bad, now) THEN "fallback" ELSE "none", now)}
=============================================================================
