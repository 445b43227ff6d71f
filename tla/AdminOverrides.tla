--------------------------- MODULE AdminOverrides ---------------------------
(***************************************************************************)
(* Administrator overrides (create, revoke, replace) and the decision read *)
(* from them, for both stores:                                             *)
(*                                                                         *)
(*   "d1"        worker.py: a SELECT that the override is active, then a   *)
(*               batch; times are ISO 8601 texts compared as texts         *)
(*   "postgres"  postgres.py: one transaction that fails unless its UPDATE *)
(*               found the override active; times are timestamptz          *)
(*                                                                         *)
(* An override is identified by the request that created it.  Rows are     *)
(* never deleted and policy_audit is append-only.  A D1 batch is atomic; a *)
(* Postgres transaction holds the row lock its UPDATE took, so that two of *)
(* them on one override are serial and each is one step here.              *)
(***************************************************************************)
EXTENDS Naturals

CONSTANTS Request,   \* administrator requests, and the ids of what they create
          Version,   \* versions of one project
          MaxTime,   \* bound on the clock
          Stores     \* the databases considered

ASSUME TimeAssumption == MaxTime \in Nat
ASSUME StoreAssumption == Stores \subseteq {"d1", "postgres"}

Never == MaxTime + 1     \* expires_at IS NULL

VARIABLES
    store,        \* the database of the deployment: never changes
    now,          \* half seconds
    pc, op, about, target, expires,   \* what each request asks for
    stamp,        \* occurred_at, read before the write is awaited
    stored,       \* ids with a row in policy_overrides
    revoked,      \* ids with revoked_at IS NOT NULL
    revoker,      \* revoked_by
    audit         \* policy_audit

asked == <<store, op, about, target, expires>>
table == <<stored, revoked, revoker>>
vars == <<now, pc, asked, stamp, table, audit>>

Event == [type : {"created", "revoked"}, override : Request, by : Request]

TypeOK ==
    /\ store \in Stores
    /\ now \in 0..MaxTime
    /\ pc \in [Request -> {"idle", "check", "stamp", "write", "ok", "error", "unknown"}]
    /\ op \in [Request -> {"create", "revoke", "replace"}]
    /\ about \in [Request -> Version]
    /\ target \in [Request -> Request]
    /\ expires \in [Request -> 0..Never]
    /\ stamp \in [Request -> 0..MaxTime]
    /\ stored \in SUBSET Request
    /\ revoked \in SUBSET stored
    /\ revoker \in [Request -> Request]
    /\ audit \in SUBSET Event

Init ==
    /\ store \in Stores
    /\ now = 0
    /\ pc = [r \in Request |-> "idle"]
    /\ op = [r \in Request |-> "create"]
    /\ about \in [Request -> Version]
    /\ target = [r \in Request |-> r]
    /\ expires = [r \in Request |-> Never]
    /\ stamp = [r \in Request |-> 0]
    /\ stored = {}
    /\ revoked = {}
    /\ revoker = [r \in Request |-> r]
    /\ audit = {}

-----------------------------------------------------------------------------
(* Comparing times.  isoformat() leaves the fraction out when it is zero,   *)
(* and in a text "." sorts before "Z": within one second the whole second   *)
(* is greater than its later half.                                          *)
LaterAsText(s, t) == \/ s \div 2 > t \div 2
                     \/ s \div 2 = t \div 2 /\ s % 2 < t % 2

Later(s, t) == IF store = "d1" THEN LaterAsText(s, t) ELSE s > t

\* Mutant: an expired override still counts.
ActiveForEver(t) == stored \ revoked

\* _active_overrides: WHERE revoked_at IS NULL AND (expires_at IS NULL OR
\* expires_at > now).
Active(t) == {r \in stored \ revoked : expires[r] = Never \/ Later(expires[r], t)}

\* Mutant: ORDER BY created_at ASC.
DecidesOldest(v, t) == {r \in Active(t) : about[r] = v /\
                          \A q \in Active(t) : about[q] = v => ~Later(stamp[r], stamp[q])}

\* ... ORDER BY created_at DESC, first row of each version: the rows whose
\* action may be the one a version gets.
Decides(v, t) == {r \in Active(t) : about[r] = v /\
                    \A q \in Active(t) : about[q] = v => ~Later(stamp[q], stamp[r])}

-----------------------------------------------------------------------------
Tick == /\ now < MaxTime
        /\ now' = now + 1
        /\ UNCHANGED <<pc, asked, stamp, table, audit>>

\* An administrator creates an override, or revokes or replaces one that was
\* listed; r itself stands for an id that no override has.  Only D1 looks first
\* whether the override is active.
Submit(r, o, e) ==
    /\ pc[r] = "idle"
    /\ \/ /\ op' = [op EXCEPT ![r] = "create"]
          /\ pc' = [pc EXCEPT ![r] = "stamp"]
          /\ UNCHANGED target
       \/ /\ o \in stored \cup {r}
          /\ \E kind \in {"revoke", "replace"} : op' = [op EXCEPT ![r] = kind]
          /\ pc' = [pc EXCEPT ![r] = IF store = "d1" THEN "check" ELSE "stamp"]
          /\ target' = [target EXCEPT ![r] = o]
    /\ expires' = [expires EXCEPT ![r] = e]
    /\ UNCHANGED <<store, now, about, stamp, table, audit>>

Check(r) ==
    /\ pc[r] = "check"
    /\ pc' = [pc EXCEPT ![r] = IF target[r] \in stored \ revoked THEN "stamp" ELSE "error"]
    /\ UNCHANGED <<now, asked, stamp, table, audit>>

\* parse_override_request refuses a new override that expires in the past.
Stamp(r) ==
    /\ pc[r] = "stamp"
    /\ IF op[r] # "revoke" /\ expires[r] <= now
       THEN pc' = [pc EXCEPT ![r] = "error"] /\ UNCHANGED stamp
       ELSE pc' = [pc EXCEPT ![r] = "write"] /\ stamp' = [stamp EXCEPT ![r] = now]
    /\ UNCHANGED <<now, asked, table, audit>>

\* Mutant: Postgres ignores that its UPDATE found no row.
FindsWithoutRowcount(r) == TRUE

\* changed.rowcount # 1 aborts the Postgres transaction.
Finds(r) == store = "d1" \/ op[r] = "create" \/ target[r] \in stored \ revoked

\* The policy_audit rows of a request.
Events(r) ==
    {[type |-> "revoked", override |-> target[r], by |-> r] : x \in {op[r]} \ {"create"}}
    \cup {[type |-> "created", override |-> r, by |-> r] : x \in {op[r]} \ {"revoke"}}

\* Mutant: a replacement leaves the old override active.
RevokesOnly(r) == IF op[r] = "revoke" THEN {target[r]} ELSE {}

Revokes(r) == IF op[r] = "create" THEN {} ELSE {target[r]}

\* UPDATE ... WHERE revoked_at IS NULL, INSERT, and the audit rows.
Apply(r) ==
    /\ stored' = IF op[r] = "revoke" THEN stored ELSE stored \cup {r}
    /\ revoked' = revoked \cup (Revokes(r) \cap stored)
    /\ revoker' = [o \in Request |-> IF o \in (Revokes(r) \cap stored) \ revoked THEN r ELSE revoker[o]]
    /\ audit' = audit \cup Events(r)

Write(r) ==
    /\ pc[r] = "write"
    /\ IF Finds(r) THEN Apply(r) /\ pc' = [pc EXCEPT ![r] = "ok"]
                   ELSE UNCHANGED <<table, audit>> /\ pc' = [pc EXCEPT ![r] = "error"]
    /\ UNCHANGED <<now, asked, stamp>>

\* The answer of the store is lost, before or after the write took effect.
WriteLost(r) ==
    /\ pc[r] = "write"
    /\ (Finds(r) /\ Apply(r)) \/ UNCHANGED <<table, audit>>
    /\ pc' = [pc EXCEPT ![r] = "unknown"]
    /\ UNCHANGED <<now, asked, stamp>>

Next == \/ Tick
        \/ \E r, o \in Request : \E e \in 0..Never : Submit(r, o, e)
        \/ \E r \in Request : Check(r) \/ Stamp(r) \/ Write(r) \/ WriteLost(r)

Spec == Init /\ [][Next]_vars

-----------------------------------------------------------------------------
(* Properties *)

\* A revocation or a replacement that was answered with success ended its
\* override, and a replacement put its own in place, for as long as no other
\* request ended that one: no answer is true only at the instant it is given.
AcknowledgedTakesEffect ==
    \A r \in Request : pc[r] = "ok" =>
        /\ op[r] # "create" => target[r] \in revoked
        /\ op[r] # "revoke" =>
              \/ r \in stored \ revoked
              \/ \E q \in Request : target[q] = r /\ op[q] # "create" /\ pc[q] \in {"ok", "unknown"}

\* Every row is explained by the audit trail: who created an override and who
\* ended it can always be read there, and nothing else is claimed.
AuditExplainsTable ==
    /\ \A o \in Request : o \in stored <=>
          [type |-> "created", override |-> o, by |-> o] \in audit
    /\ \A o \in revoked : [type |-> "revoked", override |-> o, by |-> revoker[o]] \in audit
    /\ \A e \in audit : e.type = "revoked" => e.override \in revoked

\* An override is replaced by at most one other (worker.py: "Atomically
\* replace an active override"): two replacements of it never both stand.
ReplacedOnce ==
    \A q, r \in stored :
        op[q] = "replace" /\ op[r] = "replace" /\ target[q] = target[r] => q = r

\* The row lock and the rowcount make up for the check that D1 makes first: on
\* PostgreSQL an override is ended once, by the request that it names as its
\* revoker, and replaced once.
EndedOnce ==
    store = "postgres" =>
        /\ \A e \in audit : e.type = "revoked" => e.by = revoker[e.override]
        /\ ReplacedOnce

\* The table is what the audit trail tells of it: types, explanation and, where
\* the database enforces it, one end for each override.
Consistent == TypeOK /\ AuditExplainsTable /\ EndedOnce

\* No decision rests on an override whose expiry has been reached ("remains
\* active until its optional expiry"); on D1, which compares texts, an expiry at
\* a whole second is reached when that second is over.
EndsAtExpiry == \A v \in Version : \A r \in Decides(v, now) :
    \/ expires[r] = Never
    \/ expires[r] > now
    \/ store = "d1" /\ expires[r] % 2 = 0 /\ expires[r] \div 2 = now \div 2

\* Where several overrides of a version are active, one of those created last
\* decides ("the newest active action"); on D1 only to the second.
NewestDecides == \A v \in Version : \A r \in Decides(v, now), q \in Active(now) :
    about[q] = v =>
        \/ stamp[q] <= stamp[r]
        \/ store = "d1" /\ stamp[q] \div 2 = stamp[r] \div 2
=============================================================================
