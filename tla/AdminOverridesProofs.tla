------------------------ MODULE AdminOverridesProofs -------------------------
(***************************************************************************)
(* Theorems about AdminOverrides, for any number of administrators'        *)
(* requests, of versions and of half seconds, on both stores.  The stores  *)
(* differ in what keeps the audit trail true: D1 looked at the override    *)
(* before its batch, PostgreSQL looks at the rows its UPDATE changed.      *)
(***************************************************************************)
EXTENDS AdminOverrides, TLAPS

-----------------------------------------------------------------------------
(* The inductive invariant.                                                 *)

\* A write that may have taken effect.
MayHaveWritten == {"ok", "unknown"}

RevokedEvent(o, r) == [type |-> "revoked", override |-> o, by |-> r]
CreatedEvent(r) == [type |-> "created", override |-> r, by |-> r]

\* What a request's state tells of the tables.
RequestKnows ==
    /\ \A r \in Request : store = "d1" /\ op[r] # "create"
                              /\ pc[r] \in {"stamp", "write"} \cup MayHaveWritten =>
          target[r] \in stored
    /\ \A r \in Request : pc[r] = "ok" =>
          /\ op[r] # "create" => target[r] \in revoked
          /\ op[r] # "revoke" => r \in stored

\* What a row tells of the request that stored it.
RowsAreWritten ==
    \A r \in stored : /\ pc[r] \in MayHaveWritten
                      /\ op[r] # "revoke"
                      /\ op[r] = "replace" => RevokedEvent(target[r], r) \in audit

\* What an event tells of the request that caused it.
EventsAreWritten ==
    \A e \in audit : /\ pc[e.by] \in MayHaveWritten
                     /\ e \in Events(e.by)

IInv ==
    /\ TypeOK
    /\ RequestKnows
    /\ RowsAreWritten
    /\ EventsAreWritten
    /\ AuditExplainsTable
    /\ EndedOnce

-----------------------------------------------------------------------------
(* What a step does.                                                        *)

(* A write changes the tables only where its request finds its override, on *)
(* PostgreSQL the active one, and before that request has stored anything.  *)
LEMMA Found ==
    ASSUME IInv, NEW r \in Request, pc[r] = "write", Finds(r)
    PROVE  /\ r \notin stored
           /\ op[r] # "create" => target[r] \in stored
           /\ op[r] # "create" /\ store = "postgres" => target[r] \notin revoked
<1>1. r \notin stored
  BY DEF IInv, RowsAreWritten, MayHaveWritten
<1>2. store \in {"d1", "postgres"}
  BY StoreAssumption DEF IInv, TypeOK
<1> QED
  BY <1>1, <1>2 DEF IInv, RequestKnows, Finds

(* The events of a request, by its operation.                               *)
LEMMA EventsOf ==
    ASSUME TypeOK, NEW r \in Request
    PROVE  \A e : e \in Events(r) <=> \/ op[r] # "create" /\ e = RevokedEvent(target[r], r)
                                      \/ op[r] # "revoke" /\ e = CreatedEvent(r)
<1>1. op[r] \in {"create", "revoke", "replace"}
  BY DEF TypeOK
<1> QED
  BY <1>1 DEF Events, RevokedEvent, CreatedEvent

(* Every step keeps every variable's type.                                  *)
LEMMA TypeStep == TypeOK /\ [Next]_vars => TypeOK'
<1> SUFFICES ASSUME TypeOK, [Next]_vars PROVE TypeOK'
    OBVIOUS
<1> USE TimeAssumption DEF TypeOK, asked, table, Never
<1>1. CASE Tick
  BY <1>1 DEF Tick
<1>2. ASSUME NEW r \in Request, NEW o \in Request, NEW e \in 0..Never, Submit(r, o, e) PROVE TypeOK'
  BY <1>2 DEF Submit
<1>3. ASSUME NEW r \in Request, Check(r) \/ Stamp(r) PROVE TypeOK'
  BY <1>3 DEF Check, Stamp
<1>4. ASSUME NEW r \in Request, Apply(r)
      PROVE  stored' \in SUBSET Request /\ revoked' \in SUBSET stored' /\ revoker' \in [Request -> Request]
             /\ audit' \in SUBSET Event
  <2>1. Events(r) \subseteq Event
    BY EventsOf DEF Event, RevokedEvent, CreatedEvent
  <2> QED
    BY <1>4, <2>1 DEF Apply
<1>5. ASSUME NEW r \in Request, Write(r) \/ WriteLost(r) PROVE TypeOK'
  <2>1. CASE Apply(r)
    BY <1>4, <1>5, <2>1 DEF Write, WriteLost
  <2>2. CASE UNCHANGED <<table, audit>>
    BY <1>5, <2>2 DEF Write, WriteLost
  <2> QED
    BY <1>5, <2>1, <2>2 DEF Write, WriteLost
<1>6. CASE UNCHANGED vars
  BY <1>6 DEF vars
<1> QED
  BY <1>1, <1>2, <1>3, <1>5, <1>6 DEF Next

(* A step either leaves the tables alone, and what is asked by whoever may  *)
(* have written them, or applies one request's write.                       *)
LEMMA Effects ==
    ASSUME TypeOK, [Next]_vars
    PROVE  /\ store' = store
           /\ \A q \in Request : pc[q] # "idle" => op'[q] = op[q] /\ target'[q] = target[q]
           /\ \A q \in Request : pc[q] \in MayHaveWritten => pc'[q] = pc[q]
           /\ \/ UNCHANGED <<table, audit>>
              \/ \E r \in Request : /\ pc[r] = "write" /\ Finds(r) /\ Apply(r)
                                    /\ pc'[r] \in MayHaveWritten
                                    /\ \A q \in Request : q # r => pc'[q] = pc[q]
<1> USE DEF TypeOK, asked, MayHaveWritten
<1>1. CASE Tick
  BY <1>1 DEF Tick
<1>2. ASSUME NEW r \in Request, NEW o \in Request, NEW e \in 0..Never, Submit(r, o, e)
      PROVE  /\ store' = store
             /\ \A q \in Request : pc[q] # "idle" => op'[q] = op[q] /\ target'[q] = target[q]
             /\ \A q \in Request : pc[q] \in MayHaveWritten => pc'[q] = pc[q]
             /\ UNCHANGED <<table, audit>>
  BY <1>2 DEF Submit
<1>3. ASSUME NEW r \in Request, Check(r) \/ Stamp(r)
      PROVE  /\ UNCHANGED <<asked, table, audit>>
             /\ \A q \in Request : pc[q] \in MayHaveWritten => pc'[q] = pc[q]
  BY <1>3 DEF Check, Stamp
<1>4. ASSUME NEW r \in Request, Write(r) \/ WriteLost(r)
      PROVE  /\ UNCHANGED asked
             /\ \A q \in Request : pc[q] \in MayHaveWritten => pc'[q] = pc[q]
             /\ \/ UNCHANGED <<table, audit>>
                \/ /\ pc[r] = "write" /\ Finds(r) /\ Apply(r)
                   /\ pc'[r] \in MayHaveWritten
                   /\ \A q \in Request : q # r => pc'[q] = pc[q]
  BY <1>4 DEF Write, WriteLost
<1>5. CASE UNCHANGED vars
  BY <1>5 DEF vars
<1> QED
  BY <1>1, <1>2, <1>3, <1>4, <1>5 DEF Next

(* An applied write adds rows and events, and what it revokes is its own    *)
(* target.                                                                  *)
LEMMA Applied ==
    ASSUME IInv, NEW r \in Request, pc[r] = "write", Finds(r), Apply(r)
    PROVE  /\ \A o : o \in stored' <=> o \in stored \/ (o = r /\ op[r] # "revoke")
           /\ \A o : o \in revoked' <=> o \in revoked \/ (o = target[r] /\ op[r] # "create")
           /\ \A o \in revoked : revoker'[o] = revoker[o]
           /\ op[r] # "create" /\ target[r] \notin revoked => revoker'[target[r]] = r
           /\ \A e : e \in audit' <=> \/ e \in audit
                                      \/ op[r] # "create" /\ e = RevokedEvent(target[r], r)
                                      \/ op[r] # "revoke" /\ e = CreatedEvent(r)
<1>1. TypeOK /\ (op[r] # "create" => target[r] \in stored)
  BY Found DEF IInv
<1>2. Revokes(r) \cap stored = IF op[r] = "create" THEN {} ELSE {target[r]}
  BY <1>1 DEF Revokes
<1>3. \A e : e \in audit' <=> e \in audit \/ e \in Events(r)
  BY DEF Apply
<1>4. /\ \A o : o \in stored' <=> o \in stored \/ (o = r /\ op[r] # "revoke")
      /\ \A o : o \in revoked' <=> o \in revoked \/ (o = target[r] /\ op[r] # "create")
  BY <1>2 DEF Apply
<1>5. /\ \A o \in revoked : revoker'[o] = revoker[o]
      /\ op[r] # "create" /\ target[r] \notin revoked => revoker'[target[r]] = r
  BY <1>1, <1>2 DEF Apply, TypeOK
<1> QED
  BY <1>1, <1>3, <1>4, <1>5, EventsOf

-----------------------------------------------------------------------------
(* The parts of the invariant.                                              *)

(* A step keeps what requests know: rows and revocations stay.              *)
LEMMA RequestKnowsStep == ASSUME IInv, [Next]_vars PROVE RequestKnows'
<1>0. TypeOK /\ RequestKnows /\ RowsAreWritten /\ TypeOK'
  BY TypeStep DEF IInv
<1> USE DEF TypeOK, RequestKnows, MayHaveWritten, asked, table
<1>1. CASE Tick \/ UNCHANGED vars
  BY <1>0, <1>1 DEF Tick, vars
<1>2. ASSUME NEW r \in Request, NEW o \in Request, NEW e \in 0..Never, Submit(r, o, e) PROVE RequestKnows'
  BY <1>0, <1>2 DEF Submit
<1>3. ASSUME NEW r \in Request, Check(r) \/ Stamp(r) PROVE RequestKnows'
  BY <1>0, <1>3 DEF Check, Stamp
<1>4. ASSUME NEW r \in Request, Write(r) \/ WriteLost(r) PROVE RequestKnows'
  <2>1. CASE Finds(r) /\ Apply(r)
    <3>1. pc[r] = "write" /\ UNCHANGED asked
      BY <1>4 DEF Write, WriteLost
    <3>2. stored \subseteq stored' /\ revoked \subseteq revoked'
          /\ (op[r] # "create" => target[r] \in stored' /\ target[r] \in revoked')
          /\ (op[r] # "revoke" => r \in stored')
      BY <2>1, <3>1, Applied, Found
    <3> QED
      BY <1>0, <1>4, <3>1, <3>2 DEF Write, WriteLost
  <2>2. CASE UNCHANGED <<table, audit>> /\ pc'[r] # "ok"
    BY <1>0, <1>4, <2>2 DEF Write, WriteLost
  <2> QED
    BY <1>0, <1>4, <2>1, <2>2 DEF Write, WriteLost
<1> QED
  BY <1>1, <1>2, <1>3, <1>4 DEF Next

(* A step keeps what rows and events tell of their requests.                *)
LEMMA WrittenStep == ASSUME IInv, [Next]_vars PROVE RowsAreWritten' /\ EventsAreWritten'
<1>0. TypeOK /\ TypeOK' /\ RowsAreWritten /\ EventsAreWritten
  BY TypeStep DEF IInv
<1>1. /\ \A q \in Request : pc[q] # "idle" => op'[q] = op[q] /\ target'[q] = target[q]
      /\ \A q \in Request : pc[q] \in MayHaveWritten => pc'[q] = pc[q]
  BY <1>0, Effects
<1>2. ASSUME NEW q \in stored
      PROVE  /\ pc'[q] \in MayHaveWritten /\ op'[q] # "revoke"
             /\ op'[q] = "replace" => RevokedEvent(target'[q], q) \in audit
  <2>1. q \in Request /\ pc[q] \in MayHaveWritten /\ pc[q] # "idle"
    BY <1>0 DEF TypeOK, RowsAreWritten, MayHaveWritten
  <2> QED
    BY <1>0, <1>1, <2>1 DEF RowsAreWritten
<1>3. ASSUME NEW e \in audit PROVE pc'[e.by] \in MayHaveWritten /\ e \in Events(e.by)'
  <2>1. e.by \in Request /\ pc[e.by] \in MayHaveWritten /\ pc[e.by] # "idle" /\ e \in Events(e.by)
    BY <1>0 DEF TypeOK, Event, EventsAreWritten, MayHaveWritten
  <2> QED
    BY <1>1, <2>1 DEF Events
<1>4. CASE UNCHANGED <<table, audit>>
  BY <1>2, <1>3, <1>4 DEF RowsAreWritten, EventsAreWritten, table
<1>5. ASSUME NEW r \in Request, pc[r] = "write", Finds(r), Apply(r), pc'[r] \in MayHaveWritten
      PROVE  RowsAreWritten' /\ EventsAreWritten'
  <2>1. op'[r] = op[r] /\ target'[r] = target[r]
    BY <1>1, <1>5
  <2>2. RowsAreWritten'
    BY <1>2, <1>5, <2>1, Applied DEF RowsAreWritten
  <2>3. ASSUME NEW e \in audit', e \notin audit PROVE e.by = r /\ e \in Events(r)'
    <3>1. \/ op[r] # "create" /\ e = RevokedEvent(target[r], r)
          \/ op[r] # "revoke" /\ e = CreatedEvent(r)
      BY <1>5, <2>3, Applied
    <3>2. e \in Events(r)
      BY <1>0, <3>1, EventsOf
    <3> QED
      BY <2>1, <3>1, <3>2 DEF Events, RevokedEvent, CreatedEvent
  <2> QED
    BY <1>3, <1>5, <2>2, <2>3 DEF EventsAreWritten
<1> QED
  BY <1>0, <1>4, <1>5, Effects

(* A step keeps AuditExplainsTable: a row or a revocation is written with   *)
(* its event.                                                               *)
LEMMA AuditStep == ASSUME IInv, [Next]_vars PROVE AuditExplainsTable'
<1>0. TypeOK /\ AuditExplainsTable
  BY DEF IInv
<1>1. CASE UNCHANGED <<table, audit>>
  BY <1>0, <1>1 DEF AuditExplainsTable, table
<1>2. ASSUME NEW r \in Request, pc[r] = "write", Finds(r), Apply(r) PROVE AuditExplainsTable'
  <2>1. \A o \in Request : o \in stored' <=> CreatedEvent(o) \in audit'
    <3>1. \A o \in Request : o \in stored <=> CreatedEvent(o) \in audit
      BY <1>0 DEF AuditExplainsTable, CreatedEvent
    <3>2. \A o \in Request : CreatedEvent(o) # RevokedEvent(target[r], r) /\ (CreatedEvent(o) = CreatedEvent(r) <=> o = r)
      BY DEF CreatedEvent, RevokedEvent
    <3> QED
      BY <1>2, <3>1, <3>2, Applied
  <2>2. \A o \in revoked' : RevokedEvent(o, revoker'[o]) \in audit'
    <3>1. \A o \in revoked : RevokedEvent(o, revoker[o]) \in audit
      BY <1>0 DEF AuditExplainsTable, RevokedEvent
    <3> QED
      BY <1>2, <3>1, Applied
  <2>3. \A e \in audit' : e.type = "revoked" => e.override \in revoked'
    <3>1. \A e \in audit : e.type = "revoked" => e.override \in revoked
      BY <1>0 DEF AuditExplainsTable
    <3> QED
      BY <1>2, <3>1, Applied DEF RevokedEvent, CreatedEvent
  <2> QED
    BY <2>1, <2>2, <2>3 DEF AuditExplainsTable, CreatedEvent, RevokedEvent
<1> QED
  BY <1>0, <1>1, <1>2, Effects

(* On PostgreSQL a write revokes only what nobody had: its event is the     *)
(* only one, and a replacement has its event.                               *)
LEMMA EndedOnceStep == ASSUME IInv, [Next]_vars PROVE EndedOnce'
<1>0. TypeOK /\ TypeOK' /\ AuditExplainsTable /\ EndedOnce /\ store' = store
  BY TypeStep, Effects DEF IInv
<1>1. ASSUME store = "postgres", NEW e \in audit', e.type = "revoked" PROVE e.by = revoker'[e.override]
  <2>1. \A x \in audit : x.type = "revoked" => x.by = revoker[x.override] /\ x.override \in revoked
    BY <1>0, <1>1 DEF EndedOnce, AuditExplainsTable
  <2>2. CASE UNCHANGED <<table, audit>>
    BY <1>1, <2>1, <2>2 DEF table
  <2>3. ASSUME NEW r \in Request, pc[r] = "write", Finds(r), Apply(r) PROVE e.by = revoker'[e.override]
    <3>1. op[r] # "create" => target[r] \notin revoked
      BY <1>1, <2>3, Found
    <3> QED
      BY <1>1, <2>1, <2>3, <3>1, Applied DEF RevokedEvent, CreatedEvent
  <2> QED
    BY <1>0, <2>2, <2>3, Effects
<1>2. ASSUME store = "postgres" PROVE ReplacedOnce'
  <2> SUFFICES ASSUME NEW q \in stored', NEW r \in stored',
                      op'[q] = "replace", op'[r] = "replace", target'[q] = target'[r]
               PROVE  q = r
      BY DEF ReplacedOnce
  <2>1. RevokedEvent(target'[q], q) \in audit' /\ RevokedEvent(target'[r], r) \in audit'
    BY WrittenStep DEF RowsAreWritten
  <2> QED
    BY <1>1, <1>2, <2>1 DEF RevokedEvent
<1> QED
  BY <1>0, <1>1, <1>2 DEF EndedOnce

(* The invariant holds before anything is asked.                            *)
LEMMA InitIInv == Init => IInv
<1> SUFFICES ASSUME Init PROVE IInv
    OBVIOUS
<1>1. TypeOK
  BY TimeAssumption DEF Init, TypeOK, Never
<1>2. RequestKnows /\ RowsAreWritten /\ EventsAreWritten
  BY DEF Init, RequestKnows, RowsAreWritten, EventsAreWritten, MayHaveWritten
<1>3. AuditExplainsTable /\ EndedOnce
  BY DEF Init, AuditExplainsTable, EndedOnce, ReplacedOnce
<1> QED
  BY <1>1, <1>2, <1>3 DEF IInv

-----------------------------------------------------------------------------
(* An end that nothing reopens.                                             *)

\* A request that will write without looking again at the override it is about.
PastCheck(r) == store = "d1" /\ op[r] # "create" /\ pc[r] \in {"stamp", "write"}

\* An override that is over, and that nobody still believes to be active.
Closed(o) == o \in revoked /\ \A r \in Request : target[r] = o => ~PastCheck(r)

Replacements(o) == {r \in stored : op[r] = "replace" /\ target[r] = o}
Endings(o) == {e \in audit : e.type = "revoked" /\ e.override = o}

\* Closed overrides stay closed: no later request replaces one, and the audit
\* trail tells no other end of it.
ClosesForGood == \A o \in Request :
    Closed(o) => /\ Closed(o)'
                 /\ Replacements(o)' = Replacements(o)
                 /\ Endings(o)' = Endings(o)

ClosedForGood == [][ClosesForGood]_vars

(* Nobody gets past the check of an override that is over.                  *)
LEMMA Refused ==
    ASSUME TypeOK, [Next]_vars, NEW o \in revoked, NEW r \in Request,
           target'[r] = o, PastCheck(r)'
    PROVE  PastCheck(r) /\ target[r] = o
<1> USE DEF TypeOK, PastCheck, asked
<1>1. CASE Tick \/ UNCHANGED vars
  BY <1>1 DEF Tick, vars
<1>2. ASSUME NEW q \in Request, NEW p \in Request, NEW e \in 0..Never, Submit(q, p, e)
      PROVE  PastCheck(r) /\ target[r] = o
  BY <1>2 DEF Submit
<1>3. ASSUME NEW q \in Request, Check(q) \/ Stamp(q) PROVE PastCheck(r) /\ target[r] = o
  BY <1>3 DEF Check, Stamp
<1>4. ASSUME NEW q \in Request, Write(q) \/ WriteLost(q) PROVE PastCheck(r) /\ target[r] = o
  BY <1>4 DEF Write, WriteLost
<1> QED
  BY <1>1, <1>2, <1>3, <1>4 DEF Next

(* A step leaves an override that is closed as it is: on D1 nobody writes   *)
(* about it any more, on PostgreSQL a write about it finds no row.          *)
LEMMA ClosesStep == ASSUME IInv, [Next]_vars PROVE ClosesForGood
<1>0. TypeOK /\ TypeOK' /\ store' = store /\ store \in {"d1", "postgres"}
  BY TypeStep, Effects, StoreAssumption DEF IInv, TypeOK
<1> SUFFICES ASSUME NEW o \in Request, Closed(o)
             PROVE  /\ Closed(o)'
                    /\ Replacements(o)' = Replacements(o)
                    /\ Endings(o)' = Endings(o)
    BY DEF ClosesForGood
<1>1. \A q \in stored : op'[q] = op[q] /\ target'[q] = target[q]
  BY <1>0, Effects DEF IInv, TypeOK, RowsAreWritten, MayHaveWritten
<1>2. CASE UNCHANGED <<table, audit>>
  BY <1>0, <1>1, <1>2, Refused DEF Closed, Replacements, Endings, table
<1>3. ASSUME NEW r \in Request, pc[r] = "write", Finds(r), Apply(r)
      PROVE  /\ Closed(o)'
             /\ Replacements(o)' = Replacements(o)
             /\ Endings(o)' = Endings(o)
  <2>1. op'[r] = op[r] /\ target'[r] = target[r]
    BY <1>0, <1>3, Effects
  <2>2. op[r] = "create" \/ target[r] # o
    BY <1>0, <1>3, Found DEF Closed, PastCheck, IInv
  <2>3. Closed(o)'
    BY <1>0, <1>3, Applied, Refused DEF Closed
  <2>4. Replacements(o)' = Replacements(o)
    <3>1. \A q : q \in stored' <=> q \in stored \/ (q = r /\ op[r] # "revoke")
      BY <1>3, Applied
    <3>2. r \notin stored /\ ~(op[r] = "replace" /\ target[r] = o)
      BY <1>3, <2>2, Found
    <3> QED
      BY <1>1, <2>1, <3>1, <3>2 DEF Replacements
  <2>5. Endings(o)' = Endings(o)
    <3>1. \A e : e \in audit' <=> \/ e \in audit
                                  \/ op[r] # "create" /\ e = RevokedEvent(target[r], r)
                                  \/ op[r] # "revoke" /\ e = CreatedEvent(r)
      BY <1>3, Applied
    <3> QED
      BY <2>2, <3>1 DEF Endings, RevokedEvent, CreatedEvent
  <2> QED
    BY <2>3, <2>4, <2>5
<1> QED
  BY <1>0, <1>2, <1>3, Effects

-----------------------------------------------------------------------------
(* Comparing times.                                                         *)

(* What the texts of two times say of the times.                            *)
LEMMA TextOrder ==
    ASSUME NEW s \in Nat, NEW t \in Nat
    PROVE  /\ LaterAsText(s, t) => s > t \/ (s % 2 = 0 /\ s \div 2 = t \div 2)
           /\ ~LaterAsText(s, t) => s <= t \/ s \div 2 = t \div 2
<1>1. /\ s \div 2 \in Nat /\ s % 2 \in 0..1
      /\ t \div 2 \in Nat /\ t % 2 \in 0..1
  BY SMT
<1>2. /\ s \div 2 > t \div 2 => s > t
      /\ s \div 2 < t \div 2 => s < t
  BY SMT
<1>3. LaterAsText(s, t) => s > t \/ (s % 2 = 0 /\ s \div 2 = t \div 2)
  BY <1>1, <1>2 DEF LaterAsText
<1>4. ~LaterAsText(s, t) => s <= t \/ s \div 2 = t \div 2
  BY <1>1, <1>2 DEF LaterAsText
<1> QED
  BY <1>3, <1>4

-----------------------------------------------------------------------------
(* The theorems.                                                            *)

(* Every reachable state satisfies the invariant, however the requests of   *)
(* several administrators interleave and whichever answers are lost.        *)
THEOREM Invariance == Spec => []IInv
<1>1. IInv /\ [Next]_vars => IInv'
  <2> SUFFICES ASSUME IInv, [Next]_vars PROVE IInv'
      OBVIOUS
  <2>1. TypeOK'
    BY TypeStep DEF IInv
  <2> QED
    BY <2>1, RequestKnowsStep, WrittenStep, AuditStep, EndedOnceStep DEF IInv
<1> QED
  BY <1>1, InitIInv, PTL DEF Spec

(* policy_audit explains every row of policy_overrides on both stores, and  *)
(* on PostgreSQL, thanks to the rowcount of the UPDATE, an override is      *)
(* ended and replaced once.                                                 *)
THEOREM Consistency == Spec => []Consistent
<1>1. IInv => Consistent
  BY DEF IInv, Consistent
<1> QED
  BY <1>1, Invariance, PTL

(* A revocation or replacement answered with success has ended its target,  *)
(* and the replacement stands until a request that may have written ends    *)
(* it: worker.py's check before the batch and postgres.py's rowcount after  *)
(* it both make the answer true.                                            *)
THEOREM SuccessTakesEffect == Spec => []AcknowledgedTakesEffect
<1>1. IInv => AcknowledgedTakesEffect
  <2> SUFFICES ASSUME IInv, NEW r \in Request, pc[r] = "ok"
               PROVE  /\ op[r] # "create" => target[r] \in revoked
                      /\ op[r] # "revoke" =>
                            \/ r \in stored \ revoked
                            \/ \E q \in Request : target[q] = r /\ op[q] # "create" /\ pc[q] \in {"ok", "unknown"}
      BY DEF AcknowledgedTakesEffect
  <2>1. (op[r] # "create" => target[r] \in revoked) /\ (op[r] # "revoke" => r \in stored)
    BY DEF IInv, RequestKnows
  <2>2. ASSUME r \in revoked
        PROVE  target[revoker[r]] = r /\ op[revoker[r]] # "create" /\ pc[revoker[r]] \in {"ok", "unknown"}
    <3>1. revoker[r] \in Request /\ RevokedEvent(r, revoker[r]) \in audit
      BY <2>2 DEF IInv, TypeOK, AuditExplainsTable, RevokedEvent
    <3>2. RevokedEvent(r, revoker[r]) \in Events(revoker[r]) /\ pc[revoker[r]] \in MayHaveWritten
      BY <3>1 DEF IInv, EventsAreWritten, RevokedEvent
    <3> QED
      BY <3>1, <3>2, EventsOf DEF IInv, RevokedEvent, CreatedEvent, MayHaveWritten
  <2>3. r \in revoked => revoker[r] \in Request
    BY DEF IInv, TypeOK
  <2> QED
    BY <2>1, <2>2, <2>3
<1> QED
  BY <1>1, Invariance, PTL

(* No decision rests on an expired override, except on D1 within the second *)
(* in which it expires, since D1 compares ISO 8601 texts.                   *)
THEOREM DecisionsExpire == Spec => []EndsAtExpiry
<1>1. TypeOK => EndsAtExpiry
  <2> SUFFICES ASSUME TypeOK, NEW v \in Version, NEW r \in Decides(v, now)
               PROVE  \/ expires[r] = Never
                      \/ expires[r] > now
                      \/ store = "d1" /\ expires[r] % 2 = 0 /\ expires[r] \div 2 = now \div 2
      BY DEF EndsAtExpiry
  <2>1. r \in Request /\ expires[r] \in Nat /\ now \in Nat
    BY TimeAssumption DEF TypeOK, Decides, Active, Never
  <2>2. expires[r] = Never \/ Later(expires[r], now)
    BY DEF Decides, Active
  <2> QED
    BY <2>1, <2>2, TextOrder DEF Later
<1> QED
  BY <1>1, Invariance, PTL DEF IInv

(* Where several overrides of a version are active, one created last        *)
(* decides; on D1 only to the second, for the same reason.                  *)
THEOREM NewestWins == Spec => []NewestDecides
<1>1. TypeOK => NewestDecides
  <2> SUFFICES ASSUME TypeOK, NEW v \in Version, NEW r \in Decides(v, now), NEW q \in Active(now), about[q] = v
               PROVE  \/ stamp[q] <= stamp[r]
                      \/ store = "d1" /\ stamp[q] \div 2 = stamp[r] \div 2
      BY DEF NewestDecides
  <2>1. stamp[r] \in Nat /\ stamp[q] \in Nat
    BY TimeAssumption DEF TypeOK, Decides, Active
  <2>2. ~Later(stamp[q], stamp[r])
    BY DEF Decides
  <2> QED
    BY <2>1, <2>2, TextOrder DEF Later
<1> QED
  BY <1>1, Invariance, PTL DEF IInv
(* Once an override has ended, only requests that found it active before    *)
(* can end or replace it again, and only on D1 (worker.py's check and batch *)
(* are two calls); after them nothing changes what became of it.            *)
THEOREM EndsAreFinal == Spec => ClosedForGood
<1>1. IInv /\ [Next]_vars => [ClosesForGood]_vars
  BY ClosesStep
<1> QED
  BY <1>1, Invariance, PTL DEF Spec, ClosedForGood
=============================================================================
