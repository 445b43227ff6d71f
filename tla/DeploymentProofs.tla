-------------------------- MODULE DeploymentProofs --------------------------
(***************************************************************************)
(* Theorems about Migrate and RepositoryTokens, for any number of          *)
(* executions of any releases, of replicas, commands and requests.         *)
(***************************************************************************)
EXTENDS RepositoryTokens, TLAPS

\* What an execution that has the lock has written, and what it may rely on.
Progress(j) ==
    /\ pc[j] \in {"idle", "lock", "check", "apply", "principal"} => txn[j] = Empty
    /\ pc[j] \in {"apply", "record", "commit"} =>
          at[j] = Len(schema) + 1 /\ at[j] <= Packaged[j]
    /\ pc[j] = "record" => txn[j] = [Empty EXCEPT !.schema = <<at[j]>>]
    /\ pc[j] = "commit" => txn[j] = [Empty EXCEPT !.schema = <<at[j]>>, !.recorded = {at[j]}]
    /\ pc[j] \in {"grant", "commitGrants"} =>
          /\ txn[j].schema = <<>> /\ txn[j].recorded = {}
          /\ principal \/ txn[j].principal
    /\ pc[j] = "commitGrants" => 1..Packaged[j] \subseteq txn[j].granted
    /\ pc[j] \in {"principal", "grant", "commitGrants", "done", "succeeded"} => Packaged[j] <= Len(schema)
    /\ pc[j] \in {"principal", "grant", "commitGrants"} => configured
    /\ pc[j] \in {"done", "succeeded"} /\ configured => principal /\ 1..Packaged[j] \subseteq granted

\* The lock is held from the answer of pg_advisory_lock to the end of the
\* session, and whoever has an open transaction has it.
Locking(j) ==
    /\ pc[j] \in Inside \cup Finally => lock = j
    /\ lock = j => pc[j] \notin {"idle"} \cup (Ended \ {"dead"})
    /\ j \in queue => lock # j /\ pc[j] \in {"lock", "dead"}
    /\ txn[j] # Empty => lock = j

MigrateInv ==
    /\ MigrateTypeOK
    /\ AppliedInOrder
    /\ \A j \in Job : at[j] >= 1 /\ at[j] <= Len(schema) + 1
    /\ \A j \in Job : Locking(j)
    /\ \A j \in Job : Progress(j)

-----------------------------------------------------------------------------
(* The files *)

(* A sequence of the first files, extended by the next.                     *)
LEMMA NextFile ==
    ASSUME NEW s \in Seq(Nat), s = [i \in 1..Len(s) |-> i]
    PROVE  LET t == s \o <<Len(s) + 1>> IN
           t \in Seq(Nat) /\ Len(t) = Len(s) + 1 /\ t = [i \in 1..Len(t) |-> i]
<1> DEFINE n == Len(s)
           t == s \o <<n + 1>>
<1>1. n \in Nat /\ t \in Seq(Nat) /\ Len(t) = n + 1
  OBVIOUS
<1>2. ASSUME NEW i \in 1..(n + 1)
      PROVE  t[i] = i
  <2>1. CASE i \in 1..n
    BY <1>1, <2>1
  <2>2. CASE i = n + 1
    BY <1>1, <2>2
  <2> QED
    BY <1>1, <1>2, <2>1, <2>2
<1>3. DOMAIN t = 1..(n + 1)
  BY <1>1
<1> QED
  BY <1>1, <1>2, <1>3

(* Nothing appended leaves a sequence as it is.                             *)
LEMMA NoFile == ASSUME NEW s \in Seq(Nat) PROVE s \o <<>> = s
OBVIOUS

(* The tables there are, once the files are applied in order.               *)
LEMMA Tables ==
    ASSUME schema \in Seq(Nat), AppliedInOrder
    PROVE  {schema[i] : i \in DOMAIN schema} = 1..Len(schema)
BY DEF AppliedInOrder

(* An execution with an open transaction is alone: it has the lock.         *)
LEMMA Alone ==
    ASSUME MigrateInv, NEW j \in Job, lock = j, NEW i \in Job, i # j
    PROVE  txn[i] = Empty /\ pc[i] \notin Inside \cup Finally
BY DEF MigrateInv, Locking

(* What is known of any execution.                                          *)
LEMMA Known ==
    ASSUME MigrateInv, NEW j \in Job
    PROVE  /\ Len(schema) \in Nat /\ recorded = 1..Len(schema)
           /\ at[j] \in Nat /\ at[j] >= 1 /\ at[j] <= Len(schema) + 1
           /\ Packaged[j] \in Nat
           /\ txn[j] \in [schema : Seq(Nat), recorded : SUBSET Nat, principal : BOOLEAN,
                          granted : SUBSET Nat]
           /\ Locking(j) /\ Progress(j)
<1>1. Len(schema) \in Nat /\ at[j] \in Nat
  BY DEF MigrateInv, MigrateTypeOK
<1>2. txn[j] \in [schema : Seq(Nat), recorded : SUBSET Nat, principal : BOOLEAN, granted : SUBSET Nat]
  BY DEF MigrateInv, MigrateTypeOK
<1> QED
  BY <1>1, <1>2, PackagedAssumption DEF MigrateInv, AppliedInOrder

(* Transactions that have written have a type, too.                         *)
LEMMA Written ==
    ASSUME NEW n \in Nat, NEW files \in SUBSET Nat
    PROVE  [Empty EXCEPT !.schema = <<n>>, !.recorded = files]
               \in [schema : Seq(Nat), recorded : SUBSET Nat, principal : BOOLEAN, granted : SUBSET Nat]
<1>1. <<n>> \in Seq(Nat) /\ <<>> \in Seq(Nat)
  OBVIOUS
<1> QED
  BY <1>1 DEF Empty

LEMMA NothingOpen == Empty \in [schema : Seq(Nat), recorded : SUBSET Nat, principal : BOOLEAN,
                                granted : SUBSET Nat]
BY DEF Empty

-----------------------------------------------------------------------------
(* Steps that commit nothing *)

LEMMA ConnectStep == ASSUME MigrateInv, NEW j \in Job, Connect(j) PROVE MigrateInv'
<1>1. MigrateTypeOK'
  BY NothingOpen, JobAssumption
     DEF MigrateInv, MigrateTypeOK, Inside, Finally, Ended, database, Connect, Goto
<1>2. AppliedInOrder'
  BY DEF MigrateInv, AppliedInOrder, database, Connect, Goto
<1>3. ASSUME NEW i \in Job
      PROVE  at'[i] >= 1 /\ at'[i] <= Len(schema') + 1
  BY DEF MigrateInv, MigrateTypeOK, AppliedInOrder, database, Connect, Goto
<1>4. ASSUME NEW i \in Job
      PROVE  Locking(i)'
  BY JobAssumption
     DEF MigrateInv, MigrateTypeOK, Locking, Inside, Finally, Ended, database, Connect, Goto
<1>5. ASSUME NEW i \in Job
      PROVE  Progress(i)'
  BY PackagedAssumption DEF MigrateInv, MigrateTypeOK, Progress, database, Connect, Goto
<1> QED
  BY <1>1, <1>2, <1>3, <1>4, <1>5 DEF MigrateInv

LEMMA LockedStep == ASSUME MigrateInv, NEW j \in Job, Locked(j) PROVE MigrateInv'
<1>1. MigrateTypeOK'
  BY NothingOpen, JobAssumption
     DEF MigrateInv, MigrateTypeOK, Inside, Finally, Ended, database, Locked, Goto
<1>2. AppliedInOrder'
  BY DEF MigrateInv, AppliedInOrder, database, Locked, Goto
<1>3. ASSUME NEW i \in Job
      PROVE  at'[i] >= 1 /\ at'[i] <= Len(schema') + 1
  BY DEF MigrateInv, MigrateTypeOK, AppliedInOrder, database, Locked, Goto
<1>4. ASSUME NEW i \in Job
      PROVE  Locking(i)'
  BY JobAssumption
     DEF MigrateInv, MigrateTypeOK, Locking, Inside, Finally, Ended, database, Locked, Goto
<1>5. ASSUME NEW i \in Job
      PROVE  Progress(i)'
  BY PackagedAssumption DEF MigrateInv, MigrateTypeOK, Progress, database, Locked, Goto
<1> QED
  BY <1>1, <1>2, <1>3, <1>4, <1>5 DEF MigrateInv

LEMMA CheckStep == ASSUME MigrateInv, NEW j \in Job, Check(j) PROVE MigrateInv'
<1> USE DEF MigrateInv
<1>a. /\ Len(schema) \in Nat /\ recorded = 1..Len(schema)
      /\ at[j] \in Nat /\ at[j] >= 1 /\ at[j] <= Len(schema) + 1
      /\ Packaged[j] \in Nat /\ pc[j] = "check" /\ lock = j /\ txn[j] = Empty
  BY Known DEF Check, Locking, Progress, Inside
<1>b. UNCHANGED <<configured, schema, recorded, principal, granted, lock, queue, txn>>
  BY DEF Check, database
<1>1. CASE /\ at[j] \notin 1..Packaged[j]
           /\ pc' = [pc EXCEPT ![j] = IF configured THEN "principal" ELSE "done"]
           /\ at' = at
  <2>1. Packaged[j] <= Len(schema)
    BY <1>a, <1>1
  <2>2. MigrateTypeOK'
    BY <1>b, <1>1 DEF MigrateTypeOK, Inside, Finally, Ended
  <2>3. AppliedInOrder'
    BY <1>b DEF AppliedInOrder
  <2>4. \A i \in Job : Locking(i)'
    BY <1>a, <1>b, <1>1 DEF MigrateTypeOK, Locking, Inside, Finally, Ended
  <2>5. \A i \in Job : Progress(i)'
    BY <1>a, <1>b, <1>1, <2>1 DEF MigrateTypeOK, Progress
  <2> QED
    BY <1>b, <1>1, <2>2, <2>3, <2>4, <2>5
<1>2. CASE /\ at[j] \in recorded
           /\ at' = [at EXCEPT ![j] = @ + 1] /\ pc' = pc
  <2>1. at[j] + 1 >= 1 /\ at[j] + 1 <= Len(schema) + 1
    BY <1>a, <1>2
  <2>2. MigrateTypeOK'
    BY <1>a, <1>b, <1>2 DEF MigrateTypeOK
  <2>3. AppliedInOrder'
    BY <1>b DEF AppliedInOrder
  <2>4. \A i \in Job : Locking(i)'
    BY <1>b, <1>2 DEF Locking
  <2>5. \A i \in Job : Progress(i)'
    BY <1>a, <1>b, <1>2 DEF MigrateTypeOK, Progress
  <2>6. \A i \in Job : at'[i] >= 1 /\ at'[i] <= Len(schema') + 1
    BY <1>b, <1>2, <2>1 DEF MigrateTypeOK
  <2> QED
    BY <2>2, <2>3, <2>4, <2>5, <2>6
<1>3. CASE /\ at[j] \in 1..Packaged[j] /\ at[j] \notin recorded
           /\ pc' = [pc EXCEPT ![j] = "apply"] /\ at' = at
  <2>1. at[j] = Len(schema) + 1 /\ at[j] <= Packaged[j]
    BY <1>a, <1>3
  <2>2. MigrateTypeOK'
    BY <1>b, <1>3 DEF MigrateTypeOK, Inside
  <2>3. AppliedInOrder'
    BY <1>b DEF AppliedInOrder
  <2>4. \A i \in Job : Locking(i)'
    BY <1>a, <1>b, <1>3 DEF MigrateTypeOK, Locking, Inside, Finally, Ended
  <2>5. \A i \in Job : Progress(i)'
    BY <1>a, <1>b, <1>3, <2>1 DEF MigrateTypeOK, Progress
  <2> QED
    BY <1>b, <1>3, <2>2, <2>3, <2>4, <2>5
<1> QED
  BY <1>1, <1>2, <1>3 DEF Check, Goto

LEMMA ApplyStep == ASSUME MigrateInv, NEW j \in Job, Apply(j) PROVE MigrateInv'
<1>0. /\ pc[j] = "apply" /\ txn[j] = Empty /\ at[j] \in Nat
      /\ txn' = [txn EXCEPT ![j] = [Empty EXCEPT !.schema = <<at[j]>>]]
  <2>1. pc[j] = "apply" /\ txn[j] = Empty /\ at[j] \in Nat
    BY Known DEF Progress, Apply
  <2>2. [txn[j] EXCEPT !.schema = Append(@, at[j])] = [Empty EXCEPT !.schema = <<at[j]>>]
    BY <2>1 DEF Empty
  <2>3. txn' = [txn EXCEPT ![j] = [txn[j] EXCEPT !.schema = Append(@, at[j])]]
    BY DEF Apply, MigrateInv, MigrateTypeOK
  <2> QED
    BY <2>1, <2>2, <2>3
<1>1. MigrateTypeOK'
  <2>1. [Empty EXCEPT !.schema = <<at[j]>>] \in [schema : Seq(Nat), recorded : SUBSET Nat,
                                                 principal : BOOLEAN, granted : SUBSET Nat]
    <3>1. <<at[j]>> \in Seq(Nat)
      BY <1>0
    <3> QED
      BY <3>1 DEF Empty
  <2> QED
    BY <1>0, <2>1 DEF MigrateInv, MigrateTypeOK, Inside, database, Apply, Goto
<1>2. AppliedInOrder'
  BY DEF MigrateInv, AppliedInOrder, database, Apply, Goto
<1>3. ASSUME NEW i \in Job
      PROVE  at'[i] >= 1 /\ at'[i] <= Len(schema') + 1
  BY DEF MigrateInv, MigrateTypeOK, AppliedInOrder, database, Apply, Goto
<1>4. ASSUME NEW i \in Job
      PROVE  Locking(i)'
  BY JobAssumption
     DEF MigrateInv, MigrateTypeOK, Locking, Inside, Finally, Ended, database, Apply, Goto
<1>5. ASSUME NEW i \in Job
      PROVE  Progress(i)'
  <2>1. CASE i = j
    BY <1>0, <2>1, PackagedAssumption
       DEF MigrateInv, MigrateTypeOK, Progress, database, Apply, Goto
  <2>2. CASE i # j
    <3>1. /\ pc'[i] = pc[i] /\ txn'[i] = txn[i] /\ at'[i] = at[i]
          /\ UNCHANGED <<configured, schema, principal, granted>>
      BY <1>0, <2>2 DEF MigrateInv, MigrateTypeOK, database, Apply, Goto
    <3>2. Progress(i)
      BY DEF MigrateInv
    <3> QED
      BY <3>1, <3>2 DEF Progress
  <2> QED
    BY <2>1, <2>2
<1> QED
  BY <1>1, <1>2, <1>3, <1>4, <1>5 DEF MigrateInv

LEMMA RecordStep == ASSUME MigrateInv, NEW j \in Job, Record(j) PROVE MigrateInv'
<1>0. /\ pc[j] = "record" /\ at[j] \in Nat /\ at[j] \notin recorded
      /\ txn[j] = [Empty EXCEPT !.schema = <<at[j]>>]
      /\ pc' = [pc EXCEPT ![j] = "commit"]
      /\ txn' = [txn EXCEPT ![j] = [Empty EXCEPT !.schema = <<at[j]>>, !.recorded = {at[j]}]]
  <2>1. pc[j] = "record" /\ at[j] \in Nat /\ at[j] = Len(schema) + 1 /\ Len(schema) \in Nat
    BY Known DEF Progress, Record
  <2>2. at[j] \notin recorded
    BY <2>1 DEF MigrateInv, AppliedInOrder
  <2>3. txn[j] = [Empty EXCEPT !.schema = <<at[j]>>]
    BY <2>1 DEF MigrateInv, Progress
  <2> QED
    BY <2>1, <2>2, <2>3 DEF Record, Goto, Empty
<1>1. MigrateTypeOK'
  <2>1. [Empty EXCEPT !.schema = <<at[j]>>, !.recorded = {at[j]}]
            \in [schema : Seq(Nat), recorded : SUBSET Nat, principal : BOOLEAN, granted : SUBSET Nat]
    BY <1>0, Written
  <2> QED
    BY <1>0, <2>1 DEF MigrateInv, MigrateTypeOK, Inside, database, Record
<1>2. AppliedInOrder'
  BY DEF MigrateInv, AppliedInOrder, database, Record, Goto
<1>3. ASSUME NEW i \in Job
      PROVE  at'[i] >= 1 /\ at'[i] <= Len(schema') + 1
  BY DEF MigrateInv, MigrateTypeOK, AppliedInOrder, database, Record, Goto
<1>4. ASSUME NEW i \in Job
      PROVE  Locking(i)'
  BY JobAssumption
     DEF MigrateInv, MigrateTypeOK, Locking, Inside, Finally, Ended, database, Record, Goto
<1>5. ASSUME NEW i \in Job
      PROVE  Progress(i)'
  <2>1. CASE i = j
    BY <1>0, <2>1, PackagedAssumption DEF MigrateInv, MigrateTypeOK, Progress, database, Record
  <2>2. CASE i # j
    BY <1>0, <2>2 DEF MigrateInv, MigrateTypeOK, Progress, database, Record
  <2> QED
    BY <2>1, <2>2
<1> QED
  BY <1>1, <1>2, <1>3, <1>4, <1>5 DEF MigrateInv

LEMMA CreatePrincipalStep == ASSUME MigrateInv, NEW j \in Job,
CreatePrincipal(j) PROVE MigrateInv'
<1>1. MigrateTypeOK'
  BY NothingOpen, JobAssumption DEF MigrateInv, MigrateTypeOK, Inside, Finally, Ended, database,
     CreatePrincipal, PrincipalCreated, Goto
<1>2. AppliedInOrder'
  BY DEF MigrateInv, AppliedInOrder, database, CreatePrincipal, PrincipalCreated, Goto
<1>3. ASSUME NEW i \in Job
      PROVE  at'[i] >= 1 /\ at'[i] <= Len(schema') + 1
  BY DEF MigrateInv, MigrateTypeOK, AppliedInOrder, database, CreatePrincipal, PrincipalCreated,
     Goto
<1>4. ASSUME NEW i \in Job
      PROVE  Locking(i)'
  BY JobAssumption DEF MigrateInv, MigrateTypeOK, Locking, Inside, Finally, Ended, database,
     CreatePrincipal, PrincipalCreated, Goto
<1>0. /\ pc[j] = "principal" /\ txn[j] = Empty /\ pc' = [pc EXCEPT ![j] = "grant"]
      /\ \/ txn'[j] = Empty /\ principal
         \/ txn'[j] = [Empty EXCEPT !.principal = TRUE]
  BY DEF MigrateInv, MigrateTypeOK, Progress, CreatePrincipal, PrincipalCreated, Goto
<1>5. ASSUME NEW i \in Job
      PROVE  Progress(i)'
  <2>1. CASE i = j
    BY <1>0, <2>1 DEF MigrateInv, MigrateTypeOK, Progress, database, CreatePrincipal, Empty
  <2>2. CASE i # j
    BY <1>0, <2>2 DEF MigrateInv, MigrateTypeOK, Progress, database, CreatePrincipal
  <2> QED
    BY <2>1, <2>2
<1> QED
  BY <1>1, <1>2, <1>3, <1>4, <1>5 DEF MigrateInv

LEMMA GrantStep == ASSUME MigrateInv, NEW j \in Job, Grant(j) PROVE MigrateInv'
<1>0. /\ pc[j] = "grant" /\ txn[j].schema = <<>> /\ txn[j].recorded = {}
      /\ principal \/ txn[j].principal
      /\ txn' = [txn EXCEPT ![j] = [txn[j] EXCEPT !.granted = 1..Len(schema)]]
  <2>1. pc[j] = "grant" /\ txn[j].schema = <<>> /\ txn[j].recorded = {} /\ (principal \/ txn[j].principal)
    BY DEF MigrateInv, Progress, Grant
  <2>2. {txn[j].schema[i] : i \in DOMAIN txn[j].schema} = {}
    BY <2>1
  <2> QED
    BY <2>1, <2>2, Tables DEF MigrateInv, MigrateTypeOK, Grant
<1>1. MigrateTypeOK'
  <2>1. [txn[j] EXCEPT !.granted = 1..Len(schema)]
            \in [schema : Seq(Nat), recorded : SUBSET Nat, principal : BOOLEAN, granted : SUBSET Nat]
    BY Known
  <2> QED
    BY <1>0, <2>1 DEF MigrateInv, MigrateTypeOK, Inside, database, Grant, Goto
<1>2. AppliedInOrder'
  BY DEF MigrateInv, AppliedInOrder, database, Grant, Goto
<1>3. ASSUME NEW i \in Job
      PROVE  at'[i] >= 1 /\ at'[i] <= Len(schema') + 1
  BY DEF MigrateInv, MigrateTypeOK, AppliedInOrder, database, Grant, Goto
<1>4. ASSUME NEW i \in Job
      PROVE  Locking(i)'
  BY JobAssumption
     DEF MigrateInv, MigrateTypeOK, Locking, Inside, Finally, Ended, database, Grant, Goto
<1>5. ASSUME NEW i \in Job
      PROVE  Progress(i)'
  <2>1. CASE i = j
    <3>1. pc'[j] = "commitGrants" /\ UNCHANGED <<configured, schema, principal, granted, at>>
      BY DEF MigrateInv, MigrateTypeOK, database, Grant, Goto
    <3>2. Packaged[j] <= Len(schema) /\ configured /\ Len(schema) \in Nat /\ Packaged[j] \in Nat
      BY <1>0, Known DEF Progress
    <3>3. txn'[j] = [txn[j] EXCEPT !.granted = 1..Len(schema)]
      BY <1>0 DEF MigrateInv, MigrateTypeOK
    <3>4. /\ txn'[j].schema = <<>> /\ txn'[j].recorded = {} /\ (principal \/ txn'[j].principal)
          /\ txn'[j].granted = 1..Len(schema)
      BY <1>0, <3>3, Known
    <3> QED
      BY <2>1, <3>1, <3>2, <3>4 DEF Progress
  <2>2. CASE i # j
    <3>1. pc'[i] = pc[i] /\ txn'[i] = txn[i] /\ UNCHANGED <<configured, schema, principal, granted, at>>
      BY <1>0, <2>2 DEF MigrateInv, MigrateTypeOK, database, Grant, Goto
    <3> QED
      BY <3>1 DEF MigrateInv, Progress
  <2> QED
    BY <2>1, <2>2
<1> QED
  BY <1>1, <1>2, <1>3, <1>4, <1>5 DEF MigrateInv

LEMMA UnlockStep == ASSUME MigrateInv, NEW j \in Job, Unlock(j) PROVE MigrateInv'
<1>1. MigrateTypeOK'
  BY NothingOpen, JobAssumption
     DEF MigrateInv, MigrateTypeOK, Inside, Finally, Ended, database, Unlock, EndSession, Goto
<1>2. AppliedInOrder'
  BY DEF MigrateInv, AppliedInOrder, database, Unlock, EndSession, Goto
<1>3. ASSUME NEW i \in Job
      PROVE  at'[i] >= 1 /\ at'[i] <= Len(schema') + 1
  BY DEF MigrateInv, MigrateTypeOK, AppliedInOrder, database, Unlock, EndSession, Goto
<1>4. ASSUME NEW i \in Job
      PROVE  Locking(i)'
  BY JobAssumption DEF MigrateInv, MigrateTypeOK, Locking, Inside, Finally, Ended, database,
     Unlock, EndSession, Goto
<1>5. ASSUME NEW i \in Job
      PROVE  Progress(i)'
  BY PackagedAssumption
     DEF MigrateInv, MigrateTypeOK, Progress, database, Unlock, EndSession, Goto
<1> QED
  BY <1>1, <1>2, <1>3, <1>4, <1>5 DEF MigrateInv

LEMMA RaiseStep == ASSUME MigrateInv, NEW j \in Job, Raise(j) PROVE MigrateInv'
<1>1. MigrateTypeOK'
  BY NothingOpen, JobAssumption
     DEF MigrateInv, MigrateTypeOK, Inside, Finally, Ended, database, Raise, Goto
<1>2. AppliedInOrder'
  BY DEF MigrateInv, AppliedInOrder, database, Raise, Goto
<1>3. ASSUME NEW i \in Job
      PROVE  at'[i] >= 1 /\ at'[i] <= Len(schema') + 1
  BY DEF MigrateInv, MigrateTypeOK, AppliedInOrder, database, Raise, Goto
<1>4. ASSUME NEW i \in Job
      PROVE  Locking(i)'
  BY JobAssumption
     DEF MigrateInv, MigrateTypeOK, Locking, Inside, Finally, Ended, database, Raise, Goto
<1>5. ASSUME NEW i \in Job
      PROVE  Progress(i)'
  BY PackagedAssumption DEF MigrateInv, MigrateTypeOK, Progress, database, Raise, Goto
<1> QED
  BY <1>1, <1>2, <1>3, <1>4, <1>5 DEF MigrateInv

LEMMA RaiseInFinallyStep == ASSUME MigrateInv, NEW j \in Job, RaiseInFinally(j) PROVE MigrateInv'
<1>1. MigrateTypeOK'
  BY NothingOpen, JobAssumption DEF MigrateInv, MigrateTypeOK, Inside, Finally, Ended, database,
     RaiseInFinally, EndSession, Goto
<1>2. AppliedInOrder'
  BY DEF MigrateInv, AppliedInOrder, database, RaiseInFinally, EndSession, Goto
<1>3. ASSUME NEW i \in Job
      PROVE  at'[i] >= 1 /\ at'[i] <= Len(schema') + 1
  BY DEF MigrateInv, MigrateTypeOK, AppliedInOrder, database, RaiseInFinally, EndSession, Goto
<1>4. ASSUME NEW i \in Job
      PROVE  Locking(i)'
  BY JobAssumption DEF MigrateInv, MigrateTypeOK, Locking, Inside, Finally, Ended, database,
     RaiseInFinally, EndSession, Goto
<1>5. ASSUME NEW i \in Job
      PROVE  Progress(i)'
  BY PackagedAssumption
     DEF MigrateInv, MigrateTypeOK, Progress, database, RaiseInFinally, EndSession, Goto
<1> QED
  BY <1>1, <1>2, <1>3, <1>4, <1>5 DEF MigrateInv

LEMMA DieStep == ASSUME MigrateInv, NEW j \in Job, Die(j) PROVE MigrateInv'
<1>1. MigrateTypeOK'
  BY NothingOpen, JobAssumption
     DEF MigrateInv, MigrateTypeOK, Inside, Finally, Ended, database, Die, Goto
<1>2. AppliedInOrder'
  BY DEF MigrateInv, AppliedInOrder, database, Die, Goto
<1>3. ASSUME NEW i \in Job
      PROVE  at'[i] >= 1 /\ at'[i] <= Len(schema') + 1
  BY DEF MigrateInv, MigrateTypeOK, AppliedInOrder, database, Die, Goto
<1>4. ASSUME NEW i \in Job
      PROVE  Locking(i)'
  BY JobAssumption
     DEF MigrateInv, MigrateTypeOK, Locking, Inside, Finally, Ended, database, Die, Goto
<1>5. ASSUME NEW i \in Job
      PROVE  Progress(i)'
  BY PackagedAssumption DEF MigrateInv, MigrateTypeOK, Progress, database, Die, Goto
<1> QED
  BY <1>1, <1>2, <1>3, <1>4, <1>5 DEF MigrateInv

LEMMA GrantLockStep == ASSUME MigrateInv, NEW j \in Job, GrantLock(j) PROVE MigrateInv'
<1>1. MigrateTypeOK'
  BY NothingOpen, JobAssumption
     DEF MigrateInv, MigrateTypeOK, Inside, Finally, Ended, database, GrantLock
<1>2. AppliedInOrder'
  BY DEF MigrateInv, AppliedInOrder, database, GrantLock
<1>3. ASSUME NEW i \in Job
      PROVE  at'[i] >= 1 /\ at'[i] <= Len(schema') + 1
  BY DEF MigrateInv, MigrateTypeOK, AppliedInOrder, database, GrantLock
<1>4. ASSUME NEW i \in Job
      PROVE  Locking(i)'
  BY JobAssumption
     DEF MigrateInv, MigrateTypeOK, Locking, Inside, Finally, Ended, database, GrantLock
<1>5. ASSUME NEW i \in Job
      PROVE  Progress(i)'
  BY PackagedAssumption DEF MigrateInv, MigrateTypeOK, Progress, database, GrantLock
<1> QED
  BY <1>1, <1>2, <1>3, <1>4, <1>5 DEF MigrateInv

LEMMA AbandonedStep == ASSUME MigrateInv, NEW j \in Job, Abandoned(j) PROVE MigrateInv'
<1>1. MigrateTypeOK'
  BY NothingOpen, JobAssumption
     DEF MigrateInv, MigrateTypeOK, Inside, Finally, Ended, database, Abandoned, EndSession
<1>2. AppliedInOrder'
  BY DEF MigrateInv, AppliedInOrder, database, Abandoned, EndSession
<1>3. ASSUME NEW i \in Job
      PROVE  at'[i] >= 1 /\ at'[i] <= Len(schema') + 1
  BY DEF MigrateInv, MigrateTypeOK, AppliedInOrder, database, Abandoned, EndSession
<1>4. ASSUME NEW i \in Job
      PROVE  Locking(i)'
  BY JobAssumption DEF MigrateInv, MigrateTypeOK, Locking, Inside, Finally, Ended, database,
     Abandoned, EndSession
<1>5. ASSUME NEW i \in Job
      PROVE  Progress(i)'
  BY PackagedAssumption DEF MigrateInv, MigrateTypeOK, Progress, database, Abandoned, EndSession
<1> QED
  BY <1>1, <1>2, <1>3, <1>4, <1>5 DEF MigrateInv

-----------------------------------------------------------------------------
(* Steps that commit *)

LEMMA CommitStep == ASSUME MigrateInv, NEW j \in Job, Commit(j) PROVE MigrateInv'
<1> DEFINE n == Len(schema)
<1>1. /\ pc[j] = "commit" /\ lock = j /\ n \in Nat /\ at[j] = n + 1 /\ at[j] <= Packaged[j]
      /\ Packaged[j] \in Nat /\ schema \in Seq(Nat) /\ schema = [i \in 1..n |-> i] /\ recorded = 1..n
      /\ txn[j] = [Empty EXCEPT !.schema = <<n + 1>>, !.recorded = {n + 1}]
  <2>1. pc[j] = "commit" /\ schema \in Seq(Nat) /\ schema = [i \in 1..n |-> i]
    BY DEF MigrateInv, MigrateTypeOK, AppliedInOrder, Commit
  <2> QED
    BY <2>1, Known DEF Locking, Progress, Inside
<1>2. /\ schema' = schema \o <<n + 1>> /\ recorded' = recorded \cup {n + 1}
      /\ principal' = principal /\ granted' = granted
      /\ txn' = [txn EXCEPT ![j] = Empty] /\ at' = [at EXCEPT ![j] = @ + 1]
      /\ pc' = [pc EXCEPT ![j] = "check"]
      /\ UNCHANGED <<configured, lock, queue>>
  <2>1. principal \in BOOLEAN
    BY DEF MigrateInv, MigrateTypeOK
  <2> QED
    BY <1>1, <2>1 DEF Commit, CommitTransaction, Goto, Empty
<1>3. schema' \in Seq(Nat) /\ Len(schema') = n + 1 /\ schema' = [i \in 1..(n + 1) |-> i]
  BY <1>1, <1>2, NextFile
<1>4. recorded' = 1..(n + 1)
  BY <1>1, <1>2
<1>5. MigrateTypeOK'
  BY <1>1, <1>2, <1>3, <1>4, NothingOpen DEF MigrateInv, MigrateTypeOK, Inside
<1>6. AppliedInOrder'
  BY <1>3, <1>4 DEF AppliedInOrder
<1>7. ASSUME NEW i \in Job
      PROVE  at'[i] >= 1 /\ at'[i] <= Len(schema') + 1
  BY <1>1, <1>2, <1>3, Known DEF MigrateInv, MigrateTypeOK
<1>8. ASSUME NEW i \in Job
      PROVE  Locking(i)'
  BY <1>1, <1>2 DEF MigrateInv, MigrateTypeOK, Locking, Inside, Finally, Ended
<1>9. ASSUME NEW i \in Job
      PROVE  Progress(i)'
  <2>1. CASE i = j
    BY <1>1, <1>2, <2>1 DEF MigrateInv, MigrateTypeOK, Progress
  <2>2. CASE i # j
    <3>1. /\ txn[i] = Empty /\ pc[i] \notin Inside \cup Finally
          /\ pc'[i] = pc[i] /\ txn'[i] = txn[i]
      BY <1>1, <1>2, <2>2, Alone DEF MigrateInv, MigrateTypeOK
    <3>2. Packaged[i] <= n => Packaged[i] <= n + 1
      BY <1>1, Known
    <3> QED
      BY <1>2, <1>3, <3>1, <3>2, Known DEF Progress, Inside, Finally
  <2> QED
    BY <2>1, <2>2
<1> QED
  BY <1>5, <1>6, <1>7, <1>8, <1>9 DEF MigrateInv

LEMMA CommitGrantsStep == ASSUME MigrateInv, NEW j \in Job, CommitGrants(j) PROVE MigrateInv'
<1>1. /\ pc[j] = "commitGrants" /\ lock = j /\ Packaged[j] <= Len(schema)
      /\ txn[j].schema = <<>> /\ txn[j].recorded = {} /\ (principal \/ txn[j].principal)
      /\ 1..Packaged[j] \subseteq txn[j].granted
      /\ txn[j].granted \subseteq Nat /\ txn[j].principal \in BOOLEAN
      /\ schema \in Seq(Nat) /\ principal \in BOOLEAN
  <2>1. pc[j] = "commitGrants" /\ schema \in Seq(Nat) /\ principal \in BOOLEAN
    BY DEF MigrateInv, MigrateTypeOK, CommitGrants
  <2>2. txn[j].granted \subseteq Nat /\ txn[j].principal \in BOOLEAN
    BY Known
  <2> QED
    BY <2>1, <2>2, Known DEF Locking, Progress, Inside
<1>2. /\ schema' = schema /\ recorded' = recorded /\ principal' = TRUE
      /\ granted' = granted \cup txn[j].granted
      /\ txn' = [txn EXCEPT ![j] = Empty] /\ pc' = [pc EXCEPT ![j] = "done"]
      /\ UNCHANGED <<configured, lock, queue, at>>
  BY <1>1, NoFile DEF CommitGrants, CommitTransaction, Goto
<1>5. MigrateTypeOK'
  BY <1>1, <1>2, NothingOpen DEF MigrateInv, MigrateTypeOK, Inside
<1>6. AppliedInOrder'
  BY <1>2 DEF MigrateInv, AppliedInOrder
<1>7. ASSUME NEW i \in Job
      PROVE  at'[i] >= 1 /\ at'[i] <= Len(schema') + 1
  BY <1>2 DEF MigrateInv
<1>8. ASSUME NEW i \in Job
      PROVE  Locking(i)'
  BY <1>1, <1>2 DEF MigrateInv, MigrateTypeOK, Locking, Inside, Finally, Ended
<1>9. ASSUME NEW i \in Job
      PROVE  Progress(i)'
  <2>1. CASE i = j
    BY <1>1, <1>2, <2>1 DEF MigrateInv, MigrateTypeOK, Progress
  <2>2. CASE i # j
    <3>1. /\ txn[i] = Empty /\ pc[i] \notin Inside \cup Finally
          /\ pc'[i] = pc[i] /\ txn'[i] = txn[i]
      BY <1>1, <1>2, <2>2, Alone DEF MigrateInv, MigrateTypeOK
    <3> QED
      BY <1>2, <3>1, Known DEF Progress, Inside, Finally
  <2> QED
    BY <2>1, <2>2
<1> QED
  BY <1>5, <1>6, <1>7, <1>8, <1>9 DEF MigrateInv

-----------------------------------------------------------------------------
(* The jobs as a whole *)

LEMMA MigrateStarts == MigrateInit => MigrateInv
<1> SUFFICES ASSUME MigrateInit
             PROVE  MigrateInv
  OBVIOUS
<1>1. schema \in Seq(Nat) /\ Len(schema) = 0 /\ schema = [i \in 1..0 |-> i]
  BY DEF MigrateInit
<1>2. MigrateTypeOK
  BY <1>1, NothingOpen DEF MigrateInit, MigrateTypeOK
<1>3. AppliedInOrder
  BY <1>1 DEF MigrateInit, AppliedInOrder
<1>4. ASSUME NEW j \in Job
      PROVE  at[j] >= 1 /\ at[j] <= Len(schema) + 1
  <2>1. at[j] = 1
    BY DEF MigrateInit
  <2>2. Len(schema) + 1 = 1
    BY <1>1
  <2> QED
    BY <2>1, <2>2
<1>5. \A j \in Job : Locking(j)
  BY JobAssumption DEF MigrateInit, Locking, Inside, Finally, Ended
<1>6. \A j \in Job : Progress(j)
  BY DEF MigrateInit, Progress
<1> QED
  BY <1>2, <1>3, <1>4, <1>5, <1>6 DEF MigrateInv

LEMMA MigrateKeeps == MigrateInv /\ [MigrateNext]_migrateVars => MigrateInv'
<1>1. ASSUME MigrateInv, UNCHANGED migrateVars
      PROVE  MigrateInv'
  BY <1>1 DEF MigrateInv, MigrateTypeOK, AppliedInOrder, Locking, Progress, migrateVars, database
<1>2. ASSUME MigrateInv, NEW j \in Job,
             Connect(j) \/ GrantLock(j) \/ Statement(j) \/ Fault(j) \/ Abandoned(j)
      PROVE  MigrateInv'
  BY <1>2, ConnectStep, GrantLockStep, LockedStep, CheckStep, ApplyStep, RecordStep, CommitStep,
     CreatePrincipalStep, GrantStep, CommitGrantsStep, UnlockStep, RaiseStep, RaiseInFinallyStep,
     DieStep, AbandonedStep DEF Statement, Fault
<1> QED
  BY <1>1, <1>2 DEF MigrateNext

(* What the invariant is for.                                               *)
LEMMA MigrateImplied == MigrateInv => MigratedOnce /\ SucceededMeansReady
<1> SUFFICES ASSUME MigrateInv
             PROVE  MigratedOnce /\ SucceededMeansReady
  OBVIOUS
<1>1. ASSUME NEW j \in Job, pc[j] \in {"apply", "record"}
      PROVE  at[j] \notin recorded /\ \A i \in Job \ {j} : at[j] \notin txn[i].recorded
  <2>1. lock = j /\ at[j] = Len(schema) + 1 /\ recorded = 1..Len(schema) /\ Len(schema) \in Nat
    BY <1>1, Known DEF Locking, Progress, Inside
  <2>2. ASSUME NEW i \in Job \ {j}
        PROVE  txn[i].recorded = {}
    BY <2>1, <2>2, Alone DEF Empty
  <2> QED
    BY <2>1, <2>2
<1>2. ASSUME NEW j \in Job, pc[j] = "succeeded"
      PROVE  /\ 1..Packaged[j] \subseteq recorded
             /\ configured => principal /\ 1..Packaged[j] \subseteq granted
  <2>1. Packaged[j] <= Len(schema) /\ (configured => principal /\ 1..Packaged[j] \subseteq granted)
    BY <1>2, Known DEF Progress
  <2>2. recorded = 1..Len(schema) /\ Len(schema) \in Nat /\ Packaged[j] \in Nat
    BY Known
  <2> QED
    BY <2>1, <2>2
<1> QED
  BY <1>1, <1>2 DEF MigrateInv, MigratedOnce, NoneInTheWay, SucceededMeansReady

(* A step of the composition is one of the jobs, or leaves them as they are. *)
LEMMA Projection == [Next]_vars => [MigrateNext]_migrateVars
BY DEF Next, TokensNext, vars, InsertToken, Create_, CreateLost, SelectToken, UpdateToken,
   Revoke_,
       RevokeLost, CommandFails, Start, Arrive, Match, Authenticate, LeaveUse

-----------------------------------------------------------------------------
(* Repository tokens *)

\* A transaction that has written is alone with the row it writes.
Pending ==
    /\ \A c \in Create : step[c] = "commit" =>
          active = {} /\ \A d \in Command \ {c} : step[d] # "commit"
    /\ \A v \in Revoke : step[v] = "commit" =>
          target[v] \in active /\ \A w \in Revoke \ {v} : step[w] = "commit" => target[w] # target[v]
    /\ \A v \in Revoke : step[v] = "lock" => target[v] \in Create
    /\ \A c \in Create : step[c] # "lock"

\* Who has issued a token, or has reported success, has ended; and reports are true.
Reported ==
    /\ \A c \in active \cup revoked : step[c] = "ended"
    /\ \A c \in told : step[c] = "ended"
    /\ \A v \in Revoke \cap told : target[v] \in revoked

\* Requests know of revocations that took place.
Remembered ==
    /\ \A u \in Use : outBefore[u] \subseteq revoked
    /\ \A u \in Use : upc[u] \in {"matched", "authenticated"} => presented[u] \notin outBefore[u]

TokensInv ==
    /\ TokensTypeOK
    /\ Pending
    /\ Reported
    /\ TokensExplained
    /\ Remembered

LEMMA Events ==
    \A c, d \in Create : /\ Created(c) # Revoked(d)
                         /\ Created(c) = Created(d) => c = d
                         /\ Revoked(c) = Revoked(d) => c = d
BY DEF Created, Revoked

LEMMA InsertTokenStep == ASSUME TokensInv, NEW c \in Create, InsertToken(c) PROVE TokensInv'
<1>1. TokensTypeOK'
  BY RequestsAssumption
     DEF TokensInv, TokensTypeOK, Command, rows, commands, requests, InsertToken, GiveUp
<1>2. Pending'
  BY RequestsAssumption
     DEF TokensInv, TokensTypeOK, Pending, Command, rows, commands, requests, InsertToken, GiveUp
<1>3. Reported'
  BY RequestsAssumption DEF TokensInv, TokensTypeOK, Pending, Reported, Command, rows, commands,
     requests, InsertToken, GiveUp
<1>4. TokensExplained'
  BY RequestsAssumption DEF TokensInv, TokensTypeOK, Pending, Reported, TokensExplained, Command,
     rows, commands, requests, InsertToken, GiveUp
<1>5. Remembered'
  BY RequestsAssumption DEF TokensInv, TokensTypeOK, Pending, Reported, TokensExplained,
     Remembered, Command, rows, commands, requests, InsertToken, GiveUp
<1> QED
  BY <1>1, <1>2, <1>3, <1>4, <1>5 DEF TokensInv

LEMMA CreateStep == ASSUME TokensInv, NEW c \in Create, Create_(c) PROVE TokensInv'
<1>1. TokensTypeOK'
  BY RequestsAssumption DEF TokensInv, TokensTypeOK, Command, rows, commands, requests, Create_,
     CommitCreate, Succeed, Created, Revoked
<1>2. Pending'
  BY RequestsAssumption DEF TokensInv, TokensTypeOK, Pending, Command, rows, commands, requests,
     Create_, CommitCreate, Succeed
<1>3. Reported'
  BY RequestsAssumption DEF TokensInv, TokensTypeOK, Pending, Reported, Command, rows, commands,
     requests, Create_, CommitCreate, Succeed
<1>4. TokensExplained'
  BY Events, RequestsAssumption DEF TokensInv, TokensTypeOK, Pending, Reported, TokensExplained,
     Command, rows, commands, requests, Create_, CommitCreate, Succeed
<1>5. Remembered'
  BY RequestsAssumption DEF TokensInv, TokensTypeOK, Pending, Reported, TokensExplained,
     Remembered, Command, rows, commands, requests, Create_, CommitCreate, Succeed
<1> QED
  BY <1>1, <1>2, <1>3, <1>4, <1>5 DEF TokensInv

LEMMA CreateLostStep == ASSUME TokensInv, NEW c \in Create, CreateLost(c) PROVE TokensInv'
<1>1. TokensTypeOK'
  BY RequestsAssumption DEF TokensInv, TokensTypeOK, Command, rows, commands, requests,
     CreateLost, CommitCreate, GiveUp, Created, Revoked
<1>2. Pending'
  BY RequestsAssumption DEF TokensInv, TokensTypeOK, Pending, Command, rows, commands, requests,
     CreateLost, CommitCreate, GiveUp
<1>3. Reported'
  BY RequestsAssumption DEF TokensInv, TokensTypeOK, Pending, Reported, Command, rows, commands,
     requests, CreateLost, CommitCreate, GiveUp
<1>4. TokensExplained'
  BY Events, RequestsAssumption DEF TokensInv, TokensTypeOK, Pending, Reported, TokensExplained,
     Command, rows, commands, requests, CreateLost, CommitCreate, GiveUp
<1>5. Remembered'
  BY RequestsAssumption DEF TokensInv, TokensTypeOK, Pending, Reported, TokensExplained,
     Remembered, Command, rows, commands, requests, CreateLost, CommitCreate, GiveUp
<1> QED
  BY <1>1, <1>2, <1>3, <1>4, <1>5 DEF TokensInv

LEMMA SelectTokenStep == ASSUME TokensInv, NEW v \in Revoke, SelectToken(v) PROVE TokensInv'
<1>1. TokensTypeOK'
  BY RequestsAssumption
     DEF TokensInv, TokensTypeOK, Command, rows, commands, requests, SelectToken, GiveUp
<1>2. Pending'
  BY RequestsAssumption
     DEF TokensInv, TokensTypeOK, Pending, Command, rows, commands, requests, SelectToken, GiveUp
<1>3. Reported'
  BY RequestsAssumption DEF TokensInv, TokensTypeOK, Pending, Reported, Command, rows, commands,
     requests, SelectToken, GiveUp
<1>4. TokensExplained'
  BY RequestsAssumption DEF TokensInv, TokensTypeOK, Pending, Reported, TokensExplained, Command,
     rows, commands, requests, SelectToken, GiveUp
<1>5. Remembered'
  BY RequestsAssumption DEF TokensInv, TokensTypeOK, Pending, Reported, TokensExplained,
     Remembered, Command, rows, commands, requests, SelectToken, GiveUp
<1> QED
  BY <1>1, <1>2, <1>3, <1>4, <1>5 DEF TokensInv

LEMMA UpdateTokenStep == ASSUME TokensInv, NEW v \in Revoke, UpdateToken(v) PROVE TokensInv'
<1>1. TokensTypeOK'
  BY RequestsAssumption
     DEF TokensInv, TokensTypeOK, Command, rows, commands, requests, UpdateToken, GiveUp
<1>2. Pending'
  BY RequestsAssumption
     DEF TokensInv, TokensTypeOK, Pending, Command, rows, commands, requests, UpdateToken, GiveUp
<1>3. Reported'
  BY RequestsAssumption DEF TokensInv, TokensTypeOK, Pending, Reported, Command, rows, commands,
     requests, UpdateToken, GiveUp
<1>4. TokensExplained'
  BY RequestsAssumption DEF TokensInv, TokensTypeOK, Pending, Reported, TokensExplained, Command,
     rows, commands, requests, UpdateToken, GiveUp
<1>5. Remembered'
  BY RequestsAssumption DEF TokensInv, TokensTypeOK, Pending, Reported, TokensExplained,
     Remembered, Command, rows, commands, requests, UpdateToken, GiveUp
<1> QED
  BY <1>1, <1>2, <1>3, <1>4, <1>5 DEF TokensInv

LEMMA RevokeStep == ASSUME TokensInv, NEW v \in Revoke, Revoke_(v) PROVE TokensInv'
<1>1. TokensTypeOK'
  BY RequestsAssumption DEF TokensInv, TokensTypeOK, Pending, Command, rows, commands, requests,
          Revoke_, CommitRevoke, Succeed, Created, Revoked
<1>2. Pending'
  BY RequestsAssumption DEF TokensInv, TokensTypeOK, Pending, Command, rows, commands, requests,
     Revoke_, CommitRevoke, Succeed
<1>3. Reported'
  BY RequestsAssumption DEF TokensInv, TokensTypeOK, Pending, Reported, Command, rows, commands,
     requests, Revoke_, CommitRevoke, Succeed
<1>4. TokensExplained'
  BY Events, RequestsAssumption DEF TokensInv, TokensTypeOK, Pending, Reported, TokensExplained,
     Command, rows, commands, requests, Revoke_, CommitRevoke, Succeed
<1>5. Remembered'
  BY RequestsAssumption DEF TokensInv, TokensTypeOK, Pending, Reported, TokensExplained,
     Remembered, Command, rows, commands, requests, Revoke_, CommitRevoke, Succeed
<1> QED
  BY <1>1, <1>2, <1>3, <1>4, <1>5 DEF TokensInv

LEMMA RevokeLostStep == ASSUME TokensInv, NEW v \in Revoke, RevokeLost(v) PROVE TokensInv'
<1>1. TokensTypeOK'
  BY RequestsAssumption DEF TokensInv, TokensTypeOK, Pending, Command, rows, commands, requests,
          RevokeLost, CommitRevoke, GiveUp, Created, Revoked
<1>2. Pending'
  BY RequestsAssumption DEF TokensInv, TokensTypeOK, Pending, Command, rows, commands, requests,
     RevokeLost, CommitRevoke, GiveUp
<1>3. Reported'
  BY RequestsAssumption DEF TokensInv, TokensTypeOK, Pending, Reported, Command, rows, commands,
     requests, RevokeLost, CommitRevoke, GiveUp
<1>4. TokensExplained'
  BY Events, RequestsAssumption DEF TokensInv, TokensTypeOK, Pending, Reported, TokensExplained,
     Command, rows, commands, requests, RevokeLost, CommitRevoke, GiveUp
<1>5. Remembered'
  BY RequestsAssumption DEF TokensInv, TokensTypeOK, Pending, Reported, TokensExplained,
     Remembered, Command, rows, commands, requests, RevokeLost, CommitRevoke, GiveUp
<1> QED
  BY <1>1, <1>2, <1>3, <1>4, <1>5 DEF TokensInv

LEMMA CommandFailsStep == ASSUME TokensInv, NEW c \in Command, CommandFails(c) PROVE TokensInv'
<1>1. TokensTypeOK'
  BY RequestsAssumption
     DEF TokensInv, TokensTypeOK, Command, rows, commands, requests, CommandFails, GiveUp
<1>2. Pending'
  BY RequestsAssumption
     DEF TokensInv, TokensTypeOK, Pending, Command, rows, commands, requests, CommandFails, GiveUp
<1>3. Reported'
  BY RequestsAssumption DEF TokensInv, TokensTypeOK, Pending, Reported, Command, rows, commands,
     requests, CommandFails, GiveUp
<1>4. TokensExplained'
  BY RequestsAssumption DEF TokensInv, TokensTypeOK, Pending, Reported, TokensExplained, Command,
     rows, commands, requests, CommandFails, GiveUp
<1>5. Remembered'
  BY RequestsAssumption DEF TokensInv, TokensTypeOK, Pending, Reported, TokensExplained,
     Remembered, Command, rows, commands, requests, CommandFails, GiveUp
<1> QED
  BY <1>1, <1>2, <1>3, <1>4, <1>5 DEF TokensInv

LEMMA StartStep == ASSUME TokensInv, NEW r \in Replica, Start(r) PROVE TokensInv'
<1>1. TokensTypeOK'
  BY RequestsAssumption DEF TokensInv, TokensTypeOK, Command, rows, commands, requests, Start
<1>2. Pending'
  BY RequestsAssumption
     DEF TokensInv, TokensTypeOK, Pending, Command, rows, commands, requests, Start
<1>3. Reported'
  BY RequestsAssumption
     DEF TokensInv, TokensTypeOK, Pending, Reported, Command, rows, commands, requests, Start
<1>4. TokensExplained'
  BY RequestsAssumption DEF TokensInv, TokensTypeOK, Pending, Reported, TokensExplained, Command,
     rows, commands, requests, Start
<1>5. Remembered'
  BY RequestsAssumption DEF TokensInv, TokensTypeOK, Pending, Reported, TokensExplained,
     Remembered, Command, rows, commands, requests, Start
<1> QED
  BY <1>1, <1>2, <1>3, <1>4, <1>5 DEF TokensInv

LEMMA ArriveStep == ASSUME TokensInv, NEW u \in Use, Arrive(u) PROVE TokensInv'
<1>1. TokensTypeOK'
  BY RequestsAssumption
     DEF TokensInv, TokensTypeOK, Reported, Command, rows, commands, requests, Arrive
<1>2. Pending'
  BY RequestsAssumption
     DEF TokensInv, TokensTypeOK, Pending, Command, rows, commands, requests, Arrive
<1>3. Reported'
  BY RequestsAssumption
     DEF TokensInv, TokensTypeOK, Pending, Reported, Command, rows, commands, requests, Arrive
<1>4. TokensExplained'
  BY RequestsAssumption DEF TokensInv, TokensTypeOK, Pending, Reported, TokensExplained, Command,
     rows, commands, requests, Arrive
<1>5. Remembered'
  BY RequestsAssumption DEF TokensInv, TokensTypeOK, Pending, Reported, TokensExplained,
     Remembered, Command, rows, commands, requests, Arrive
<1> QED
  BY <1>1, <1>2, <1>3, <1>4, <1>5 DEF TokensInv

LEMMA MatchStep == ASSUME TokensInv, NEW u \in Use, Match(u) PROVE TokensInv'
<1>1. TokensTypeOK'
  BY RequestsAssumption
     DEF TokensInv, TokensTypeOK, Command, rows, commands, requests, Match, EndUse
<1>2. Pending'
  BY RequestsAssumption
     DEF TokensInv, TokensTypeOK, Pending, Command, rows, commands, requests, Match, EndUse
<1>3. Reported'
  BY RequestsAssumption DEF TokensInv, TokensTypeOK, Pending, Reported, Command, rows, commands,
     requests, Match, EndUse
<1>4. TokensExplained'
  BY RequestsAssumption DEF TokensInv, TokensTypeOK, Pending, Reported, TokensExplained, Command,
     rows, commands, requests, Match, EndUse
<1>5. Remembered'
  BY RequestsAssumption DEF TokensInv, TokensTypeOK, Pending, Reported, TokensExplained,
     Remembered, Command, rows, commands, requests, Match, EndUse
<1> QED
  BY <1>1, <1>2, <1>3, <1>4, <1>5 DEF TokensInv

LEMMA AuthenticateStep == ASSUME TokensInv, NEW u \in Use, Authenticate(u) PROVE TokensInv'
<1>1. TokensTypeOK'
  BY RequestsAssumption
     DEF TokensInv, TokensTypeOK, Command, rows, commands, requests, Authenticate
<1>2. Pending'
  BY RequestsAssumption
     DEF TokensInv, TokensTypeOK, Pending, Command, rows, commands, requests, Authenticate
<1>3. Reported'
  BY RequestsAssumption DEF TokensInv, TokensTypeOK, Pending, Reported, Command, rows, commands,
     requests, Authenticate
<1>4. TokensExplained'
  BY RequestsAssumption DEF TokensInv, TokensTypeOK, Pending, Reported, TokensExplained, Command,
     rows, commands, requests, Authenticate
<1>5. Remembered'
  BY RequestsAssumption DEF TokensInv, TokensTypeOK, Pending, Reported, TokensExplained,
     Remembered, Command, rows, commands, requests, Authenticate
<1> QED
  BY <1>1, <1>2, <1>3, <1>4, <1>5 DEF TokensInv

LEMMA LeaveUseStep == ASSUME TokensInv, NEW u \in Use, LeaveUse(u) PROVE TokensInv'
<1>1. TokensTypeOK'
  BY RequestsAssumption
     DEF TokensInv, TokensTypeOK, Command, rows, commands, requests, LeaveUse, EndUse
<1>2. Pending'
  BY RequestsAssumption
     DEF TokensInv, TokensTypeOK, Pending, Command, rows, commands, requests, LeaveUse, EndUse
<1>3. Reported'
  BY RequestsAssumption DEF TokensInv, TokensTypeOK, Pending, Reported, Command, rows, commands,
     requests, LeaveUse, EndUse
<1>4. TokensExplained'
  BY RequestsAssumption DEF TokensInv, TokensTypeOK, Pending, Reported, TokensExplained, Command,
     rows, commands, requests, LeaveUse, EndUse
<1>5. Remembered'
  BY RequestsAssumption DEF TokensInv, TokensTypeOK, Pending, Reported, TokensExplained,
     Remembered, Command, rows, commands, requests, LeaveUse, EndUse
<1> QED
  BY <1>1, <1>2, <1>3, <1>4, <1>5 DEF TokensInv

-----------------------------------------------------------------------------
(* The composition *)

LEMMA TokensStart == TokensInit => TokensInv
BY RequestsAssumption
   DEF TokensInit, TokensInv, TokensTypeOK, Pending, Reported, TokensExplained, Remembered,
   Command

LEMMA TokensKeep == TokensInv /\ [Next]_vars => TokensInv'
<1>1. ASSUME TokensInv, UNCHANGED tokenVars
      PROVE  TokensInv'
  BY <1>1 DEF TokensInv, TokensTypeOK, Pending, Reported, TokensExplained, Remembered,
              tokenVars, rows, commands, requests
<1>2. ASSUME TokensInv, TokensNext
      PROVE  TokensInv'
  BY <1>2, InsertTokenStep, CreateStep, CreateLostStep, SelectTokenStep, UpdateTokenStep,
     RevokeStep,
     RevokeLostStep, CommandFailsStep, StartStep, ArriveStep, MatchStep, AuthenticateStep,
     LeaveUseStep
     DEF TokensNext
<1> QED
  BY <1>1, <1>2 DEF Next, vars

\* Tables do not go away, and a replica starts when it finds them.
Running == running # {} => HasTable(Initial) /\ HasTable(TokenTable)

LEMMA RunningKept ==
    ASSUME MigrateInv, MigrateInv', Running, [Next]_vars
    PROVE  Running'
<1>1. {schema[i] : i \in DOMAIN schema} \subseteq {schema'[i] : i \in DOMAIN schema'}
  <2>1. Len(schema) <= Len(schema')
    <3>1. CASE UNCHANGED schema
      BY <3>1 DEF MigrateInv, MigrateTypeOK
    <3>2. ASSUME NEW j \in Job, schema' = schema \o txn[j].schema
          PROVE  Len(schema) <= Len(schema')
      BY <3>2, Known DEF MigrateInv, MigrateTypeOK
    <3>3. UNCHANGED schema \/ \E j \in Job : schema' = schema \o txn[j].schema
      BY Projection DEF MigrateNext, migrateVars, database, Statement, Fault, Connect, GrantLock,
         Locked, Check,
         Apply, Record, Commit, CommitTransaction, CreatePrincipal, Grant, CommitGrants, Unlock,
         Raise, RaiseInFinally, Die, Abandoned
    <3> QED
      BY <3>1, <3>2, <3>3
  <2>2. {schema[i] : i \in DOMAIN schema} = 1..Len(schema)
    BY Tables DEF MigrateInv, MigrateTypeOK
  <2>3. {schema'[i] : i \in DOMAIN schema'} = 1..Len(schema')
    BY DEF MigrateInv, MigrateTypeOK, AppliedInOrder
  <2>4. Len(schema) \in Nat /\ Len(schema') \in Nat
    BY DEF MigrateInv, MigrateTypeOK
  <2>5. 1..Len(schema) \subseteq 1..Len(schema')
    BY <2>1, <2>4
  <2> QED
    BY <2>2, <2>3, <2>5
<1>2. CASE UNCHANGED running
  BY <1>1, <1>2 DEF Running, HasTable
<1>3. ASSUME NEW r \in Replica, Start(r)
      PROVE  Running'
  BY <1>1, <1>3 DEF Running, HasTable, Start
<1>4. UNCHANGED running \/ \E r \in Replica : Start(r)
  BY DEF Next, TokensNext, vars, tokenVars, requests, InsertToken, Create_, CreateLost,
     SelectToken, UpdateToken,
         Revoke_, RevokeLost, CommandFails, Arrive, Match, Authenticate, LeaveUse, EndUse
<1> QED
  BY <1>2, <1>3, <1>4

\* The inductive invariant of jobs, commands, replicas and requests together.
THEOREM Invariance == Spec => [](MigrateInv /\ TokensInv /\ Running)
<1>1. Init => MigrateInv /\ TokensInv /\ Running
  BY MigrateStarts, TokensStart DEF Init, TokensInit, Running
<1>2. MigrateInv /\ TokensInv /\ Running /\ [Next]_vars => (MigrateInv /\ TokensInv /\ Running)'
  BY MigrateKeeps, Projection, TokensKeep, RunningKept
<1> QED
  BY <1>1, <1>2, PTL DEF Spec

\* For any number of executions, of releases with any numbers of files: no file
\* is applied twice, left out, or applied in vain.
THEOREM AppliedOnce == Spec => []MigratedOnce
BY Invariance, MigrateImplied, PTL

\* And an execution that reports success leaves its release's schema usable.
THEOREM SuccessIsReady == Spec => []SucceededMeansReady
BY Invariance, MigrateImplied, PTL

\* Every variable keeps its type, and where a replica runs, requests find
\* their tables whatever executions of whatever releases are under way.
THEOREM TablesThere == Spec => []Consistent
<1>1. MigrateInv /\ TokensInv /\ Running => Consistent
  BY DEF MigrateInv, TokensInv, Running, Consistent, TypeOK
<1> QED
  BY <1>1, Invariance, PTL

\* For any number of creations and revocations of a name that overlap, fail
\* and commit without being heard of, the audit trail explains the table.
THEOREM AuditExplains == Spec => []TokensExplained
<1>1. TokensInv => TokensExplained
  BY DEF TokensInv
<1> QED
  BY <1>1, Invariance, PTL

\* A reported revocation is final for every request that begins after it.
THEOREM RevocationFinal == Spec => []RevokedStaysOut
<1>1. TokensInv => RevokedStaysOut
  BY DEF TokensInv, Remembered, RevokedStaysOut
<1> QED
  BY <1>1, Invariance, PTL

-----------------------------------------------------------------------------
(* What a commit does to the files: the execution that holds the lock makes *)
(* the next file of its release part of the schema, with its row.           *)
Advances(j) ==
    /\ lock = j
    /\ Len(schema) + 1 <= Packaged[j]
    /\ schema' = Append(schema, Len(schema) + 1)
    /\ recorded' = recorded \cup {Len(schema) + 1}

FilesAdvance == UNCHANGED <<schema, recorded>> \/ \E j \in Job : Advances(j)

OneFileAtATime == [][FilesAdvance]_vars

LEMMA FilesMove ==
    ASSUME MigrateInv, [MigrateNext]_migrateVars
    PROVE  FilesAdvance
<1>1. CASE UNCHANGED migrateVars
  BY <1>1 DEF migrateVars, database, FilesAdvance
<1>2. ASSUME NEW j \in Job, Commit(j) PROVE Advances(j)
  <2>1. /\ pc[j] = "commit" /\ schema \in Seq(Nat)
        /\ schema' = schema \o txn[j].schema /\ recorded' = recorded \cup txn[j].recorded
    BY <1>2 DEF Commit, CommitTransaction, MigrateInv, MigrateTypeOK
  <2>2. /\ lock = j /\ at[j] = Len(schema) + 1 /\ at[j] <= Packaged[j] /\ Len(schema) \in Nat
        /\ txn[j] = [Empty EXCEPT !.schema = <<at[j]>>, !.recorded = {at[j]}]
    BY <2>1, Known DEF Locking, Progress, Inside
  <2>3. txn[j].schema = <<at[j]>> /\ txn[j].recorded = {at[j]}
    BY <2>2 DEF Empty
  <2> QED
    BY <2>1, <2>2, <2>3 DEF Advances
<1>3. ASSUME NEW j \in Job, CommitGrants(j) PROVE UNCHANGED <<schema, recorded>>
  <2>1. /\ pc[j] = "commitGrants" /\ schema \in Seq(Nat)
        /\ schema' = schema \o txn[j].schema /\ recorded' = recorded \cup txn[j].recorded
    BY <1>3 DEF CommitGrants, CommitTransaction, MigrateInv, MigrateTypeOK
  <2>2. txn[j].schema = <<>> /\ txn[j].recorded = {}
    BY <2>1, Known DEF Progress
  <2> QED
    BY <2>1, <2>2, NoFile
<1>4. ASSUME NEW j \in Job,
             \/ Connect(j) \/ GrantLock(j) \/ Locked(j) \/ Check(j) \/ Apply(j) \/ Record(j)
             \/ CreatePrincipal(j) \/ Grant(j) \/ Unlock(j) \/ Fault(j) \/ Abandoned(j)
      PROVE  UNCHANGED <<schema, recorded>>
  BY <1>4 DEF database, Fault, Connect, GrantLock, Locked, Check, Apply, Record, CreatePrincipal,
     Grant, Unlock, Raise, RaiseInFinally, Die, Abandoned
<1> QED
  BY <1>1, <1>2, <1>3, <1>4 DEF MigrateNext, Statement, FilesAdvance

\* No step, whatever fails or dies, makes anything but one whole file part of
\* the schema: the next one, with its row, by the execution that holds the
\* lock and whose release has it.
THEOREM WholeFilesOnly == Spec => OneFileAtATime
<1>1. MigrateInv /\ [Next]_vars => FilesAdvance
  BY FilesMove, Projection
<1> QED
  BY <1>1, Invariance, PTL DEF Spec, OneFileAtATime

-----------------------------------------------------------------------------
(* The safety that JobsEnd rests on: whoever waits is known to the server,  *)
(* and whoever has the lock waits for nobody.                               *)
Waiters == \A j \in Job : pc[j] = "lock" => j \in queue \/ lock = j

\* Such an execution has not ended, and no other is inside.
LockHandedOn ==
    /\ Waiters
    /\ \A j \in Job : lock = j =>
          /\ pc[j] \in {"lock", "dead"} \cup Inside \cup Finally
          /\ \A i \in Job \ {j} : txn[i] = Empty /\ pc[i] \notin Inside \cup Finally

LEMMA WaitersKept ==
    ASSUME MigrateInv, Waiters, [MigrateNext]_migrateVars
    PROVE  Waiters'
<1> USE DEF Waiters, Goto
<1>0. pc \in [Job -> {"idle", "lock"} \cup Inside \cup Finally \cup Ended] /\ NoJob \notin Job
  BY JobAssumption DEF MigrateInv, MigrateTypeOK
<1>1. CASE UNCHANGED migrateVars
  BY <1>1 DEF migrateVars
<1>2. ASSUME NEW j \in Job, Connect(j) \/ GrantLock(j) PROVE Waiters'
  BY <1>0, <1>2 DEF Connect, GrantLock
<1>3. ASSUME NEW j \in Job, Statement(j) /\ ~Unlock(j) PROVE Waiters'
  BY <1>0, <1>3 DEF Statement, Locked, Check, Apply, Record, Commit, CommitTransaction,
     CreatePrincipal, Grant, CommitGrants
<1>4. ASSUME NEW j \in Job, Unlock(j) \/ RaiseInFinally(j) \/ Abandoned(j) PROVE Waiters'
  BY <1>0, <1>4 DEF Unlock, RaiseInFinally, Abandoned, EndSession
<1>5. ASSUME NEW j \in Job, Raise(j) \/ Die(j) PROVE Waiters'
  BY <1>0, <1>5 DEF Raise, Die
<1> QED
  BY <1>1, <1>2, <1>3, <1>4, <1>5 DEF MigrateNext, Statement, Fault

(* migrate.py's finally and the server's notice of dead connections: who    *)
(* waits for the lock is queued for it or has it, and whoever has it has    *)
(* statements left or is dead, so that nobody waits for one who waits.      *)
THEOREM LockMovesOn == Spec => []LockHandedOn
<1>1. Init => Waiters
  BY DEF Init, MigrateInit, Waiters
<1>2. MigrateInv /\ Waiters /\ [Next]_vars => Waiters'
  BY WaitersKept, Projection
<1>3. MigrateInv /\ Waiters => LockHandedOn
  <2> SUFFICES ASSUME MigrateInv, NEW j \in Job, lock = j
               PROVE  /\ pc[j] \in {"lock", "dead"} \cup Inside \cup Finally
                      /\ \A i \in Job \ {j} : txn[i] = Empty /\ pc[i] \notin Inside \cup Finally
      BY DEF LockHandedOn
  <2>1. pc[j] \in {"idle", "lock"} \cup Inside \cup Finally \cup Ended
    BY DEF MigrateInv, MigrateTypeOK
  <2> QED
    BY <2>1, Alone DEF MigrateInv, Locking, Ended
<1> QED
  BY <1>1, <1>2, <1>3, Invariance, PTL DEF Spec
=============================================================================
