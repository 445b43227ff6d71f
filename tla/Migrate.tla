------------------------------ MODULE Migrate -------------------------------
(***************************************************************************)
(* wheelguard-migrate (migrate.py): executions of the job bring a          *)
(* PostgreSQL database to the schema of their release.  They serialise on  *)
(* a session-level advisory lock, commit one file at a time together with  *)
(* its row in wheelguard_schema_migrations, and then give the service's    *)
(* principal its rights.  Executions of an older and of a newer release    *)
(* may overlap, statements fail, executions are killed, and the server     *)
(* notices a dead client in its own time.                                  *)
(*                                                                         *)
(* Files are numbered in the order of their names; every statement is a    *)
(* step of its own.                                                        *)
(***************************************************************************)
EXTENDS Naturals, Sequences

CONSTANTS Job,        \* executions of the job
          Packaged,   \* the files in the image of each
          NoJob

ASSUME JobAssumption == NoJob \notin Job
ASSUME PackagedAssumption == Packaged \in [Job -> Nat]

VARIABLES
    configured,   \* database_app_principal and database_app_object_id are set
    schema,       \* files whose statements are committed, in that order
    recorded,     \* wheelguard_schema_migrations
    principal,    \* the service's role exists
    granted,      \* files whose tables the role may use
    lock,         \* who holds the advisory lock
    queue,        \* sessions that wait for it
    pc, at,       \* each execution: its next statement, and the file it is at
    txn           \* what its open transaction has written

database == <<schema, recorded, principal, granted>>
migrateVars == <<configured, database, lock, queue, pc, at, txn>>

Empty == [schema |-> <<>>, recorded |-> {}, principal |-> FALSE, granted |-> {}]

Inside == {"check", "apply", "record", "commit", "principal", "grant", "commitGrants", "done"}
Finally == {"done", "raised"}
Ended == {"succeeded", "failed", "dead"}

MigrateTypeOK ==
    /\ configured \in BOOLEAN
    /\ schema \in Seq(Nat)
    /\ recorded \subseteq Nat
    /\ principal \in BOOLEAN
    /\ granted \subseteq Nat
    /\ lock \in Job \cup {NoJob}
    /\ queue \subseteq Job
    /\ pc \in [Job -> {"idle", "lock"} \cup Inside \cup Finally \cup Ended]
    /\ at \in [Job -> Nat]
    /\ txn \in [Job -> [schema : Seq(Nat), recorded : SUBSET Nat, principal : BOOLEAN,
                        granted : SUBSET Nat]]

MigrateInit ==
    /\ configured \in BOOLEAN
    /\ schema = <<>>
    /\ recorded = {}
    /\ principal = FALSE
    /\ granted = {}
    /\ lock = NoJob
    /\ queue = {}
    /\ pc = [j \in Job |-> "idle"]
    /\ at = [j \in Job |-> 1]
    /\ txn = [j \in Job |-> Empty]

Goto(j, label) == pc' = [pc EXCEPT ![j] = label]

-----------------------------------------------------------------------------
(* The advisory lock *)

\* Connect, and SELECT pg_advisory_lock.
Connect(j) == /\ pc[j] = "idle"
              /\ Goto(j, "lock")
              /\ queue' = queue \cup {j}
              /\ UNCHANGED <<configured, database, lock, at, txn>>

\* The server grants the lock, to a client it believes alive.
GrantLock(j) == /\ j \in queue
                /\ lock = NoJob
                /\ lock' = j
                /\ queue' = queue \ {j}
                /\ UNCHANGED <<configured, database, pc, at, txn>>

\* pg_advisory_lock answers; the table of migrations is there or is created in
\* the transaction of the first file.
Locked(j) == /\ pc[j] = "lock"
             /\ lock = j
             /\ Goto(j, "check")
             /\ UNCHANGED <<configured, database, lock, queue, at, txn>>

-----------------------------------------------------------------------------
(* The files *)

\* SELECT 1 ... WHERE version: a file with a row is skipped.
Check(j) ==
    /\ pc[j] = "check"
    /\ IF at[j] \notin 1..Packaged[j]
       THEN Goto(j, IF configured THEN "principal" ELSE "done") /\ UNCHANGED at
       ELSE IF at[j] \in recorded
            THEN at' = [at EXCEPT ![j] = @ + 1] /\ UNCHANGED pc
            ELSE Goto(j, "apply") /\ UNCHANGED at
    /\ UNCHANGED <<configured, database, lock, queue, txn>>

\* Mutant: the connection is in autocommit mode.
ApplyAutocommitted(j) ==
    /\ pc[j] = "apply"
    /\ schema' = Append(schema, at[j])
    /\ Goto(j, "record")
    /\ UNCHANGED <<configured, recorded, principal, granted, lock, queue, at, txn>>

Apply(j) == /\ pc[j] = "apply"
            /\ txn' = [txn EXCEPT ![j].schema = Append(@, at[j])]
            /\ Goto(j, "record")
            /\ UNCHANGED <<configured, database, lock, queue, at>>

\* INSERT; the version is the primary key, and another open transaction that
\* has inserted it makes this one wait.
Record(j) ==
    /\ pc[j] = "record"
    /\ \A i \in Job \ {j} : at[j] \notin txn[i].recorded
    /\ IF at[j] \in recorded
       THEN Goto(j, "raised") /\ txn' = [txn EXCEPT ![j] = Empty]
       ELSE Goto(j, "commit") /\ txn' = [txn EXCEPT ![j].recorded = @ \cup {at[j]}]
    /\ UNCHANGED <<configured, database, lock, queue, at>>

\* The open transaction of j becomes part of the database.
CommitTransaction(j) ==
    /\ schema' = schema \o txn[j].schema
    /\ recorded' = recorded \cup txn[j].recorded
    /\ principal' = (principal \/ txn[j].principal)
    /\ granted' = granted \cup txn[j].granted
    /\ txn' = [txn EXCEPT ![j] = Empty]

\* Mutant: only one commit, after the grants.
CommitLater(j) ==
    /\ pc[j] = "commit"
    /\ at' = [at EXCEPT ![j] = @ + 1]
    /\ Goto(j, "check")
    /\ UNCHANGED <<configured, database, lock, queue, txn>>

\* The lock is that of the session, and stays.
Commit(j) == /\ pc[j] = "commit"
             /\ CommitTransaction(j)
             /\ at' = [at EXCEPT ![j] = @ + 1]
             /\ Goto(j, "check")
             /\ UNCHANGED <<configured, lock, queue>>

-----------------------------------------------------------------------------
(* The principal and its rights *)

\* Whichever of the two functions the server has.
PrincipalCreated(t) == [t EXCEPT !.principal = TRUE]

\* "already exists" is the one error that is not an error: what the transaction
\* has is rolled back, and the grants follow.
CreatePrincipal(j) ==
    /\ pc[j] = "principal"
    /\ txn' = [txn EXCEPT ![j] = IF principal THEN Empty ELSE PrincipalCreated(@)]
    /\ Goto(j, "grant")
    /\ UNCHANGED <<configured, database, lock, queue, at>>

\* The four GRANTs, on all tables that there are for this transaction.
Grant(j) ==
    /\ pc[j] = "grant"
    /\ txn' = [txn EXCEPT ![j].granted = {schema[i] : i \in DOMAIN schema}
                                     \cup {txn[j].schema[i] : i \in DOMAIN txn[j].schema}]
    /\ Goto(j, "commitGrants")
    /\ UNCHANGED <<configured, database, lock, queue, at>>

CommitGrants(j) == /\ pc[j] = "commitGrants"
                   /\ CommitTransaction(j)
                   /\ Goto(j, "done")
                   /\ UNCHANGED <<configured, lock, queue, at>>

-----------------------------------------------------------------------------
(* finally *)

\* What ends a session ends its transaction and its locks.
EndSession(j) == /\ lock' = IF lock = j THEN NoJob ELSE lock
                 /\ queue' = queue \ {j}
                 /\ txn' = [txn EXCEPT ![j] = Empty]

\* Mutant: after an exception the session is kept, with its lock.
KeepSession(j) ==
    /\ pc[j] \in Finally
    /\ IF pc[j] = "done" THEN EndSession(j) ELSE UNCHANGED <<lock, queue, txn>>
    /\ Goto(j, IF pc[j] = "done" THEN "succeeded" ELSE "failed")
    /\ UNCHANGED <<configured, database, at>>

\* Roll back, SELECT pg_advisory_unlock, and close the connection.
Unlock(j) == /\ pc[j] \in Finally
             /\ EndSession(j)
             /\ Goto(j, IF pc[j] = "done" THEN "succeeded" ELSE "failed")
             /\ UNCHANGED <<configured, database, at>>

\* A statement fails; the server has rolled back the transaction.
Raise(j) == /\ pc[j] \in Inside \ {"done"}
            /\ Goto(j, "raised")
            /\ txn' = [txn EXCEPT ![j] = Empty]
            /\ UNCHANGED <<configured, database, lock, queue, at>>

\* A statement of `finally` fails: `async with` closes the connection.
RaiseInFinally(j) == /\ pc[j] \in Finally
                     /\ EndSession(j)
                     /\ Goto(j, "failed")
                     /\ UNCHANGED <<configured, database, at>>

\* The execution is killed, or its connection breaks (after a COMMIT whose
\* answer was lost, too); the session is still there.
Die(j) == /\ pc[j] \notin {"idle"} \cup Ended
          /\ Goto(j, "dead")
          /\ UNCHANGED <<configured, database, lock, queue, at, txn>>

HasSession(j) == lock = j \/ j \in queue \/ txn[j] # Empty

\* The server notices that the client is gone.
Abandoned(j) == /\ pc[j] = "dead"
                /\ HasSession(j)
                /\ EndSession(j)
                /\ UNCHANGED <<configured, database, pc, at>>

Statement(j) == \/ Locked(j) \/ Check(j) \/ Apply(j) \/ Record(j) \/ Commit(j)
                \/ CreatePrincipal(j) \/ Grant(j) \/ CommitGrants(j)
                \/ Unlock(j)

Fault(j) == Raise(j) \/ RaiseInFinally(j) \/ Die(j)

MigrateNext == \E j \in Job : \/ Connect(j) \/ GrantLock(j) \/ Statement(j)
                              \/ Fault(j) \/ Abandoned(j)

MigrateSpec == MigrateInit /\ [][MigrateNext]_migrateVars

\* A living execution goes on, the server drops the dead, and it grants the
\* lock in the order in which it was asked for.
MigrateFairness == \A j \in Job : /\ WF_migrateVars(Statement(j))
                                  /\ WF_migrateVars(Abandoned(j))
                                  /\ SF_migrateVars(GrantLock(j))

-----------------------------------------------------------------------------
(* Properties *)

\* "Apply every packaged migration exactly once" (migrate.py:61), in order: what
\* is committed is the first so many files, each once, and exactly those have
\* their row, whatever fails or dies between two statements.
AppliedInOrder ==
    /\ schema = [i \in 1..Len(schema) |-> i]
    /\ recorded = 1..Len(schema)

\* Executions of whatever releases are not in each other's way: none that goes
\* on to apply and record a file finds that another has, or is about to.
NoneInTheWay ==
    \A j \in Job : pc[j] \in {"apply", "record"} =>
        /\ at[j] \notin recorded
        /\ \A i \in Job \ {j} : at[j] \notin txn[i].recorded

\* Both: no file is applied twice, left out, or applied in vain.
MigratedOnce == AppliedInOrder /\ NoneInTheWay

\* An execution that reports success leaves all its release's files applied and
\* the service's role with the rights on every table of them, also when the
\* role was there before and its creation rolled the transaction back.
SucceededMeansReady ==
    \A j \in Job : pc[j] = "succeeded" =>
        /\ 1..Packaged[j] \subseteq recorded
        /\ configured => principal /\ 1..Packaged[j] \subseteq granted

\* No execution waits for the lock for ever, whoever fails or dies with it.
JobsEnd == \A j \in Job : pc[j] = "lock" ~> pc[j] # "lock"
=============================================================================
