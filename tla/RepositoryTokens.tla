-------------------------- MODULE RepositoryTokens --------------------------
(***************************************************************************)
(* Repository tokens over the schema that the jobs of Migrate bring about: *)
(* `wheelguard token create` and `revoke` (token_cli.py, postgres.py),     *)
(* replicas that start (PostgresDatabase.initialize), and requests that    *)
(* authenticate with a token (authenticate_repository of application.py).  *)
(*                                                                         *)
(* Each statement of a READ COMMITTED transaction is a step, and one that  *)
(* waits for a row or for a unique index is enabled when the other         *)
(* transaction has ended.  All tokens of this module have one name; a      *)
(* token is identified with the command that issues it.                    *)
(***************************************************************************)
EXTENDS Migrate

CONSTANTS Create,     \* executions of `wheelguard token create`
          Revoke,     \* executions of `wheelguard token revoke`
          Replica,    \* replicas of the service
          Use,        \* requests to the repository
          NoToken

ASSUME RequestsAssumption ==
    /\ Create \cap Revoke = {}
    /\ NoToken \notin Create

\* The files that create the tables.
Initial == 1           \* 0001_initial.sql: projects, policy_audit
TokenTable == 2        \* 0002_repository_tokens.sql

VARIABLES
    active,      \* repository_tokens with revoked_at IS NULL
    revoked,     \* the others
    audit,       \* policy_audit
    step,        \* where a command is
    target,      \* the row a revocation selected
    told,        \* commands that have reported success
    running,     \* replicas that have started
    upc,         \* where a request is
    presented,   \* its token
    outBefore    \* history: tokens that were reported revoked when it began

Command == Create \cup Revoke

rows == <<active, revoked, audit>>
commands == <<step, target, told>>
requests == <<running, upc, presented, outBefore>>
tokenVars == <<rows, commands, requests>>
vars == <<migrateVars, tokenVars>>

Created(c) == [event |-> "repository-token.created", token |-> c]
Revoked(c) == [event |-> "repository-token.revoked", token |-> c]

TokensTypeOK ==
    /\ active \subseteq Create
    /\ revoked \subseteq Create
    /\ audit \subseteq [event : {"repository-token.created", "repository-token.revoked"}, token : Create]
    /\ step \in [Command -> {"idle", "lock", "commit", "ended"}]
    /\ target \in [Revoke -> Create \cup {NoToken}]
    /\ told \subseteq Command
    /\ running \subseteq Replica
    /\ upc \in [Use -> {"idle", "query", "matched", "authenticated", "ended"}]
    /\ presented \in [Use -> Create \cup {NoToken}]
    /\ outBefore \in [Use -> SUBSET Create]

TokensInit ==
    /\ active = {}
    /\ revoked = {}
    /\ audit = {}
    /\ step = [c \in Command |-> "idle"]
    /\ target = [v \in Revoke |-> NoToken]
    /\ told = {}
    /\ running = {}
    /\ upc = [u \in Use |-> "idle"]
    /\ presented = [u \in Use |-> NoToken]
    /\ outBefore = [u \in Use |-> {}]

HasTable(file) == file \in {schema[i] : i \in DOMAIN schema}

\* The command ends, with an error unless it reports success; the connection is
\* closed, and what was not committed is gone.
Succeed(c) == /\ step' = [step EXCEPT ![c] = "ended"]
              /\ told' = told \cup {c}
              /\ UNCHANGED target

GiveUp(c) == /\ step' = [step EXCEPT ![c] = "ended"]
             /\ target' = [v \in Revoke |-> IF v = c THEN NoToken ELSE target[v]]
             /\ UNCHANGED told

-----------------------------------------------------------------------------
(* wheelguard token create *)

\* The INSERT waits while another transaction has inserted the name or has
\* updated the row that has it, and then fails if an active row has it.
InsertToken(c) ==
    /\ step[c] = "idle"
    /\ \A d \in Command \ {c} : step[d] # "commit"
    /\ IF ~HasTable(TokenTable) \/ active # {} THEN GiveUp(c)
       ELSE step' = [step EXCEPT ![c] = "commit"] /\ UNCHANGED <<target, told>>
    /\ UNCHANGED <<migrateVars, rows, requests>>

CommitCreate(c) == /\ active' = active \cup {c}
                   /\ audit' = audit \cup {Created(c)}
                   /\ UNCHANGED revoked

\* The plaintext is printed, and kept nowhere else.
Create_(c) == /\ step[c] = "commit"
              /\ CommitCreate(c)
              /\ Succeed(c)
              /\ UNCHANGED <<migrateVars, requests>>

\* The commit took effect and its answer was lost: nobody knows the token.
CreateLost(c) == /\ step[c] = "commit"
                 /\ CommitCreate(c)
                 /\ GiveUp(c)
                 /\ UNCHANGED <<migrateVars, requests>>

-----------------------------------------------------------------------------
(* wheelguard token revoke *)

\* The UPDATE selects on the snapshot it starts with.
SelectToken(v) ==
    /\ step[v] = "idle"
    /\ IF ~HasTable(TokenTable) \/ active = {} THEN GiveUp(v)
       ELSE /\ step' = [step EXCEPT ![v] = "lock"]
            /\ \E c \in active : target' = [target EXCEPT ![v] = c]
            /\ UNCHANGED told
    /\ UNCHANGED <<migrateVars, rows, requests>>

\* Mutant: the row is locked by a SELECT before it, and not looked at again.
UpdateAsSelected(v) ==
    /\ step[v] = "lock"
    /\ \A w \in Revoke \ {v} : step[w] = "commit" => target[w] # target[v]
    /\ step' = [step EXCEPT ![v] = "commit"]
    /\ UNCHANGED <<migrateVars, rows, target, told, requests>>

\* It waits for the row, and looks at its condition again.
UpdateToken(v) ==
    /\ step[v] = "lock"
    /\ \A w \in Revoke \ {v} : step[w] = "commit" => target[w] # target[v]
    /\ IF target[v] \in active
       THEN step' = [step EXCEPT ![v] = "commit"] /\ UNCHANGED <<target, told>>
       ELSE GiveUp(v)
    /\ UNCHANGED <<migrateVars, rows, requests>>

CommitRevoke(v) == /\ active' = active \ {target[v]}
                   /\ revoked' = revoked \cup {target[v]}
                   /\ audit' = audit \cup {Revoked(target[v])}

\* Mutant: nothing commits before the connection is closed.
RevokeUncommitted(v) == /\ step[v] = "commit"
                        /\ Succeed(v)
                        /\ UNCHANGED <<migrateVars, rows, requests>>

Revoke_(v) == /\ step[v] = "commit"
              /\ CommitRevoke(v)
              /\ Succeed(v)
              /\ UNCHANGED <<migrateVars, requests>>

RevokeLost(v) == /\ step[v] = "commit"
                 /\ CommitRevoke(v)
                 /\ GiveUp(v)
                 /\ UNCHANGED <<migrateVars, requests>>

\* A statement fails, or the command is killed.
CommandFails(c) == /\ step[c] \notin {"idle", "ended"}
                   /\ GiveUp(c)
                   /\ UNCHANGED <<migrateVars, rows, requests>>

-----------------------------------------------------------------------------
(* The service *)

\* Mutant: only the tables of the first file are looked for.
StartUnchecked(r) == /\ r \notin running
                     /\ HasTable(Initial)
                     /\ running' = running \cup {r}
                     /\ UNCHANGED <<migrateVars, rows, commands, upc, presented, outBefore>>

\* initialize: a replica starts when `projects` and `repository_tokens` exist.
Start(r) == /\ r \notin running
            /\ HasTable(Initial) /\ HasTable(TokenTable)
            /\ running' = running \cup {r}
            /\ UNCHANGED <<migrateVars, rows, commands, upc, presented, outBefore>>

\* A client presents a token that some create printed.
Arrive(u) == /\ upc[u] = "idle"
             /\ running # {}
             /\ \E c \in Create \cap told : presented' = [presented EXCEPT ![u] = c]
             /\ upc' = [upc EXCEPT ![u] = "query"]
             /\ outBefore' = [outBefore EXCEPT ![u] = {target[v] : v \in Revoke \cap told}]
             /\ UNCHANGED <<migrateVars, rows, commands, running>>

EndUse(u) == /\ upc' = [upc EXCEPT ![u] = "ended"]
             /\ presented' = [presented EXCEPT ![u] = NoToken]
             /\ outBefore' = [outBefore EXCEPT ![u] = {}]

\* authenticate_repository_token is one statement; `matched` is what there is
\* in its snapshot.
Match(u) ==
    /\ upc[u] = "query"
    /\ IF presented[u] \in active
       THEN upc' = [upc EXCEPT ![u] = "matched"] /\ UNCHANGED <<presented, outBefore>>
       ELSE EndUse(u)
    /\ UNCHANGED <<migrateVars, rows, commands, running>>

\* `touched` may have waited for a revocation of the row: what was matched is
\* the answer all the same.
Authenticate(u) == /\ upc[u] = "matched"
                   /\ upc' = [upc EXCEPT ![u] = "authenticated"]
                   /\ UNCHANGED <<migrateVars, rows, commands, running, presented, outBefore>>

\* The statement fails, or the response is there.
LeaveUse(u) == /\ upc[u] \notin {"idle", "ended"}
               /\ EndUse(u)
               /\ UNCHANGED <<migrateVars, rows, commands, running>>

TokensNext ==
    \/ \E c \in Create : InsertToken(c) \/ Create_(c) \/ CreateLost(c)
    \/ \E v \in Revoke : SelectToken(v) \/ UpdateToken(v) \/ Revoke_(v) \/ RevokeLost(v)
    \/ \E c \in Command : CommandFails(c)
    \/ \E r \in Replica : Start(r)
    \/ \E u \in Use : Arrive(u) \/ Match(u) \/ Authenticate(u) \/ LeaveUse(u)

Init == MigrateInit /\ TokensInit

Next == (MigrateNext /\ UNCHANGED tokenVars) \/ TokensNext

Spec == Init /\ [][Next]_vars

FairSpec == Spec /\ MigrateFairness

-----------------------------------------------------------------------------
(* Properties *)

\* The audit trail and the table explain each other, whatever commits without
\* being heard of, whoever waits for whom, and however the commands overlap:
\* each row was created once, the revoked are those with an event, at most one
\* is active under the name; and a command that reports success did just that.
TokensExplained ==
    /\ \A c, d \in active : c = d
    /\ active \cap revoked = {}
    /\ {c \in Create : Created(c) \in audit} = active \cup revoked
    /\ {c \in Create : Revoked(c) \in audit} = revoked
    /\ Create \cap told \subseteq active \cup revoked
    /\ \A v, w \in Revoke \cap told : v # w => target[v] # target[w]

\* A revocation that was reported is final: no request that begins after it is
\* authenticated with that token, in any replica.
RevokedStaysOut == \A u \in Use : upc[u] = "authenticated" => presented[u] \notin outBefore[u]

TypeOK == MigrateTypeOK /\ TokensTypeOK

\* Where a replica runs, the statements of its requests find their tables,
\* whatever executions of the job are under way; and every variable has its type.
Consistent == TypeOK /\ (running # {} => HasTable(Initial) /\ HasTable(TokenTable))
=============================================================================
