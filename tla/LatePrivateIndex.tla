-------------------------- MODULE LatePrivateIndex --------------------------
(***************************************************************************)
(* PrivateIndex where publishing a file takes two steps: the moment the    *)
(* index decides that it may be published, and the moment it is.  What is  *)
(* recorded in between comes too late for it.  PrivateService (PostgreSQL) *)
(* is shown to implement this module.                                      *)
(***************************************************************************)
CONSTANTS Name, File, Digest, FileName

VARIABLES pending, approved, owned, published,   \* as in PrivateIndex
          decided    \* what may be published from now on

vars == <<pending, approved, owned, published, decided>>

Content == [file : File, sha256 : Digest]

Init == /\ pending = {}
        /\ approved = {}
        /\ owned = {}
        /\ published = {}
        /\ decided = {}

Collide(n) == /\ n \notin owned \cup approved
              /\ pending' = pending \cup {n}
              /\ UNCHANGED <<approved, owned, published, decided>>

Approve(n) == /\ n \in pending
              /\ approved' = approved \cup {n}
              /\ UNCHANGED <<pending, owned, published, decided>>

Decide(b) == /\ FileName[b.file] \in pending => FileName[b.file] \in approved \cup owned
             /\ decided' = decided \cup {b}
             /\ UNCHANGED <<pending, approved, owned, published>>

\* Another publisher may have decided on the same.
Publish(b) == /\ b \in decided
              /\ \A p \in published : p.file # b.file
              /\ published' = published \cup {b}
              /\ owned' = owned \cup {FileName[b.file]}
              /\ decided' \in {decided, decided \ {b}}
              /\ UNCHANGED <<pending, approved>>

Withdraw(b) == /\ decided' = decided \ {b}
               /\ UNCHANGED <<pending, approved, owned, published>>

Next == \/ \E n \in Name : Collide(n) \/ Approve(n)
        \/ \E b \in Content : Decide(b) \/ Publish(b) \/ Withdraw(b)

Spec == Init /\ [][Next]_vars
=============================================================================
