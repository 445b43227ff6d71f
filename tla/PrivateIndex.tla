---------------------------- MODULE PrivateIndex ----------------------------
(***************************************************************************)
(* What private publishing promises, with every operation a single step:   *)
(* a name is owned from the first file published under it, a file name is  *)
(* bound to its bytes for ever, and a name known to exist on a public      *)
(* index is owned only after an administrator acknowledged the collision.  *)
(* PrivatePackages (D1 and R2) is shown to implement this module.          *)
(***************************************************************************)
CONSTANTS Name, File, Digest, FileName

VARIABLES pending,    \* names with a recorded public collision
          approved,   \* names whose collision an administrator acknowledged
          owned,      \* names served only from private files
          published   \* the bytes a client is given for a file name

vars == <<pending, approved, owned, published>>

Content == [file : File, sha256 : Digest]

Init == /\ pending = {}
        /\ approved = {}
        /\ owned = {}
        /\ published = {}

Collide(n) == /\ n \notin owned \cup approved
              /\ pending' = pending \cup {n}
              /\ UNCHANGED <<approved, owned, published>>

Approve(n) == /\ n \in pending
              /\ approved' = approved \cup {n}
              /\ UNCHANGED <<pending, owned, published>>

Publish(b) == /\ FileName[b.file] \in pending => FileName[b.file] \in approved
              /\ \A p \in published : p.file # b.file
              /\ published' = published \cup {b}
              /\ owned' = owned \cup {FileName[b.file]}
              /\ UNCHANGED <<pending, approved>>

Next == \/ \E n \in Name : Collide(n) \/ Approve(n)
        \/ \E b \in Content : Publish(b)

Spec == Init /\ [][Next]_vars
=============================================================================
