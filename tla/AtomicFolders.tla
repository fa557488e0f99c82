----------------------------- MODULE AtomicFolders -----------------------------
(***************************************************************************)
(* What the folder handlers promise their clients: every create, rename,   *)
(* move and delete takes effect at one moment, at which its checks hold,   *)
(* as if the sessions ran one at a time.                                   *)
(***************************************************************************)
EXTENDS Folders

Create ==
    \E f \in Folders, n \in Names, p \in Folders \cup {Root} :
        MayCreate(f, n, p) /\ Place(f, n, p)

Update ==
    \E f \in Folders, n \in Names, p \in Folders \cup {Keep} :
        MayUpdate(f, n, p) /\ Place(f, n, NewParent(f, p))

Delete == \E f \in Folders : MayDelete(f) /\ Remove(Subtree(f))

Next == Create \/ Update \/ Delete

Spec == TreeInit /\ [][Next]_<<parent, name>>
================================================================================
