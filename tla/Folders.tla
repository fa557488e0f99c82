-------------------------------- MODULE Folders --------------------------------
(***************************************************************************)
(* The folder tree of one tenant (table folders: parent_id, name) and what *)
(* its handlers check and write (server/internal/handler/folder.go,        *)
(* server/internal/store/explorer.go).  FolderTree adds the transactions,  *)
(* Explorer the files.                                                     *)
(***************************************************************************)
CONSTANTS
    Folders,   \* folder ids
    Names,     \* folder names
    Root,      \* parent_id NULL
    Absent,    \* no row
    Keep       \* a column an UPDATE does not set

ASSUME FoldersAssumption ==
    /\ Root \notin Folders
    /\ Absent \notin Folders \cup {Root}
    /\ Keep \notin Folders \cup {Root} \cup Names

VARIABLES
    parent,    \* parent_id of each folder, or Absent
    name       \* name of each folder

TreeInit ==
    /\ parent = [f \in Folders |-> Absent]
    /\ name \in [Folders -> Names]
    /\ \A f, g \in Folders : name[f] = name[g]

Live == {f \in Folders : parent[f] # Absent}

\* FolderSubtree: f and everything below it, the least set that contains f and
\* is closed under children.  On a cycle through f the walk goes round until
\* it has 10000 nodes and fails.
Children(S) == {g \in Folders : parent[g] \in S}
Subtree(f) ==
    {g \in Folders : \A S \in SUBSET Folders : f \in S /\ Children(S) \subseteq S => g \in S}
SubtreeFails(f) == parent[f] \in Subtree(f)

\* ensureFolderNameUnique, for a folder other than f.
NameFree(n, p, f) == \A g \in Live \ {f} : parent[g] = p => name[g] # n

MayCreate(f, n, p) ==
    /\ f \notin Live
    /\ p \in Live \cup {Root}
    /\ NameFree(n, p, f)

\* isDescendant fails closed when the walk fails.
\* Mutant: only the folder itself is excluded, not its subtree.
MayMove_ShallowCheck(f, p) == p \in Live /\ p # f
MayMove(f, p) ==
    /\ p \in Live /\ p # f
    /\ ~SubtreeFails(f) /\ p \notin Subtree(f)

\* The body of an update names a parent or leaves it out (Keep): then the
\* folder stays where it is, and nothing moves a folder back to the root.
NewParent(f, p) == IF p = Keep THEN parent[f] ELSE p

\* Mutant: the new name is looked up where the folder was.
MayUpdate_OldParent(f, n, p) ==
    /\ f \in Live
    /\ p # Keep => MayMove(f, p)
    /\ NameFree(n, parent[f], f)
MayUpdate(f, n, p) ==
    /\ f \in Live
    /\ p # Keep => MayMove(f, p)
    /\ n # name[f] \/ p # Keep => NameFree(n, NewParent(f, p), f)

MayDelete(f) == f \in Live /\ ~SubtreeFails(f)

\* The rows after a folder was created, or its columns were updated.
Place(f, n, p) ==
    /\ parent' = [parent EXCEPT ![f] = p]
    /\ name' = [name EXCEPT ![f] = n]
Remove(D) ==
    /\ parent' = [g \in Folders |-> IF g \in D THEN Absent ELSE parent[g]]
    /\ name' = name

\* No folder is its own ancestor: every set of folders has a way out.
Acyclic == \A S \in SUBSET Live : S # {} => \E f \in S : parent[f] \notin S
\* No folder hangs below one that was deleted.
ParentsLive == \A f \in Live : parent[f] \in Live \cup {Root}
\* Folders of one parent have different names.
SiblingNames ==
    \A f, g \in Live : parent[f] = parent[g] /\ name[f] = name[g] => f = g
==============================================================================
