------------------------------ MODULE FolderTree ------------------------------
(***************************************************************************)
(* Sessions that create, rename, move and delete folders concurrently      *)
(* (server/internal/handler/folder.go).  Each handler runs in the          *)
(* middleware's transaction: it reads and checks first, then writes, and   *)
(* the middleware commits.  Between the checks and the write other         *)
(* sessions may commit.  In SQLite the write then fails, its snapshot      *)
(* being stale; in PostgreSQL (READ COMMITTED) it goes ahead.              *)
(***************************************************************************)
EXTENDS Folders

CONSTANTS
    Sessions,  \* clients, each with one request at a time
    Postgres   \* otherwise SQLite

ASSUME SessionsAssumption == Postgres \in BOOLEAN

VARIABLES
    todo,      \* the write each session has checked, or Nothing
    fresh      \* SQLite: nothing was committed since the session's first read

vars == <<parent, name, todo, fresh>>

Nothing == [op |-> "nothing"]
Creates == [op : {"create"}, folder : Folders, name : Names, parent : Folders \cup {Root}]
Updates == [op : {"update"}, folder : Folders, name : Names \cup {Keep},
            parent : Folders \cup {Keep}]
Deletes == [op : {"delete"}, folders : SUBSET Folders]
Writes == Creates \cup Updates \cup Deletes

Init ==
    /\ TreeInit
    /\ todo = [s \in Sessions |-> Nothing]
    /\ fresh = [s \in Sessions |-> FALSE]
------------------------------------------------------------------------------
\* The reads and checks of a handler, which has decided to write w.
Checked(s, w) ==
    /\ todo' = [todo EXCEPT ![s] = w]
    /\ fresh' = [fresh EXCEPT ![s] = TRUE]
    /\ UNCHANGED <<parent, name>>

\* A new id is a random UUID, so no other session is about to use it.
NewId(f) == \A s \in Sessions : todo[s].op = "create" => todo[s].folder # f

CheckCreate(s) ==
    /\ todo[s] = Nothing
    /\ \E f \in Folders, n \in Names, p \in Live \cup {Root} :
           /\ MayCreate(f, n, p) /\ NewId(f)
           /\ Checked(s, [op |-> "create", folder |-> f, name |-> n, parent |-> p])

CheckUpdate(s) ==
    /\ todo[s] = Nothing
    /\ \E f \in Live, n \in Names, p \in Live \cup {Keep} :
           /\ MayUpdate(f, n, p)
           /\ n # name[f] \/ p # Keep
           /\ Checked(s, [op |-> "update", folder |-> f,
                          name |-> IF n = name[f] THEN Keep ELSE n, parent |-> p])

CheckDelete(s) ==
    /\ todo[s] = Nothing
    /\ \E f \in Live :
           /\ MayDelete(f)
           /\ Checked(s, [op |-> "delete", folders |-> Subtree(f)])

\* The write is made and committed.  Nobody sees it before the commit.
CanWrite(s) == Postgres \/ fresh[s]
\* Mutant: a commit that goes unnoticed by the snapshots of the others.
Committed_Unnoticed(s) ==
    /\ todo' = [todo EXCEPT ![s] = Nothing]
    /\ fresh' = [fresh EXCEPT ![s] = FALSE]
Committed(s) ==
    /\ todo' = [todo EXCEPT ![s] = Nothing]
    /\ fresh' = [t \in Sessions |-> FALSE]

CreateFolder(s) ==
    /\ todo[s].op = "create" /\ CanWrite(s)
    /\ Place(todo[s].folder, todo[s].name, todo[s].parent)
    /\ Committed(s)

\* Mutant: a field the body leaves out is written all the same.
UpdateFolder_Blank(s) ==
    /\ todo[s].op = "update" /\ CanWrite(s)
    /\ todo[s].folder \in Live
    /\ Place(todo[s].folder, todo[s].name, parent[todo[s].folder])
    /\ Committed(s)
\* An UPDATE sets only the columns that change; of a row deleted meanwhile it
\* changes nothing, and the reload answers 500.
UpdateFolder(s) ==
    LET w == todo[s] IN
    /\ w.op = "update" /\ CanWrite(s)
    /\ w.folder \in Live
    /\ Place(w.folder, IF w.name = Keep THEN name[w.folder] ELSE w.name,
                       NewParent(w.folder, w.parent))
    /\ Committed(s)

\* Mutant: only the folder itself is deleted.
DeleteFolder_Shallow(s) ==
    /\ todo[s].op = "delete" /\ CanWrite(s)
    /\ \E f \in todo[s].folders : Remove({f})
    /\ Committed(s)
DeleteFolder(s) ==
    /\ todo[s].op = "delete" /\ CanWrite(s)
    /\ Remove(todo[s].folders)
    /\ Committed(s)

\* "database is locked", a row that is gone, or a client that disconnects.
GiveUp(s) ==
    /\ todo[s] # Nothing
    /\ todo' = [todo EXCEPT ![s] = Nothing]
    /\ fresh' = [fresh EXCEPT ![s] = FALSE]
    /\ UNCHANGED <<parent, name>>

Next == \E s \in Sessions :
    \/ CheckCreate(s) \/ CheckUpdate(s) \/ CheckDelete(s)
    \/ CreateFolder(s) \/ UpdateFolder(s) \/ DeleteFolder(s) \/ GiveUp(s)

Spec == Init /\ [][Next]_vars
------------------------------------------------------------------------------
TypeOK ==
    /\ parent \in [Folders -> Folders \cup {Root, Absent}]
    /\ name \in [Folders -> Names]
    /\ todo \in [Sessions -> Writes \cup {Nothing}]
    /\ fresh \in [Sessions -> BOOLEAN]

\* "Moving is guarded against cycles (a folder cannot be its own descendant)":
\* also when two moves, each fine by itself, are checked at the same time.
NoCycle == Acyclic

\* "ensureFolderNameUnique rejects duplicate folder names within a parent":
\* also for names checked at the same time; the table has no such constraint.
NamesUnique == SiblingNames

\* A folder never ends up below one whose subtree is deleted at the same time,
\* where no list would show it again.
NoLostFolder == ParentsLive

\* Every handler checks first and writes in a later statement.  It is still
\* as if it did both at one moment: a rename, move or delete whose checks the
\* commit of another session has overtaken changes nothing.
Atomic == INSTANCE AtomicFolders
ImplementsAtomicFolders == Atomic!Spec
==============================================================================
