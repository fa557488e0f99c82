--------------------------- MODULE FolderTreeProofs ---------------------------
(***************************************************************************)
(* In SQLite mode the folders of a tenant always form a tree with distinct *)
(* sibling names, for any number of folders, names and sessions.           *)
(***************************************************************************)
EXTENDS FolderTree, TLAPS

TreeInv == NoCycle /\ NoLostFolder /\ NamesUnique

\* What a checked write relies on.
Valid(w) ==
    /\ w.op = "create" => MayCreate(w.folder, w.name, w.parent)
    /\ w.op = "update" =>
           MayUpdate(w.folder, IF w.name = Keep THEN name[w.folder] ELSE w.name, w.parent)
    /\ w.op = "delete" => \E f \in Live : MayDelete(f) /\ w.folders = Subtree(f)

\* A check is good as long as its snapshot is.
ChecksHold == \A s \in Sessions : fresh[s] /\ todo[s] # Nothing => Valid(todo[s])

IInv == TypeOK /\ TreeInv /\ ChecksHold
------------------------------------------------------------------------------
(***************************************************************************)
(* The tree under the three writes.                                        *)
(***************************************************************************)
\* A subtree is closed under children.
LEMMA SubtreeClosed ==
    ASSUME NEW f \in Folders, parent \in [Folders -> Folders \cup {Root, Absent}]
    PROVE  /\ f \in Subtree(f)
           /\ Children(Subtree(f)) \subseteq Subtree(f)
<1>1. f \in Subtree(f)
  BY DEF Subtree
<1>2. ASSUME NEW g \in Children(Subtree(f)) PROVE g \in Subtree(f)
  <2>1. g \in Folders /\ parent[g] \in Subtree(f)
    BY <1>2 DEF Children
  <2>2. ASSUME NEW S \in SUBSET Folders, f \in S, Children(S) \subseteq S
        PROVE  g \in S
    <3>1. parent[g] \in S
      BY <2>1, <2>2 DEF Subtree
    <3>2. g \in Children(S)
      BY <2>1, <3>1 DEF Children
    <3> QED
      BY <2>2, <3>2
  <2> QED
    BY <2>1, <2>2 DEF Subtree
<1> QED
  BY <1>1, <1>2

\* Hanging a folder that is new, or that is not above its new parent, leaves
\* the folders acyclic.
LEMMA PlaceAcyclic ==
    ASSUME parent \in [Folders -> Folders \cup {Root, Absent}],
           NEW f \in Folders, NEW p \in Folders \cup {Root},
           parent' = [parent EXCEPT ![f] = p],
           Acyclic, ParentsLive,
           \/ f \notin Live /\ p # f
           \/ p = parent[f]
           \/ MayMove(f, p)
    PROVE  Acyclic'
<1> USE FoldersAssumption
<1>1. \A g \in Folders \ {f} : parent'[g] = parent[g]
  OBVIOUS
<1>2. parent'[f] = p
  OBVIOUS
<1> SUFFICES ASSUME NEW S \in SUBSET Live', S # {}, \A g \in S : parent'[g] \in S
             PROVE  FALSE
  BY DEF Acyclic
<1>3. S \subseteq Folders /\ S \ {f} \subseteq Live
  BY <1>1 DEF Live
<1>4. CASE f \notin S
  <2>1. S \subseteq Live /\ \A g \in S : parent[g] \in S
    BY <1>1, <1>3, <1>4
  <2> QED
    BY <2>1 DEF Acyclic
<1>5. CASE f \in S
  <2>1. p \in S
    BY <1>2, <1>5
  <2>2. CASE p = parent[f]
    <3>1. f \in Live
      BY <2>2 DEF Live
    <3>2. S \subseteq Live /\ \A g \in S : parent[g] \in S
      BY <1>1, <1>3, <3>1, <2>2, <2>1
    <3> QED
      BY <3>2 DEF Acyclic
  <2>3. CASE f \notin Live /\ p # f
    <3> DEFINE T == S \ {f}
    <3>1. T \in SUBSET Live /\ T # {}
      BY <1>3, <2>1, <2>3
    <3>2. ASSUME NEW g \in T PROVE parent[g] \in T
      <4>1. parent[g] \in S
        BY <1>1, <1>3, <3>2
      <4>2. parent[g] # f
        BY <2>3, <3>1, <3>2 DEF ParentsLive
      <4> QED
        BY <4>1, <4>2
    <3> QED
      BY <3>1, <3>2 DEF Acyclic
  <2>4. CASE MayMove(f, p)
    <3>1. PICK C \in SUBSET Folders : f \in C /\ Children(C) \subseteq C /\ p \notin C
      BY <2>4, <2>1, <1>3 DEF MayMove, Subtree
    <3> DEFINE T == S \ C
    <3>2. T \in SUBSET Live /\ T # {}
      BY <1>3, <2>1, <3>1
    <3>3. ASSUME NEW g \in T PROVE parent[g] \in T
      <4>1. g \in Folders /\ g # f /\ parent[g] \in S
        BY <1>1, <1>3, <3>1, <3>3
      <4>2. parent[g] \notin C
        BY <3>1, <3>3, <4>1 DEF Children
      <4> QED
        BY <4>1, <4>2
    <3> QED
      BY <3>2, <3>3 DEF Acyclic
  <2> QED
    BY <2>2, <2>3, <2>4
<1> QED
  BY <1>4, <1>5

\* It leaves no folder below one that is gone, and siblings distinct.
LEMMA PlaceTree ==
    ASSUME parent \in [Folders -> Folders \cup {Root, Absent}],
           name \in [Folders -> Names],
           NEW f \in Folders, NEW n \in Names, NEW p \in Folders \cup {Root},
           Place(f, n, p), TreeInv,
           \/ MayCreate(f, n, p)
           \/ \E q \in Folders \cup {Keep} : MayUpdate(f, n, q) /\ p = NewParent(f, q)
    PROVE  TreeInv'
<1> USE FoldersAssumption
<1>1. /\ parent' = [parent EXCEPT ![f] = p]
      /\ name' = [name EXCEPT ![f] = n]
  BY DEF Place
<1>2. p # f
  <2>1. CASE MayCreate(f, n, p)
    BY <2>1 DEF MayCreate, Live
  <2>2. CASE \E q \in Folders \cup {Keep} : MayUpdate(f, n, q) /\ p = NewParent(f, q)
    <3>1. f \in Live => parent[f] # f
      <4> SUFFICES ASSUME f \in Live, parent[f] = f PROVE FALSE
        OBVIOUS
      <4>1. {f} \in SUBSET Live /\ {f} # {}
        OBVIOUS
      <4> QED
        BY <4>1 DEF TreeInv, NoCycle, Acyclic
    <3> QED
      BY <2>2, <3>1 DEF MayUpdate, MayMove, NewParent
  <2> QED
    BY <2>1, <2>2
<1>3. p \in Live \cup {Root}
  BY DEF MayCreate, MayUpdate, MayMove, NewParent, TreeInv, NoLostFolder, ParentsLive
<1>4. Live' = Live \cup {f}
  BY <1>1 DEF Live
<1>5. Acyclic'
  <2>1. \/ f \notin Live /\ p # f
        \/ p = parent[f]
        \/ MayMove(f, p)
    BY <1>2 DEF MayCreate, MayUpdate, NewParent
  <2> QED
    BY <1>1, <2>1, PlaceAcyclic DEF TreeInv, NoCycle, NoLostFolder
<1>6. ParentsLive'
  <2> SUFFICES ASSUME NEW g \in Live' PROVE parent'[g] \in Live' \cup {Root}
    BY DEF ParentsLive
  <2> QED
    BY <1>1, <1>3, <1>4 DEF TreeInv, NoLostFolder, ParentsLive, Live
<1>7. SiblingNames'
  <2>1. \/ NameFree(n, p, f)
        \/ f \in Live /\ n = name[f] /\ p = parent[f]
    BY DEF MayCreate, MayUpdate, NewParent
  <2> SUFFICES ASSUME NEW g \in Live', NEW h \in Live',
                      parent'[g] = parent'[h], name'[g] = name'[h]
               PROVE  g = h
    BY DEF SiblingNames
  <2>2. g \in Folders /\ h \in Folders
    BY DEF Live
  <2>3. CASE g # f /\ h # f
    BY <1>1, <1>4, <2>2, <2>3 DEF TreeInv, NamesUnique, SiblingNames
  <2>4. CASE g = f /\ h # f
    BY <1>1, <1>4, <2>1, <2>2, <2>4 DEF TreeInv, NamesUnique, SiblingNames, NameFree
  <2>5. CASE g # f /\ h = f
    BY <1>1, <1>4, <2>1, <2>2, <2>5 DEF TreeInv, NamesUnique, SiblingNames, NameFree
  <2> QED
    BY <2>3, <2>4, <2>5
<1> QED
  BY <1>5, <1>6, <1>7 DEF TreeInv, NoCycle, NoLostFolder, NamesUnique

\* Removing a set of folders with everything below it keeps the tree.
LEMMA RemoveTree ==
    ASSUME parent \in [Folders -> Folders \cup {Root, Absent}],
           NEW D \in SUBSET Folders, Children(D) \subseteq D,
           Remove(D), TreeInv
    PROVE  TreeInv'
<1> USE FoldersAssumption
<1>1. /\ parent' = [g \in Folders |-> IF g \in D THEN Absent ELSE parent[g]]
      /\ name' = name
  BY DEF Remove
<1>2. Live' = Live \ D
  BY <1>1 DEF Live
<1>3. \A g \in Live' : parent'[g] = parent[g]
  BY <1>1, <1>2 DEF Live
<1>4. Acyclic'
  <2> SUFFICES ASSUME NEW S \in SUBSET Live', S # {}
               PROVE  \E g \in S : parent'[g] \notin S
    BY DEF Acyclic
  <2>1. S \in SUBSET Live
    BY <1>2
  <2>2. PICK g \in S : parent[g] \notin S
    BY <2>1 DEF TreeInv, NoCycle, Acyclic
  <2> QED
    BY <1>3, <2>2
<1>5. ParentsLive'
  <2> SUFFICES ASSUME NEW g \in Live' PROVE parent'[g] \in Live' \cup {Root}
    BY DEF ParentsLive
  <2>1. g \in Live /\ g \notin D /\ g \in Folders
    BY <1>2 DEF Live
  <2>2. parent[g] \notin D
    BY <2>1 DEF Children
  <2> QED
    BY <1>2, <1>3, <2>1, <2>2 DEF TreeInv, NoLostFolder, ParentsLive
<1>6. SiblingNames'
  BY <1>1, <1>2, <1>3 DEF TreeInv, NamesUnique, SiblingNames
<1> QED
  BY <1>4, <1>5, <1>6 DEF TreeInv, NoCycle, NoLostFolder, NamesUnique
------------------------------------------------------------------------------
(***************************************************************************)
(* The sessions.                                                           *)
(***************************************************************************)
\* A session that starts with nothing, or keeps its write, keeps its checks.
LEMMA TodoKinds ==
    ASSUME TypeOK, NEW s \in Sessions
    PROVE  /\ todo[s].op = "create" => todo[s] \in Creates
           /\ todo[s].op = "update" => todo[s] \in Updates
           /\ todo[s].op = "delete" => todo[s] \in Deletes
BY DEF TypeOK, Writes, Creates, Updates, Deletes, Nothing

\* A checking step: the write it decides on is well typed and valid now.
LEMMA CheckStep ==
    ASSUME IInv, NEW s \in Sessions, NEW w \in Writes, Valid(w), Checked(s, w)
    PROVE  IInv'
<1>1. /\ todo' = [todo EXCEPT ![s] = w]
      /\ fresh' = [fresh EXCEPT ![s] = TRUE]
      /\ UNCHANGED <<parent, name>>
  BY DEF Checked
<1>2. TypeOK'
  BY <1>1 DEF IInv, TypeOK
<1>3. TreeInv'
  BY <1>1 DEF IInv, TreeInv, NoCycle, NoLostFolder, NamesUnique, Acyclic,
              ParentsLive, SiblingNames, Live
<1>4. fresh' = [fresh EXCEPT ![s] = TRUE] /\ todo' = [todo EXCEPT ![s] = w]
      /\ fresh \in [Sessions -> BOOLEAN] /\ todo \in [Sessions -> Writes \cup {Nothing}]
  BY <1>1 DEF IInv, TypeOK
<1>5. ChecksHold'
  <2> SUFFICES ASSUME NEW t \in Sessions
               PROVE  (fresh[t] /\ todo[t] # Nothing => Valid(todo[t]))'
    BY DEF ChecksHold
  <2>1. CASE t = s
    <3>1. todo'[t] = w
      BY <1>4, <2>1
    <3> QED
      BY <1>1, <3>1 DEF Valid, MayCreate, MayUpdate, MayMove, MayDelete, SubtreeFails,
                        Subtree, NewParent, Children, NameFree, Live
  <2>2. CASE t # s
    <3>1. todo'[t] = todo[t] /\ fresh'[t] = fresh[t]
      BY <1>4, <2>2
    <3>2. fresh[t] /\ todo[t] # Nothing => Valid(todo[t])
      BY DEF IInv, ChecksHold
    <3> QED
      BY <1>1, <3>1, <3>2 DEF Valid, MayCreate, MayUpdate, MayMove, MayDelete,
                              SubtreeFails, Subtree, NewParent, Children, NameFree, Live
  <2> QED
    BY <2>1, <2>2
<1> QED
  BY <1>2, <1>3, <1>5 DEF IInv

\* A committing step: it only has to leave a tree, no snapshot survives it.
LEMMA CommitStep ==
    ASSUME IInv, NEW s \in Sessions, Committed(s), TreeInv',
           parent' \in [Folders -> Folders \cup {Root, Absent}],
           name' \in [Folders -> Names]
    PROVE  IInv'
<1>1. TypeOK'
  BY DEF IInv, TypeOK, Committed
<1>2. ChecksHold'
  BY DEF Committed, ChecksHold
<1> QED
  BY <1>1, <1>2 DEF IInv

\* Every step of a session in SQLite mode.
LEMMA TreeStep ==
    ASSUME ~Postgres, IInv, [Next]_vars
    PROVE  IInv'
<1> USE FoldersAssumption, SessionsAssumption DEF IInv
<1>1. CASE UNCHANGED vars
  <2>1. TypeOK'
    BY <1>1 DEF vars, TypeOK
  <2>2. TreeInv'
    BY <1>1 DEF vars, TreeInv, NoCycle, NoLostFolder, NamesUnique, Acyclic,
                ParentsLive, SiblingNames, Live
  <2>3. ChecksHold'
    BY <1>1 DEF vars, ChecksHold, Valid, MayCreate, MayUpdate, MayMove,
                MayDelete, SubtreeFails, Subtree, NewParent, Children, NameFree, Live
  <2> QED
    BY <2>1, <2>2, <2>3
<1>2. ASSUME NEW s \in Sessions, CheckCreate(s) PROVE IInv'
  <2>1. PICK f \in Folders, n \in Names, p \in Live \cup {Root} :
            /\ MayCreate(f, n, p)
            /\ Checked(s, [op |-> "create", folder |-> f, name |-> n, parent |-> p])
    BY <1>2 DEF CheckCreate
  <2> DEFINE w == [op |-> "create", folder |-> f, name |-> n, parent |-> p]
  <2>2. w \in Writes
    BY DEF Writes, Creates, Live
  <2>3. Valid(w)
    BY <2>1 DEF Valid
  <2> QED
    BY <2>1, <2>2, <2>3, CheckStep
<1>3. ASSUME NEW s \in Sessions, CheckUpdate(s) PROVE IInv'
  <2>1. PICK f \in Live, n \in Names, p \in Live \cup {Keep} :
            /\ MayUpdate(f, n, p)
            /\ Checked(s, [op |-> "update", folder |-> f,
                           name |-> IF n = name[f] THEN Keep ELSE n, parent |-> p])
    BY <1>3 DEF CheckUpdate
  <2> DEFINE w == [op |-> "update", folder |-> f,
                   name |-> IF n = name[f] THEN Keep ELSE n, parent |-> p]
  <2>2. f \in Folders /\ p \in Folders \cup {Keep}
    BY DEF Live
  <2>3. w \in Writes
    BY <2>2 DEF Writes, Updates
  <2>4. Valid(w)
    <3>1. n = IF w.name = Keep THEN name[f] ELSE w.name
      OBVIOUS
    <3> QED
      BY <2>1, <3>1 DEF Valid
  <2> QED
    BY <2>1, <2>3, <2>4, CheckStep
<1>4. ASSUME NEW s \in Sessions, CheckDelete(s) PROVE IInv'
  <2>1. PICK f \in Live :
            /\ MayDelete(f)
            /\ Checked(s, [op |-> "delete", folders |-> Subtree(f)])
    BY <1>4 DEF CheckDelete
  <2> DEFINE w == [op |-> "delete", folders |-> Subtree(f)]
  <2>2. w \in Writes
    BY DEF Writes, Deletes, Subtree
  <2>3. Valid(w)
    BY <2>1 DEF Valid
  <2> QED
    BY <2>1, <2>2, <2>3, CheckStep
<1>5. ASSUME NEW s \in Sessions, CreateFolder(s) PROVE IInv'
  <2>1. todo[s] \in Creates /\ fresh[s] /\ Committed(s)
        /\ Place(todo[s].folder, todo[s].name, todo[s].parent)
    BY <1>5, TodoKinds DEF CreateFolder, CanWrite
  <2>2. MayCreate(todo[s].folder, todo[s].name, todo[s].parent)
    BY <1>5, <2>1 DEF ChecksHold, Valid, CreateFolder, Nothing
  <2>3. TreeInv'
    BY <2>1, <2>2, PlaceTree DEF TypeOK, Creates
  <2>4. /\ parent' \in [Folders -> Folders \cup {Root, Absent}]
        /\ name' \in [Folders -> Names]
    BY <2>1 DEF TypeOK, Creates, Place
  <2> QED
    BY <2>1, <2>3, <2>4, CommitStep
<1>6. ASSUME NEW s \in Sessions, UpdateFolder(s) PROVE IInv'
  <2> DEFINE f == todo[s].folder
             n == IF todo[s].name = Keep THEN name[f] ELSE todo[s].name
             q == todo[s].parent
             p == NewParent(f, q)
  <2>1. todo[s] \in Updates /\ fresh[s] /\ Committed(s) /\ Place(f, n, p) /\ f \in Live
    BY <1>6, TodoKinds DEF UpdateFolder, CanWrite
  <2>2. MayUpdate(f, n, q)
    BY <1>6, <2>1 DEF ChecksHold, Valid, UpdateFolder, Nothing
  <2>3. f \in Folders /\ n \in Names /\ q \in Folders \cup {Keep}
        /\ p \in Folders \cup {Root}
    BY <2>1 DEF TypeOK, Updates, Live, NewParent
  <2>4. p = NewParent(f, q)
    OBVIOUS
  <2> HIDE DEF f, n, p, q
  <2>5. TreeInv'
    BY <2>1, <2>2, <2>3, <2>4, PlaceTree DEF TypeOK
  <2>6. /\ parent' \in [Folders -> Folders \cup {Root, Absent}]
        /\ name' \in [Folders -> Names]
    BY <2>1, <2>3 DEF TypeOK, Place
  <2> QED
    BY <2>1, <2>5, <2>6, CommitStep
<1>7. ASSUME NEW s \in Sessions, DeleteFolder(s) PROVE IInv'
  <2>1. todo[s] \in Deletes /\ fresh[s] /\ Committed(s) /\ Remove(todo[s].folders)
    BY <1>7, TodoKinds DEF DeleteFolder, CanWrite
  <2>2. Children(todo[s].folders) \subseteq todo[s].folders
    <3>1. PICK f \in Live : todo[s].folders = Subtree(f)
      BY <1>7, <2>1 DEF ChecksHold, Valid, DeleteFolder, Nothing
    <3>2. f \in Folders /\ parent \in [Folders -> Folders \cup {Root, Absent}]
      BY DEF Live, TypeOK
    <3> QED
      BY <3>1, <3>2, SubtreeClosed
  <2>3. TreeInv'
    BY <2>1, <2>2, RemoveTree DEF TypeOK, Deletes
  <2>4. /\ parent' \in [Folders -> Folders \cup {Root, Absent}]
        /\ name' \in [Folders -> Names]
    BY <2>1 DEF TypeOK, Remove
  <2> QED
    BY <2>1, <2>3, <2>4, CommitStep
<1>8. ASSUME NEW s \in Sessions, GiveUp(s) PROVE IInv'
  <2>1. TypeOK'
    BY <1>8 DEF GiveUp, TypeOK
  <2>2. TreeInv'
    BY <1>8 DEF GiveUp, TreeInv, NoCycle, NoLostFolder, NamesUnique, Acyclic,
                ParentsLive, SiblingNames, Live
  <2>3. \A v : Valid(v) => Valid(v)'
    BY <1>8 DEF GiveUp, Valid, MayCreate, MayUpdate, MayMove, MayDelete, SubtreeFails,
                Subtree, NewParent, Children, NameFree, Live
  <2>4. ChecksHold'
    BY <1>8, <2>3 DEF GiveUp, ChecksHold, TypeOK
  <2> QED
    BY <2>1, <2>2, <2>4
<1> QED
  BY <1>1, <1>2, <1>3, <1>4, <1>5, <1>6, <1>7, <1>8 DEF Next

\* The atomic specification makes the checks and the writes of Folders.
LEMMA AtomicOperators ==
    ASSUME NEW f, NEW n, NEW p
    PROVE  /\ MayCreate(f, n, p) => Atomic!MayCreate(f, n, p)
           /\ MayUpdate(f, n, p) => Atomic!MayUpdate(f, n, p)
           /\ MayDelete(f) => Atomic!MayDelete(f)
           /\ Place(f, n, p) => Atomic!Place(f, n, p)
           /\ NewParent(f, p) = Atomic!NewParent(f, p)
           /\ Remove(Subtree(f)) => Atomic!Remove(Atomic!Subtree(f))
<1> USE DEF Live, Atomic!Live, NameFree, Atomic!NameFree, NewParent, Atomic!NewParent,
            Subtree, Atomic!Subtree, Children, Atomic!Children, SubtreeFails,
            Atomic!SubtreeFails
<1>1. MayCreate(f, n, p) => Atomic!MayCreate(f, n, p)
  BY DEF MayCreate, Atomic!MayCreate
<1>2. MayUpdate(f, n, p) => Atomic!MayUpdate(f, n, p)
  BY DEF MayUpdate, Atomic!MayUpdate, MayMove, Atomic!MayMove
<1>3. MayDelete(f) => Atomic!MayDelete(f)
  BY DEF MayDelete, Atomic!MayDelete
<1>4. /\ Place(f, n, p) => Atomic!Place(f, n, p)
      /\ Remove(Subtree(f)) => Atomic!Remove(Atomic!Subtree(f))
      /\ NewParent(f, p) = Atomic!NewParent(f, p)
  BY DEF Place, Atomic!Place, Remove, Atomic!Remove
<1> QED
  BY <1>1, <1>2, <1>3, <1>4

\* In SQLite mode the write of a session is one the atomic specification allows
\* at the moment of its commit; every other step leaves the two columns alone.
LEMMA AtomicStep ==
    ASSUME ~Postgres, IInv, [Next]_vars
    PROVE  [Atomic!Next]_<<parent, name>>
<1> USE FoldersAssumption, SessionsAssumption DEF IInv
<1> SUFFICES ASSUME NEW s \in Sessions, CreateFolder(s) \/ UpdateFolder(s) \/ DeleteFolder(s)
             PROVE  Atomic!Next
  BY DEF Next, CheckCreate, CheckUpdate, CheckDelete, Checked, GiveUp, vars
<1>1. Valid(todo[s]) /\ fresh[s]
  BY DEF ChecksHold, CreateFolder, UpdateFolder, DeleteFolder, CanWrite, Nothing
<1>2. CASE CreateFolder(s)
  <2>1. todo[s] \in Creates /\ Place(todo[s].folder, todo[s].name, todo[s].parent)
    BY <1>2, TodoKinds DEF CreateFolder
  <2>2. MayCreate(todo[s].folder, todo[s].name, todo[s].parent)
    BY <1>1, <1>2 DEF Valid, CreateFolder
  <2>3. Atomic!Create
    BY <2>1, <2>2, AtomicOperators DEF Atomic!Create, Creates
  <2> QED
    BY <2>3 DEF Atomic!Next
<1>3. CASE UpdateFolder(s)
  <2> DEFINE f == todo[s].folder
             n == IF todo[s].name = Keep THEN name[f] ELSE todo[s].name
             p == todo[s].parent
  <2>1. todo[s] \in Updates /\ Place(f, n, NewParent(f, p))
    BY <1>3, TodoKinds DEF UpdateFolder
  <2>2. MayUpdate(f, n, p)
    BY <1>1, <1>3 DEF Valid, UpdateFolder
  <2>3. f \in Folders /\ n \in Names /\ p \in Folders \cup {Keep}
    BY <2>1 DEF TypeOK, Updates
  <2> HIDE DEF f, n, p
  <2>4. Atomic!Update
    BY <2>1, <2>2, <2>3, AtomicOperators DEF Atomic!Update
  <2> QED
    BY <2>4 DEF Atomic!Next
<1>4. CASE DeleteFolder(s)
  <2>1. PICK f \in Live : MayDelete(f) /\ todo[s].folders = Subtree(f)
    BY <1>1, <1>4 DEF Valid, DeleteFolder
  <2>2. Remove(Subtree(f)) /\ f \in Folders
    BY <1>4, <2>1 DEF DeleteFolder, Live
  <2>3. Atomic!Delete
    BY <2>1, <2>2, AtomicOperators DEF Atomic!Delete
  <2> QED
    BY <2>3 DEF Atomic!Next
<1> QED
  BY <1>2, <1>3, <1>4

\* An empty tenant is a tree, and nobody has checked anything.
LEMMA InitTree == Init => IInv
<1> SUFFICES ASSUME Init PROVE IInv
  OBVIOUS
<1> USE FoldersAssumption
<1>1. TypeOK
  BY DEF Init, TreeInit, TypeOK
<1>2. Live = {}
  BY DEF Init, TreeInit, Live
<1>3. TreeInv
  BY <1>2 DEF TreeInv, NoCycle, NoLostFolder, NamesUnique, Acyclic, ParentsLive,
              SiblingNames
<1>4. ChecksHold
  BY DEF Init, ChecksHold
<1> QED
  BY <1>1, <1>3, <1>4 DEF IInv

\* In SQLite mode no interleaving of creates, renames, moves and deletes makes
\* a cycle, loses a folder below a deleted one, or gives two siblings one name:
\* the checks are only ever read, the stale snapshot is what protects them.
THEOREM TreeCorrect ==
    ASSUME ~Postgres
    PROVE  Spec => [](TypeOK /\ NoCycle /\ NoLostFolder /\ NamesUnique)
<1>1. Init => IInv
  BY InitTree
<1>2. IInv /\ [Next]_vars => IInv'
  BY TreeStep
<1>3. IInv => TypeOK /\ NoCycle /\ NoLostFolder /\ NamesUnique
  BY DEF IInv, TreeInv
<1> QED
  BY <1>1, <1>2, <1>3, PTL DEF Spec

\* Siblings have distinct names, although only a count before the write says so.
COROLLARY SiblingsDistinct ==
    ASSUME ~Postgres
    PROVE  Spec => []NamesUnique
<1>1. Spec => [](TypeOK /\ NoCycle /\ NoLostFolder /\ NamesUnique)
  BY TreeCorrect
<1> QED
  BY <1>1, PTL

\* No folder ends up below a deleted one.
COROLLARY FoldersKeepParents ==
    ASSUME ~Postgres
    PROVE  Spec => []NoLostFolder
<1>1. Spec => [](TypeOK /\ NoCycle /\ NoLostFolder /\ NamesUnique)
  BY TreeCorrect
<1> QED
  BY <1>1, PTL

\* In SQLite mode check-then-write is atomic: every behaviour of the sessions,
\* however their checks and writes interleave, is one of handlers that run one
\* at a time.
THEOREM FoldersAtomic ==
    ASSUME ~Postgres
    PROVE  Spec => ImplementsAtomicFolders
<1>1. Init => TreeInit /\ IInv
  BY InitTree DEF Init
<1>2. IInv /\ [Next]_vars => IInv'
  BY TreeStep
<1>3. IInv /\ [Next]_vars => [Atomic!Next]_<<parent, name>>
  BY AtomicStep
<1> QED
  BY <1>1, <1>2, <1>3, PTL DEF Spec, ImplementsAtomicFolders, Atomic!Spec, Atomic!TreeInit,
     TreeInit
------------------------------------------------------------------------------
(***************************************************************************)
(* In either database.                                                     *)
(***************************************************************************)
\* A check decides on a write that is well typed; a write, valid or not, leaves
\* a column of folder ids and one of names.
LEMMA TypeStep ==
    ASSUME TypeOK, [Next]_vars
    PROVE  TypeOK'
<1> USE FoldersAssumption, SessionsAssumption DEF TypeOK
<1>1. CASE UNCHANGED vars
  BY <1>1 DEF vars
<1>2. ASSUME NEW s \in Sessions, NEW w \in Writes, Checked(s, w) PROVE TypeOK'
  BY <1>2 DEF Checked
<1>3. ASSUME NEW s \in Sessions, CheckCreate(s) PROVE TypeOK'
  <2>1. PICK f \in Folders, n \in Names, p \in Live \cup {Root} :
            Checked(s, [op |-> "create", folder |-> f, name |-> n, parent |-> p])
    BY <1>3 DEF CheckCreate
  <2>2. [op |-> "create", folder |-> f, name |-> n, parent |-> p] \in Writes
    BY DEF Writes, Creates, Live
  <2> QED
    BY <1>2, <2>1, <2>2
<1>4. ASSUME NEW s \in Sessions, CheckUpdate(s) PROVE TypeOK'
  <2>1. PICK f \in Live, n \in Names, p \in Live \cup {Keep} :
            Checked(s, [op |-> "update", folder |-> f,
                        name |-> IF n = name[f] THEN Keep ELSE n, parent |-> p])
    BY <1>4 DEF CheckUpdate
  <2>2. [op |-> "update", folder |-> f,
         name |-> IF n = name[f] THEN Keep ELSE n, parent |-> p] \in Writes
    BY DEF Writes, Updates, Live
  <2> QED
    BY <1>2, <2>1, <2>2
<1>5. ASSUME NEW s \in Sessions, CheckDelete(s) PROVE TypeOK'
  <2>1. PICK f \in Live : Checked(s, [op |-> "delete", folders |-> Subtree(f)])
    BY <1>5 DEF CheckDelete
  <2>2. [op |-> "delete", folders |-> Subtree(f)] \in Writes
    BY DEF Writes, Deletes, Subtree
  <2> QED
    BY <1>2, <2>1, <2>2
<1>6. ASSUME NEW s \in Sessions, CreateFolder(s) PROVE TypeOK'
  <2>1. todo[s] \in Creates
    BY <1>6, TodoKinds DEF CreateFolder
  <2> QED
    BY <1>6, <2>1 DEF CreateFolder, Creates, Place, Committed
<1>7. ASSUME NEW s \in Sessions, UpdateFolder(s) PROVE TypeOK'
  <2>1. todo[s] \in Updates
    BY <1>7, TodoKinds DEF UpdateFolder
  <2>2. /\ todo[s].folder \in Folders
        /\ NewParent(todo[s].folder, todo[s].parent) \in Folders \cup {Root, Absent}
        /\ todo[s].name # Keep => todo[s].name \in Names
    BY <2>1 DEF Updates, NewParent
  <2> QED
    BY <1>7, <2>2 DEF UpdateFolder, Place, Committed
<1>8. ASSUME NEW s \in Sessions, DeleteFolder(s) PROVE TypeOK'
  BY <1>8 DEF DeleteFolder, Remove, Committed
<1>9. ASSUME NEW s \in Sessions, GiveUp(s) PROVE TypeOK'
  BY <1>9 DEF GiveUp
<1> QED
  BY <1>1, <1>3, <1>4, <1>5, <1>6, <1>7, <1>8, <1>9 DEF Next

\* Whatever goes wrong with the shape of the tree in PostgreSQL mode, the table
\* and the sessions stay well formed in both databases.
THEOREM TreeTyped == Spec => []TypeOK
<1>1. Init => TypeOK
  BY FoldersAssumption DEF Init, TreeInit, TypeOK
<1>2. TypeOK /\ [Next]_vars => TypeOK'
  BY TypeStep
<1> QED
  BY <1>1, <1>2, PTL DEF Spec
------------------------------------------------------------------------------
(***************************************************************************)
(* What becomes of the cycle two moves can form in PostgreSQL mode.        *)
(***************************************************************************)
\* A set of folders each of which is below itself: a cycle.
Circle(C) == C # {} /\ \A f \in C : parent[f] \in C /\ SubtreeFails(f)

\* The write w neither moves nor removes a folder of C.
Spares(w, C) ==
    /\ w.op = "create" => w.folder \notin C
    /\ w.op = "update" => w.folder \notin C \/ w.parent = Keep
    /\ w.op = "delete" => w.folders \cap C = {}
NoWriteUnderWay(C) == \A s \in Sessions : Spares(todo[s], C)

\* As long as its own rows stay, whatever else changes, a cycle is a cycle: the
\* walk down from one of its folders goes through the others.
LEMMA CircleKept ==
    ASSUME NEW C \in SUBSET Folders, Circle(C), \A f \in C : parent'[f] = parent[f]
    PROVE  Circle(C)'
<1> SUFFICES ASSUME NEW f \in C,
                    NEW S \in SUBSET Folders, f \in S,
                    {g \in Folders : parent'[g] \in S} \subseteq S
             PROVE  parent[f] \in S
  <2>1. \A f \in C : parent'[f] = parent[f] /\ parent[f] \in C
    BY DEF Circle
  <2>2. C # {}
    BY DEF Circle
  <2> QED
    BY <2>1, <2>2 DEF Circle, SubtreeFails, Subtree, Children
<1> DEFINE T == S \cup (Folders \ C)
<1>1. parent[f] \in Subtree(f) /\ parent[f] \in C
  BY DEF Circle, SubtreeFails
<1>2. Children(T) \subseteq T
  <2> SUFFICES ASSUME NEW x \in C, parent[x] \in T PROVE x \in S
    BY DEF Children
  <2>1. parent'[x] \in S
    BY DEF Circle
  <2> QED
    BY <2>1
<1>3. parent[f] \in T
  <2>1. T \in SUBSET Folders /\ f \in T
    OBVIOUS
  <2> HIDE DEF T
  <2> QED
    BY <1>1, <1>2, <2>1 DEF Subtree
<1> QED
  BY <1>1, <1>3

\* The folders of a cycle are below none that is not one of them.
LEMMA OutsideCircle ==
    ASSUME NEW C \in SUBSET Folders, Circle(C), NEW f \in Folders \ C
    PROVE  Subtree(f) \cap C = {}
<1> DEFINE S == Folders \ C
<1>1. S \in SUBSET Folders /\ f \in S /\ Children(S) \subseteq S
  BY DEF Circle, Children
<1>2. Subtree(f) \subseteq S
  BY <1>1 DEF Subtree
<1> QED
  BY <1>2

\* The checks of every handler refuse to take a cycle apart.
LEMMA ChecksSpare ==
    ASSUME TypeOK, NEW C \in SUBSET Folders, Circle(C), NEW s \in Sessions,
           CheckCreate(s) \/ CheckUpdate(s) \/ CheckDelete(s)
    PROVE  Spares(todo'[s], C)
<1> USE FoldersAssumption DEF TypeOK
<1>1. C \subseteq Live
  BY DEF Circle, Live
<1>2. CASE CheckCreate(s)
  <2>1. PICK f \in Folders, n \in Names, p \in Live \cup {Root} :
            /\ MayCreate(f, n, p)
            /\ Checked(s, [op |-> "create", folder |-> f, name |-> n, parent |-> p])
    BY <1>2 DEF CheckCreate
  <2>2. todo'[s] = [op |-> "create", folder |-> f, name |-> n, parent |-> p]
    BY <2>1 DEF Checked
  <2> QED
    BY <1>1, <2>1, <2>2 DEF MayCreate, Spares
<1>3. CASE CheckUpdate(s)
  <2>1. PICK f \in Live, n \in Names, p \in Live \cup {Keep} :
            /\ MayUpdate(f, n, p)
            /\ Checked(s, [op |-> "update", folder |-> f,
                           name |-> IF n = name[f] THEN Keep ELSE n, parent |-> p])
    BY <1>3 DEF CheckUpdate
  <2>2. todo'[s] = [op |-> "update", folder |-> f,
                    name |-> IF n = name[f] THEN Keep ELSE n, parent |-> p]
    BY <2>1 DEF Checked
  <2>3. f \notin C \/ p = Keep
    BY <2>1 DEF MayUpdate, MayMove, Circle
  <2> QED
    BY <2>2, <2>3 DEF Spares
<1>4. CASE CheckDelete(s)
  <2>1. PICK f \in Live :
            MayDelete(f) /\ Checked(s, [op |-> "delete", folders |-> Subtree(f)])
    BY <1>4 DEF CheckDelete
  <2>2. todo'[s] = [op |-> "delete", folders |-> Subtree(f)]
    BY <2>1 DEF Checked
  <2>3. f \in Folders \ C
    BY <2>1 DEF MayDelete, Circle, Live
  <2> QED
    BY <2>2, <2>3, OutsideCircle DEF Spares
<1> QED
  BY <1>2, <1>3, <1>4

\* A write that spares the cycle leaves its rows alone.
LEMMA WritesSpare ==
    ASSUME TypeOK, NEW C \in SUBSET Folders, Circle(C), NEW s \in Sessions,
           Spares(todo[s], C), CreateFolder(s) \/ UpdateFolder(s) \/ DeleteFolder(s)
    PROVE  \A f \in C : parent'[f] = parent[f]
<1> USE DEF TypeOK
<1>1. CASE CreateFolder(s)
  BY <1>1 DEF CreateFolder, Place, Spares
<1>2. CASE UpdateFolder(s)
  BY <1>2 DEF UpdateFolder, Place, NewParent, Spares
<1>3. CASE DeleteFolder(s)
  BY <1>3 DEF DeleteFolder, Remove, Spares
<1> QED
  BY <1>1, <1>2, <1>3

\* What the run tree_cycle finds is for good: once the writes that were checked
\* before it are through, no sequence of creates, renames, moves and deletes,
\* in either database, takes a cycle apart again or deletes a folder of it.
THEOREM CyclesStay ==
    Spec => [][\A C \in SUBSET Folders :
                  Circle(C) /\ NoWriteUnderWay(C) =>
                      Circle(C)' /\ NoWriteUnderWay(C)']_vars
<1>1. ASSUME TypeOK, [Next]_vars, NEW C \in SUBSET Folders, Circle(C), NoWriteUnderWay(C)
      PROVE  Circle(C)' /\ NoWriteUnderWay(C)'
  <2>1. CASE UNCHANGED vars
    <3>1. Circle(C)'
      BY <1>1, <2>1, CircleKept DEF vars
    <3> QED
      BY <1>1, <2>1, <3>1 DEF vars, NoWriteUnderWay
  <2>2. ASSUME NEW s \in Sessions, CheckCreate(s) \/ CheckUpdate(s) \/ CheckDelete(s)
        PROVE  Circle(C)' /\ NoWriteUnderWay(C)'
    <3>1. parent' = parent /\ \A t \in Sessions \ {s} : todo'[t] = todo[t]
      BY <1>1, <2>2 DEF CheckCreate, CheckUpdate, CheckDelete, Checked, TypeOK
    <3>2. Circle(C)'
      BY <1>1, <3>1, CircleKept
    <3>3. Spares(todo'[s], C)
      BY <1>1, <2>2, ChecksSpare
    <3> QED
      BY <1>1, <3>1, <3>2, <3>3 DEF NoWriteUnderWay
  <2>3. ASSUME NEW s \in Sessions,
               CreateFolder(s) \/ UpdateFolder(s) \/ DeleteFolder(s) \/ GiveUp(s)
        PROVE  Circle(C)' /\ NoWriteUnderWay(C)'
    <3>1. \A f \in C : parent'[f] = parent[f]
      BY <1>1, <2>3, WritesSpare DEF NoWriteUnderWay, GiveUp
    <3>2. Circle(C)'
      BY <1>1, <3>1, CircleKept
    <3>3. \A t \in Sessions : todo'[t] = todo[t] \/ todo'[t] = Nothing
      BY <1>1, <2>3 DEF CreateFolder, UpdateFolder, DeleteFolder, GiveUp, Committed, TypeOK
    <3>4. Spares(Nothing, C)
      BY DEF Spares, Nothing
    <3> QED
      BY <1>1, <3>2, <3>3, <3>4 DEF NoWriteUnderWay
  <2> QED
    BY <1>1, <2>1, <2>2, <2>3 DEF Next
<1>2. TypeOK /\ [Next]_vars =>
         [\A C \in SUBSET Folders :
             Circle(C) /\ NoWriteUnderWay(C) => Circle(C)' /\ NoWriteUnderWay(C)']_vars
  BY <1>1
<1> QED
  BY <1>2, TreeTyped, PTL DEF Spec
==============================================================================
