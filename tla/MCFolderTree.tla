----------------------------- MODULE MCFolderTree -----------------------------
(* Symmetry for the instances of FolderTree: ids, names and sessions are      *)
(* only ever compared for equality.                                           *)
EXTENDS FolderTree, TLC

Symmetry == Permutations(Folders) \cup Permutations(Names) \cup Permutations(Sessions)
==============================================================================
