------------------------------ MODULE MCWebPages ------------------------------
(***************************************************************************)
(* The visits of the TLC run: every operation of every page, alone or with *)
(* the ones it meets in the code.                                          *)
(***************************************************************************)
EXTENDS WebPages, TLC

RowSymmetry == Permutations(Rows)

Visit(pg, ops) == [page |-> pg, ops |-> ops]

Plans ==
  {Visit("files", ops) : ops \in
     {{"createFolder", "dir"}, {"rename", "file"}, {"move", "dir"}, {"delete", "file"},
      {"delete", "dir"}, {"deleteWithFiles", "dir"}, {"setTags", "createTag", "file"},
      {"upload"}, {"batchMove"}, {"batchDelete"}, {"share", "file", "dir"}}}
  \union {Visit("links", ops) : ops \in {{"createLink", "updateLink"}, {"deleteLink"}}}
  \union {Visit("stores", ops) : ops \in
     {{"createStore", "updateStore"}, {"deleteStore", "gdrive"}, {"testStore", "ingest"},
      {"setPrimary", "sync"}, {"storageMode"}, {"createKey", "deleteKey"}}}
  \union {Visit("users", ops) : ops \in
     {{"toggleAdmin", "updateUser"}, {"createUser", "deleteUser"}, {"setUserQuota"}}}
  \union {Visit("orgs", ops) : ops \in {{"renameOrg", "viewOrg"}, {"deleteOrg", "viewOrg"}}}
  \union {Visit("settings", {"saveRegister"}), Visit("orgSettings", {"setQuota"})}
  \union {Visit("members", ops) : ops \in {{"addMember", "changeRole"}, {"removeMember"}}}

\* The keys that the calls of a visit change, or any one when there are none.
\* A list of the folder "sub" meets what the same list of "root" meets.
KeysOf(v) ==
  CASE v.page = "files"  ->
         LET changes(op) == UNION {FilesChange([op |-> op, item |-> x, at |-> Folders]) : x \in (Items \intersect v.ops) \union {None}}
             changed == {k \in UNION {changes(op) : op \in v.ops} : k[2] # "sub"}
         IN IF changed = {} THEN {<<"usage", None>>} ELSE changed
    [] v.page = "links"  -> LinksKeys
    [] v.page = "stores" -> UNION {StoresChange([op |-> op]) : op \in v.ops}
    [] OTHER             -> AdminKeys(v.page)

MCVisits == UNION {{[page |-> v.page, ops |-> v.ops, key |-> k] : k \in KeysOf(v)} : v \in Plans}
===============================================================================
