------------------------------ MODULE WebFiles ------------------------------
(***************************************************************************)
(* The files page (web/src/pages/app/FilesPage.tsx and files/): the folder *)
(* in the URL, the file selection of batchOps.ts, the dialogs, and the     *)
(* calls they make. "dir" stands for a folder and "file" for a file of the *)
(* listing; the folder "sub" lies in "root".                               *)
(***************************************************************************)
EXTENDS WebPage

Folders == {"root", "sub"}
Items == {"file", "dir"}

ASSUME NoneIsNoFolder == None \notin Folders

\* The state of the page: the folders that the selected files were ticked in,
\* and the item of the link in the share dialog's mutation.
FilesState == [selection |-> {}, shareData |-> None]

Listing(item) == IF item = "dir" THEN "folders" ELSE "files"

\* Left out: the results of a search and the breadcrumbs, which no onSuccess
\* invalidates, and what the folder picker of the move dialogs lists.
FilesKeys == {"files", "folders"} \X Folders \union {<<"tags", None>>} \union Sidebar

\* The queries that are mounted and enabled.
FilesShow(m, p, d) ==
  \/ watched \in Sidebar
  \/ m /\ watched[1] \in {"files", "folders"} /\ watched[2] = p
  \/ m /\ watched[1] = "tags" /\ d.op = "setTags"

FilesSee == FilesShow(mounted, place, dialog)

OnFiles == page = "files" /\ mounted

\* What the user does on the page, after its effect on place and dialog.
FilesTurn ==
  /\ Displayed(FilesSee, FilesShow(mounted', place', dialog'))
  /\ UNCHANGED <<page, wants, watched, promised>>

-----------------------------------------------------------------------------
(* What the calls do to the server's answers *)

Recent(item) == IF item = "dir" THEN {<<"recent", None>>} ELSE {}

\* The usage counts folders as well as files and bytes.
FilesChange(c) ==
  CASE c.op = "createFolder"    -> {<<"folders", f>> : f \in c.at} \union Sidebar
    [] c.op = "rename"          -> {<<Listing(c.item), f>> : f \in c.at} \union Recent(c.item)
    [] c.op = "move"            -> {Listing(c.item)} \X Folders \union Recent(c.item)
    \* the files of a deleted folder move to the root
    [] c.op = "delete"          -> IF c.item = "dir"
                                   THEN {<<"folders", f>> : f \in c.at} \union {<<"files", "root">>} \union Sidebar
                                   ELSE {<<"files", f>> : f \in c.at} \union {<<"usage", None>>}
    [] c.op = "deleteWithFiles" -> {<<"folders", f>> : f \in c.at} \union Sidebar
    [] c.op = "setTags"         -> {<<"files", f>> : f \in c.at}
    [] c.op = "createTag"       -> {<<"tags", None>>}
    [] c.op = "upload"          -> {<<"files", f>> : f \in c.at} \union {<<"usage", None>>}
    [] c.op = "batchMove"       -> IF c.at = {} THEN {} ELSE {"files"} \X Folders
    [] c.op = "batchDelete"     -> IF c.at = {} THEN {}
                                   ELSE {<<"files", f>> : f \in c.at} \union {<<"usage", None>>}
    [] OTHER                    -> {}

\* No onSuccess of the page refreshes the recent folders: their key, which has
\* "recent" before the organization, matches none that invalidate() names.
FilesUnrefreshed == {<<"recent", None>>}

FilesApply(i) ==
  /\ page = "files"
  /\ Apply(i, watched \in FilesChange(calls[i]))

-----------------------------------------------------------------------------
(* Coming, going, and the folder *)

\* The sidebar's link leads to the root, Back and bookmarks into a folder.
ComeToFiles(p) ==
  /\ page = "files" /\ ~mounted
  /\ mounted' = TRUE /\ place' = p
  /\ UNCHANGED <<calls, dialog, ui>>
  /\ FilesTurn

LeaveFiles ==
  /\ OnFiles
  /\ mounted' = FALSE /\ dialog' = NoDialog
  /\ calls' = Abandoned(calls)
  /\ ui' = FilesState
  /\ UNCHANGED place
  /\ FilesTurn

handleNav(p) ==
  /\ OnFiles /\ dialog = NoDialog
  /\ place' = p /\ ui' = [ui EXCEPT !.selection = {}]
  /\ UNCHANGED <<calls, mounted, dialog>>
  /\ FilesTurn

\* Back and Forward: the page stays mounted with its dialog and its selection.
BrowserBack(p) ==
  /\ OnFiles /\ p # place
  /\ place' = p
  /\ UNCHANGED <<calls, mounted, dialog, ui>>
  /\ FilesTurn

-----------------------------------------------------------------------------
(* Selection and dialogs *)

Select(s) ==
  /\ dialog = NoDialog
  /\ wants \intersect {"batchMove", "batchDelete"} # {}
  /\ ui' = [ui EXCEPT !.selection = s]
  /\ UNCHANGED <<page, wants, watched, cache, calls, mounted, place, dialog, promised>>

toggleSelect ==
  /\ OnFiles
  /\ \E s \in {ui.selection \union {place}, ui.selection \ {place}} : Select(s)

toggleSelectMode == OnFiles /\ Select({})

\* Menus and buttons that open a dialog: which item it is for, and the folder
\* that item is in.
ItemActions ==
  [createFolder |-> {"dir"}, rename |-> Items, move |-> Items, delete |-> Items,
   deleteWithFiles |-> {"dir"}, setTags |-> {"file"}, share |-> Items]

Opens(op, item, at) ==
  /\ OnFiles /\ dialog = NoDialog /\ op \in wants /\ item \in wants \union {None}
  /\ dialog' = [op |-> op, item |-> item, at |-> at]
  /\ UNCHANGED <<mounted, place>>
  /\ FilesTurn

OpenDialog ==
  /\ \E op \in DOMAIN ItemActions \ {"share"} : \E x \in ItemActions[op] : Opens(op, x, {place})
  /\ UNCHANGED <<calls, ui>>

\* handleShare: reset() drops the data and the observed call, then mutate().
OpenShare ==
  /\ \E x \in ItemActions.share : Opens("share", x, {place}) /\ Submit("share", x, {place})
  /\ ui' = [ui EXCEPT !.shareData = None]

\* BatchFileBar is there while files are selected.
OpenBatch ==
  /\ OnFiles /\ ui.selection # {}
  /\ \E op \in {"batchMove", "batchDelete"} : ~IsPending(op) /\ Opens(op, None, {})
  /\ UNCHANGED <<calls, ui>>

CloseFilesDialog ==
  /\ OnFiles /\ dialog # NoDialog
  /\ dialog' = NoDialog
  /\ UNCHANGED <<calls, mounted, place, ui>>
  /\ FilesTurn

-----------------------------------------------------------------------------
(* Buttons that send: disabled while the same mutation is pending *)

Sends(op, item, at) ==
  /\ OnFiles /\ op \in wants /\ ~IsPending(op)
  /\ Submit(op, item, at)
  /\ UNCHANGED <<page, wants, watched, cache, mounted, place, dialog, ui, promised>>

SubmitCreateFolder == dialog.op = "createFolder" /\ Sends("createFolder", dialog.item, {place})
SubmitRename == dialog.op = "rename" /\ Sends("rename", dialog.item, dialog.at)
SubmitMove == dialog.op = "move" /\ Sends("move", dialog.item, dialog.at)
SubmitDelete == dialog.op = "delete" /\ Sends("delete", dialog.item, dialog.at)
SubmitDeleteWithFiles == dialog.op = "deleteWithFiles" /\ Sends("deleteWithFiles", dialog.item, dialog.at)
SubmitTags == dialog.op = "setTags" /\ Sends("setTags", dialog.item, dialog.at)
SubmitNewTag == dialog.op = "setTags" /\ Sends("createTag", None, {})
SubmitBatch == \E op \in {"batchMove", "batchDelete"} : dialog.op = op /\ Sends(op, None, ui.selection)

\* The toolbar's button waits for the upload before; the drop zone does not.
DropFiles ==
  /\ OnFiles /\ "upload" \in wants
  /\ Submit("upload", None, {place})
  /\ UNCHANGED <<page, wants, watched, cache, mounted, place, dialog, ui, promised>>

-----------------------------------------------------------------------------
(* onSuccess *)

\* The folder that invalidate() of this call's closure names.
InvalidateFolder(i) == IF calls[i].via = Live THEN place ELSE calls[i].via

InvalidateFiles_NoUsage(i) == {"files", "folders"} \X {InvalidateFolder(i)}
InvalidateFiles(i) ==
  {"files", "folders"} \X {InvalidateFolder(i)} \union {<<"usage", None>>}

BatchInvalidate(i) == {"files", "folders"} \X Folders \union {<<"usage", None>>}

\* An old closure refreshes the folder it knew, and nobody the other one.
FilesDone(i, op, stale, known) ==
  /\ page = "files"
  /\ Answered(i, op, stale,
       /\ watched \in FilesChange(calls[i]) \ FilesUnrefreshed
       /\ calls[i].via = Live \/ watched[2] \in known,
       FilesSee)

PageDone(i, op) == FilesDone(i, op, InvalidateFiles(i), {None, calls[i].via})

CreateFolderDone(i) ==
  PageDone(i, "createFolder") /\ Closes(i, "createFolder") /\ UNCHANGED ui
RenameDone(i) == PageDone(i, "rename") /\ Closes(i, "rename") /\ UNCHANGED ui
MoveDone(i) == PageDone(i, "move") /\ Closes(i, "move") /\ UNCHANGED ui
DeleteDone(i) == PageDone(i, "delete") /\ Closes(i, "delete") /\ UNCHANGED ui
DeleteWithFilesDone(i) ==
  PageDone(i, "deleteWithFiles") /\ Closes(i, "deleteWithFiles") /\ UNCHANGED ui
SetTagsDone(i) == PageDone(i, "setTags") /\ Closes(i, "setTags") /\ UNCHANGED ui
UploadDone(i) == PageDone(i, "upload") /\ UNCHANGED <<dialog, ui>>
CreateTagDone(i) ==
  FilesDone(i, "createTag", {<<"tags", None>>}, {None}) /\ UNCHANGED <<dialog, ui>>

BatchDone(i) ==
  /\ \E op \in {"batchMove", "batchDelete"} :
       FilesDone(i, op, BatchInvalidate(i), {None} \union Folders) /\ Closes(i, op)
  /\ ui' = IF calls[i].via = Live THEN [ui EXCEPT !.selection = {}] ELSE ui

\* The data of a mutation is the answer to its latest call.
ShareDone_AnyCall(i) ==
  /\ FilesDone(i, "share", {}, {}) /\ ui' = [ui EXCEPT !.shareData = calls[i].item]
  /\ UNCHANGED dialog

ShareDone(i) ==
  /\ FilesDone(i, "share", {}, {})
  /\ ui' = IF calls[i].via = Live THEN [ui EXCEPT !.shareData = calls[i].item] ELSE ui
  /\ UNCHANGED dialog

ShareDialog == page = "files" /\ dialog.op = "share"
shareUrl == ui.shareData

-----------------------------------------------------------------------------
\* The share dialog shows the link of the item it was opened for, never the
\* late answer for another item (FilesPage.tsx:294-309: reset and mutate; the
\* URL is taken from the mutation's data, whatever call that came from).
ShareShowsItsTarget ==
  ShareDialog /\ shareUrl # None => shareUrl = dialog.item
=============================================================================
