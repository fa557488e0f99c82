------------------------------- MODULE WebPages -------------------------------
(***************************************************************************)
(* The pages of the dashboard together: a behaviour is one visit, to one   *)
(* page (visited again and again), and follows one cache entry.            *)
(***************************************************************************)
EXTENDS WebFiles, WebLinks, WebStores, WebAdmin

CONSTANT Visits   \* [page, ops, key]: what is visited, what for, the entry followed

PageKeys(pg) ==
  CASE pg = "files"  -> FilesKeys
    [] pg = "links"  -> LinksKeys
    [] pg = "stores" -> StoresKeys
    [] OTHER         -> AdminKeys(pg)

ASSUME VisitsAreToPages ==
  \A v \in Visits : /\ v.page \in {"files", "links", "stores"} \union AdminPages
                    /\ v.key \in PageKeys(v.page)

StateOf(pg) ==
  CASE pg = "files"  -> FilesState
    [] pg = "links"  -> LinksState
    [] pg = "stores" -> StoresState
    [] OTHER         -> None

Init ==
  \E v \in Visits :
    PageInit(v.page, v.ops, v.key, IF v.page = "files" THEN "root" ELSE None, StateOf(v.page),
             v.page \in {"files", "stores"} /\ v.key \in Sidebar)

Seen ==
  CASE page = "files"  -> FilesSee
    [] page = "links"  -> LinksSee
    [] page = "stores" -> StoresSee
    [] OTHER           -> AdminSee

FilesNext ==
  \/ \E p \in Folders : ComeToFiles(p) \/ handleNav(p) \/ BrowserBack(p)
  \/ LeaveFiles
  \/ toggleSelect \/ toggleSelectMode
  \/ OpenDialog \/ OpenShare \/ OpenBatch \/ CloseFilesDialog
  \/ SubmitCreateFolder \/ SubmitRename \/ SubmitMove \/ SubmitDelete
  \/ SubmitDeleteWithFiles \/ SubmitTags \/ SubmitNewTag \/ SubmitBatch \/ DropFiles
  \/ \E i \in Slots :
       \/ FilesApply(i)
       \/ CreateFolderDone(i) \/ RenameDone(i) \/ MoveDone(i) \/ DeleteDone(i)
       \/ DeleteWithFilesDone(i) \/ SetTagsDone(i) \/ CreateTagDone(i) \/ UploadDone(i)
       \/ BatchDone(i) \/ ShareDone(i)

\* Bound: besides the tab of the share links, the user chooses the one of the
\* followed list.
LinksNext ==
  \/ ComeToLinks \/ LeaveLinks
  \/ \E k \in {"share-links", watched[1]} : ChooseTab(k)
  \/ openCreate \/ closeCreateDialog \/ TypeLink \/ CancelDeleteLink
  \/ \E x \in Rows : openEdit(x) \/ AskDeleteLink(x)
  \/ handleSave \/ ConfirmDeleteLink
  \/ \E i \in Slots :
       LinksApply(i) \/ CreateLinkDone(i) \/ UpdateLinkDone(i) \/ DeleteLinkDone(i)

StoresNext ==
  \/ ComeToStores \/ LeaveStores \/ OtherTabConnects
  \/ AttachStore \/ (\E x \in Rows : OpenEditStore(x)) \/ setCredentialField
  \/ AskDelete \/ OpenCreateKey \/ CloseStoresDialog \/ DismissSecret
  \/ SubmitStore \/ ConfirmDelete \/ SubmitKey \/ StoreButtons \/ ChooseMode
  \/ \E i \in Slots :
       \/ StoresApply(i)
       \/ CreateStoreDone(i) \/ UpdateStoreDone(i) \/ DeleteStoreDone(i) \/ StoreButtonDone(i)
       \/ GdriveDone(i) \/ CreateKeyDone(i) \/ DeleteKeyDone(i)

AdminNext ==
  \/ ComeToAdmin \/ LeaveAdmin
  \/ OpenUserDialog \/ OpenOrgDialog \/ OpenAddMember \/ CloseAdminDialog
  \/ SubmitCreateUser \/ SubmitUpdateUser \/ SubmitUserQuota \/ SubmitDeleteUser \/ ToggleAdmin
  \/ SubmitRenameOrg \/ SubmitDeleteOrg \/ SwitchRegister \/ SaveQuota
  \/ SubmitAddMember \/ RemoveMember \/ ChangeRole
  \/ \E i \in Slots :
       \/ AdminApply(i)
       \/ ToggleAdminDone(i) \/ DeleteUserDone(i) \/ CreateUserDone(i) \/ UpdateUserDone(i)
       \/ SetUserQuotaDone(i) \/ RenameOrgDone(i) \/ DeleteOrgDone(i) \/ SaveRegisterDone(i)
       \/ AddMemberDone(i) \/ MemberButtonDone(i) \/ SetQuotaDone(i)

Next ==
  \/ ServeQuery \/ QueryArrives \/ QueryFails \/ Reconnect(Seen)
  \/ \E i \in Slots : CallFails(i)
  \/ FilesNext \/ LinksNext \/ StoresNext \/ AdminNext

Spec == Init /\ [][Next]_pageVars

-----------------------------------------------------------------------------
\* Once a change's own onSuccess has run, the page that displays what was
\* changed ends up with the new data, whatever was on its way when, and
\* wherever the user has been since: of the keys in PageKeys no other than the
\* Unrefreshed is missing from what is invalidated, and no refetch of a
\* displayed entry is lost (FilesPage.tsx:123-127, batchOps.ts:45-49,
\* LinksPage.tsx:56-60, StoresPage.tsx:160-163, the onSuccess of the admin
\* pages). Excepted, because the code does not do it: the recent folders after
\* any change, the usage and its breakdown after a change of stores
\* (Unrefreshed); a fetch from before the change that is the entry's first or
\* whose entry is out of view when onSuccess runs (LeftRunning); a folder that
\* the closure of an abandoned call does not know (FilesDone); a failed fetch.
ReadYourWrites ==
  promised /\ Seen /\ cache.flight = "none" => cache.data = "now"

\* Every variable has its type; a page that is not there has no dialog, and
\* observes no call.
PageTypeOK ==
  /\ cache \in [data : {"none", "old", "now"}, flight : {"none", "sent", "old", "now"}]
  /\ \A i \in Slots : /\ calls[i].op \in wants \union {"none", "createLink"}
                      /\ calls[i].op = "none" => calls[i] = NoCall
  /\ mounted \in BOOLEAN /\ promised \in BOOLEAN
  /\ ~mounted => dialog = NoDialog /\ \A i \in Slots : calls[i] # NoCall => calls[i].via # Live
===============================================================================
