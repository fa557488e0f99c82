---------------------------- MODULE WebPagesProofs ----------------------------
(***************************************************************************)
(* Proofs about the pages of the dashboard, for any rows, any visits and   *)
(* any number of mutations on their way. An action belongs to one page, so *)
(* a theorem about one page is disturbed by that page's actions only.      *)
(***************************************************************************)
EXTENDS WebPages, TLAPS

\* What a visit fixes, and the folder of the files page.
PageInv ==
  /\ page \in {"files", "links", "stores"} \cup AdminPages
  /\ watched \in PageKeys(page)
  /\ page = "files" => place \in Folders
  /\ page # "files" => place = None

\* The steps that every page shares: answers to queries, and refused calls.
Background ==
  \/ ServeQuery \/ QueryArrives \/ QueryFails \/ Reconnect(Seen)
  \/ \E i \in Slots : CallFails(i)

-----------------------------------------------------------------------------
\* Every action of the files page happens there, and keeps to the visit.
LEMMA FilesSteps ==
  ASSUME FilesNext
  PROVE  page = "files" /\ UNCHANGED <<page, wants, watched>> /\ place' \in Folders \cup {place}
<1> DEFINE Happens == /\ page = "files" /\ UNCHANGED <<page, wants, watched>>
                   /\ place' \in Folders \cup {place}
<1> USE DEF OnFiles
<1>1. ASSUME NEW p \in Folders, ComeToFiles(p) \/ handleNav(p) \/ BrowserBack(p)
      PROVE  Happens
  BY <1>1 DEF ComeToFiles, handleNav, BrowserBack, FilesTurn
<1>2. ASSUME LeaveFiles \/ CloseFilesDialog
      PROVE  Happens
  BY <1>2 DEF LeaveFiles, CloseFilesDialog, FilesTurn
<1>3. ASSUME toggleSelect \/ toggleSelectMode
      PROVE  Happens
  BY <1>3 DEF toggleSelect, toggleSelectMode, Select
<1>4. ASSUME OpenDialog \/ OpenShare \/ OpenBatch
      PROVE  Happens
  BY <1>4 DEF OpenDialog, OpenShare, OpenBatch, Opens, FilesTurn
<1>5. ASSUME \/ SubmitCreateFolder \/ SubmitRename \/ SubmitMove \/ SubmitDelete
             \/ SubmitDeleteWithFiles \/ SubmitTags \/ SubmitNewTag \/ SubmitBatch \/ DropFiles
      PROVE  Happens
  BY <1>5 DEF SubmitCreateFolder, SubmitRename, SubmitMove, SubmitDelete, SubmitDeleteWithFiles,
              SubmitTags, SubmitNewTag, SubmitBatch, DropFiles, Sends
<1>6. ASSUME NEW i \in Slots,
             \/ FilesApply(i)
             \/ CreateFolderDone(i) \/ RenameDone(i) \/ MoveDone(i) \/ DeleteDone(i)
             \/ DeleteWithFilesDone(i) \/ SetTagsDone(i) \/ CreateTagDone(i) \/ UploadDone(i)
             \/ BatchDone(i) \/ ShareDone(i)
      PROVE  Happens
  BY <1>6 DEF FilesApply, Apply, CreateFolderDone, RenameDone, MoveDone, DeleteDone,
              DeleteWithFilesDone, SetTagsDone, CreateTagDone, UploadDone, BatchDone, ShareDone,
              PageDone, FilesDone, Answered
<1>7. QED
  BY <1>1, <1>2, <1>3, <1>4, <1>5, <1>6 DEF FilesNext

\* Every action of the links page happens there, and keeps to the visit.
LEMMA LinksSteps ==
  ASSUME LinksNext
  PROVE  page = "links" /\ UNCHANGED <<page, wants, watched, place>>
<1>1. ASSUME ComeToLinks \/ LeaveLinks \/ \E k \in {"share-links", watched[1]} : ChooseTab(k)
      PROVE  page = "links" /\ UNCHANGED <<page, wants, watched, place>>
  BY <1>1 DEF ComeToLinks, LeaveLinks, ChooseTab, OnLinks
<1>2. ASSUME \/ openCreate \/ closeCreateDialog \/ TypeLink \/ CancelDeleteLink
             \/ \E x \in Rows : openEdit(x) \/ AskDeleteLink(x)
      PROVE  page = "links" /\ UNCHANGED <<page, wants, watched, place>>
  BY <1>2 DEF openCreate, closeCreateDialog, TypeLink, CancelDeleteLink, openEdit, AskDeleteLink,
              LinksDialog, OnLinks
<1>3. ASSUME handleSave \/ ConfirmDeleteLink
      PROVE  page = "links" /\ UNCHANGED <<page, wants, watched, place>>
  BY <1>3 DEF handleSave, ConfirmDeleteLink, LinksSend, OnLinks
<1>4. ASSUME NEW i \in Slots,
             LinksApply(i) \/ CreateLinkDone(i) \/ UpdateLinkDone(i) \/ DeleteLinkDone(i)
      PROVE  page = "links" /\ UNCHANGED <<page, wants, watched, place>>
  BY <1>4 DEF LinksApply, Apply, CreateLinkDone, UpdateLinkDone, DeleteLinkDone, LinksDone, Answered
<1>5. QED
  BY <1>1, <1>2, <1>3, <1>4 DEF LinksNext

\* Every action of the stores page happens there, and keeps to the visit.
LEMMA StoresSteps ==
  ASSUME StoresNext
  PROVE  page = "stores" /\ UNCHANGED <<page, wants, watched, place>>
<1> USE DEF OnStores
<1>1. ASSUME ComeToStores \/ LeaveStores \/ OtherTabConnects
      PROVE  page = "stores" /\ UNCHANGED <<page, wants, watched, place>>
  BY <1>1 DEF ComeToStores, LeaveStores, OtherTabConnects
<1>2. ASSUME \/ AttachStore \/ (\E x \in Rows : OpenEditStore(x)) \/ setCredentialField
             \/ AskDelete \/ OpenCreateKey \/ CloseStoresDialog \/ DismissSecret
      PROVE  page = "stores" /\ UNCHANGED <<page, wants, watched, place>>
  BY <1>2 DEF AttachStore, OpenEditStore, setCredentialField, AskDelete, OpenCreateKey,
              CloseStoresDialog, DismissSecret, StoresDialog
<1>3. ASSUME SubmitStore \/ ConfirmDelete \/ SubmitKey \/ StoreButtons \/ ChooseMode
      PROVE  page = "stores" /\ UNCHANGED <<page, wants, watched, place>>
  BY <1>3 DEF SubmitStore, ConfirmDelete, SubmitKey, StoreButtons, ChooseMode, StoresSend
<1>4. ASSUME NEW i \in Slots,
             \/ StoresApply(i)
             \/ CreateStoreDone(i) \/ UpdateStoreDone(i) \/ DeleteStoreDone(i)
             \/ StoreButtonDone(i) \/ GdriveDone(i) \/ CreateKeyDone(i) \/ DeleteKeyDone(i)
      PROVE  page = "stores" /\ UNCHANGED <<page, wants, watched, place>>
  BY <1>4 DEF StoresApply, Apply, CreateStoreDone, UpdateStoreDone, DeleteStoreDone,
              StoreButtonDone, GdriveDone, CreateKeyDone, DeleteKeyDone, StoresDone, Answered
<1>5. QED
  BY <1>1, <1>2, <1>3, <1>4 DEF StoresNext

\* Every action of the other pages happens there, and keeps to the visit.
LEMMA AdminSteps ==
  ASSUME AdminNext
  PROVE  page \in AdminPages /\ UNCHANGED <<page, wants, watched, place>>
<1> USE DEF OnAdmin
<1>1. ASSUME ComeToAdmin \/ LeaveAdmin
      PROVE  page \in AdminPages /\ UNCHANGED <<page, wants, watched, place>>
  BY <1>1 DEF ComeToAdmin, LeaveAdmin
<1>2. ASSUME OpenUserDialog \/ OpenOrgDialog \/ OpenAddMember \/ CloseAdminDialog
      PROVE  page \in AdminPages /\ UNCHANGED <<page, wants, watched, place>>
  BY <1>2 DEF OpenUserDialog, OpenOrgDialog, OpenAddMember, CloseAdminDialog, AdminOpens, AdminDialog
<1>3. ASSUME \/ SubmitCreateUser \/ SubmitUpdateUser \/ SubmitUserQuota \/ SubmitDeleteUser
             \/ ToggleAdmin \/ SubmitRenameOrg \/ SubmitDeleteOrg \/ SwitchRegister \/ SaveQuota
             \/ SubmitAddMember \/ RemoveMember \/ ChangeRole
      PROVE  page \in AdminPages /\ UNCHANGED <<page, wants, watched, place>>
  BY <1>3 DEF SubmitCreateUser, SubmitUpdateUser, SubmitUserQuota, SubmitDeleteUser, ToggleAdmin,
              SubmitRenameOrg, SubmitDeleteOrg, SwitchRegister, SaveQuota, SubmitAddMember,
              RemoveMember, ChangeRole, AdminSubmits, AdminSend
<1>4. ASSUME NEW i \in Slots,
             \/ AdminApply(i)
             \/ ToggleAdminDone(i) \/ DeleteUserDone(i) \/ CreateUserDone(i) \/ UpdateUserDone(i)
             \/ SetUserQuotaDone(i) \/ RenameOrgDone(i) \/ DeleteOrgDone(i) \/ SaveRegisterDone(i)
             \/ AddMemberDone(i) \/ MemberButtonDone(i) \/ SetQuotaDone(i)
      PROVE  page \in AdminPages /\ UNCHANGED <<page, wants, watched, place>>
  BY <1>4 DEF AdminApply, Apply, ToggleAdminDone, DeleteUserDone, CreateUserDone, UpdateUserDone,
              SetUserQuotaDone, RenameOrgDone, DeleteOrgDone, SaveRegisterDone, AddMemberDone,
              MemberButtonDone, SetQuotaDone, UserDone, AdminDone, Answered
<1>5. QED
  BY <1>1, <1>2, <1>3, <1>4 DEF AdminNext

\* The shared steps touch neither the page, nor its dialog, nor its state.
LEMMA BackgroundSteps ==
  ASSUME Background
  PROVE  /\ UNCHANGED <<page, wants, watched, mounted, place, dialog, ui>>
         /\ calls' = calls \/ \E i \in Slots : calls' = [calls EXCEPT ![i] = NoCall]
BY DEF Background, ServeQuery, QueryArrives, QueryFails, Reconnect, CallFails

\* A visit stays on its page, and follows an entry of that page.
LEMMA PageCorrect == Spec => []PageInv
<1>1. Init => PageInv
  BY VisitsAreToPages DEF Init, PageInit, PageInv, Folders
<1>2. PageInv /\ [Next]_pageVars => PageInv'
  <2> SUFFICES ASSUME PageInv, [Next]_pageVars
               PROVE  PageInv'
    OBVIOUS
  <2>1. /\ UNCHANGED <<page, wants, watched>>
        /\ page = "files" => place' \in Folders
        /\ page # "files" => place' = place
    BY FilesSteps, LinksSteps, StoresSteps, AdminSteps, BackgroundSteps
       DEF PageInv, Next, Background, pageVars, AdminPages
  <2>2. PageKeys(page)' = PageKeys(page)
    BY <2>1 DEF PageKeys
  <2>3. QED
    BY <2>1, <2>2 DEF PageInv
<1>3. QED
  BY <1>1, <1>2, PTL DEF Spec

-----------------------------------------------------------------------------
(* The form of the links page *)

\* The two answers that reset the form also end, or close, the edit it was for.
FormInv ==
  page = "links" =>
    /\ DOMAIN ui = {"tab", "form"}
    /\ dialog.op = "form" /\ dialog.item # None => ui.form = dialog.item

\* Whoever opens the form, or resets it, keeps it that link's.
LEMMA LinksKeepForm ==
  ASSUME FormInv, LinksNext
  PROVE  FormInv'
<1>1. page = "links" /\ page' = page
  BY LinksSteps
<1>2. DOMAIN ui = {"tab", "form"}
  BY <1>1 DEF FormInv
<1> USE <1>1, <1>2 DEF FormInv, Form, LinksState, NoDialog, LinkFormFor
<1>3. ASSUME ComeToLinks \/ LeaveLinks \/ \E k \in {"share-links", watched[1]} : ChooseTab(k)
      PROVE  FormInv'
  <2>1. CASE ComeToLinks
    BY <2>1 DEF ComeToLinks
  <2>2. CASE LeaveLinks
    BY <2>2 DEF LeaveLinks
  <2>3. ASSUME NEW k, ChooseTab(k)
        PROVE  FormInv'
    BY <2>3 DEF ChooseTab
  <2>4. QED
    BY <1>3, <2>1, <2>2, <2>3
<1>4. ASSUME \/ openCreate \/ closeCreateDialog \/ TypeLink \/ CancelDeleteLink
             \/ \E x \in Rows : openEdit(x) \/ AskDeleteLink(x)
      PROVE  FormInv'
  BY <1>4 DEF openCreate, closeCreateDialog, TypeLink, CancelDeleteLink, openEdit, AskDeleteLink,
              LinksDialog
<1>5. ASSUME handleSave \/ ConfirmDeleteLink
      PROVE  FormInv'
  BY <1>5 DEF handleSave, ConfirmDeleteLink, LinksSend
<1>6. ASSUME NEW i \in Slots, LinksApply(i)
      PROVE  FormInv'
  BY <1>6 DEF LinksApply, Apply
<1>7. ASSUME NEW i \in Slots, CreateLinkDone(i)
      PROVE  FormInv'
  BY <1>7 DEF CreateLinkDone, Closes
<1>8. ASSUME NEW i \in Slots, UpdateLinkDone(i)
      PROVE  FormInv'
  BY <1>8 DEF UpdateLinkDone
<1>9. ASSUME NEW i \in Slots, DeleteLinkDone(i)
      PROVE  FormInv'
  BY <1>9 DEF DeleteLinkDone, Closes
<1>10. QED
  BY <1>3, <1>4, <1>5, <1>6, <1>7, <1>8, <1>9 DEF LinksNext

\* However late the answers to earlier saves come, a form that would be saved
\* to a link holds that link's values (LinksPage.tsx:119-136).
THEOREM FormCorrect == Spec => []EditFormIsItsLink
<1>1. Init => FormInv
  BY DEF Init, PageInit, FormInv, StateOf, LinksState, NoDialog
<1>2. PageInv /\ FormInv /\ [Next]_pageVars => FormInv'
  <2> SUFFICES ASSUME PageInv, FormInv, [Next]_pageVars
               PROVE  FormInv'
    OBVIOUS
  <2>1. CASE LinksNext
    BY <2>1, LinksKeepForm
  <2>2. CASE FilesNext \/ StoresNext \/ AdminNext
    BY <2>2, FilesSteps, StoresSteps, AdminSteps DEF FormInv, AdminPages
  <2>3. CASE Background \/ UNCHANGED pageVars
    BY <2>3, BackgroundSteps DEF FormInv, pageVars
  <2>4. QED
    BY <2>1, <2>2, <2>3 DEF Next, Background
<1>3. FormInv => EditFormIsItsLink
  BY DEF FormInv, EditFormIsItsLink
<1>4. QED
  BY <1>1, <1>2, <1>3, PageCorrect, PTL DEF Spec

-----------------------------------------------------------------------------
(* The list that follows what was done to it *)

\* A change that was promised to the page is in its entry, or being fetched.
RefetchInv ==
  /\ cache \in [data : {"none", "old", "now"}, flight : {"none", "sent", "old", "now"}]
  /\ promised => cache.flight # "old" /\ (Seen => cache.flight # "none" \/ cache.data = "now")

\* A fetch that arrives was sent after the change; one that fails ends the promise.
LEMMA BackgroundKeepsPromise ==
  ASSUME RefetchInv, Background
  PROVE  RefetchInv'
<1>1. Seen' = Seen
  BY BackgroundSteps DEF Seen, FilesSee, FilesShow, LinksSee, StoresSee, StoresShow, AdminSee, AdminShow
<1>2. QED
  BY <1>1 DEF RefetchInv, Background, ServeQuery, QueryArrives, QueryFails, Reconnect, CallFails,
              Observed

\* A step of the user: an entry that comes into view is fetched.
LEMMA TurnKeepsPromise ==
  ASSUME RefetchInv, promised' = promised,
         Displayed(Seen, Seen') \/ (UNCHANGED cache /\ (Seen' => Seen))
  PROVE  RefetchInv'
BY DEF RefetchInv, Displayed, Observed

\* A change the server makes ends what was promised before.
LEMMA ApplyKeepsPromise ==
  ASSUME RefetchInv, NEW i, NEW changed \in BOOLEAN, Apply(i, changed), Seen' = Seen
  PROVE  RefetchInv'
BY DEF RefetchInv, Apply, Outdated

\* onSuccess fetches what it owes the page that displays it.
LEMMA AnswerKeepsPromise ==
  ASSUME RefetchInv, NEW i, NEW op, NEW stale, NEW owed \in BOOLEAN,
         Answered(i, op, stale, owed, Seen),
         Seen' => Seen,
         owed /\ Seen => watched \in stale
  PROVE  RefetchInv'
BY DEF RefetchInv, Answered, Invalidated, LeftRunning

\* What the files page displays is what its calls refresh, in the folder that
\* their closure knows, or in every folder.
LEMMA FilesOwe ==
  ASSUME PageInv, page = "files", Seen, NEW i \in Slots,
         watched \in FilesChange(calls[i]) \ FilesUnrefreshed
  PROVE  /\ /\ calls[i].op \in {"createFolder", "rename", "move", "delete", "deleteWithFiles",
                                "setTags", "upload"}
            /\ calls[i].via = Live \/ watched[2] \in {None, calls[i].via}
            => watched \in InvalidateFiles(i)
         /\ calls[i].op = "createTag" => watched \in {<<"tags", None>>}
         /\ calls[i].op \in {"batchMove", "batchDelete"} => watched \in BatchInvalidate(i)
         /\ calls[i].op # "share"
<1>1. watched \in FilesKeys
  BY DEF PageInv, PageKeys
<1>2. Seen = FilesSee
  BY DEF Seen
<1>3. ASSUME watched[1] = "tags"
      PROVE  calls[i].op = "createTag"
  BY <1>3, <1>1 DEF FilesChange, FilesKeys, Listing, Recent, Sidebar
<1>4. CASE calls[i].op = "createTag"
  BY <1>4 DEF FilesChange
<1>5. CASE calls[i].op = "share"
  BY <1>5 DEF FilesChange
<1>6. CASE calls[i].op \in {"batchMove", "batchDelete"}
  BY <1>6, <1>1, <1>3 DEF FilesKeys, FilesUnrefreshed, Sidebar, BatchInvalidate
<1>7. CASE /\ calls[i].op \in {"createFolder", "rename", "move", "delete", "deleteWithFiles",
                               "setTags", "upload"}
           /\ calls[i].via = Live \/ watched[2] \in {None, calls[i].via}
  <2>1. CASE watched = <<"usage", None>>
    BY <2>1, <1>7 DEF InvalidateFiles
  <2>2. CASE watched \in {"files", "folders"} \X Folders
    <3>1. watched[2] = InvalidateFolder(i)
      BY <2>2, <1>2, <1>7, NoneIsNoFolder DEF FilesSee, FilesShow, Sidebar, InvalidateFolder
    <3>2. QED
      BY <3>1, <2>2, <1>7 DEF InvalidateFiles
  <2>3. QED
    BY <2>1, <2>2, <1>1, <1>3, <1>7 DEF FilesKeys, FilesUnrefreshed, Sidebar
<1>8. QED
  BY <1>4, <1>5, <1>6, <1>7

\* The files page keeps its promises.
LEMMA FilesKeepPromise ==
  ASSUME PageInv, RefetchInv, FilesNext
  PROVE  RefetchInv'
<1>1. page = "files" /\ UNCHANGED <<page, watched>>
  BY FilesSteps
<1>2. Seen = FilesSee /\ Seen' = FilesShow(mounted', place', dialog')
  BY <1>1 DEF Seen, FilesSee, FilesShow
<1>3. ASSUME FilesTurn
      PROVE  RefetchInv'
  BY <1>2, <1>3, TurnKeepsPromise DEF FilesTurn
<1>4. ASSUME UNCHANGED <<cache, promised, mounted, place, dialog>>
      PROVE  RefetchInv'
  BY <1>1, <1>2, <1>4, TurnKeepsPromise DEF FilesSee, FilesShow
<1>5. ASSUME NEW i \in Slots, FilesApply(i)
      PROVE  RefetchInv'
  <2>1. Seen' = Seen
    BY <1>1, <1>2, <1>5 DEF FilesApply, Apply, FilesSee, FilesShow
  <2> DEFINE changed == watched \in FilesChange(calls[i])
  <2>2. Apply(i, changed) /\ changed \in BOOLEAN
    BY <1>5 DEF FilesApply
  <2> HIDE DEF changed
  <2>3. QED
    BY <2>1, <2>2, ApplyKeepsPromise
<1>6. ASSUME NEW i \in Slots, NEW op, NEW stale, NEW known, FilesDone(i, op, stale, known),
             dialog' \in {dialog, NoDialog},
             Seen /\ watched \in FilesChange(calls[i]) \ FilesUnrefreshed /\ (calls[i].via = Live \/ watched[2] \in known)
               => watched \in stale
      PROVE  RefetchInv'
  <2> DEFINE owed == /\ watched \in FilesChange(calls[i]) \ FilesUnrefreshed
                     /\ calls[i].via = Live \/ watched[2] \in known
  <2>1. Answered(i, op, stale, owed, Seen)
    BY <1>2, <1>6 DEF FilesDone
  <2>2. Seen' => Seen
    <3>1. UNCHANGED <<mounted, place>>
      BY <2>1 DEF Answered
    <3>2. FilesShow(mounted, place, dialog') => FilesShow(mounted, place, dialog)
      <4>1. dialog' = dialog \/ dialog'.op = "none"
        BY <1>6 DEF NoDialog
      <4>2. QED
        BY <4>1 DEF FilesShow
    <3>3. QED
      BY <3>1, <3>2, <1>2 DEF FilesSee
  <2>3. owed /\ Seen => watched \in stale
    BY <1>6
  <2>4. owed \in BOOLEAN
    OBVIOUS
  <2> HIDE DEF owed
  <2>5. QED
    BY <2>1, <2>2, <2>3, <2>4, AnswerKeepsPromise
<1>7. ASSUME NEW i \in Slots, NEW op, PageDone(i, op),
             op \in {"createFolder", "rename", "move", "delete", "deleteWithFiles",
                     "setTags", "upload"},
             dialog' \in {dialog, NoDialog}
      PROVE  RefetchInv'
  <2>1. calls[i].op = op
    BY <1>7 DEF PageDone, FilesDone, Answered
  <2>2. QED
    BY <2>1, <1>1, <1>6, <1>7, FilesOwe DEF PageDone
<1>8. ASSUME NEW p \in Folders, ComeToFiles(p) \/ handleNav(p) \/ BrowserBack(p)
      PROVE  RefetchInv'
  BY <1>3, <1>8 DEF ComeToFiles, handleNav, BrowserBack
<1>9. ASSUME LeaveFiles \/ OpenDialog \/ OpenShare \/ OpenBatch \/ CloseFilesDialog
      PROVE  RefetchInv'
  BY <1>3, <1>9 DEF LeaveFiles, OpenDialog, OpenShare, OpenBatch, CloseFilesDialog, Opens
<1>10. ASSUME toggleSelect \/ toggleSelectMode
       PROVE  RefetchInv'
  BY <1>4, <1>10 DEF toggleSelect, toggleSelectMode, Select
<1>11. ASSUME \/ SubmitCreateFolder \/ SubmitRename \/ SubmitMove \/ SubmitDelete
              \/ SubmitDeleteWithFiles \/ SubmitTags \/ SubmitNewTag \/ SubmitBatch \/ DropFiles
       PROVE  RefetchInv'
  BY <1>4, <1>11 DEF SubmitCreateFolder, SubmitRename, SubmitMove, SubmitDelete,
     SubmitDeleteWithFiles, SubmitTags, SubmitNewTag, SubmitBatch, DropFiles, Sends
<1>12. ASSUME NEW i \in Slots,
              \/ CreateFolderDone(i) \/ RenameDone(i) \/ MoveDone(i) \/ DeleteDone(i)
              \/ DeleteWithFilesDone(i) \/ SetTagsDone(i) \/ UploadDone(i)
       PROVE  RefetchInv'
  BY <1>7, <1>12 DEF CreateFolderDone, RenameDone, MoveDone, DeleteDone, DeleteWithFilesDone,
                     SetTagsDone, UploadDone, Closes
<1>13. ASSUME NEW i \in Slots, CreateTagDone(i) \/ ShareDone(i)
       PROVE  RefetchInv'
  <2>1. CASE CreateTagDone(i)
    BY <2>1, <1>1, <1>6, FilesOwe DEF CreateTagDone, FilesDone, Answered
  <2>2. CASE ShareDone(i)
    <3>1. FilesDone(i, "share", {}, {}) /\ dialog' \in {dialog, NoDialog}
      BY <2>2 DEF ShareDone
    <3>2. calls[i].op = "share"
      BY <3>1 DEF FilesDone, Answered
    <3>3. QED
      BY <3>1, <3>2, <1>1, <1>6, FilesOwe
  <2>3. QED
    BY <1>13, <2>1, <2>2
<1>14. ASSUME NEW i \in Slots, BatchDone(i)
       PROVE  RefetchInv'
  <2>1. PICK op \in {"batchMove", "batchDelete"} :
          FilesDone(i, op, BatchInvalidate(i), {None} \union Folders) /\ Closes(i, op)
    BY <1>14 DEF BatchDone
  <2>2. calls[i].op = op /\ dialog' \in {dialog, NoDialog}
    BY <2>1 DEF FilesDone, Answered, Closes
  <2>3. QED
    BY <2>1, <2>2, <1>1, <1>6, FilesOwe
<1>15. QED
  BY <1>5, <1>8, <1>9, <1>10, <1>11, <1>12, <1>13, <1>14 DEF FilesNext

\* So does the links page,
LEMMA LinksKeepPromise ==
  ASSUME PageInv, RefetchInv, LinksNext
  PROVE  RefetchInv'
<1>1. page = "links" /\ UNCHANGED <<page, watched>>
  BY LinksSteps
<1>2. Seen = mounted /\ Seen' = mounted'
  BY <1>1 DEF Seen, LinksSee
<1>3. ASSUME UNCHANGED <<cache, promised>>, mounted' => mounted
      PROVE  RefetchInv'
  BY <1>2, <1>3, TurnKeepsPromise
<1>4. ASSUME ComeToLinks
      PROVE  RefetchInv'
  <2>1. Displayed(Seen, Seen') /\ promised' = promised
    BY <1>2, <1>4 DEF ComeToLinks, Displayed
  <2>2. QED
    BY <2>1, TurnKeepsPromise
<1>5. ASSUME LeaveLinks \/ \E k \in {"share-links", watched[1]} : ChooseTab(k)
      PROVE  RefetchInv'
  BY <1>3, <1>5 DEF LeaveLinks, ChooseTab
<1>6. ASSUME \/ openCreate \/ closeCreateDialog \/ TypeLink \/ CancelDeleteLink
             \/ \E x \in Rows : openEdit(x) \/ AskDeleteLink(x)
      PROVE  RefetchInv'
  BY <1>3, <1>6 DEF openCreate, closeCreateDialog, TypeLink, CancelDeleteLink, openEdit,
                    AskDeleteLink, LinksDialog
<1>7. ASSUME handleSave \/ ConfirmDeleteLink
      PROVE  RefetchInv'
  BY <1>3, <1>7 DEF handleSave, ConfirmDeleteLink, LinksSend
<1>8. ASSUME NEW i \in Slots, LinksApply(i)
      PROVE  RefetchInv'
  <2> DEFINE changed == calls[i].at = {watched[1]}
  <2>1. Apply(i, changed) /\ changed \in BOOLEAN
    BY <1>8 DEF LinksApply
  <2>2. Seen' = Seen
    BY <1>2, <2>1 DEF Apply
  <2> HIDE DEF changed
  <2>3. QED
    BY <2>1, <2>2, ApplyKeepsPromise
<1>9. ASSUME NEW i \in Slots, CreateLinkDone(i) \/ UpdateLinkDone(i) \/ DeleteLinkDone(i)
      PROVE  RefetchInv'
  <2> DEFINE owed == calls[i].at = {watched[1]}
  <2>1. PICK op : Answered(i, op, invalidateLinks, owed, Seen)
    BY <1>2, <1>9 DEF CreateLinkDone, UpdateLinkDone, DeleteLinkDone, LinksDone, LinksSee
  <2>2. Seen' = Seen
    BY <1>2, <2>1 DEF Answered
  <2>3. watched \in invalidateLinks
    BY <1>1 DEF PageInv, PageKeys, invalidateLinks
  <2>4. owed \in BOOLEAN
    OBVIOUS
  <2> HIDE DEF owed
  <2>5. QED
    BY <2>1, <2>2, <2>3, <2>4, AnswerKeepsPromise
<1>10. QED
  BY <1>4, <1>5, <1>6, <1>7, <1>8, <1>9 DEF LinksNext

\* the stores page,
LEMMA StoresKeepPromise ==
  ASSUME PageInv, RefetchInv, StoresNext
  PROVE  RefetchInv'
<1>1. page = "stores" /\ UNCHANGED <<page, watched>>
  BY StoresSteps
<1>2. Seen = StoresShow(mounted) /\ Seen' = StoresShow(mounted')
  BY <1>1 DEF Seen, StoresSee, StoresShow
<1>3. ASSUME UNCHANGED <<cache, promised>>, mounted' => mounted
      PROVE  RefetchInv'
  BY <1>1, <1>2, <1>3, TurnKeepsPromise DEF StoresShow
<1>4. ASSUME ComeToStores
      PROVE  RefetchInv'
  <2>1. Displayed(Seen, Seen') /\ promised' = promised
    BY <1>1, <1>2, <1>4 DEF ComeToStores, Displayed, StoresSee, StoresShow
  <2>2. QED
    BY <2>1, TurnKeepsPromise
<1>5. ASSUME LeaveStores \/ OtherTabConnects
      PROVE  RefetchInv'
  BY <1>3, <1>5 DEF LeaveStores, OtherTabConnects
<1>6. ASSUME \/ AttachStore \/ (\E x \in Rows : OpenEditStore(x)) \/ setCredentialField
             \/ AskDelete \/ OpenCreateKey \/ CloseStoresDialog \/ DismissSecret
      PROVE  RefetchInv'
  BY <1>3, <1>6 DEF AttachStore, OpenEditStore, setCredentialField, AskDelete, OpenCreateKey,
                    CloseStoresDialog, DismissSecret, StoresDialog
<1>7. ASSUME SubmitStore \/ ConfirmDelete \/ SubmitKey \/ StoreButtons \/ ChooseMode
      PROVE  RefetchInv'
  BY <1>3, <1>7 DEF SubmitStore, ConfirmDelete, SubmitKey, StoreButtons, ChooseMode, StoresSend
<1>8. ASSUME NEW i \in Slots, StoresApply(i)
      PROVE  RefetchInv'
  <2> DEFINE changed == watched \in StoresChange(calls[i])
  <2>1. Apply(i, changed) /\ changed \in BOOLEAN
    BY <1>8 DEF StoresApply
  <2>2. Seen' = Seen
    BY <1>1, <1>2, <2>1 DEF Apply, StoresShow
  <2> HIDE DEF changed
  <2>3. QED
    BY <2>1, <2>2, ApplyKeepsPromise
<1>9. ASSUME NEW i \in Slots, NEW op, NEW stale, StoresDone(i, op, stale),
             watched \in StoresChange(calls[i]) \ StoresUnrefreshed => watched \in stale
      PROVE  RefetchInv'
  <2> DEFINE owed == watched \in StoresChange(calls[i]) \ StoresUnrefreshed
  <2>1. Answered(i, op, stale, owed, Seen)
    BY <1>2, <1>9 DEF StoresDone, StoresSee
  <2>2. Seen' = Seen
    BY <1>1, <1>2, <2>1 DEF Answered, StoresShow
  <2>3. owed \in BOOLEAN /\ (owed => watched \in stale)
    BY <1>9
  <2> HIDE DEF owed
  <2>4. QED
    BY <2>1, <2>2, <2>3, AnswerKeepsPromise
<1>10. ASSUME NEW i \in Slots, NEW op, NEW stale, StoresDone(i, op, stale)
       PROVE  calls[i].op = op
  BY <1>10 DEF StoresDone, Answered
<1>11. ASSUME NEW i \in Slots, NEW op, StoresDone(i, op, invalidateStores),
              op \in {"createStore", "updateStore", "deleteStore", "gdrive",
                      "testStore", "setPrimary", "ingest", "sync", "storageMode"}
       PROVE  RefetchInv'
  <2>1. watched \in StoresChange(calls[i]) \ StoresUnrefreshed => watched \in invalidateStores
    BY <1>10, <1>11 DEF StoresChange, StoresUnrefreshed, invalidateStores
  <2>2. QED
    BY <1>9, <1>11, <2>1
<1>12. ASSUME NEW i \in Slots,
              \/ CreateStoreDone(i) \/ UpdateStoreDone(i) \/ DeleteStoreDone(i)
              \/ StoreButtonDone(i) \/ GdriveDone(i)
       PROVE  RefetchInv'
  BY <1>11, <1>12 DEF CreateStoreDone, UpdateStoreDone, DeleteStoreDone, StoreButtonDone, GdriveDone
<1>13. ASSUME NEW i \in Slots, CreateKeyDone(i) \/ DeleteKeyDone(i)
       PROVE  RefetchInv'
  <2>1. PICK op \in {"createKey", "deleteKey"} : StoresDone(i, op, {<<"s3keys", None>>})
    BY <1>13 DEF CreateKeyDone, DeleteKeyDone
  <2>2. watched \in StoresChange(calls[i]) \ StoresUnrefreshed => watched \in {<<"s3keys", None>>}
    BY <1>10, <2>1 DEF StoresChange
  <2>3. QED
    BY <1>9, <2>1, <2>2
<1>14. QED
  BY <1>4, <1>5, <1>6, <1>7, <1>8, <1>12, <1>13 DEF StoresNext

\* and every page of WebAdmin.
LEMMA AdminKeepPromise ==
  ASSUME PageInv, RefetchInv, AdminNext
  PROVE  RefetchInv'
<1>1. page \in AdminPages /\ UNCHANGED <<page, watched>>
  BY AdminSteps
<1>2. Seen = AdminShow(mounted, dialog) /\ Seen' = AdminShow(mounted', dialog')
  BY <1>1 DEF Seen, AdminSee, AdminShow, AdminPages
<1>3. ASSUME UNCHANGED <<cache, promised>>, Seen' => Seen
      PROVE  RefetchInv'
  BY <1>3, TurnKeepsPromise
<1>4. ASSUME Displayed(Seen, Seen'), promised' = promised
      PROVE  RefetchInv'
  BY <1>4, TurnKeepsPromise
<1>5. ASSUME ComeToAdmin
      PROVE  RefetchInv'
  <2>1. ~Seen /\ Displayed(Seen, Seen') /\ promised' = promised
    BY <1>2, <1>5 DEF ComeToAdmin, Displayed, AdminShow
  <2>2. QED
    BY <2>1, <1>4
<1>6. ASSUME LeaveAdmin
      PROVE  RefetchInv'
  BY <1>2, <1>3, <1>6 DEF LeaveAdmin, AdminShow
<1>7. ASSUME NEW d, AdminDialog(d)
      PROVE  RefetchInv'
  <2>1. Displayed(Seen, Seen') /\ promised' = promised
    BY <1>2, <1>7 DEF AdminDialog, OnAdmin, Displayed, AdminSee, AdminShow
  <2>2. QED
    BY <2>1, <1>4
<1>8. ASSUME OpenUserDialog \/ OpenOrgDialog \/ OpenAddMember \/ CloseAdminDialog
      PROVE  RefetchInv'
  BY <1>7, <1>8 DEF OpenUserDialog, OpenOrgDialog, OpenAddMember, CloseAdminDialog, AdminOpens
<1>9. ASSUME UNCHANGED <<cache, promised, mounted, dialog>>
      PROVE  RefetchInv'
  BY <1>2, <1>3, <1>9
<1>10. ASSUME \/ SubmitCreateUser \/ SubmitUpdateUser \/ SubmitUserQuota \/ SubmitDeleteUser
              \/ ToggleAdmin \/ SubmitRenameOrg \/ SubmitDeleteOrg \/ SwitchRegister \/ SaveQuota
              \/ SubmitAddMember \/ RemoveMember \/ ChangeRole
       PROVE  RefetchInv'
  BY <1>9, <1>10 DEF SubmitCreateUser, SubmitUpdateUser, SubmitUserQuota, SubmitDeleteUser,
     ToggleAdmin, SubmitRenameOrg, SubmitDeleteOrg, SwitchRegister, SaveQuota, SubmitAddMember,
     RemoveMember, ChangeRole, AdminSubmits, AdminSend
<1>11. ASSUME NEW i \in Slots, AdminApply(i)
       PROVE  RefetchInv'
  <2> DEFINE changed == watched \in AdminChange(calls[i])
  <2>1. Apply(i, changed) /\ changed \in BOOLEAN
    BY <1>11 DEF AdminApply
  <2>2. Seen' = Seen
    BY <1>2, <2>1 DEF Apply
  <2> HIDE DEF changed
  <2>3. QED
    BY <2>1, <2>2, ApplyKeepsPromise
<1>12. ASSUME NEW i \in Slots, NEW op, NEW stale, AdminDone(i, op, stale),
              watched \in AdminChange(calls[i]) => watched \in stale
       PROVE  RefetchInv'
  <2> DEFINE owed == watched \in AdminChange(calls[i])
  <2>1. Answered(i, op, stale, owed, Seen)
    BY <1>2, <1>12 DEF AdminDone, AdminSee
  <2>2. Seen' => Seen
    <3>1. mounted' = mounted /\ (dialog' = dialog \/ dialog'.op = "none")
      BY <1>12, <2>1 DEF AdminDone, Answered, Closes, NoDialog
    <3>2. QED
      BY <3>1, <1>2 DEF AdminShow
  <2>3. owed \in BOOLEAN /\ (owed => watched \in stale)
    BY <1>12
  <2> HIDE DEF owed
  <2>4. QED
    BY <2>1, <2>2, <2>3, AnswerKeepsPromise
<1>13. ASSUME NEW i \in Slots, NEW op, NEW stale, AdminDone(i, op, stale)
       PROVE  calls[i].op = op
  BY <1>13 DEF AdminDone, Answered
<1>14. ASSUME NEW i \in Slots, NEW op, UserDone(i, op),
              op \in {"toggleAdmin", "deleteUser", "createUser", "updateUser", "setUserQuota"}
       PROVE  RefetchInv'
  <2>1. AdminDone(i, op, {<<"admin users", None>>})
    BY <1>14 DEF UserDone
  <2>2. watched \in AdminChange(calls[i]) => watched \in {<<"admin users", None>>}
    BY <2>1, <1>13, <1>14 DEF AdminChange
  <2>3. QED
    BY <2>1, <2>2, <1>12
<1>15. ASSUME NEW i \in Slots,
              \/ ToggleAdminDone(i) \/ DeleteUserDone(i) \/ CreateUserDone(i) \/ UpdateUserDone(i)
              \/ SetUserQuotaDone(i)
       PROVE  RefetchInv'
  BY <1>14, <1>15 DEF ToggleAdminDone, DeleteUserDone, CreateUserDone, UpdateUserDone,
                      SetUserQuotaDone
<1>16. ASSUME NEW i \in Slots, RenameOrgDone(i) \/ DeleteOrgDone(i)
       PROVE  RefetchInv'
  <2>1. PICK op \in {"renameOrg", "deleteOrg"} : AdminDone(i, op, AdminKeys("orgs"))
    BY <1>16 DEF RenameOrgDone, DeleteOrgDone
  <2>2. watched \in AdminChange(calls[i]) => watched \in AdminKeys("orgs")
    BY <2>1, <1>13 DEF AdminChange
  <2>3. QED
    BY <2>1, <2>2, <1>12
<1>17. ASSUME NEW i \in Slots, SaveRegisterDone(i) \/ SetQuotaDone(i)
       PROVE  RefetchInv'
  <2>1. CASE SaveRegisterDone(i)
    BY <2>1, <1>12, <1>13 DEF SaveRegisterDone, AdminChange
  <2>2. CASE SetQuotaDone(i)
    BY <2>2, <1>12, <1>13 DEF SetQuotaDone, AdminChange
  <2>3. QED
    BY <1>17, <2>1, <2>2
<1>18. ASSUME NEW i \in Slots, AddMemberDone(i) \/ MemberButtonDone(i)
       PROVE  RefetchInv'
  <2>1. PICK op \in {"addMember", "removeMember", "changeRole"} : AdminDone(i, op, invalidateMembers)
    BY <1>18 DEF AddMemberDone, MemberButtonDone
  <2>2. watched \in AdminChange(calls[i]) => watched \in invalidateMembers
    BY <2>1, <1>13 DEF AdminChange, invalidateMembers
  <2>3. QED
    BY <2>1, <2>2, <1>12
<1>19. QED
  BY <1>5, <1>6, <1>8, <1>10, <1>11, <1>15, <1>16, <1>17, <1>18 DEF AdminNext

\* What is promised stays so in every step.
LEMMA RefetchKept == Spec => []RefetchInv
<1>1. Init => RefetchInv
  BY DEF Init, PageInit, RefetchInv, Observed, NoEntry
<1>2. PageInv /\ RefetchInv /\ [Next]_pageVars => RefetchInv'
  <2> SUFFICES ASSUME PageInv, RefetchInv, [Next]_pageVars
               PROVE  RefetchInv'
    OBVIOUS
  <2>1. CASE FilesNext
    BY <2>1, FilesKeepPromise
  <2>2. CASE LinksNext
    BY <2>2, LinksKeepPromise
  <2>3. CASE StoresNext
    BY <2>3, StoresKeepPromise
  <2>4. CASE AdminNext
    BY <2>4, AdminKeepPromise
  <2>5. CASE Background
    BY <2>5, BackgroundKeepsPromise
  <2>6. CASE UNCHANGED pageVars
    <3>1. Seen' = Seen
      BY <2>6 DEF pageVars, Seen, FilesSee, FilesShow, LinksSee, StoresSee, StoresShow, AdminSee, AdminShow
    <3>2. QED
      BY <3>1, <2>6 DEF RefetchInv, pageVars
  <2>7. QED
    BY <2>1, <2>2, <2>3, <2>4, <2>5, <2>6 DEF Next, Background
<1>3. QED
  BY <1>1, <1>2, PageCorrect, PTL DEF Spec

\* Whatever is on its way when, and wherever the user has been since, a page
\* ends up with the data that its finished changes made in the entries which
\* its onSuccess handlers refresh (FilesPage.tsx:123-127, batchOps.ts:45-49, and
\* the other pages): all but the Unrefreshed ones, unless an older fetch was
\* left running or the closure is one of another folder.
THEOREM RefetchCorrect == Spec => []ReadYourWrites
<1>1. RefetchInv => ReadYourWrites
  BY DEF RefetchInv, ReadYourWrites
<1>2. QED
  BY <1>1, RefetchKept, PTL

-----------------------------------------------------------------------------
(* Dialogs *)

\* A dialog asks for what the visit is for.
DialogsInv ==
  /\ page = "links" =>
       /\ dialog.op = "form" /\ dialog.item # None => "updateLink" \in wants
       /\ dialog.op = "deleteLink" => "deleteLink" \in wants
  /\ page = "stores" =>
       /\ dialog.op = "storeForm" =>
            (IF dialog.item = None THEN "createStore" ELSE "updateStore") \in wants
       /\ dialog.op \in {"deleteStore", "deleteKey", "createKey"} => dialog.op \in wants

\* The links page opens no other dialog.
LEMMA LinksDialogs ==
  ASSUME DialogsInv, LinksNext
  PROVE  DialogsInv'
<1>1. page = "links" /\ UNCHANGED <<page, wants>>
  BY LinksSteps
<1> USE <1>1 DEF DialogsInv, NoDialog
<1>2. ASSUME UNCHANGED dialog
      PROVE  DialogsInv'
  BY <1>2
<1>3. ASSUME ComeToLinks \/ \E k \in {"share-links", watched[1]} : ChooseTab(k)
      PROVE  DialogsInv'
  BY <1>2, <1>3 DEF ComeToLinks, ChooseTab
<1>4. ASSUME LeaveLinks \/ openCreate \/ closeCreateDialog \/ TypeLink \/ CancelDeleteLink
      PROVE  DialogsInv'
  BY <1>4 DEF LeaveLinks, openCreate, closeCreateDialog, TypeLink, CancelDeleteLink, LinksDialog,
              LinkFormFor
<1>5. ASSUME NEW x \in Rows, openEdit(x) \/ AskDeleteLink(x)
      PROVE  DialogsInv'
  BY <1>5 DEF openEdit, AskDeleteLink, LinksDialog, LinkFormFor
<1>6. ASSUME handleSave \/ ConfirmDeleteLink
      PROVE  DialogsInv'
  BY <1>2, <1>6 DEF handleSave, ConfirmDeleteLink, LinksSend
<1>7. ASSUME NEW i \in Slots,
             LinksApply(i) \/ CreateLinkDone(i) \/ UpdateLinkDone(i) \/ DeleteLinkDone(i)
      PROVE  DialogsInv'
  BY <1>7 DEF LinksApply, Apply, CreateLinkDone, UpdateLinkDone, DeleteLinkDone, LinkFormFor, Closes
<1>8. QED
  BY <1>3, <1>4, <1>5, <1>6, <1>7 DEF LinksNext

\* Nor does the stores page.
LEMMA StoresDialogs ==
  ASSUME DialogsInv, StoresNext
  PROVE  DialogsInv'
<1>1. page = "stores" /\ UNCHANGED <<page, wants>>
  BY StoresSteps
<1> USE <1>1 DEF DialogsInv, NoDialog
<1>2. ASSUME UNCHANGED dialog
      PROVE  DialogsInv'
  BY <1>2
<1>3. ASSUME ComeToStores \/ OtherTabConnects \/ setCredentialField \/ DismissSecret
      PROVE  DialogsInv'
  BY <1>2, <1>3 DEF ComeToStores, OtherTabConnects, setCredentialField, DismissSecret, StoresDialog
<1>4. ASSUME LeaveStores \/ AttachStore \/ AskDelete \/ OpenCreateKey \/ CloseStoresDialog
      PROVE  DialogsInv'
  BY <1>4 DEF LeaveStores, AttachStore, AskDelete, OpenCreateKey, CloseStoresDialog, StoresDialog,
              StoreForm
<1>5. ASSUME NEW x \in Rows, OpenEditStore(x)
      PROVE  DialogsInv'
  BY <1>5, PageConstants DEF OpenEditStore, StoresDialog, StoreForm
<1>6. ASSUME SubmitStore \/ ConfirmDelete \/ SubmitKey \/ StoreButtons \/ ChooseMode
      PROVE  DialogsInv'
  BY <1>2, <1>6 DEF SubmitStore, ConfirmDelete, SubmitKey, StoreButtons, ChooseMode, StoresSend
<1>7. ASSUME NEW i \in Slots,
             \/ StoresApply(i)
             \/ CreateStoreDone(i) \/ UpdateStoreDone(i) \/ DeleteStoreDone(i)
             \/ StoreButtonDone(i) \/ GdriveDone(i) \/ CreateKeyDone(i) \/ DeleteKeyDone(i)
      PROVE  DialogsInv'
  <2>1. dialog' \in {dialog, NoDialog}
    BY <1>7 DEF StoresApply, Apply, CreateStoreDone, UpdateStoreDone, DeleteStoreDone,
       StoreButtonDone, GdriveDone, CreateKeyDone, DeleteKeyDone, Closes
  <2>2. QED
    BY <2>1
<1>8. QED
  BY <1>3, <1>4, <1>5, <1>6, <1>7 DEF StoresNext

\* A dialog that sends was opened for what the visit is for.
LEMMA DialogsCorrect == Spec => []DialogsInv
<1>1. Init => DialogsInv
  BY DEF Init, PageInit, DialogsInv, NoDialog
<1>2. DialogsInv /\ [Next]_pageVars => DialogsInv'
  <2> SUFFICES ASSUME DialogsInv, [Next]_pageVars
               PROVE  DialogsInv'
    OBVIOUS
  <2>1. CASE LinksNext \/ StoresNext
    BY <2>1, LinksDialogs, StoresDialogs
  <2>2. CASE FilesNext \/ AdminNext
    BY <2>2, FilesSteps, AdminSteps DEF DialogsInv, AdminPages
  <2>3. CASE Background \/ UNCHANGED pageVars
    BY <2>3, BackgroundSteps DEF DialogsInv, pageVars
  <2>4. QED
    BY <2>1, <2>2, <2>3 DEF Next, Background
<1>3. QED
  BY <1>1, <1>2, PTL DEF Spec

-----------------------------------------------------------------------------
(* Mutations *)

\* Every slot holds a call, or is free.
CallsInv ==
  /\ DOMAIN calls = Slots
  /\ \A i \in Slots : DOMAIN calls[i] = DOMAIN NoCall
  /\ \A i \in Slots : calls[i].op = NoCall.op => calls[i] = NoCall

\* Call i goes on as it was, but for the closure that will handle its answer.
Kept(i) ==
  /\ calls[i] # NoCall
  /\ calls'[i].op = calls[i].op /\ calls'[i].item = calls[i].item /\ calls'[i].at = calls[i].at
  /\ calls'[i].via \in {calls[i].via, place}

\* mutate() makes one call; the one that was observed goes on unobserved.
LEMMA Submitted ==
  ASSUME CallsInv, NEW op, op # NoCall.op, NEW item, NEW at, Submit(op, item, at)
  PROVE  /\ CallsInv'
         /\ \A j \in Slots :
              \/ calls'[j] = [op |-> op, item |-> item, at |-> at, via |-> Live, applied |-> FALSE]
              \/ calls'[j] = NoCall
              \/ Kept(j) /\ (calls[j].op = op /\ calls'[j].via = Live => place = Live)
<1>1. PICK i \in Slots :
        calls' = [Detached(calls, {op}) EXCEPT
                    ![i] = [op |-> op, item |-> item, at |-> at, via |-> Live, applied |-> FALSE]]
  BY DEF Submit
<1> DEFINE new == [op |-> op, item |-> item, at |-> at, via |-> Live, applied |-> FALSE]
           old == Detached(calls, {op})
<1>2. DOMAIN old = Slots
  BY DEF Detached
<1>3. ASSUME NEW j \in Slots
      PROVE  /\ DOMAIN old[j] = DOMAIN NoCall
             /\ calls[j] = NoCall => old[j] = NoCall
             /\ old[j].op = calls[j].op /\ old[j].item = calls[j].item /\ old[j].at = calls[j].at
             /\ old[j].via \in {calls[j].via, place}
             /\ calls[j].op = op /\ old[j].via = Live => place = Live
  <2>1. CASE calls[j].op = op /\ calls[j].via = Live
    <3>1. old[j] = [calls[j] EXCEPT !.via = place]
      BY <2>1 DEF Detached
    <3>2. DOMAIN calls[j] = {"op", "item", "at", "via", "applied"}
      BY DEF CallsInv, NoCall
    <3> HIDE DEF old
    <3>3. QED
      BY <2>1, <3>1, <3>2 DEF NoCall
  <2>2. CASE ~(calls[j].op = op /\ calls[j].via = Live)
    <3>1. old[j] = calls[j]
      BY <2>2 DEF Detached
    <3> HIDE DEF old
    <3>2. QED
      BY <2>2, <3>1 DEF CallsInv
  <2>3. QED
    BY <2>1, <2>2
<1>4. DOMAIN calls' = Slots /\ \A j \in Slots : calls'[j] = IF j = i THEN new ELSE old[j]
  <2> HIDE DEF old
  <2>1. calls' = [old EXCEPT ![i] = new]
    BY <1>1 DEF old
  <2>2. QED
    BY <2>1, <1>2
<1>5. DOMAIN new = DOMAIN NoCall /\ new.op # NoCall.op
  BY DEF NoCall
<1> HIDE DEF new, old
<1>6. CallsInv'
  BY <1>3, <1>4, <1>5 DEF CallsInv
<1>7. ASSUME NEW j \in Slots
      PROVE  \/ calls'[j] = new
             \/ calls'[j] = NoCall
             \/ Kept(j) /\ (calls[j].op = op /\ calls'[j].via = Live => place = Live)
  BY <1>3, <1>4 DEF Kept
<1>8. QED
  BY <1>6, <1>7 DEF new

\* All that a step does to the calls besides submitting one.
Settles ==
  \/ UNCHANGED calls
  \/ \E i \in Slots : calls' = [calls EXCEPT ![i] = NoCall]
  \/ \E i \in Slots : calls[i] # NoCall /\ calls' = [calls EXCEPT ![i].applied = TRUE]
  \/ calls' = Abandoned(calls)

\* The page that submits is there.
Submits(ops) == mounted' /\ \E op \in ops : \E item, at : Submit(op, item, at)

\* Such a step keeps each call, or ends it.
LEMMA Settled ==
  ASSUME CallsInv, Settles
  PROVE  CallsInv' /\ \A j \in Slots : calls'[j] = NoCall \/ Kept(j)
<1>0. DOMAIN NoCall = {"op", "item", "at", "via", "applied"}
  BY DEF NoCall
<1>1. CASE UNCHANGED calls
  BY <1>1 DEF CallsInv, Kept
<1>2. ASSUME NEW i \in Slots, calls' = [calls EXCEPT ![i] = NoCall]
      PROVE  CallsInv' /\ \A j \in Slots : calls'[j] = NoCall \/ Kept(j)
  BY <1>2 DEF CallsInv, Kept
<1>3. ASSUME NEW i \in Slots, calls[i] # NoCall, calls' = [calls EXCEPT ![i].applied = TRUE]
      PROVE  CallsInv' /\ \A j \in Slots : calls'[j] = NoCall \/ Kept(j)
  <2>1. DOMAIN calls' = Slots /\ \A j \in Slots \ {i} : calls'[j] = calls[j]
    BY <1>3 DEF CallsInv
  <2>2. calls'[i] = [calls[i] EXCEPT !.applied = TRUE]
    BY <1>3 DEF CallsInv
  <2>3. DOMAIN calls'[i] = DOMAIN NoCall /\ Kept(i)
    BY <1>3, <2>2, <1>0 DEF CallsInv, Kept
  <2>4. QED
    BY <2>1, <2>3 DEF CallsInv, Kept
<1>4. CASE calls' = Abandoned(calls)
  <2>1. DOMAIN calls' = Slots
    BY <1>4 DEF Abandoned, Detached
  <2>2. ASSUME NEW j \in Slots
        PROVE  /\ DOMAIN calls'[j] = DOMAIN NoCall
               /\ Kept(j) \/ (calls[j] = NoCall /\ calls'[j] = NoCall)
    <3>1. \/ calls'[j] = calls[j]
          \/ calls[j] # NoCall /\ calls'[j] = [calls[j] EXCEPT !.via = place]
      BY <1>4 DEF Abandoned, Detached
    <3>2. QED
      BY <3>1, <1>0 DEF CallsInv, Kept
  <2>3. QED
    BY <2>1, <2>2 DEF CallsInv, Kept
<1>5. QED
  BY <1>1, <1>2, <1>3, <1>4 DEF Settles

\* A step adds no call but the one it submits.
LEMMA NewCalls ==
  ASSUME CallsInv, NEW ops, NoCall.op \notin ops, Settles \/ Submits(ops)
  PROVE  /\ CallsInv'
         /\ \A j \in Slots : calls'[j] = NoCall \/ Kept(j) \/ calls'[j].op \in ops
<1>1. CASE Settles
  BY <1>1, Settled
<1>2. CASE Submits(ops)
  <2>1. PICK op, item, at : op \in ops /\ Submit(op, item, at)
    BY <1>2 DEF Submits
  <2>2. CallsInv' /\ \A j \in Slots :
          \/ calls'[j] = [op |-> op, item |-> item, at |-> at, via |-> Live, applied |-> FALSE]
          \/ calls'[j] = NoCall
          \/ Kept(j)
    BY <2>1, Submitted
  <2>3. QED
    BY <2>1, <2>2
<1>3. QED
  BY <1>1, <1>2

FileOps ==
  {"createFolder", "rename", "move", "delete", "deleteWithFiles", "setTags", "createTag",
   "upload", "batchMove", "batchDelete"}

\* The calls that the files page submits.
LEMMA FilesCalls ==
  ASSUME FilesNext
  PROVE  Settles \/ Submits(FileOps \cap wants) \/ OpenShare
<1>1. ASSUME NEW p \in Folders, ComeToFiles(p) \/ handleNav(p) \/ BrowserBack(p)
      PROVE  Settles
  BY <1>1 DEF ComeToFiles, handleNav, BrowserBack, Settles
<1>2. ASSUME LeaveFiles \/ toggleSelect \/ toggleSelectMode \/ OpenDialog \/ OpenBatch \/ CloseFilesDialog
      PROVE  Settles
  BY <1>2 DEF LeaveFiles, toggleSelect, toggleSelectMode, Select, OpenDialog, OpenBatch,
              CloseFilesDialog, Settles
<1>3. ASSUME NEW op \in FileOps \cap wants, NEW item, NEW at, Submit(op, item, at), mounted'
      PROVE  Submits(FileOps \cap wants)
  BY <1>3 DEF Submits
<1>4. ASSUME \/ SubmitCreateFolder \/ SubmitRename \/ SubmitMove \/ SubmitDelete
             \/ SubmitDeleteWithFiles \/ SubmitTags \/ SubmitNewTag \/ SubmitBatch \/ DropFiles
      PROVE  Submits(FileOps \cap wants)
  BY <1>3, <1>4 DEF SubmitCreateFolder, SubmitRename, SubmitMove, SubmitDelete,
     SubmitDeleteWithFiles, SubmitTags, SubmitNewTag, SubmitBatch, DropFiles, Sends, OnFiles, FileOps
<1>5. ASSUME NEW i \in Slots,
             \/ FilesApply(i)
             \/ CreateFolderDone(i) \/ RenameDone(i) \/ MoveDone(i) \/ DeleteDone(i)
             \/ DeleteWithFilesDone(i) \/ SetTagsDone(i) \/ CreateTagDone(i) \/ UploadDone(i)
             \/ BatchDone(i) \/ ShareDone(i)
      PROVE  Settles
  <2>1. CASE FilesApply(i)
    BY <2>1 DEF FilesApply, Apply, Settles
  <2>2. CASE ~FilesApply(i)
    <3>1. PICK op, stale, known : FilesDone(i, op, stale, known)
      BY <1>5, <2>2 DEF CreateFolderDone, RenameDone, MoveDone, DeleteDone, DeleteWithFilesDone,
         SetTagsDone, CreateTagDone, UploadDone, BatchDone, ShareDone, PageDone
    <3>2. QED
      BY <3>1 DEF FilesDone, Answered, Settles
  <2>3. QED
    BY <2>1, <2>2
<1>6. QED
  BY <1>1, <1>2, <1>4, <1>5 DEF FilesNext

\* The calls that the links page submits.
LEMMA LinksCalls ==
  ASSUME DialogsInv, LinksNext
  PROVE  Settles \/ Submits({"createLink"} \cup ({"updateLink", "deleteLink"} \cap wants))
<1> DEFINE ops == {"createLink"} \cup ({"updateLink", "deleteLink"} \cap wants)
<1>1. ASSUME ComeToLinks \/ LeaveLinks \/ \E k \in {"share-links", watched[1]} : ChooseTab(k)
      PROVE  Settles
  BY <1>1 DEF ComeToLinks, LeaveLinks, ChooseTab, Settles
<1>2. ASSUME \/ openCreate \/ closeCreateDialog \/ TypeLink \/ CancelDeleteLink
             \/ \E x \in Rows : openEdit(x) \/ AskDeleteLink(x)
      PROVE  Settles
  BY <1>2 DEF openCreate, closeCreateDialog, TypeLink, CancelDeleteLink, openEdit, AskDeleteLink,
              LinksDialog, Settles
<1>3. ASSUME handleSave \/ ConfirmDeleteLink
      PROVE  Submits(ops)
  <2>1. PICK op, item, at : op \in ops /\ Submit(op, item, at) /\ mounted'
    BY <1>3 DEF handleSave, ConfirmDeleteLink, LinksSend, OnLinks, DialogsInv
  <2>2. QED
    BY <2>1 DEF Submits
<1>4. ASSUME NEW i \in Slots,
             LinksApply(i) \/ CreateLinkDone(i) \/ UpdateLinkDone(i) \/ DeleteLinkDone(i)
      PROVE  Settles
  BY <1>4 DEF LinksApply, Apply, CreateLinkDone, UpdateLinkDone, DeleteLinkDone, LinksDone,
              Answered, Settles
<1>5. QED
  BY <1>1, <1>2, <1>3, <1>4 DEF LinksNext

AdminOps ==
  {"toggleAdmin", "deleteUser", "createUser", "updateUser", "setUserQuota", "renameOrg",
   "deleteOrg", "saveRegister", "addMember", "removeMember", "changeRole", "setQuota"}

\* The calls that the pages of WebAdmin submit.
LEMMA AdminCalls ==
  ASSUME AdminNext
  PROVE  Settles \/ Submits(AdminOps \cap wants)
<1>1. ASSUME ComeToAdmin \/ LeaveAdmin
      PROVE  Settles
  BY <1>1 DEF ComeToAdmin, LeaveAdmin, Settles
<1>2. ASSUME OpenUserDialog \/ OpenOrgDialog \/ OpenAddMember \/ CloseAdminDialog
      PROVE  Settles
  BY <1>2 DEF OpenUserDialog, OpenOrgDialog, OpenAddMember, CloseAdminDialog, AdminOpens,
              AdminDialog, Settles
<1>3. ASSUME NEW op \in AdminOps \cap wants, NEW item, NEW at, Submit(op, item, at), mounted'
      PROVE  Submits(AdminOps \cap wants)
  BY <1>3 DEF Submits
<1>4. ASSUME \/ SubmitCreateUser \/ SubmitUpdateUser \/ SubmitUserQuota \/ SubmitDeleteUser
             \/ ToggleAdmin \/ SubmitRenameOrg \/ SubmitDeleteOrg \/ SwitchRegister \/ SaveQuota
             \/ SubmitAddMember \/ RemoveMember \/ ChangeRole
      PROVE  Submits(AdminOps \cap wants)
  BY <1>3, <1>4 DEF SubmitCreateUser, SubmitUpdateUser, SubmitUserQuota, SubmitDeleteUser,
     ToggleAdmin, SubmitRenameOrg, SubmitDeleteOrg, SwitchRegister, SaveQuota, SubmitAddMember,
     RemoveMember, ChangeRole, AdminSubmits, AdminSend, OnAdmin, AdminOps
<1>5. ASSUME NEW i \in Slots, NEW op, NEW stale, AdminDone(i, op, stale)
      PROVE  Settles
  BY <1>5 DEF AdminDone, Answered, Settles
<1>6. ASSUME NEW i \in Slots,
             \/ AdminApply(i)
             \/ ToggleAdminDone(i) \/ DeleteUserDone(i) \/ CreateUserDone(i) \/ UpdateUserDone(i)
             \/ SetUserQuotaDone(i) \/ RenameOrgDone(i) \/ DeleteOrgDone(i) \/ SaveRegisterDone(i)
             \/ AddMemberDone(i) \/ MemberButtonDone(i) \/ SetQuotaDone(i)
      PROVE  Settles
  <2>1. CASE AdminApply(i)
    BY <2>1 DEF AdminApply, Apply, Settles
  <2>2. CASE ~AdminApply(i)
    BY <1>5, <1>6, <2>2 DEF ToggleAdminDone, DeleteUserDone, CreateUserDone, UpdateUserDone,
       SetUserQuotaDone, RenameOrgDone, DeleteOrgDone, SaveRegisterDone, AddMemberDone,
       MemberButtonDone, SetQuotaDone, UserDone
  <2>3. QED
    BY <2>1, <2>2
<1>7. QED
  BY <1>1, <1>2, <1>4, <1>6 DEF AdminNext

StoreOps ==
  {"createStore", "deleteStore", "deleteKey", "createKey", "testStore", "setPrimary", "ingest",
   "sync", "storageMode", "gdrive"}

\* The calls that the stores page submits; only Save with a store to edit makes
\* an update, with the credentials of the form.
SavesStore ==
  /\ Submit("updateStore", dialog.item, ui.typed) /\ mounted' /\ "updateStore" \in wants
  /\ dialog.op = "storeForm" /\ dialog.item # None /\ UNCHANGED <<dialog, ui>>

LEMMA StoresCalls ==
  ASSUME DialogsInv, StoresNext
  PROVE  Settles \/ Submits(StoreOps \cap wants) \/ SavesStore
<1>1. ASSUME NEW op \in StoreOps \cap wants, NEW item, NEW at, Submit(op, item, at), mounted'
      PROVE  Submits(StoreOps \cap wants)
  BY <1>1 DEF Submits
<1>2. ASSUME ComeToStores \/ LeaveStores \/ OtherTabConnects
      PROVE  Settles \/ Submits(StoreOps \cap wants)
  <2>1. CASE LeaveStores
    BY <2>1 DEF LeaveStores, Settles
  <2>2. CASE OtherTabConnects
    BY <1>1, <2>2 DEF OtherTabConnects, OnStores, StoreOps
  <2>3. CASE ComeToStores
    <3>1. mounted'
      BY <2>3 DEF ComeToStores
    <3>2. UNCHANGED calls \/ ("gdrive" \in wants /\ Submit("gdrive", "this tab", {}))
      BY <2>3 DEF ComeToStores
    <3>3. QED
      BY <1>1, <3>1, <3>2 DEF Settles, StoreOps
  <2>4. QED
    BY <1>2, <2>1, <2>2, <2>3
<1>3. ASSUME \/ AttachStore \/ (\E x \in Rows : OpenEditStore(x)) \/ setCredentialField
             \/ AskDelete \/ OpenCreateKey \/ CloseStoresDialog \/ DismissSecret
      PROVE  Settles
  BY <1>3 DEF AttachStore, OpenEditStore, setCredentialField, AskDelete, OpenCreateKey,
              CloseStoresDialog, DismissSecret, StoresDialog, Settles
<1>4. ASSUME ConfirmDelete \/ SubmitKey \/ StoreButtons \/ ChooseMode
      PROVE  Submits(StoreOps \cap wants)
  BY <1>1, <1>4 DEF ConfirmDelete, SubmitKey, StoreButtons, ChooseMode, StoresSend, OnStores,
                    StoreOps, DialogsInv
<1>5. ASSUME SubmitStore
      PROVE  Submits(StoreOps \cap wants) \/ SavesStore
  BY <1>1, <1>5 DEF SubmitStore, StoresSend, OnStores, StoreOps, DialogsInv, SavesStore
<1>6. ASSUME NEW i \in Slots, NEW op, NEW stale, StoresDone(i, op, stale)
      PROVE  Settles
  BY <1>6 DEF StoresDone, Answered, Settles
<1>7. ASSUME NEW i \in Slots,
             \/ StoresApply(i)
             \/ CreateStoreDone(i) \/ UpdateStoreDone(i) \/ DeleteStoreDone(i)
             \/ StoreButtonDone(i) \/ GdriveDone(i) \/ CreateKeyDone(i) \/ DeleteKeyDone(i)
      PROVE  Settles
  <2>1. CASE StoresApply(i)
    BY <2>1 DEF StoresApply, Apply, Settles
  <2>2. CASE ~StoresApply(i)
    BY <1>6, <1>7, <2>2 DEF CreateStoreDone, UpdateStoreDone, DeleteStoreDone, StoreButtonDone,
       GdriveDone, CreateKeyDone, DeleteKeyDone
  <2>3. QED
    BY <2>1, <2>2
<1>8. QED
  BY <1>2, <1>3, <1>4, <1>5, <1>7 DEF StoresNext

\* No call is lost but by its end, and a free slot is free.
LEMMA CallsCorrect == Spec => []CallsInv
<1>1. Init => CallsInv
  BY DEF Init, PageInit, CallsInv
<1>2. DialogsInv /\ CallsInv /\ [Next]_pageVars => CallsInv'
  <2> SUFFICES ASSUME DialogsInv, CallsInv, [Next]_pageVars
               PROVE  CallsInv'
    OBVIOUS
  <2>1. CASE FilesNext
    <3>1. CASE OpenShare
      BY <3>1, Submitted DEF OpenShare, NoCall
    <3>2. QED
      BY <2>1, <3>1, FilesCalls, NewCalls DEF FileOps, NoCall
  <2>2. CASE LinksNext
    BY <2>2, LinksCalls, NewCalls DEF NoCall
  <2>3. CASE StoresNext
    <3>1. CASE SavesStore
      BY <3>1, Submitted DEF SavesStore, NoCall
    <3>2. QED
      BY <2>3, <3>1, StoresCalls, NewCalls DEF StoreOps, NoCall
  <2>4. CASE AdminNext
    BY <2>4, AdminCalls, NewCalls DEF AdminOps, NoCall
  <2>5. CASE Background \/ UNCHANGED pageVars
    <3>1. Settles
      BY <2>5, BackgroundSteps DEF Settles, pageVars
    <3>2. QED
      BY <3>1, Settled
  <2>6. QED
    BY <2>1, <2>2, <2>3, <2>4, <2>5 DEF Next, Background
<1>3. QED
  BY <1>1, <1>2, DialogsCorrect, PTL DEF Spec

-----------------------------------------------------------------------------
(* A page that is not there *)

\* It has no dialog.
ThereInv ==
  /\ mounted \in BOOLEAN /\ promised \in BOOLEAN
  /\ ~mounted => dialog = NoDialog

\* It observes no call, and every call is one the user came for.
VisitInv ==
  /\ ~mounted => \A i \in Slots : calls[i] # NoCall => calls[i].via # Live
  /\ \A i \in Slots : calls[i].op \in wants \cup {NoCall.op, "createLink"}

\* A page that goes leaves its calls to themselves.
Goes == ~mounted' => ~mounted \/ calls' = Abandoned(calls)

\* The files page comes and goes with its dialogs and its calls.
LEMMA FilesThere ==
  ASSUME ThereInv, FilesNext
  PROVE  ThereInv' /\ Goes
<1> USE DEF ThereInv, Goes
<1>1. ASSUME NEW p \in Folders, ComeToFiles(p) \/ handleNav(p) \/ BrowserBack(p)
      PROVE  ThereInv' /\ Goes
  BY <1>1 DEF ComeToFiles, handleNav, BrowserBack, FilesTurn, OnFiles
<1>2. ASSUME LeaveFiles \/ CloseFilesDialog
      PROVE  ThereInv' /\ Goes
  BY <1>2 DEF LeaveFiles, CloseFilesDialog, FilesTurn
<1>3. ASSUME toggleSelect \/ toggleSelectMode
      PROVE  ThereInv' /\ Goes
  BY <1>3 DEF toggleSelect, toggleSelectMode, Select
<1>4. ASSUME OpenDialog \/ OpenShare \/ OpenBatch
      PROVE  ThereInv' /\ Goes
  BY <1>4 DEF OpenDialog, OpenShare, OpenBatch, Opens, FilesTurn, OnFiles
<1>5. ASSUME \/ SubmitCreateFolder \/ SubmitRename \/ SubmitMove \/ SubmitDelete
             \/ SubmitDeleteWithFiles \/ SubmitTags \/ SubmitNewTag \/ SubmitBatch \/ DropFiles
      PROVE  ThereInv' /\ Goes
  BY <1>5 DEF SubmitCreateFolder, SubmitRename, SubmitMove, SubmitDelete, SubmitDeleteWithFiles,
              SubmitTags, SubmitNewTag, SubmitBatch, DropFiles, Sends
<1>6. ASSUME NEW i \in Slots,
             \/ CreateFolderDone(i) \/ RenameDone(i) \/ MoveDone(i) \/ DeleteDone(i)
             \/ DeleteWithFilesDone(i) \/ SetTagsDone(i) \/ CreateTagDone(i) \/ UploadDone(i)
             \/ BatchDone(i) \/ ShareDone(i)
      PROVE  ThereInv' /\ Goes
  <2>1. dialog' \in {dialog, NoDialog}
    BY <1>6 DEF CreateFolderDone, RenameDone, MoveDone, DeleteDone, DeleteWithFilesDone,
       SetTagsDone, CreateTagDone, UploadDone, BatchDone, ShareDone, Closes
  <2>2. mounted' = mounted /\ promised' \in BOOLEAN
    <3>1. PICK op, stale, known : FilesDone(i, op, stale, known)
      BY <1>6 DEF CreateFolderDone, RenameDone, MoveDone, DeleteDone, DeleteWithFilesDone,
         SetTagsDone, CreateTagDone, UploadDone, BatchDone, ShareDone, PageDone
    <3>2. QED
      BY <3>1 DEF FilesDone, Answered
  <2>3. QED
    BY <2>1, <2>2
<1>7. ASSUME NEW i \in Slots, FilesApply(i)
      PROVE  ThereInv' /\ Goes
  BY <1>7 DEF FilesApply, Apply
<1>8. QED
  BY <1>1, <1>2, <1>3, <1>4, <1>5, <1>6, <1>7 DEF FilesNext

\* So does the links page,
LEMMA LinksThere ==
  ASSUME ThereInv, LinksNext
  PROVE  ThereInv' /\ Goes
<1> USE DEF ThereInv, Goes, OnLinks
<1>1. ASSUME ComeToLinks \/ LeaveLinks \/ \E k \in {"share-links", watched[1]} : ChooseTab(k)
      PROVE  ThereInv' /\ Goes
  BY <1>1 DEF ComeToLinks, LeaveLinks, ChooseTab
<1>2. ASSUME \/ openCreate \/ closeCreateDialog \/ TypeLink \/ CancelDeleteLink
             \/ \E x \in Rows : openEdit(x) \/ AskDeleteLink(x)
      PROVE  ThereInv' /\ Goes
  BY <1>2 DEF openCreate, closeCreateDialog, TypeLink, CancelDeleteLink, openEdit, AskDeleteLink,
              LinksDialog
<1>3. ASSUME handleSave \/ ConfirmDeleteLink
      PROVE  ThereInv' /\ Goes
  BY <1>3 DEF handleSave, ConfirmDeleteLink, LinksSend
<1>4. ASSUME NEW i \in Slots,
             LinksApply(i) \/ CreateLinkDone(i) \/ UpdateLinkDone(i) \/ DeleteLinkDone(i)
      PROVE  ThereInv' /\ Goes
  <2>1. mounted' = mounted /\ promised' \in BOOLEAN
    BY <1>4 DEF LinksApply, Apply, CreateLinkDone, UpdateLinkDone, DeleteLinkDone, LinksDone, Answered
  <2>2. dialog = NoDialog => dialog' = NoDialog
    BY <1>4 DEF LinksApply, Apply, CreateLinkDone, UpdateLinkDone, DeleteLinkDone, Closes, NoDialog
  <2>3. QED
    BY <2>1, <2>2
<1>5. QED
  BY <1>1, <1>2, <1>3, <1>4 DEF LinksNext

\* the stores page,
LEMMA StoresThere ==
  ASSUME ThereInv, StoresNext
  PROVE  ThereInv' /\ Goes
<1> USE DEF ThereInv, Goes, OnStores
<1>1. ASSUME ComeToStores \/ LeaveStores \/ OtherTabConnects
      PROVE  ThereInv' /\ Goes
  BY <1>1 DEF ComeToStores, LeaveStores, OtherTabConnects
<1>2. ASSUME \/ AttachStore \/ (\E x \in Rows : OpenEditStore(x)) \/ setCredentialField
             \/ AskDelete \/ OpenCreateKey \/ CloseStoresDialog \/ DismissSecret
      PROVE  ThereInv' /\ Goes
  BY <1>2 DEF AttachStore, OpenEditStore, setCredentialField, AskDelete, OpenCreateKey,
              CloseStoresDialog, DismissSecret, StoresDialog
<1>3. ASSUME SubmitStore \/ ConfirmDelete \/ SubmitKey \/ StoreButtons \/ ChooseMode
      PROVE  ThereInv' /\ Goes
  BY <1>3 DEF SubmitStore, ConfirmDelete, SubmitKey, StoreButtons, ChooseMode, StoresSend
<1>4. ASSUME NEW i \in Slots,
             \/ CreateStoreDone(i) \/ UpdateStoreDone(i) \/ DeleteStoreDone(i)
             \/ StoreButtonDone(i) \/ GdriveDone(i) \/ CreateKeyDone(i) \/ DeleteKeyDone(i)
      PROVE  ThereInv' /\ Goes
  <2>1. dialog' \in {dialog, NoDialog}
    BY <1>4 DEF CreateStoreDone, UpdateStoreDone, DeleteStoreDone, StoreButtonDone, GdriveDone,
       CreateKeyDone, DeleteKeyDone, Closes
  <2>2. mounted' = mounted /\ promised' \in BOOLEAN
    <3>1. PICK op, stale : StoresDone(i, op, stale)
      BY <1>4 DEF CreateStoreDone, UpdateStoreDone, DeleteStoreDone, StoreButtonDone, GdriveDone,
         CreateKeyDone, DeleteKeyDone
    <3>2. QED
      BY <3>1 DEF StoresDone, Answered
  <2>3. QED
    BY <2>1, <2>2
<1>5. ASSUME NEW i \in Slots, StoresApply(i)
      PROVE  ThereInv' /\ Goes
  BY <1>5 DEF StoresApply, Apply
<1>6. QED
  BY <1>1, <1>2, <1>3, <1>4, <1>5 DEF StoresNext

\* and every page of WebAdmin.
LEMMA AdminThere ==
  ASSUME ThereInv, AdminNext
  PROVE  ThereInv' /\ Goes
<1> USE DEF ThereInv, Goes, OnAdmin
<1>1. ASSUME ComeToAdmin \/ LeaveAdmin
      PROVE  ThereInv' /\ Goes
  BY <1>1 DEF ComeToAdmin, LeaveAdmin
<1>2. ASSUME OpenUserDialog \/ OpenOrgDialog \/ OpenAddMember \/ CloseAdminDialog
      PROVE  ThereInv' /\ Goes
  BY <1>2 DEF OpenUserDialog, OpenOrgDialog, OpenAddMember, CloseAdminDialog, AdminOpens, AdminDialog
<1>3. ASSUME \/ SubmitCreateUser \/ SubmitUpdateUser \/ SubmitUserQuota \/ SubmitDeleteUser
             \/ ToggleAdmin \/ SubmitRenameOrg \/ SubmitDeleteOrg \/ SwitchRegister \/ SaveQuota
             \/ SubmitAddMember \/ RemoveMember \/ ChangeRole
      PROVE  ThereInv' /\ Goes
  BY <1>3 DEF SubmitCreateUser, SubmitUpdateUser, SubmitUserQuota, SubmitDeleteUser, ToggleAdmin,
              SubmitRenameOrg, SubmitDeleteOrg, SwitchRegister, SaveQuota, SubmitAddMember,
              RemoveMember, ChangeRole, AdminSubmits, AdminSend
<1>4. ASSUME NEW i \in Slots, NEW op, NEW stale, AdminDone(i, op, stale)
      PROVE  ThereInv' /\ Goes
  BY <1>4 DEF AdminDone, Answered, Closes
<1>5. ASSUME NEW i \in Slots,
             \/ ToggleAdminDone(i) \/ DeleteUserDone(i) \/ CreateUserDone(i) \/ UpdateUserDone(i)
             \/ SetUserQuotaDone(i) \/ RenameOrgDone(i) \/ DeleteOrgDone(i) \/ SaveRegisterDone(i)
             \/ AddMemberDone(i) \/ MemberButtonDone(i) \/ SetQuotaDone(i)
      PROVE  ThereInv' /\ Goes
  BY <1>4, <1>5 DEF ToggleAdminDone, DeleteUserDone, CreateUserDone, UpdateUserDone,
     SetUserQuotaDone, RenameOrgDone, DeleteOrgDone, SaveRegisterDone, AddMemberDone,
     MemberButtonDone, SetQuotaDone, UserDone
<1>6. ASSUME NEW i \in Slots, AdminApply(i)
      PROVE  ThereInv' /\ Goes
  BY <1>6 DEF AdminApply, Apply
<1>7. QED
  BY <1>1, <1>2, <1>3, <1>5, <1>6 DEF AdminNext

\* The calls of a step are ones the user came for, made by a page that is there.
LEMMA VisitKept ==
  ASSUME CallsInv, VisitInv, place # Live, Goes, UNCHANGED wants,
         NEW ops, ops \subseteq wants \cup {"createLink"}, NoCall.op \notin ops,
         Settles \/ Submits(ops)
  PROVE  VisitInv'
<1>1. \A j \in Slots : calls'[j] = NoCall \/ Kept(j) \/ calls'[j].op \in ops
  BY NewCalls
<1>2. \A j \in Slots : calls'[j].op \in wants' \cup {NoCall.op, "createLink"}
  BY <1>1 DEF VisitInv, Kept
<1>3. ASSUME ~mounted', NEW j \in Slots, calls'[j] # NoCall
      PROVE  calls'[j].via # Live
  <2>1. Settles
    BY <1>3 DEF Submits
  <2>2. Kept(j)
    BY <1>3, <2>1, Settled
  <2>3. CASE ~mounted
    BY <2>2, <2>3 DEF Kept, VisitInv
  <2>4. CASE calls' = Abandoned(calls)
    <3>1. calls[j].op \in {calls[i].op : i \in Slots} \ {NoCall.op}
      BY <2>2 DEF Kept, CallsInv
    <3>2. calls'[j] = IF calls[j].via = Live THEN [calls[j] EXCEPT !.via = place] ELSE calls[j]
      BY <2>4, <3>1 DEF Abandoned, Detached
    <3>3. DOMAIN calls[j] = {"op", "item", "at", "via", "applied"}
      BY DEF CallsInv, NoCall
    <3>4. QED
      BY <3>2, <3>3
  <2>5. QED
    BY <1>3, <2>3, <2>4 DEF Goes
<1>4. QED
  BY <1>2, <1>3 DEF VisitInv

\* Every page keeps to its visit: a page the user has left observes no call and
\* has no dialog, so that no late answer closes or resets a later one.
THEOREM PageTyped == Spec => []PageTypeOK
<1>1. Init => ThereInv /\ VisitInv
  BY DEF Init, PageInit, ThereInv, VisitInv
<1>2. /\ PageInv /\ DialogsInv /\ CallsInv /\ ThereInv /\ VisitInv /\ [Next]_pageVars
      => ThereInv' /\ VisitInv'
  <2> SUFFICES ASSUME PageInv, DialogsInv, CallsInv, ThereInv, VisitInv, [Next]_pageVars
               PROVE  ThereInv' /\ VisitInv'
    OBVIOUS
  <2>1. place # Live
    BY PageConstants DEF PageInv, Folders, Live
  <2>2. UNCHANGED wants
    BY FilesSteps, LinksSteps, StoresSteps, AdminSteps, BackgroundSteps
       DEF Next, Background, pageVars
  <2>3. CASE FilesNext
    <3>1. ThereInv' /\ Goes
      BY <2>3, FilesThere
    <3>2. CASE OpenShare
      <4>1. "share" \in wants /\ mounted'
        BY <3>2 DEF OpenShare, Opens, OnFiles
      <4>2. Submits({"share"})
        BY <3>2, <4>1 DEF OpenShare, Submits
      <4>3. QED
        BY <3>1, <4>1, <4>2, <2>1, <2>2, VisitKept DEF NoCall
    <3>3. QED
      BY <2>3, <3>1, <3>2, <2>1, <2>2, FilesCalls, VisitKept DEF FileOps, NoCall
  <2>4. CASE LinksNext
    BY <2>4, <2>1, <2>2, LinksThere, LinksCalls, VisitKept DEF NoCall
  <2>5. CASE StoresNext
    <3>1. ThereInv' /\ Goes
      BY <2>5, StoresThere
    <3>2. SavesStore => Submits({"updateStore"}) /\ "updateStore" \in wants
      BY DEF SavesStore, Submits
    <3>3. CASE SavesStore
      BY <3>1, <3>2, <3>3, <2>1, <2>2, VisitKept DEF NoCall
    <3>4. QED
      BY <2>5, <3>1, <3>3, <2>1, <2>2, StoresCalls, VisitKept DEF StoreOps, NoCall
  <2>6. CASE AdminNext
    BY <2>6, <2>1, <2>2, AdminThere, AdminCalls, VisitKept DEF AdminOps, NoCall
  <2>7. CASE Background \/ UNCHANGED pageVars
    <3>1. Settles /\ UNCHANGED <<mounted, dialog>>
      BY <2>7, BackgroundSteps DEF Settles, pageVars
    <3>2. promised' \in BOOLEAN
      BY <2>7 DEF Background, pageVars, ServeQuery, QueryArrives, QueryFails, Reconnect, CallFails,
                  ThereInv
    <3>3. ThereInv' /\ Goes
      BY <3>1, <3>2 DEF ThereInv, Goes
    <3> DEFINE ops == {"createLink"}
    <3>4. NoCall.op \notin ops /\ ops \subseteq wants \cup {"createLink"}
      BY DEF NoCall
    <3> HIDE DEF ops
    <3>5. VisitInv'
      BY <3>1, <3>3, <3>4, <2>1, <2>2, VisitKept
    <3>6. QED
      BY <3>3, <3>5
  <2>8. QED
    BY <2>3, <2>4, <2>5, <2>6, <2>7 DEF Next, Background
<1>3. RefetchInv /\ CallsInv /\ ThereInv /\ VisitInv => PageTypeOK
  BY DEF RefetchInv, CallsInv, ThereInv, VisitInv, PageTypeOK, NoCall
<1>4. QED
  BY <1>1, <1>2, <1>3, PageCorrect, DialogsCorrect, CallsCorrect, RefetchKept, PTL DEF Spec

-----------------------------------------------------------------------------
(* The share dialog *)

\* While the dialog is open, the one observed call is for its item.
ShareOf(x) ==
  /\ ui.shareData \in {None, x}
  /\ \A j \in Slots : calls[j].op = "share" /\ calls[j].via = Live => calls[j].item = x

ShareInv ==
  page = "files" =>
    /\ DOMAIN ui = {"selection", "shareData"}
    /\ dialog.op = "share" => ShareOf(dialog.item)

\* Opening the dialog resets it; the answers of older calls do not reach it.
LEMMA FilesKeepShare ==
  ASSUME PageInv, CallsInv, ShareInv, FilesNext
  PROVE  ShareInv'
<1>1. page = "files" /\ page' = page /\ place \in Folders
  BY FilesSteps DEF PageInv
<1>2. DOMAIN ui = {"selection", "shareData"}
  BY <1>1 DEF ShareInv
<1>3. place # Live
  BY <1>1 DEF Folders, Live
<1>4. ASSUME Settles \/ Submits(FileOps \cap wants),
             dialog' = dialog \/ dialog'.op # "share",
             DOMAIN ui' = DOMAIN ui, ui'.shareData = ui.shareData
      PROVE  ShareInv'
  <2>1. \A j \in Slots : calls'[j] = NoCall \/ Kept(j) \/ calls'[j].op \in FileOps
    BY <1>4, NewCalls DEF FileOps, NoCall
  <2>2. ASSUME NEW j \in Slots, calls'[j].op = "share", calls'[j].via = Live
        PROVE  calls[j].op = "share" /\ calls[j].via = Live /\ calls'[j].item = calls[j].item
    <3>1. Kept(j)
      BY <2>1, <2>2 DEF NoCall, FileOps
    <3>2. QED
      BY <3>1, <2>2, <1>3 DEF Kept
  <2>3. CASE dialog'.op = "share"
    <3>1. ShareOf(dialog.item) /\ dialog' = dialog
      BY <1>1, <1>4, <2>3 DEF ShareInv
    <3>2. QED
      BY <3>1, <2>2, <1>2, <1>4 DEF ShareInv, ShareOf
  <2>4. CASE dialog'.op # "share"
    BY <2>4, <1>2, <1>4 DEF ShareInv
  <2>5. QED
    BY <2>3, <2>4
<1>5. CASE OpenShare
  <2>1. PICK x \in ItemActions.share : Opens("share", x, {place}) /\ Submit("share", x, {place})
    BY <1>5 DEF OpenShare
  <2>2. dialog' = [op |-> "share", item |-> x, at |-> {place}]
    BY <2>1 DEF Opens
  <2>3. ui' = [ui EXCEPT !.shareData = None]
    BY <1>5 DEF OpenShare
  <2>4. DOMAIN ui' = {"selection", "shareData"} /\ ui'.shareData = None
    BY <2>3, <1>2
  <2>5. ASSUME NEW j \in Slots, calls'[j].op = "share", calls'[j].via = Live
        PROVE  calls'[j].item = x
    <3>1. \/ calls'[j] = [op |-> "share", item |-> x, at |-> {place}, via |-> Live, applied |-> FALSE]
          \/ calls'[j] = NoCall
          \/ Kept(j) /\ (calls[j].op = "share" /\ calls'[j].via = Live => place = Live)
      BY <2>1, Submitted DEF NoCall
    <3>2. QED
      BY <3>1, <2>5, <1>3 DEF Kept, NoCall
  <2>6. QED
    BY <2>2, <2>4, <2>5 DEF ShareInv, ShareOf
<1>6. ASSUME NEW i \in Slots, ShareDone(i)
      PROVE  ShareInv'
  <2>1. calls[i].op = "share" /\ calls' = [calls EXCEPT ![i] = NoCall] /\ dialog' = dialog
    BY <1>6 DEF ShareDone, FilesDone, Answered
  <2>2. DOMAIN ui' = DOMAIN ui
        /\ ui'.shareData = IF calls[i].via = Live THEN calls[i].item ELSE ui.shareData
    BY <1>2, <1>6 DEF ShareDone
  <2>3. \A j \in Slots : calls'[j] = NoCall \/ calls'[j] = calls[j]
    BY <2>1 DEF CallsInv
  <2>4. CASE dialog.op = "share"
    <3>1. ShareOf(dialog.item)
      BY <2>4, <1>1 DEF ShareInv
    <3>2. ui'.shareData \in {None, dialog.item}
      BY <3>1, <2>1, <2>2 DEF ShareOf
    <3>3. \A j \in Slots : calls'[j].op = "share" /\ calls'[j].via = Live => calls'[j].item = dialog.item
      BY <3>1, <2>3 DEF ShareOf, NoCall
    <3>4. QED
      BY <3>2, <3>3, <2>1, <2>2, <1>2 DEF ShareInv, ShareOf
  <2>5. CASE dialog.op # "share"
    BY <2>5, <2>1, <2>2, <1>2 DEF ShareInv
  <2>6. QED
    BY <2>4, <2>5
<1>7. ASSUME NEW s, Select(s)
      PROVE  ShareInv'
  <2>1. Settles /\ dialog' = dialog /\ ui' = [ui EXCEPT !.selection = s]
    BY <1>7 DEF Select, Settles
  <2>2. DOMAIN ui' = DOMAIN ui /\ ui'.shareData = ui.shareData
    BY <2>1, <1>2
  <2>3. QED
    BY <2>1, <2>2, <1>4
<1>8. CASE toggleSelect \/ toggleSelectMode
  BY <1>7, <1>8 DEF toggleSelect, toggleSelectMode
<1>9. ASSUME NEW p \in Folders, ComeToFiles(p) \/ handleNav(p) \/ BrowserBack(p)
      PROVE  ShareInv'
  <2>1. Settles /\ dialog' = dialog
    BY <1>9 DEF ComeToFiles, handleNav, BrowserBack, Settles
  <2>2. ui' = ui \/ ui' = [ui EXCEPT !.selection = {}]
    BY <1>9 DEF ComeToFiles, handleNav, BrowserBack
  <2>3. DOMAIN ui' = DOMAIN ui /\ ui'.shareData = ui.shareData
    BY <2>2, <1>2
  <2>4. QED
    BY <2>1, <2>3, <1>4
<1>10. CASE LeaveFiles
  BY <1>1, <1>10 DEF LeaveFiles, ShareInv, FilesState, NoDialog
<1>11. CASE OpenDialog \/ OpenBatch \/ CloseFilesDialog
  <2>1. Settles /\ ui' = ui
    BY <1>11 DEF OpenDialog, OpenBatch, CloseFilesDialog, Settles
  <2>2. dialog'.op # "share"
    BY <1>11 DEF OpenDialog, OpenBatch, CloseFilesDialog, Opens, NoDialog
  <2>3. QED
    BY <2>1, <2>2, <1>4
<1>12. CASE \/ SubmitCreateFolder \/ SubmitRename \/ SubmitMove \/ SubmitDelete
            \/ SubmitDeleteWithFiles \/ SubmitTags \/ SubmitNewTag \/ SubmitBatch \/ DropFiles
  <2>1. ui' = ui /\ dialog' = dialog
    BY <1>12 DEF SubmitCreateFolder, SubmitRename, SubmitMove, SubmitDelete,
       SubmitDeleteWithFiles, SubmitTags, SubmitNewTag, SubmitBatch, DropFiles, Sends
  <2>2. Settles \/ Submits(FileOps \cap wants) \/ OpenShare
    BY FilesCalls
  <2>3. QED
    BY <2>1, <2>2, <1>4, <1>5
<1>13. ASSUME NEW i \in Slots,
              \/ FilesApply(i)
              \/ CreateFolderDone(i) \/ RenameDone(i) \/ MoveDone(i) \/ DeleteDone(i)
              \/ DeleteWithFilesDone(i) \/ SetTagsDone(i) \/ CreateTagDone(i) \/ UploadDone(i)
              \/ BatchDone(i)
       PROVE  ShareInv'
  <2>1. dialog' = dialog \/ dialog'.op # "share"
    BY <1>13 DEF FilesApply, Apply, CreateFolderDone, RenameDone, MoveDone, DeleteDone,
       DeleteWithFilesDone, SetTagsDone, CreateTagDone, UploadDone, BatchDone, Closes, NoDialog
  <2>2. ui' = ui \/ ui' = [ui EXCEPT !.selection = {}]
    BY <1>13 DEF FilesApply, Apply, CreateFolderDone, RenameDone, MoveDone, DeleteDone,
       DeleteWithFilesDone, SetTagsDone, CreateTagDone, UploadDone, BatchDone
  <2>3. DOMAIN ui' = DOMAIN ui /\ ui'.shareData = ui.shareData
    BY <2>2, <1>2
  <2>4. Settles \/ Submits(FileOps \cap wants) \/ OpenShare
    BY FilesCalls
  <2>5. QED
    BY <2>1, <2>3, <2>4, <1>4, <1>5
<1>14. QED
  BY <1>5, <1>6, <1>8, <1>9, <1>10, <1>11, <1>12, <1>13 DEF FilesNext

\* The share dialog never shows the answer for another item, however many
\* shares are on their way (FilesPage.tsx:294-309).
THEOREM ShareCorrect == Spec => []ShareShowsItsTarget
<1>1. Init => ShareInv
  BY DEF Init, PageInit, ShareInv, StateOf, FilesState, NoDialog
<1>2. PageInv /\ CallsInv /\ ShareInv /\ [Next]_pageVars => ShareInv'
  <2> SUFFICES ASSUME PageInv, CallsInv, ShareInv, [Next]_pageVars
               PROVE  ShareInv'
    OBVIOUS
  <2>1. CASE FilesNext
    BY <2>1, FilesKeepShare
  <2>2. CASE LinksNext \/ StoresNext \/ AdminNext
    BY <2>2, LinksSteps, StoresSteps, AdminSteps DEF ShareInv, AdminPages
  <2>3. CASE Background \/ UNCHANGED pageVars
    <3>1. UNCHANGED <<page, dialog, ui>>
      BY <2>3, BackgroundSteps DEF pageVars
    <3>2. calls' = calls \/ \E i \in Slots : calls' = [calls EXCEPT ![i] = NoCall]
      BY <2>3, BackgroundSteps DEF pageVars
    <3>3. \A j \in Slots : calls'[j] = NoCall \/ calls'[j] = calls[j]
      BY <3>2 DEF CallsInv
    <3>4. QED
      BY <3>1, <3>3 DEF ShareInv, ShareOf, NoCall
  <2>4. QED
    BY <2>1, <2>2, <2>3 DEF Next, Background
<1>3. ShareInv => ShareShowsItsTarget
  BY DEF ShareInv, ShareOf, ShareShowsItsTarget, ShareDialog, shareUrl
<1>4. QED
  BY <1>1, <1>2, <1>3, PageCorrect, CallsCorrect, PTL DEF Spec

-----------------------------------------------------------------------------
(* The form of the stores page *)

\* A form that edits a store holds no other store's credentials.
FormCredentials ==
  page = "stores" =>
    /\ DOMAIN ui = {"typed", "secret"}
    /\ dialog.op = "storeForm" /\ dialog.item # None => ui.typed \subseteq {dialog.item}

\* Opening the form empties it, except for a store to attach; the answer to an
\* attach closes it.
LEMMA StoresKeepCredentials ==
  ASSUME FormCredentials, StoresNext
  PROVE  FormCredentials'
<1>1. page = "stores" /\ page' = page
  BY StoresSteps
<1>2. DOMAIN ui = {"typed", "secret"}
  BY <1>1 DEF FormCredentials
<1> USE <1>1, <1>2 DEF FormCredentials, NoDialog
<1>3. ASSUME UNCHANGED <<dialog, ui>>
      PROVE  FormCredentials'
  BY <1>3
<1>4. ASSUME ComeToStores \/ OtherTabConnects
      PROVE  FormCredentials'
  BY <1>3, <1>4 DEF ComeToStores, OtherTabConnects
<1>5. ASSUME LeaveStores
      PROVE  FormCredentials'
  BY <1>5 DEF LeaveStores, StoresState
<1>6. ASSUME AttachStore \/ AskDelete \/ OpenCreateKey \/ CloseStoresDialog
      PROVE  FormCredentials'
  BY <1>6 DEF AttachStore, AskDelete, OpenCreateKey, CloseStoresDialog, StoresDialog, StoreForm
<1>7. ASSUME NEW c, Typed(c), dialog'.op = "storeForm" /\ dialog'.item # None => c \subseteq {dialog'.item}
      PROVE  FormCredentials'
  <2>1. DOMAIN ui' = {"typed", "secret"} /\ ui'.typed = c
    BY <1>7 DEF Typed
  <2>2. QED
    BY <2>1, <1>7
<1>8. ASSUME NEW x \in Rows, OpenEditStore(x)
      PROVE  FormCredentials'
  BY <1>7, <1>8 DEF OpenEditStore
<1>9. ASSUME setCredentialField
      PROVE  FormCredentials'
  BY <1>7, <1>9 DEF setCredentialField, StoresDialog
<1>10. ASSUME DismissSecret
       PROVE  FormCredentials'
  <2>1. dialog' = dialog /\ ui' = [ui EXCEPT !.secret = FALSE]
    BY <1>10 DEF DismissSecret, StoresDialog
  <2>2. QED
    BY <2>1
<1>11. ASSUME SubmitStore \/ ConfirmDelete \/ SubmitKey \/ StoreButtons \/ ChooseMode
       PROVE  FormCredentials'
  BY <1>3, <1>11 DEF SubmitStore, ConfirmDelete, SubmitKey, StoreButtons, ChooseMode, StoresSend
<1>12. ASSUME NEW i \in Slots, StoresApply(i) \/ StoreButtonDone(i) \/ GdriveDone(i)
       PROVE  FormCredentials'
  BY <1>3, <1>12 DEF StoresApply, Apply, StoreButtonDone, GdriveDone
<1>13. ASSUME NEW i \in Slots, CreateStoreDone(i)
       PROVE  FormCredentials'
  <2>1. Typed(IF calls[i].via = Live THEN calls[i].at ELSE ui.typed) /\ Closes(i, "storeForm")
    BY <1>13 DEF CreateStoreDone
  <2>2. CASE calls[i].via = Live
    <3>1. dialog'.op # "storeForm"
      BY <2>1, <2>2 DEF Closes
    <3>2. QED
      BY <3>1, <2>1, <1>7
  <2>3. CASE calls[i].via # Live
    <3>1. dialog' = dialog /\ Typed(ui.typed)
      BY <2>1, <2>3 DEF Closes
    <3>2. QED
      BY <3>1, <1>7
  <2>4. QED
    BY <2>2, <2>3
<1>14. ASSUME NEW i \in Slots, UpdateStoreDone(i) \/ DeleteStoreDone(i) \/ DeleteKeyDone(i)
       PROVE  FormCredentials'
  BY <1>14 DEF UpdateStoreDone, DeleteStoreDone, DeleteKeyDone, Closes
<1>15. ASSUME NEW i \in Slots, CreateKeyDone(i)
       PROVE  FormCredentials'
  <2>1. DOMAIN ui' = DOMAIN ui /\ ui'.typed = ui.typed
    BY <1>15 DEF CreateKeyDone
  <2>2. dialog' = dialog \/ dialog'.op # "storeForm"
    BY <1>15 DEF CreateKeyDone, Closes
  <2>3. QED
    BY <2>1, <2>2
<1>16. QED
  BY <1>4, <1>5, <1>6, <1>8, <1>9, <1>10, <1>11, <1>12, <1>13, <1>14, <1>15 DEF StoresNext

\* The request that saves a store never carries what was typed for another one
\* (StoreFormDialog.tsx:101-103, 130).
THEOREM CredentialsCorrect == Spec => []EditSendsOwnCredentials
<1> DEFINE Inv == FormCredentials /\ EditSendsOwnCredentials
<1>1. Init => Inv
  BY DEF Init, PageInit, FormCredentials, StateOf, StoresState, NoDialog, NoCall,
         EditSendsOwnCredentials
<1>2. PageInv /\ DialogsInv /\ CallsInv /\ Inv /\ [Next]_pageVars => Inv'
  <2> SUFFICES ASSUME PageInv, DialogsInv, CallsInv, FormCredentials, EditSendsOwnCredentials, [Next]_pageVars
               PROVE  FormCredentials' /\ EditSendsOwnCredentials'
    OBVIOUS
  <2>1. ASSUME \A j \in Slots : calls'[j] = NoCall \/ Kept(j) \/ calls'[j].op # "updateStore"
        PROVE  EditSendsOwnCredentials'
    BY <2>1 DEF EditSendsOwnCredentials, Kept, NoCall
  <2>2. ASSUME NEW ops, {"updateStore", NoCall.op} \cap ops = {}, Settles \/ Submits(ops)
        PROVE  EditSendsOwnCredentials'
    BY <2>1, <2>2, NewCalls
  <2>3. CASE StoresNext
    <3>1. FormCredentials'
      BY <2>3, StoresKeepCredentials
    <3>2. CASE SavesStore
      <4>1. ui.typed \subseteq {dialog.item}
        BY <2>3, <3>2, StoresSteps DEF FormCredentials, SavesStore
      <4>2. \A j \in Slots :
              \/ calls'[j] = [op |-> "updateStore", item |-> dialog.item, at |-> ui.typed,
                              via |-> Live, applied |-> FALSE]
              \/ calls'[j] = NoCall
              \/ Kept(j)
        BY <3>2, Submitted DEF SavesStore, NoCall
      <4>3. QED
        BY <3>1, <4>1, <4>2 DEF EditSendsOwnCredentials, Kept, NoCall
    <3>3. CASE Settles \/ Submits(StoreOps \cap wants)
      BY <3>1, <3>3, <2>2 DEF StoreOps, NoCall
    <3>4. QED
      BY <2>3, <3>2, <3>3, StoresCalls
  <2>4. CASE FilesNext \/ LinksNext \/ AdminNext
    <3>1. FormCredentials'
      BY <2>4, FilesSteps, LinksSteps, AdminSteps DEF FormCredentials, AdminPages
    <3>2. OpenShare => Submits({"share"})
      BY DEF OpenShare, Opens, OnFiles, Submits
    <3>3. QED
      BY <2>2, <2>4, <3>1, <3>2, FilesCalls, LinksCalls, AdminCalls DEF FileOps, AdminOps, NoCall
  <2>5. CASE Background \/ UNCHANGED pageVars
    <3>1. UNCHANGED <<page, dialog, ui>> /\ Settles
      BY <2>5, BackgroundSteps DEF pageVars, Settles
    <3>2. {"updateStore", NoCall.op} \cap {} = {}
      OBVIOUS
    <3>3. EditSendsOwnCredentials'
      BY <3>1, <3>2, <2>2
    <3>4. QED
      BY <3>1, <3>3 DEF FormCredentials
  <2>6. QED
    BY <2>3, <2>4, <2>5 DEF Next, Background
<1>3. QED
  BY <1>1, <1>2, PageCorrect, DialogsCorrect, CallsCorrect, PTL DEF Spec
=============================================================================
