------------------------------ MODULE WebAdmin ------------------------------
(***************************************************************************)
(* The pages that administer people and organizations: users, organizations*)
(* and settings of the instance (web/src/pages/admin), members and quota of*)
(* an organization. They are alike: a list, dialogs for one row, mutations *)
(* whose onSuccess invalidates the list and closes the dialog.             *)
(***************************************************************************)
EXTENDS WebPage

AdminPages == {"users", "orgs", "settings", "members", "orgSettings"}

AdminKeys(pg) ==
  CASE pg = "users"       -> {<<"admin users", None>>}
    [] pg = "orgs"        -> {<<"admin orgs", None>>, <<"admin org", "detail">>}
    [] pg = "settings"    -> {<<"register", None>>}
    [] pg = "members"     -> {<<"org", None>>}
    [] pg = "orgSettings" -> {<<"org", None>>, <<"usage", None>>}
    [] OTHER -> {}

\* The members of an organization are fetched while their dialog is open.
AdminShow(m, d) == m /\ (watched[2] = "detail" => d.op = "viewOrg")
AdminSee == AdminShow(mounted, dialog)

OnAdmin == page \in AdminPages /\ mounted

AdminChange(c) ==
  CASE c.op \in {"toggleAdmin", "deleteUser", "createUser", "updateUser", "setUserQuota"} ->
         {<<"admin users", None>>}
    [] c.op \in {"renameOrg", "deleteOrg"} -> AdminKeys("orgs")
    [] c.op = "saveRegister" -> {<<"register", None>>}
    [] c.op \in {"addMember", "removeMember", "changeRole"} -> {<<"org", None>>}
    [] c.op = "setQuota" -> {<<"org", None>>, <<"usage", None>>}
    [] OTHER -> {}

AdminApply(i) == page \in AdminPages /\ Apply(i, watched \in AdminChange(calls[i]))

-----------------------------------------------------------------------------
ComeToAdmin ==
  /\ page \in AdminPages /\ ~mounted
  /\ mounted' = TRUE
  /\ Displayed(FALSE, AdminShow(TRUE, dialog))
  /\ UNCHANGED <<page, wants, watched, calls, place, dialog, ui, promised>>

LeaveAdmin ==
  /\ OnAdmin
  /\ mounted' = FALSE /\ dialog' = NoDialog
  /\ calls' = Abandoned(calls)
  /\ UNCHANGED <<page, wants, watched, cache, place, ui, promised>>

AdminDialog(d) ==
  /\ OnAdmin
  /\ dialog' = d
  /\ Displayed(AdminSee, AdminShow(TRUE, d))
  /\ UNCHANGED <<page, wants, watched, calls, mounted, place, ui, promised>>

AdminOpens(op) ==
  op \in wants /\ dialog = NoDialog /\ AdminDialog([op |-> op, item |-> None, at |-> {}])

OpenUserDialog == \E op \in {"createUser", "updateUser", "setUserQuota", "deleteUser"} : AdminOpens(op)
OpenOrgDialog == \E op \in {"renameOrg", "deleteOrg", "viewOrg"} : AdminOpens(op)
OpenAddMember == AdminOpens("addMember")
CloseAdminDialog == dialog # NoDialog /\ AdminDialog(NoDialog)

-----------------------------------------------------------------------------
\* A button is disabled while its mutation is pending.
AdminSend(op) ==
  /\ OnAdmin /\ op \in wants /\ ~IsPending(op)
  /\ Submit(op, None, {})
  /\ UNCHANGED <<page, wants, watched, cache, mounted, place, dialog, ui, promised>>

AdminSubmits(op) == dialog.op = op /\ AdminSend(op)

SubmitCreateUser == AdminSubmits("createUser")
SubmitUpdateUser == AdminSubmits("updateUser")
SubmitUserQuota == AdminSubmits("setUserQuota")
SubmitDeleteUser == AdminSubmits("deleteUser")
ToggleAdmin == dialog = NoDialog /\ AdminSend("toggleAdmin")

SubmitRenameOrg == AdminSubmits("renameOrg")
SubmitDeleteOrg == AdminSubmits("deleteOrg")
SwitchRegister == AdminSend("saveRegister")
SaveQuota == AdminSend("setQuota")

SubmitAddMember == AdminSubmits("addMember")
RemoveMember == dialog = NoDialog /\ AdminSend("removeMember")

\* The select of a member's role is never disabled.
ChangeRole ==
  /\ OnAdmin /\ "changeRole" \in wants /\ dialog = NoDialog
  /\ Submit("changeRole", None, {})
  /\ UNCHANGED <<page, wants, watched, cache, mounted, place, dialog, ui, promised>>

-----------------------------------------------------------------------------
AdminDone(i, op, stale) ==
  /\ page \in AdminPages
  /\ Answered(i, op, stale, watched \in AdminChange(calls[i]), AdminSee)
  /\ Closes(i, op)
  /\ UNCHANGED ui

UserDone(i, op) == AdminDone(i, op, {<<"admin users", None>>})
ToggleAdminDone(i) == UserDone(i, "toggleAdmin")
DeleteUserDone(i) == UserDone(i, "deleteUser")
CreateUserDone(i) == UserDone(i, "createUser")
UpdateUserDone(i) == UserDone(i, "updateUser")
SetUserQuotaDone(i) == UserDone(i, "setUserQuota")

\* The key of the list is a prefix of the key of a row's details.
RenameOrgDone(i) == AdminDone(i, "renameOrg", AdminKeys("orgs"))
DeleteOrgDone(i) == AdminDone(i, "deleteOrg", AdminKeys("orgs"))
SaveRegisterDone(i) == AdminDone(i, "saveRegister", {<<"register", None>>})

invalidateMembers == {<<"org", None>>}
AddMemberDone(i) == AdminDone(i, "addMember", invalidateMembers)
MemberButtonDone(i) ==
  \E op \in {"removeMember", "changeRole"} : AdminDone(i, op, invalidateMembers)
SetQuotaDone(i) == AdminDone(i, "setQuota", {<<"org", None>>, <<"usage", None>>})
=============================================================================
