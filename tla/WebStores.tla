------------------------------ MODULE WebStores ------------------------------
(***************************************************************************)
(* The stores page (web/src/pages/app/StoresPage.tsx and stores/): stores, *)
(* their attach and edit form, Google Drive consent in a second tab, the   *)
(* S3 keys. The form is state of the page; submit() in StoreFormDialog.tsx *)
(* is an async function and not a mutation: it works on with the form of   *)
(* the render in which Save was clicked.                                   *)
(***************************************************************************)
EXTENDS WebPage

\* The state of the page: the stores whose credentials are in the form ("new":
\* one to attach), and whether the secret of a created S3 key is shown.
StoresState == [typed |-> {}, secret |-> FALSE]
Typed(c) == ui' = [ui EXCEPT !.typed = c]

\* breakdown: StorageBreakdownCard, the same bytes as in the usage by kind.
StoresKeys == {"stores", "sync", "s3keys", "breakdown", "usage"} \X {None}

OnStores == page = "stores" /\ mounted
StoresShow(m) == m \/ watched \in Sidebar
StoresSee == StoresShow(mounted)

\* The limit of the usage depends on the mode, the primary store, and every
\* active store's quota.
StoresChange(c) ==
  CASE c.op \in {"createStore", "updateStore", "deleteStore", "testStore",
                 "setPrimary", "storageMode", "gdrive"} -> {<<"stores", None>>, <<"usage", None>>}
    [] c.op = "ingest" -> {"stores", "sync", "usage", "breakdown"} \X {None}
    [] c.op = "sync"   -> {<<"sync", None>>}
    [] c.op \in {"createKey", "deleteKey"} -> {<<"s3keys", None>>}
    [] OTHER -> {}

\* invalidateStores names neither.
StoresUnrefreshed == {"usage", "breakdown"} \X {None}

StoresApply(i) ==
  /\ page = "stores"
  /\ Apply(i, watched \in StoresChange(calls[i]))

-----------------------------------------------------------------------------
\* Mounting; with ?gdrive=connected in the URL the effect completes the consent.
ComeToStores ==
  /\ page = "stores" /\ ~mounted
  /\ mounted' = TRUE
  /\ Displayed(StoresSee, StoresShow(TRUE))
  /\ \/ UNCHANGED calls
     \/ "gdrive" \in wants /\ Submit("gdrive", "this tab", {})
  /\ UNCHANGED <<page, wants, watched, place, dialog, ui, promised>>

\* A consent that ends in another tab, which tells this one through
\* localStorage: its Submit, its server call, and the storage event.
OtherTabConnects ==
  /\ OnStores /\ "gdrive" \in wants
  /\ Submit("gdrive", "other tab", {})
  /\ UNCHANGED <<page, wants, watched, cache, mounted, place, dialog, ui, promised>>

LeaveStores ==
  /\ OnStores
  /\ mounted' = FALSE /\ dialog' = NoDialog
  /\ calls' = Abandoned(calls)
  /\ ui' = StoresState
  /\ UNCHANGED <<page, wants, watched, cache, place, promised>>

-----------------------------------------------------------------------------
(* Dialogs *)

StoresDialog(d) ==
  /\ OnStores
  /\ dialog' = d
  /\ UNCHANGED <<page, wants, watched, cache, calls, mounted, place, promised>>

StoreForm(x) == [op |-> "storeForm", item |-> x, at |-> {}]

\* The Attach button leaves the form as it was.
AttachStore ==
  /\ OnStores /\ dialog = NoDialog /\ ~ui.secret /\ "createStore" \in wants
  /\ StoresDialog(StoreForm(None))
  /\ UNCHANGED ui

OpenEditStore(x) ==
  /\ OnStores /\ dialog = NoDialog /\ ~ui.secret /\ "updateStore" \in wants
  /\ StoresDialog(StoreForm(x))
  /\ Typed({})

setCredentialField ==
  /\ dialog.op = "storeForm"
  /\ StoresDialog(dialog)
  /\ Typed(ui.typed \union {IF dialog.item = None THEN "new" ELSE dialog.item})

AskDelete ==
  /\ OnStores /\ dialog = NoDialog /\ ~ui.secret
  /\ \E op \in {"deleteStore", "deleteKey"} \intersect wants, x \in Rows :
       StoresDialog([op |-> op, item |-> x, at |-> {}])
  /\ UNCHANGED ui

OpenCreateKey ==
  /\ OnStores /\ dialog = NoDialog /\ ~ui.secret /\ "createKey" \in wants
  /\ StoresDialog([op |-> "createKey", item |-> None, at |-> {}])
  /\ UNCHANGED ui

CloseStoresDialog ==
  /\ dialog # NoDialog
  /\ StoresDialog(NoDialog)
  /\ UNCHANGED ui

DismissSecret ==
  /\ OnStores /\ ui.secret
  /\ ui' = [ui EXCEPT !.secret = FALSE]
  /\ StoresDialog(dialog)

-----------------------------------------------------------------------------
(* Calls *)

StoresSend(op, item, creds) ==
  /\ OnStores /\ ~IsPending(op)
  /\ Submit(op, item, creds)
  /\ UNCHANGED <<page, wants, watched, cache, mounted, place, dialog, ui, promised>>

\* at: whose credentials the request carries; without any, no credentials.
SubmitStore ==
  /\ dialog.op = "storeForm"
  /\ ~IsPending("createStore") /\ ~IsPending("updateStore")
  /\ StoresSend(IF dialog.item = None THEN "createStore" ELSE "updateStore", dialog.item, ui.typed)

ConfirmDelete ==
  /\ dialog.op \in {"deleteStore", "deleteKey"}
  /\ StoresSend(dialog.op, dialog.item, {})

SubmitKey == dialog.op = "createKey" /\ StoresSend("createKey", None, {})

\* The buttons of a store's menu and the Sync button.
StoreButtons ==
  /\ OnStores /\ dialog = NoDialog /\ ~ui.secret
  /\ \E op \in {"testStore", "setPrimary", "ingest", "sync"} \intersect wants : StoresSend(op, None, {})

\* The select is not disabled while a change of mode is pending.
ChooseMode ==
  /\ OnStores /\ dialog = NoDialog /\ ~ui.secret /\ "storageMode" \in wants
  /\ Submit("storageMode", None, {})
  /\ UNCHANGED <<page, wants, watched, cache, mounted, place, dialog, ui, promised>>

-----------------------------------------------------------------------------
(* Answers *)

invalidateStores == {<<"stores", None>>, <<"sync", None>>}

StoresDone(i, op, stale) ==
  /\ page = "stores"
  /\ Answered(i, op, stale, watched \in StoresChange(calls[i]) \ StoresUnrefreshed, StoresSee)

\* setForm({ ...form, name: '' }) puts back the form of the request.
CreateStoreDone_FormOnly(i) ==
  /\ StoresDone(i, "createStore", invalidateStores)
  /\ Typed(IF calls[i].via = Live THEN calls[i].at ELSE ui.typed)
  /\ UNCHANGED dialog

CreateStoreDone(i) ==
  /\ StoresDone(i, "createStore", invalidateStores)
  /\ Closes(i, "storeForm")
  /\ Typed(IF calls[i].via = Live THEN calls[i].at ELSE ui.typed)

UpdateStoreDone(i) ==
  /\ StoresDone(i, "updateStore", invalidateStores)
  /\ Closes(i, "storeForm")
  /\ UNCHANGED ui

DeleteStoreDone(i) ==
  /\ StoresDone(i, "deleteStore", invalidateStores)
  /\ Closes(i, "deleteStore")
  /\ UNCHANGED ui

StoreButtonDone(i) ==
  /\ \E op \in {"testStore", "setPrimary", "ingest", "sync", "storageMode"} :
       StoresDone(i, op, invalidateStores)
  /\ UNCHANGED <<dialog, ui>>

\* Of the return from Google in this tab, or the storage event of the other
\* one. No listener is left when the page is not there; no event comes when
\* the new value is the old one (CallFails).
GdriveDone(i) ==
  /\ calls[i].item = "this tab" \/ calls[i].via = Live
  /\ StoresDone(i, "gdrive", invalidateStores)
  /\ UNCHANGED <<dialog, ui>>

CreateKeyDone(i) ==
  /\ StoresDone(i, "createKey", {<<"s3keys", None>>})
  /\ Closes(i, "createKey")
  /\ ui' = [ui EXCEPT !.secret = @ \/ calls[i].via = Live]

DeleteKeyDone(i) ==
  /\ StoresDone(i, "deleteKey", {<<"s3keys", None>>})
  /\ Closes(i, "deleteKey")
  /\ UNCHANGED ui

-----------------------------------------------------------------------------
\* "Only overwrite stored credentials when the user actually typed new values"
\* (StoreFormDialog.tsx:101-103): the PATCH of a store never carries what was
\* typed for another store or for one to attach, although the form is shared
\* and the answer to an attach puts an old form back (line 130).
EditSendsOwnCredentials ==
  \A i \in Slots : calls[i].op = "updateStore" => calls[i].at \subseteq {calls[i].item}
=============================================================================
