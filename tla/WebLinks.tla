------------------------------ MODULE WebLinks ------------------------------
(***************************************************************************)
(* The links page (web/src/pages/app/LinksPage.tsx and links/): one list   *)
(* per kind of link, one form dialog for creating and for editing, whose   *)
(* fields are state of the page and not of the dialog.                     *)
(***************************************************************************)
EXTENDS WebPage

LinkKinds == {"share-links", "upload-links", "tracked-links"}

\* form is LinkFormDialog, with editTarget as its item.
\* The state of the page: activeTab, and whose values the form holds: a link's,
\* "new" ones, or None (emptyForm).
LinksState == [tab |-> "share-links", form |-> None]
Form(f) == ui' = [ui EXCEPT !.form = f]

LinksKeys == LinkKinds \X {None}

OnLinks == page = "links" /\ mounted

\* The three lists are fetched together, whatever tab is displayed.
LinksSee == mounted

LinksApply(i) ==
  /\ page = "links"
  /\ Apply(i, calls[i].at = {watched[1]})

-----------------------------------------------------------------------------
ComeToLinks ==
  /\ page = "links" /\ ~mounted
  /\ mounted' = TRUE
  /\ Displayed(FALSE, TRUE)
  /\ UNCHANGED <<page, wants, watched, calls, place, dialog, ui, promised>>

LeaveLinks ==
  /\ OnLinks
  /\ mounted' = FALSE /\ dialog' = NoDialog
  /\ calls' = Abandoned(calls)
  /\ ui' = LinksState
  /\ UNCHANGED <<page, wants, watched, cache, place, promised>>

ChooseTab(k) ==
  /\ OnLinks /\ dialog = NoDialog
  /\ ui' = [ui EXCEPT !.tab = k]
  /\ UNCHANGED <<page, wants, watched, cache, calls, mounted, place, dialog, promised>>

LinksDialog(d) ==
  /\ OnLinks
  /\ dialog' = d
  /\ UNCHANGED <<page, wants, watched, cache, calls, mounted, place, promised>>

LinkFormFor(x) == [op |-> "form", item |-> x, at |-> {}]

\* The next two also end an editTarget that a finished create left behind.
openCreate ==
  /\ dialog = NoDialog /\ "createLink" \in wants
  /\ LinksDialog(LinkFormFor(None))
  /\ Form("new")

openEdit(x) ==
  /\ dialog = NoDialog /\ "updateLink" \in wants
  /\ LinksDialog(LinkFormFor(x))
  /\ Form(x)

closeCreateDialog ==
  /\ dialog.op = "form"
  /\ LinksDialog(NoDialog)
  /\ Form(None)

\* Typing into the form of a create makes it that link's to be.
TypeLink ==
  /\ dialog = LinkFormFor(None)
  /\ LinksDialog(dialog)
  /\ Form("new")

AskDeleteLink(x) ==
  /\ dialog = NoDialog /\ "deleteLink" \in wants
  /\ LinksDialog([op |-> "deleteLink", item |-> x, at |-> {}])
  /\ UNCHANGED ui

CancelDeleteLink ==
  /\ dialog.op = "deleteLink"
  /\ LinksDialog(NoDialog)
  /\ UNCHANGED ui

-----------------------------------------------------------------------------
LinksSend(op, item) ==
  /\ OnLinks
  /\ Submit(op, item, {ui.tab})
  /\ UNCHANGED <<page, wants, watched, cache, mounted, place, dialog, ui, promised>>

\* Save is disabled while either mutation is pending, and while a link other
\* than a share link has no name, as in the empty form.
handleSave ==
  /\ dialog.op = "form"
  /\ ~IsPending("createLink") /\ ~IsPending("updateLink")
  /\ ui.tab = "share-links" \/ ui.form # None
  /\ LinksSend(IF dialog.item = None THEN "createLink" ELSE "updateLink", dialog.item)

ConfirmDeleteLink ==
  /\ dialog.op = "deleteLink" /\ ~IsPending("deleteLink")
  /\ LinksSend("deleteLink", dialog.item)

-----------------------------------------------------------------------------
invalidateLinks == LinksKeys

LinksDone(i, op) ==
  /\ page = "links"
  /\ Answered(i, op, invalidateLinks, calls[i].at = {watched[1]}, LinksSee)

\* setCreateOpen(false) closes the form, whoever it is open for by now.
CreateLinkDone(i) ==
  /\ LinksDone(i, "createLink")
  /\ Closes(i, "form")
  /\ Form(IF calls[i].via = Live THEN None ELSE ui.form)

\* setEditTarget(null) without setCreateOpen(false): the form stays open, as
\* one for a new link.
UpdateLinkDone_KeepTarget(i) ==
  /\ LinksDone(i, "updateLink")
  /\ Form(IF calls[i].via = Live THEN None ELSE ui.form)
  /\ UNCHANGED dialog

UpdateLinkDone(i) ==
  /\ LinksDone(i, "updateLink")
  /\ dialog' = IF calls[i].via = Live /\ dialog.op = "form" THEN LinkFormFor(None) ELSE dialog
  /\ Form(IF calls[i].via = Live THEN None ELSE ui.form)

DeleteLinkDone(i) ==
  /\ LinksDone(i, "deleteLink")
  /\ Closes(i, "deleteLink")
  /\ UNCHANGED ui

-----------------------------------------------------------------------------
\* A form that would be saved to a link holds that link's values and edits,
\* never those of another link, of a new one, or the empty form that resets
\* its switch (LinksPage.tsx:119-136, 161-179: answers to earlier saves reset
\* form and editTarget whatever the dialog is open for by then).
EditFormIsItsLink ==
  page = "links" /\ dialog.op = "form" /\ dialog.item # None => ui.form = dialog.item
=============================================================================
