------------------------------- MODULE WebPage -------------------------------
(***************************************************************************)
(* What every page of the dashboard is built from: queries and mutations   *)
(* of TanStack Query (external; web/src/lib/query.ts configures it) and    *)
(* dialogs. One tab, one page, one organization. Queries do not influence  *)
(* each other or what the page lets the user do, so a behaviour follows    *)
(* one cache entry, picked in the initial state; its data is only told     *)
(* apart by whether it is what the server would answer now.                *)
(***************************************************************************)
EXTENDS Naturals

CONSTANTS
  Rows,       \* two links, or two stores, of the list a page displays
  MaxCalls,   \* bound: mutations on their way at a time
  None

ASSUME PageConstants ==
  /\ MaxCalls \in Nat \ {0}
  /\ None \notin Rows \union {"live"}

VARIABLES
  page,      \* the page of this behaviour
  wants,     \* bound: what its user comes to do, and on which items
  watched,   \* the cache key followed
  cache,     \* its entry
  calls,     \* the mutations on their way
  mounted,   \* the page is displayed
  place,     \* the folder in its URL (None on pages without one)
  dialog,    \* the open dialog: modal, so there is one at most
  ui,        \* the other state of the page, a record the page's module defines
  promised   \* history: onSuccess of a call that changed the entry has run; no fetch failed since

pageVars == <<page, wants, watched, cache, calls, mounted, place, dialog, ui, promised>>

\* Where a mutation's onSuccess comes from: the closure of the latest render
\* as long as its component observes it, else the one of the last render that
\* did, which knows the folder displayed then.
Live == "live"

NoEntry == [data |-> "none", flight |-> "none"]
NoCall == [op |-> "none", item |-> None, at |-> {}, via |-> Live, applied |-> FALSE]
NoDialog == [op |-> "none", item |-> None, at |-> {}]

Slots == 1..MaxCalls

\* The queries of AppLayout's sidebar (RecentFolders, StorageUsageSidebar),
\* which every page under /app displays.
Sidebar == {"usage", "recent"} \X {None}

\* A component that displays the entry mounts, or its key changes to it:
\* staleTime is 0, so it is fetched, unless a fetch is on its way already.
Observed(e) == IF e.flight = "none" THEN [e EXCEPT !.flight = "sent"] ELSE e

PageInit(pg, ops, key, p, own, seen) ==
  /\ page = pg /\ wants = ops /\ watched = key
  /\ cache = IF seen THEN Observed(NoEntry) ELSE NoEntry
  /\ calls = [i \in Slots |-> NoCall]
  /\ mounted = FALSE /\ place = p
  /\ dialog = NoDialog /\ ui = own
  /\ promised = FALSE

-----------------------------------------------------------------------------
(* Queries *)

\* invalidateQueries: a displayed entry is fetched anew. A running fetch is
\* cancelled for that, but not the first one.
Invalidated(e, hit, seen) ==
  IF hit /\ seen /\ (e.flight = "none" \/ e.data # "none")
  THEN [e EXCEPT !.flight = "sent"] ELSE e

\* The server's data changes.
Outdated(e) ==
  [e EXCEPT !.data = IF @ = "now" THEN "old" ELSE @,
            !.flight = IF @ = "now" THEN "old" ELSE @]

\* What the entry does when the page's display goes from was to is.
Displayed(was, is) == cache' = IF is /\ ~was THEN Observed(cache) ELSE cache

ServeQuery ==
  /\ cache.flight = "sent"
  /\ cache' = [cache EXCEPT !.flight = "now"]
  /\ UNCHANGED <<page, wants, watched, calls, mounted, place, dialog, ui, promised>>

QueryArrives ==
  /\ cache.flight \in {"old", "now"}
  /\ cache' = [data |-> cache.flight, flight |-> "none"]
  /\ UNCHANGED <<page, wants, watched, calls, mounted, place, dialog, ui, promised>>

\* No answer, or an error: retry is off.
QueryFails ==
  /\ cache.flight # "none"
  /\ cache' = [cache EXCEPT !.flight = "none"]
  /\ promised' = FALSE
  /\ UNCHANGED <<page, wants, watched, calls, mounted, place, dialog, ui>>

\* refetchOnReconnect, which lib/query.ts leaves on.
Reconnect(seen) ==
  /\ seen
  /\ cache' = Observed(cache)
  /\ UNCHANGED <<page, wants, watched, calls, mounted, place, dialog, ui, promised>>

-----------------------------------------------------------------------------
(* Mutations *)

IsPending(op) == \E i \in Slots : calls[i].op = op /\ calls[i].via = Live

\* The calls of ops lose their observer; they go on.
Detached(cs, ops) ==
  [i \in Slots |-> IF cs[i].op \in ops /\ cs[i].via = Live
                   THEN [cs[i] EXCEPT !.via = place] ELSE cs[i]]

\* The page unmounts.
Abandoned_Observed(cs) == cs
Abandoned(cs) == Detached(cs, {cs[i].op : i \in Slots} \ {NoCall.op})

\* mutate(): an earlier call of the same mutation is no longer observed.
Submit(op, item, at) ==
  \E i \in Slots :
    /\ calls[i] = NoCall /\ \A j \in Slots : j < i => calls[j] # NoCall
    /\ calls' = [Detached(calls, {op}) EXCEPT
                   ![i] = [op |-> op, item |-> item, at |-> at, via |-> Live, applied |-> FALSE]]

\* The server carries the call out; changed: the data of the followed entry
\* is not what it was.
Apply(i, changed) ==
  /\ calls[i] # NoCall /\ ~calls[i].applied
  /\ calls' = [calls EXCEPT ![i].applied = TRUE]
  /\ cache' = IF changed THEN Outdated(cache) ELSE cache
  /\ promised' = (promised /\ ~changed)
  /\ UNCHANGED <<page, wants, watched, mounted, place, dialog, ui>>

\* The server refuses, or its answer is lost: only an error text changes, and
\* the dialog stays open.
CallFails(i) ==
  /\ calls[i] # NoCall
  /\ calls' = [calls EXCEPT ![i] = NoCall]
  /\ UNCHANGED <<page, wants, watched, cache, mounted, place, dialog, ui, promised>>

\* A fetch from before the change that invalidateQueries has left running: the
\* entry's first one is not cancelled, and without a display there is no new
\* one. Nor is it repeated if the entry comes into view before it arrives.
LeftRunning(e, seen) == e.flight = "old" /\ (e.data = "none" \/ ~seen)

\* onSuccess of call i, which invalidates the keys stale. From then on the
\* page owes its user the new data, but for a fetch left running.
Answered(i, op, stale, owed, seen) ==
  /\ calls[i].op = op /\ calls[i].applied
  /\ calls' = [calls EXCEPT ![i] = NoCall]
  /\ cache' = Invalidated(cache, watched \in stale, seen)
  /\ promised' = IF owed THEN ~LeftRunning(cache', seen) ELSE promised
  /\ UNCHANGED <<page, wants, watched, mounted, place>>

\* setXOpen(false), setXTarget(null): only the own dialog, and only while the
\* page that asked is still there.
Closes(i, op) ==
  dialog' = IF calls[i].via = Live /\ dialog.op = op THEN NoDialog ELSE dialog
=============================================================================
