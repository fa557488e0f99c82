------------------------------ MODULE WebSession ------------------------------
(***************************************************************************)
(* Who is signed in, and in which organization, as one browser tab sees it *)
(* (web/src/store/auth.ts, store/org.ts, App.tsx, the route guards, the    *)
(* sign-in, sign-up and organization pages), against the session cookie    *)
(* and the memberships of the server and the slug in localStorage.         *)
(*                                                                         *)
(* AuthLoader's GET /api/me writes both stores from inside its query       *)
(* function, so an answer has its effect even after TanStack Query has     *)
(* replaced the fetch it belongs to: me is the sequence of the requests on *)
(* their way, the last of which is the query's own.                        *)
(***************************************************************************)
EXTENDS Naturals, Sequences, FiniteSets

CONSTANTS
  Users,        \* accounts
  Admins,       \* those with is_admin
  Orgs,         \* organizations, by slug
  MaxFlights,   \* bound: requests for /api/me on their way at a time
  None

ASSUME SessionConstants ==
  /\ Admins \subseteq Users
  /\ MaxFlights \in Nat \ {0}
  /\ None \notin Users \union Orgs

VARIABLES
  cookie,     \* the user of the session cookie, None without one
  member,     \* the organizations of each user, on the server
  loaded,     \* the first answer of /api/me is there: AuthLoader renders
  user,       \* auth store; isAdmin is not cleared by signOut
  isAdmin,
  orgs,       \* org store
  currentOrg,
  savedOrg,   \* localStorage currentOrgSlug
  route,      \* the path, by the guards and the page it stands for
  me,         \* requests for /api/me
  call,       \* what the user asked for and waits for: one thing at a time (bound)
  beforeLoad  \* history: currentOrg when the page was reloaded

authVars == <<loaded, user, isAdmin>>
orgVars == <<orgs, currentOrg, savedOrg>>
sessionVars == <<cookie, member, authVars, orgVars, route, me, call, beforeLoad>>

-----------------------------------------------------------------------------
Pending == [state |-> "sent", who |-> None, orgs |-> {}]
Failed == [state |-> "failed", who |-> None, orgs |-> {}]

Idle == [op |-> "none", arg |-> None, state |-> "sent"]
Call(op, x) == [op |-> op, arg |-> x, state |-> "sent"]
Is(op, s) == call.op = op /\ call.state = s
Signing(s) == Is("login", s) \/ Is("signup", s)

Routes == {"/login", "/signup", "/orgs", "/settings", "/", "/app", "/admin"}

SessionInit ==
  /\ cookie = None
  /\ member \in [Users -> {os \in SUBSET Orgs : Cardinality(os) <= 1}]
  /\ \A u \in Admins : member[u] = {}
  /\ loaded = FALSE /\ user = None /\ isAdmin = FALSE
  /\ orgs = {} /\ currentOrg = None /\ savedOrg = None
  /\ route = "/" /\ me = <<Pending>> /\ call = Idle
  /\ beforeLoad = None

-----------------------------------------------------------------------------
(* Guards. Target(r) is where the tree of guards around route r sends the  *)
(* tab: r itself when its page renders.                                    *)
ProtectedRouteTarget_NoPathCheck(r) ==
  IF user = None THEN "/login" ELSE IF isAdmin /\ r # "/admin" THEN "/" ELSE r

ProtectedRouteTarget(r) ==
  IF user = None THEN "/login"
  ELSE IF isAdmin /\ r \notin {"/admin", "/app"} THEN "/admin" ELSE r

OrgGuardTarget(r) ==
  IF ~isAdmin /\ (orgs = {} \/ currentOrg = None) THEN "/orgs"
  ELSE IF r = "/" THEN "/app" ELSE r

AdminGuardTarget(r) == IF isAdmin THEN r ELSE "/"

Target(r) ==
  CASE r = "/login"  -> IF user = None THEN r ELSE "/"
    [] r = "/signup" -> IF user = None THEN r ELSE "/orgs"
    [] r \in {"/orgs", "/settings"} -> ProtectedRouteTarget(r)
    [] r \in {"/", "/app"} -> IF ProtectedRouteTarget(r) # r THEN ProtectedRouteTarget(r)
                              ELSE OrgGuardTarget(r)
    [] r = "/admin" -> IF ProtectedRouteTarget(r) # r THEN ProtectedRouteTarget(r)
                       ELSE AdminGuardTarget(r)

Redirecting == loaded /\ Target(route) # route
Shown(r) == loaded /\ route = r /\ ~Redirecting

\* <Navigate replace>: one guard after the other, until a page renders.
Redirect ==
  /\ Redirecting
  /\ route' = Target(route)
  /\ UNCHANGED <<cookie, member, authVars, orgVars, me, call, beforeLoad>>

-----------------------------------------------------------------------------
(* AuthLoader *)

\* A reload, or an address typed in: the memory of the tab is empty and its
\* requests are dropped, served or not.
Reload(r) ==
  /\ loaded /\ loaded' = FALSE
  /\ user' = None /\ isAdmin' = FALSE
  /\ orgs' = {} /\ currentOrg' = None /\ beforeLoad' = currentOrg
  /\ me' = <<Pending>> /\ call' = Idle
  /\ route' = r
  /\ UNCHANGED <<cookie, member, savedOrg>>

ServeMe(i) ==
  /\ me[i].state = "sent"
  /\ \/ me' = [me EXCEPT ![i] = Failed]
     \/ /\ cookie # None
        /\ me' = [me EXCEPT ![i] = [state |-> "ok", who |-> cookie, orgs |-> member[cookie]]]
  /\ UNCHANGED <<cookie, member, authVars, orgVars, route, call, beforeLoad>>

\* What localStorage remembers, or else the first one.
Restored_First(os) == os
Restored(os) == IF savedOrg \in os THEN {savedOrg} ELSE os

SetOrganizations(os) ==
  /\ orgs' = os
  /\ IF currentOrg = None /\ os # {}
     THEN \E o \in Restored(os) : currentOrg' = o /\ savedOrg' = o
     ELSE UNCHANGED <<currentOrg, savedOrg>>

Without(s, i) == SubSeq(s, 1, i - 1) \o SubSeq(s, i + 1, Len(s))

\* The await of signIn and signUp ends with the query's own fetch.
Resume(i) == IF i = Len(me) /\ Signing("waiting") THEN [call EXCEPT !.state = "loaded"] ELSE call

MeArrives(i) ==
  /\ me[i].state # "sent"
  /\ me' = Without(me, i) /\ call' = Resume(i)
  /\ loaded' = (loaded \/ i = Len(me))
  /\ user' = me[i].who /\ isAdmin' = (me[i].who \in Admins)
  /\ SetOrganizations(me[i].orgs)
  /\ beforeLoad' = IF currentOrg' = None THEN beforeLoad ELSE None
  /\ UNCHANGED <<cookie, member, route>>

\* The browser is online again: stale queries are fetched unless they are
\* being fetched already.
Reconnect ==
  /\ loaded /\ me = <<>>
  /\ me' = <<Pending>>
  /\ UNCHANGED <<cookie, member, authVars, orgVars, route, call, beforeLoad>>

-----------------------------------------------------------------------------
(* LoginPage, SignupPage, auth store *)

Ask(op, x) ==
  /\ call = Idle /\ call' = Call(op, x)
  /\ UNCHANGED <<cookie, member, authVars, orgVars, route, me, beforeLoad>>

\* The Sign in button; it is disabled while loading.
SubmitLogin(u) == Shown("/login") /\ Ask("login", u)

\* Only passwords that agree and are long enough are sent.
SubmitSignup(u) == Shown("/signup") /\ member[u] = {} /\ Ask("signup", u)

ServeForm ==
  /\ Signing("sent")
  /\ \/ call' = [call EXCEPT !.state = "granted"] /\ cookie' = call.arg
     \/ call' = Idle /\ UNCHANGED cookie     \* setError
  /\ UNCHANGED <<member, authVars, orgVars, route, me, beforeLoad>>

\* set({user, ...}), then invalidateQueries: a fetch in flight is replaced.
SignIn ==
  /\ Signing("granted") /\ Len(me) < MaxFlights
  /\ user' = call.arg /\ isAdmin' = (call.arg \in Admins)
  /\ me' = Append(me, Pending)
  /\ call' = [call EXCEPT !.state = "waiting"]
  /\ UNCHANGED <<cookie, member, loaded, orgVars, route, beforeLoad>>

Landing_StayHere == route
Landing == IF call.op = "login" THEN "/" ELSE "/orgs"

\* handleSubmit goes on after the await, although its page has gone.
Land ==
  /\ Signing("loaded")
  /\ route' = Landing /\ call' = Idle
  /\ UNCHANGED <<cookie, member, authVars, orgVars, me, beforeLoad>>

\* The sign-out button of AppLayout and of the admin Sidebar.
SignOut == (Shown("/app") \/ Shown("/admin")) /\ Ask("signout", None)

ServeSignOut ==
  /\ Is("signout", "sent") /\ call' = [call EXCEPT !.state = "done"]
  /\ cookie' \in {None, cookie}     \* a failed request is ignored
  /\ UNCHANGED <<member, authVars, orgVars, route, me, beforeLoad>>

SignedOut ==
  /\ Is("signout", "done") /\ call' = Idle
  /\ user' = None
  /\ UNCHANGED <<cookie, member, loaded, isAdmin, orgVars, route, me, beforeLoad>>

-----------------------------------------------------------------------------
(* OrgsPage, OrgSwitcher, CreateOrgDialog, OrgSettingsPage, org store *)

SetCurrentOrg(o) == currentOrg' = o /\ savedOrg' = o

HandleSwitch(o) ==
  /\ Shown("/orgs") \/ (Shown("/app") /\ currentOrg # None)
  /\ o \in orgs /\ SetCurrentOrg(o)
  /\ route' = IF isAdmin THEN "/admin" ELSE "/app"
  /\ UNCHANGED <<cookie, member, authVars, orgs, me, call, beforeLoad>>

\* Links and buttons that lead from one page to another.
Links(r) ==
  CASE r = "/login" -> {"/signup"} [] r = "/signup" -> {"/login"}
    [] r = "/settings" -> {"/orgs"}
    [] r = "/orgs" -> IF orgs = {} THEN {} ELSE {"/"}
    [] r = "/app" -> {"/", "/orgs"}
    [] OTHER -> {}

Navigate(r) ==
  /\ Shown(route) /\ r \in Links(route)
  /\ route' = r
  /\ UNCHANGED <<cookie, member, authVars, orgVars, me, call, beforeLoad>>

CreateOrg(o) ==
  /\ Shown("/orgs") /\ \A u \in Users : o \notin member[u]
  /\ Ask("create", o)

DeleteOrg(o) == Shown("/settings") /\ o \in orgs /\ Ask("delete", o)

ServeOrgCall ==
  /\ Is("create", "sent") \/ Is("delete", "sent")
  /\ \/ /\ cookie # None /\ (call.op = "delete" => call.arg \in member[cookie])
        /\ member' = IF call.op = "create"
                     THEN [member EXCEPT ![cookie] = @ \union {call.arg}]
                     ELSE [u \in Users |-> member[u] \ {call.arg}]
        /\ call' = [call EXCEPT !.state = "done"]
     \/ call' = Idle /\ UNCHANGED member
  /\ UNCHANGED <<cookie, authVars, orgVars, route, me, beforeLoad>>

OrgCreated ==
  /\ Is("create", "done")
  /\ orgs' = orgs \union {call.arg} /\ SetCurrentOrg(call.arg)
  /\ call' = Idle /\ beforeLoad' = None
  /\ UNCHANGED <<cookie, member, authVars, route, me>>

OrgDeleted_KeepSaved ==
  /\ Is("delete", "done")
  /\ orgs' = orgs \ {call.arg}
  /\ IF currentOrg # call.arg THEN UNCHANGED <<currentOrg, savedOrg>>
     ELSE currentOrg' \in (IF orgs' = {} THEN {None} ELSE orgs') /\ UNCHANGED savedOrg
  /\ route' = "/orgs" /\ call' = Idle
  /\ UNCHANGED <<cookie, member, authVars, me, beforeLoad>>

OrgDeleted_NoneOpen ==
  /\ Is("delete", "done")
  /\ orgs' = orgs \ {call.arg}
  /\ SetCurrentOrg(IF currentOrg # call.arg THEN currentOrg ELSE None)
  /\ route' = "/orgs" /\ call' = Idle
  /\ UNCHANGED <<cookie, member, authVars, me, beforeLoad>>

OrgDeleted ==
  /\ Is("delete", "done")
  /\ orgs' = orgs \ {call.arg}
  /\ IF currentOrg # call.arg THEN SetCurrentOrg(currentOrg)
     ELSE \E o \in (IF orgs' = {} THEN {None} ELSE orgs') : SetCurrentOrg(o)
  /\ route' = "/orgs" /\ call' = Idle
  /\ UNCHANGED <<cookie, member, authVars, me, beforeLoad>>

-----------------------------------------------------------------------------
SessionNext ==
  \/ Redirect \/ ServeForm \/ SignIn \/ Land
  \/ ServeSignOut \/ SignedOut \/ ServeOrgCall \/ OrgCreated \/ OrgDeleted
  \/ \E i \in DOMAIN me : ServeMe(i) \/ MeArrives(i)
  \/ Reconnect \/ SignOut
  \/ \E u \in Users : SubmitLogin(u) \/ SubmitSignup(u)
  \/ \E o \in Orgs : HandleSwitch(o) \/ CreateOrg(o) \/ DeleteOrg(o)
  \/ \E r \in Routes : Navigate(r)
  \/ \E r \in {route, "/settings"} : Reload(r)

\* The browser renders, requests are answered or fail, promises resume.
SessionFairness ==
  /\ WF_sessionVars(Redirect)
  /\ WF_sessionVars(ServeForm) /\ WF_sessionVars(SignIn) /\ WF_sessionVars(Land)
  /\ WF_sessionVars(ServeOrgCall \/ OrgCreated \/ OrgDeleted)
  /\ WF_sessionVars(ServeSignOut \/ SignedOut)
  /\ WF_sessionVars(\E i \in DOMAIN me : ServeMe(i) \/ MeArrives(i))

SessionSpec == SessionInit /\ [][SessionNext]_sessionVars /\ SessionFairness

-----------------------------------------------------------------------------
\* Every variable holds what the code can put there, and localStorage always
\* names the organization that is open.
SessionTypeOK ==
  /\ cookie \in Users \union {None} /\ member \in [Users -> SUBSET Orgs]
  /\ loaded \in BOOLEAN /\ user \in Users \union {None} /\ isAdmin \in BOOLEAN
  /\ orgs \in SUBSET Orgs /\ currentOrg \in Orgs \union {None}
  /\ savedOrg \in Orgs \union {None} /\ route \in Routes
  /\ Len(me) <= MaxFlights
  /\ \A i \in DOMAIN me : me[i] \in [state : {"sent", "ok", "failed"},
                                     who : Users \union {None}, orgs : SUBSET Orgs]
  /\ call.op \in {"none", "login", "signup", "signout", "create", "delete"}
  /\ call.arg \in Users \union Orgs \union {None}
  /\ call.state \in {"sent", "granted", "waiting", "loaded", "done"}
  /\ beforeLoad \in Orgs \union {None}
  /\ currentOrg # None => savedOrg = currentOrg

\* The guards never send the tab around in circles: whatever the two stores
\* hold, some page renders in the end.
RedirectsSettle == []<>~Redirecting

\* Why: at any moment, and from any route, two redirects lead to a page that
\* renders; no combination of the two stores makes the guards disagree longer.
GuardsSettle == \A r \in Routes : Target(Target(Target(r))) = Target(Target(r))

\* A member who is signed in and has an organization gets into the app from the
\* home path, whichever answers came late, organizations were deleted or
\* remembered by localStorage: OrgGuard never keeps them out.
MembersGetIn ==
  loaded /\ user # None /\ ~isAdmin /\ orgs # {} =>
    Target("/") = "/app" /\ Target("/app") = "/app"

\* A reload, at any moment, brings back the organization that was open, as
\* long as the user is still a member of it.
ReloadKeepsOrg ==
  [][currentOrg = None /\ currentOrg' # None /\ beforeLoad \in orgs' => currentOrg' = beforeLoad]_sessionVars

\* OrgGuard sends every member who signs in to /orgs first, because it runs
\* before the organizations are there; handleSubmit's navigate, which goes on
\* after its page has gone, still brings them to the app.
SignInLands ==
  Is("login", "loaded") /\ ~isAdmin /\ orgs # {}
    ~> Shown("/app") \/ user = None \/ isAdmin \/ orgs = {} \/ ~loaded
=============================================================================
