--------------------------- MODULE WebSessionProofs ---------------------------
(***************************************************************************)
(* The tab's idea of who is signed in, and in which organization, for any  *)
(* users and organizations and any number of requests on their way.        *)
(***************************************************************************)
EXTENDS WebSession, SequenceTheorems, TLAPS

Flight == [state : {"sent", "ok", "failed"}, who : Users \union {None}, orgs : SUBSET Orgs]

\* The pending call and the answers on their way are well formed.
CallsTyped ==
  /\ me \in Seq(Flight) /\ Len(me) <= MaxFlights
  /\ call \in [op : {"none", "login", "signup", "signout", "create", "delete"},
               arg : Users \union Orgs \union {None},
               state : {"sent", "granted", "waiting", "loaded", "done"}]
  /\ call.op \in {"login", "signup"} => call.arg \in Users
  /\ call.op \in {"create", "delete"} => call.arg \in Orgs

StoresTyped ==
  /\ cookie \in Users \union {None} /\ member \in [Users -> SUBSET Orgs]
  /\ loaded \in BOOLEAN /\ user \in Users \union {None} /\ isAdmin \in BOOLEAN
  /\ orgs \in SUBSET Orgs /\ currentOrg \in Orgs \union {None}
  /\ savedOrg \in Orgs \union {None} /\ route \in Routes
  /\ beforeLoad \in Orgs \union {None}

\* localStorage names the open organization, and after a reload the one that
\* was open, until an organization is open again.
SavedOrgs ==
  /\ currentOrg # None => savedOrg = currentOrg
  /\ currentOrg = None => orgs = {} /\ call.op # "delete"
  /\ beforeLoad # None => currentOrg = None /\ savedOrg = beforeLoad

SessionInv == StoresTyped /\ CallsTyped /\ SavedOrgs

LEMMA SessionInvInit == SessionInit => SessionInv
<1> SUFFICES ASSUME SessionInit PROVE SessionInv
  OBVIOUS
<1> USE SessionConstants DEF SessionInit
<1>1. StoresTyped
  BY DEF StoresTyped, Routes
<1>2. CallsTyped
  BY DEF CallsTyped, Flight, Pending, Idle
<1>3. SavedOrgs
  BY DEF SavedOrgs, Idle
<1>4. QED
  BY <1>1, <1>2, <1>3 DEF SessionInv

\* Taking an answer out leaves a shorter sequence of answers.
LEMMA WithoutShorter ==
  ASSUME NEW s \in Seq(Flight), NEW i \in DOMAIN s
  PROVE  Without(s, i) \in Seq(Flight) /\ Len(Without(s, i)) <= Len(s)
<1>1. i \in 1..Len(s) /\ Len(s) \in Nat
  OBVIOUS
<1>2. SubSeq(s, 1, i - 1) \in Seq(Flight) /\ Len(SubSeq(s, 1, i - 1)) = i - 1
  BY <1>1
<1>3. /\ SubSeq(s, i + 1, Len(s)) \in Seq(Flight)
      /\ Len(SubSeq(s, i + 1, Len(s))) = Len(s) - i
  BY <1>1
<1>4. QED
  BY <1>1, <1>2, <1>3 DEF Without

\* A fresh request makes the sequence one longer.
LEMMA PendingAdded ==
  /\ <<Pending>> \in Seq(Flight) /\ Len(<<Pending>>) = 1
  /\ \A s \in Seq(Flight) :
        Append(s, Pending) \in Seq(Flight) /\ Len(Append(s, Pending)) = Len(s) + 1
<1>1. Pending \in Flight
  BY DEF Pending, Flight
<1>2. QED
  BY <1>1

\* A reload brings back the organization that was open.
KeepsOrg == currentOrg = None /\ currentOrg' # None /\ beforeLoad \in orgs' =>
                currentOrg' = beforeLoad

LEMMA SessionSteps ==
  ASSUME SessionInv, [SessionNext]_sessionVars
  PROVE  SessionInv' /\ KeepsOrg
<1> USE SessionConstants DEF SessionInv
<1>1. CASE Redirect
  BY <1>1
  DEF Redirect, Redirecting, Target, ProtectedRouteTarget, OrgGuardTarget, AdminGuardTarget,
      Routes, authVars, orgVars, StoresTyped, CallsTyped, SavedOrgs, KeepsOrg
<1>2. CASE ServeForm \/ SignIn \/ Land
  <2>1. CASE ServeForm \/ Land
    BY <1>2, <2>1
    DEF ServeForm, Land, Landing, Signing, Is, Idle, authVars, orgVars, Routes, StoresTyped,
        CallsTyped, SavedOrgs, KeepsOrg
  <2>2. CASE SignIn
    <3>1. me' \in Seq(Flight) /\ Len(me') = Len(me) + 1 /\ Len(me) \in Nat
      BY <2>2, PendingAdded DEF SignIn, CallsTyped
    <3>2. StoresTyped'
      BY <2>2 DEF SignIn, Signing, Is, authVars, orgVars, StoresTyped, CallsTyped
    <3>3. CallsTyped'
      BY <2>2, <3>1 DEF SignIn, Signing, Is, CallsTyped
    <3>4. SavedOrgs' /\ KeepsOrg
      BY <2>2 DEF SignIn, Signing, Is, authVars, orgVars, SavedOrgs, KeepsOrg
    <3>5. QED
      BY <3>2, <3>3, <3>4
  <2>3. QED
    BY <1>2, <2>1, <2>2
<1>3. CASE ServeSignOut \/ SignedOut \/ SignOut
  BY <1>3
  DEF ServeSignOut, SignedOut, SignOut, Ask, Call, Is, Idle, authVars, orgVars,
      StoresTyped, CallsTyped, SavedOrgs, KeepsOrg
<1>4. CASE ServeOrgCall \/ OrgCreated \/ OrgDeleted
  BY <1>4
  DEF ServeOrgCall, OrgCreated, OrgDeleted, SetCurrentOrg, Is, Idle, authVars, orgVars, Routes,
      StoresTyped, CallsTyped, SavedOrgs, KeepsOrg
<1>5. ASSUME NEW i \in DOMAIN me, ServeMe(i) PROVE SessionInv' /\ KeepsOrg
  BY <1>5
  DEF ServeMe, Failed, Flight, authVars, orgVars, StoresTyped, CallsTyped, SavedOrgs, KeepsOrg
<1>6. ASSUME NEW i \in DOMAIN me, MeArrives(i) PROVE SessionInv' /\ KeepsOrg
  <2>1. me[i] \in Flight
    BY DEF CallsTyped
  <2>2. StoresTyped'
    BY <1>6, <2>1
    DEF MeArrives, SetOrganizations, Restored, Flight, StoresTyped, SavedOrgs
  <2>3. CallsTyped'
    <3>1. me' \in Seq(Flight) /\ Len(me') <= MaxFlights
      BY <1>6, WithoutShorter DEF MeArrives, CallsTyped
    <3>2. call' \in {call, [call EXCEPT !.state = "loaded"]}
      BY <1>6 DEF MeArrives, Resume
    <3>3. QED
      BY <3>1, <3>2 DEF CallsTyped
  <2>4. SavedOrgs'
    BY <1>6, <2>1
    DEF MeArrives, SetOrganizations, Restored, Resume, Flight, StoresTyped, CallsTyped, SavedOrgs
  <2>5. KeepsOrg
    <3>1. SUFFICES ASSUME currentOrg = None, currentOrg' # None, beforeLoad \in orgs'
                   PROVE  currentOrg' = beforeLoad
      BY DEF KeepsOrg
    <3>2. orgs' = me[i].orgs /\ currentOrg' \in Restored(me[i].orgs)
      BY <1>6, <3>1 DEF MeArrives, SetOrganizations
    <3>3. beforeLoad # None
      BY <2>1, <3>1, <3>2 DEF Flight
    <3>4. QED
      BY <3>1, <3>2, <3>3 DEF Restored, SavedOrgs
  <2>6. QED
    BY <2>2, <2>3, <2>4, <2>5
<1>7. CASE Reconnect
  BY <1>7
  DEF Reconnect, Pending, Flight, authVars, orgVars, StoresTyped, CallsTyped, SavedOrgs, KeepsOrg
<1>8. ASSUME NEW u \in Users, SubmitLogin(u) \/ SubmitSignup(u)
      PROVE  SessionInv' /\ KeepsOrg
  BY <1>8
  DEF SubmitLogin, SubmitSignup, Ask, Call, Idle, authVars, orgVars, StoresTyped, CallsTyped,
      SavedOrgs, KeepsOrg
<1>9. ASSUME NEW o \in Orgs, HandleSwitch(o) \/ CreateOrg(o) \/ DeleteOrg(o)
      PROVE  SessionInv' /\ KeepsOrg
  BY <1>9
  DEF HandleSwitch, CreateOrg, DeleteOrg, SetCurrentOrg, Ask, Call, Idle, authVars, orgVars,
      Routes, StoresTyped, CallsTyped, SavedOrgs, KeepsOrg
<1>10. ASSUME NEW r \in Routes, Navigate(r) PROVE SessionInv' /\ KeepsOrg
  BY <1>10 DEF Navigate, authVars, orgVars, StoresTyped, CallsTyped, SavedOrgs, KeepsOrg
<1>11. ASSUME NEW r \in {route, "/settings"}, Reload(r) PROVE SessionInv' /\ KeepsOrg
  <2>1. me' \in Seq(Flight) /\ Len(me') = 1
    BY <1>11, PendingAdded DEF Reload
  <2>2. CallsTyped'
    BY <1>11, <2>1 DEF Reload, Idle, CallsTyped
  <2>3. StoresTyped' /\ SavedOrgs' /\ KeepsOrg
    BY <1>11 DEF Reload, Idle, Routes, StoresTyped, SavedOrgs, KeepsOrg
  <2>4. QED
    BY <2>2, <2>3
<1>12. CASE UNCHANGED sessionVars
  BY <1>12
  DEF sessionVars, authVars, orgVars, StoresTyped, CallsTyped, SavedOrgs, KeepsOrg
<1>13. QED
  BY <1>1, <1>2, <1>3, <1>4, <1>5, <1>6, <1>7, <1>8, <1>9, <1>10, <1>11, <1>12 DEF SessionNext

LEMMA SessionAlways == SessionSpec => []SessionInv
  BY SessionInvInit, SessionSteps, PTL DEF SessionSpec

\* What the tab holds is always well formed, and localStorage names the
\* organization that is open.
THEOREM SessionTyped == SessionSpec => []SessionTypeOK
<1>1. SessionInv => SessionTypeOK
  <2>1. SUFFICES ASSUME SessionInv PROVE SessionTypeOK
    OBVIOUS
  <2>2. \A i \in DOMAIN me : me[i] \in Flight
    BY <2>1 DEF SessionInv, CallsTyped
  <2>3. /\ call.op \in {"none", "login", "signup", "signout", "create", "delete"}
        /\ call.arg \in Users \union Orgs \union {None}
        /\ call.state \in {"sent", "granted", "waiting", "loaded", "done"}
        /\ Len(me) <= MaxFlights
    BY <2>1 DEF SessionInv, CallsTyped
  <2>4. QED
    BY <2>1, <2>2, <2>3 DEF SessionInv, StoresTyped, SavedOrgs, SessionTypeOK, Flight
<1>2. QED
  BY <1>1, SessionAlways, PTL

\* A reload, at any moment and with any answers on their way, brings back the
\* organization that was open, as long as the user is a member of it.
THEOREM ReloadCorrect == SessionSpec => ReloadKeepsOrg
<1>1. SessionInv /\ [SessionNext]_sessionVars => [KeepsOrg]_sessionVars
  BY SessionSteps
<1>2. QED
  BY <1>1, SessionAlways, PTL DEF SessionSpec, ReloadKeepsOrg, KeepsOrg
-----------------------------------------------------------------------------
\* Where the guards send a tab, by who is signed in: nobody to the sign-in page,
\* an administrator to /admin, a member to the app or to the organizations.
LEMMA Targets ==
  ASSUME SessionInv
  PROVE  /\ \A r \in Routes : Target(r) \in Routes
         /\ user = None =>
              /\ Target("/login") = "/login" /\ Target("/signup") = "/signup"
              /\ \A r \in Routes \ {"/login", "/signup"} : Target(r) = "/login"
         /\ user # None =>
              /\ Target("/login") = "/" /\ Target("/signup") = "/orgs"
              /\ isAdmin => /\ \A r \in {"/orgs", "/settings", "/", "/admin"} : Target(r) = "/admin"
                            /\ Target("/app") = "/app"
              /\ ~isAdmin => /\ Target("/orgs") = "/orgs" /\ Target("/settings") = "/settings"
                             /\ Target("/admin") = "/"
                             /\ IF orgs = {} \/ currentOrg = None
                                THEN Target("/") = "/orgs" /\ Target("/app") = "/orgs"
                                ELSE Target("/") = "/app" /\ Target("/app") = "/app"
BY DEF SessionInv, StoresTyped, Target, ProtectedRouteTarget, OrgGuardTarget, AdminGuardTarget,
   Routes

\* From any route two redirects lead to a page that renders, in every state of
\* the two stores the code can reach.
THEOREM GuardsAgree == SessionSpec => []GuardsSettle
<1>1. SessionInv => GuardsSettle
  <2> SUFFICES ASSUME SessionInv, NEW r \in Routes
               PROVE  Target(Target(Target(r))) = Target(Target(r))
    BY DEF GuardsSettle
  <2>1. CASE user = None
    BY <2>1, Targets DEF Routes
  <2>2. CASE user # None /\ isAdmin
    BY <2>2, Targets DEF Routes
  <2>3. CASE user # None /\ ~isAdmin
    BY <2>3, Targets DEF Routes
  <2>4. isAdmin \in BOOLEAN
    BY DEF SessionInv, StoresTyped
  <2> QED
    BY <2>1, <2>2, <2>3, <2>4
<1> QED
  BY <1>1, SessionInvInit, SessionSteps, PTL DEF SessionSpec

\* OrgGuard keeps no member out who has an organization: the organization that is
\* open is there whenever there is one to open.
THEOREM MembersLetIn == SessionSpec => []MembersGetIn
<1>1. SessionInv => MembersGetIn
  <2> SUFFICES ASSUME SessionInv, user # None, ~isAdmin, orgs # {}
               PROVE  Target("/") = "/app" /\ Target("/app") = "/app"
    BY DEF MembersGetIn
  <2>1. currentOrg # None
    BY DEF SessionInv, SavedOrgs
  <2> QED
    BY <2>1, Targets
<1> QED
  BY <1>1, SessionInvInit, SessionSteps, PTL DEF SessionSpec
================================================================================
