SPECIFICATION SessionSpec
CONSTANTS
  Users = {u, a}
  Admins = {a}
  Orgs = {o1, o2}
  MaxFlights = 2
  None = None
INVARIANTS SessionTypeOK GuardsSettle MembersGetIn
PROPERTIES RedirectsSettle ReloadKeepsOrg SignInLands
CHECK_DEADLOCK FALSE
