------------------------------ MODULE LinkPromise ------------------------------
(***************************************************************************)
(* What one public link promises to its owner: it grants only while it     *)
(* exists and is active, and never when as many grants as its limit have   *)
(* been made.  The owner may change both at any time.                      *)
(***************************************************************************)
EXTENDS Naturals, FiniteSets

CONSTANTS Visitors, Limits, NoLimit

VARIABLES
    state,    \* "none", "live" or "deleted"
    active,   \* the owner has not switched the link off
    limit,    \* the number of grants the owner allows, or NoLimit
    granted   \* the visitors served

vars == <<state, active, limit, granted>>

Init ==
    /\ state = "none"
    /\ active = TRUE
    /\ limit = NoLimit
    /\ granted = {}

Create ==
    /\ state = "none"
    /\ state' = "live"
    /\ limit' \in Limits
    /\ UNCHANGED <<active, granted>>

Configure ==
    /\ state = "live"
    /\ active' \in BOOLEAN
    /\ limit' \in Limits
    /\ UNCHANGED <<state, granted>>

Grant(v) ==
    /\ state = "live" /\ active
    /\ limit # NoLimit => Cardinality(granted) < limit
    /\ granted' = granted \cup {v}
    /\ UNCHANGED <<state, active, limit>>

Delete ==
    /\ state = "live"
    /\ state' = "deleted"
    /\ UNCHANGED <<active, limit, granted>>

Next == Create \/ Configure \/ Delete \/ \E v \in Visitors : Grant(v)

Spec == Init /\ [][Next]_vars
==============================================================================
