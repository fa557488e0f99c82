----------------------------- MODULE MCPublicLinks -----------------------------
(* Instances of PublicLinks for TLC: two share links, a tracked link and an   *)
(* upload link.                                                               *)
EXTENDS PublicLinks

CONSTANTS s1, s2, t, u

Req(n, op, l) == [n |-> n, op |-> op, link |-> l]

\* One target shared twice, a visitor, an owner at work.
Sharing == {Req(1, "create", s1), Req(2, "create", s2), Req(3, "update", s1),
            Req(4, "delete", s1), Req(5, "download", s1)}
\* A tracked link with a view and a raw download while its owner works.
Tracking == {Req(1, "create", t), Req(2, "view", t), Req(4, "raw", t),
             Req(5, "update", t), Req(6, "delete", t)}
\* An upload link with two uploads.
Taking == {Req(1, "create", u), Req(2, "upload", u), Req(3, "upload", u),
           Req(4, "update", u), Req(5, "delete", u)}
\* Two views of a tracked link while its owner works.
Counting == {Req(1, "create", t), Req(2, "view", t), Req(3, "view", t),
             Req(5, "update", t), Req(6, "delete", t)}

AllKinds == Sharing \cup Tracking \cup Taking \cup Counting
\* The links of different kinds share nothing but the database, whose other
\* writers OtherCommit stands for: a behaviour visits links of one kind; in
\* PostgreSQL, where visits block each other, a tracked link.
OneKind ==
    \E W \in (IF Postgres THEN {Counting} ELSE {Sharing, Tracking, Taking}) :
        \A r \in Requests \ W : pc[r] = "idle"

\* What a link with a limit serves when nobody changes it.
TwoRaw == {Req(1, "create", s1), Req(2, "raw", s1), Req(3, "raw", s1)}
==============================================================================
