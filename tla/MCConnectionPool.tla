--------------------------- MODULE MCConnectionPool ---------------------------
(* Instances of ConnectionPool for TLC. *)
EXTENDS ConnectionPool

Req(n, kind) == [n |-> n, kind |-> kind]

\* One upload fewer than the pool has connections, and other traffic.
Mixed == {Req(1, "upload"), Req(2, "upload"), Req(3, "empty"), Req(4, "put")}
\* As many uploads as connections.
Burst == {Req(1, "upload"), Req(2, "upload"), Req(3, "other")}
==============================================================================
