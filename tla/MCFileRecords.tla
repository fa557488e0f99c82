---------------------------- MODULE MCFileRecords ----------------------------
(* Instances of FileRecords for TLC. *)
EXTENDS FileRecords

CONSTANTS k1, k2, s1, s2

Req(n, kind, k) == [n |-> n, kind |-> kind, key |-> k]

\* Writers of one key: two dashboard uploads and an S3 PUT.
Writers == {Req(1, "upload", k1), Req(2, "upload", k1), Req(3, "put", k1)}
TwoWriters == {Req(1, "upload", k1), Req(2, "put", k1)}
OneDelete == {Req(1, "upload", k1), Req(2, "upload", k1), Req(3, "delete", k1)}
\* A file stored, overwritten through S3 and deleted meanwhile.
Overwrite == {Req(1, "upload", k1), Req(2, "put", k1), Req(4, "s3del", k1)}
\* Both kinds of delete of one key.
Deletes == {Req(2, "put", k1), Req(3, "delete", k1), Req(4, "s3del", k1)}
\* A batch or folder delete while files come and go in the folder.
Batch == {Req(2, "put", k1), Req(5, "upload", k2), Req(6, "batch", k1)}
Replicating == Overwrite \cup Deletes \cup Batch
\* A behaviour sees the requests of one of the three.
OneWorkload == \E W \in {Overwrite, Deletes, Batch} : \A r \in Requests \ W : pc[r] = "idle"
==============================================================================
