----------------------------- MODULE MCFileJobs -----------------------------
(* One file: it is downloaded with and without a time to live, uploaded    *)
(* and deleted.  Jobs of different kinds have different keys though their  *)
(* id is the same.                                                         *)
EXTENDS FileJobs

MCKey(id, tag) == [id |-> id, tag |-> tag]
MCRequest(key, file, ttl) == [key |-> key, file |-> file, ttl |-> ttl]

MCRequests ==
    {MCRequest(MCKey(f, "Download"), f, ttl) : f \in Ids, ttl \in BOOLEAN}
    \cup {MCRequest(MCKey(f, tag), f, FALSE) : f \in Ids, tag \in {"Delete", "Upload"}}

(* Every download has a time to live.                                      *)
MCTtlRequests == {r \in MCRequests : r.key.tag = "Download" => r.ttl}
=============================================================================
