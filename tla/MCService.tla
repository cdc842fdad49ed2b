----------------------------- MODULE MCService -----------------------------
(* Instances of Service for TLC. *)
EXTENDS Service

MCFlags ==
  [q \in Queries |->
    CASE q = "match" -> {"read"}
      [] q = "set" -> {"read", "update"}
      [] q = "ddl" -> {"schema"}
      [] q = "create" -> {"insert"}]

Request(q, m) == [query |-> q, mode |-> m]

\* A read, an update and a schema change.
PlanRequests == {Request("match", "read"), Request("ddl", "schema")}
SinkRequests == {Request("match", "read"), Request("set", "update")}
\* Also inserts, a query in the wrong mode and a body that does not parse.
AllRequests ==
  PlanRequests \cup SinkRequests
  \cup {Request("create", "insert"), Request("ddl", "read"), BadRequest}
=============================================================================
