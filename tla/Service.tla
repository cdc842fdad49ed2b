------------------------------ MODULE Service ------------------------------
(***************************************************************************)
(* A query through NeugDBService: the request handler takes a session from *)
(* the pool (src/server/session_pool.cc), Eval opens the transaction of    *)
(* the request's access mode (src/server/neug_db_session.cc), fetches the  *)
(* plan from the session's LocalQueryCache and the GlobalQueryCache        *)
(* (include/neug/execution/execute/query_cache.h), runs it, commits, sinks *)
(* the result and gives the session back.  A committing schema change      *)
(* drops all cached plans and gives the planner the new schema.            *)
(*                                                                         *)
(* Timestamps come from SnapshotOracle, which VersionManager implements.   *)
(* The schema and the stored data are counted: schema and data are the     *)
(* numbers of committed changes, dirty what the running update transaction *)
(* has changed in place and not committed.                                 *)
(***************************************************************************)
EXTENDS Integers, Sequences, FiniteSets, Functions

CONSTANTS
  Handlers,     \* request handler threads, numbered
  Sessions,
  Queries,      \* query texts
  Flags,        \* the ExecutionFlags of each query's plan: [Queries -> SUBSET FlagNames]
  Requests,     \* the requests clients send: records [query, mode]
  BadRequest,   \* a request body RequestParser rejects
  InitTs,
  ReadOnlyDb,   \* NeugDBConfig::mode is READ_ONLY
  MaxRequests,  \* bound: requests served in a behaviour
  NoPlan, NoSession

\* "call" is procedure_call and checkpoint, "batch" also create_temp_table.
FlagNames == {"read", "insert", "update", "schema", "batch", "call"}

Modes == {"read", "insert", "update", "schema"}

ASSUME ServiceAssumption ==
  /\ Handlers \subseteq Nat /\ IsFiniteSet(Handlers)
  /\ IsFiniteSet(Sessions) /\ NoSession \notin Sessions
  /\ Flags \in [Queries -> SUBSET FlagNames]
  /\ Requests \subseteq {BadRequest} \cup [query : Queries, mode : Modes]

VARIABLES
  available,  \* the deque of free sessions
  pc,         \* what each handler does next
  req,        \* its request
  sess,       \* the session of its SessionGuard
  plan,       \* the plan Get returned to it
  seen,       \* the graph its pipeline ran on
  schema, data, dirty,
  meta,       \* the schema the planner knows: the counter it was given
  version, cache, locked,    \* GlobalQueryCache: version_, cache_, mutex_ held for writing
  lversion, lcache,          \* each session's LocalQueryCache
  next, phase, at,           \* the timestamps of the sessions' transactions
  served      \* requests received so far

txn == <<next, phase, at>>
graph == <<schema, data, dirty>>
global == <<meta, version, cache, locked>>
local == <<lversion, lcache>>
handler == <<req, sess, plan, seen>>
svars == <<available, pc, handler, graph, global, local, txn, served>>

Oracle == INSTANCE SnapshotOracle

EmptyCache == [q \in Queries |-> NoPlan]

\* The deque SessionPool's constructor fills: every session once.
AllSessions == CHOOSE f \in Bijection(1..Cardinality(Sessions), Sessions) : TRUE

SInit ==
  /\ available = AllSessions
  /\ pc = [h \in Handlers |-> "idle"]
  /\ req = [h \in Handlers |-> BadRequest]
  /\ sess = [h \in Handlers |-> NoSession]
  /\ plan = [h \in Handlers |-> NoPlan]
  /\ seen = [h \in Handlers |-> <<>>]
  /\ schema = 0 /\ data = 0 /\ dirty = {}
  /\ meta = 0 /\ version = 0 /\ cache = EmptyCache /\ locked = FALSE
  /\ lversion = [s \in Sessions |-> 0]
  /\ lcache = [s \in Sessions |-> EmptyCache]
  /\ Oracle!Init
  /\ served = 0

Goto(h, p) == pc' = [pc EXCEPT ![h] = p]

At(h, p) == pc[h] = p

Waiting == {h \in Handlers : At(h, "waiting")}
Woken == {h \in Handlers : At(h, "woken")}

-----------------------------------------------------------------------------
(* The session pool.                                                       *)

\* acquire_session_impl with mutex_ held: pop the front, or wait on cond_.
TakeSession(h) ==
  \/ /\ available # <<>>
     /\ sess' = [sess EXCEPT ![h] = Head(available)]
     /\ available' = Tail(available)
     /\ Goto(h, "begin")
  \/ /\ available = <<>>
     /\ Goto(h, "waiting")
     /\ UNCHANGED <<sess, available>>

\* The handlers are interchangeable: a request goes to the first idle one.
Accepts(h) == At(h, "idle") /\ \A g \in Handlers : At(g, "idle") => h <= g

\* PostCypherQuery: a request with a body arrives and asks for a session.
Receive(h) ==
  /\ Accepts(h)
  /\ served < MaxRequests
  /\ served' = served + 1
  /\ \E r \in Requests : req' = [req EXCEPT ![h] = r]
  /\ TakeSession(h)
  /\ UNCHANGED <<plan, seen, graph, global, local, txn>>

\* bthread_cond_wait returned: the loop tests the deque again.
Retry(h) ==
  /\ At(h, "woken")
  /\ TakeSession(h)
  /\ UNCHANGED <<req, plan, seen, graph, global, local, txn, served>>

\* bthread_cond_wait may return without a signal.
SpuriousWakeup(h) ==
  /\ At(h, "waiting")
  /\ Goto(h, "woken")
  /\ UNCHANGED <<available, handler, graph, global, local, txn, served>>

\* bthread_cond_signal wakes one waiter if there is one.
SignalAndLeave(h) ==
  \/ /\ Waiting = {}
     /\ Goto(h, "idle")
  \/ \E w \in Waiting : pc' = [pc EXCEPT ![h] = "idle", ![w] = "woken"]

\* The handler returns: the locals of its request are gone.
ForgetRequest(h) ==
  /\ req' = [req EXCEPT ![h] = BadRequest]
  /\ sess' = [sess EXCEPT ![h] = NoSession]
  /\ plan' = [plan EXCEPT ![h] = NoPlan]
  /\ seen' = [seen EXCEPT ![h] = <<>>]

\* Fault: the session goes back twice (a guard released by move and by scope).
ReleaseSessionTwice(h) ==
  /\ At(h, "done")
  /\ available' = available \o <<sess[h], sess[h]>>
  /\ SignalAndLeave(h)
  /\ ForgetRequest(h)
  /\ UNCHANGED <<graph, global, local, txn, served>>

\* Fault: nobody is signalled.
ReleaseSessionSilently(h) ==
  /\ At(h, "done")
  /\ available' = Append(available, sess[h])
  /\ Goto(h, "idle")
  /\ ForgetRequest(h)
  /\ UNCHANGED <<graph, global, local, txn, served>>

\* The reply is sent and ~SessionGuard gives the session back.
ReleaseSession(h) ==
  /\ At(h, "done")
  /\ available' = Append(available, sess[h])
  /\ SignalAndLeave(h)
  /\ ForgetRequest(h)
  /\ UNCHANGED <<graph, global, local, txn, served>>

-----------------------------------------------------------------------------
(* Eval: the transaction and the plan.                                     *)

Mode(h) == req[h].mode

\* RequestParser::ParseFromString fails: Eval returns before any transaction.
RejectRequest(h) ==
  /\ At(h, "begin")
  /\ req[h] = BadRequest
  /\ Goto(h, "done")
  /\ UNCHANGED <<available, handler, graph, global, local, txn, served>>

\* GetReadTransaction, GetInsertTransaction or GetUpdateTransaction; the
\* modes kUpdate and kSchema share the last.
BeginTransaction(h) ==
  /\ At(h, "begin")
  /\ req[h] # BadRequest
  /\ \/ Mode(h) = "read" /\ Oracle!BeginRead(sess[h])
     \/ Mode(h) = "insert" /\ Oracle!BeginInsert(sess[h])
     \/ Mode(h) \in {"update", "schema"} /\ Oracle!BeginUpdate(sess[h])
  /\ Goto(h, "get")
  /\ UNCHANGED <<available, handler, graph, global, local, served>>

\* The plan for h's query was found or made.
Planned(h, p) ==
  /\ plan' = [plan EXCEPT ![h] = p]
  /\ Goto(h, "exec")

\* LocalQueryCache::Get with version_ = global version: the local lookup.
FindLocal(h) ==
  LET p == lcache[sess[h]][req[h].query] IN
  IF p # NoPlan THEN Planned(h, p) ELSE Goto(h, "find") /\ UNCHANGED plan

\* LocalQueryCache::Get up to its second load of the global version.
CheckVersion(h) ==
  /\ At(h, "get")
  /\ IF lversion[sess[h]] = version
     THEN FindLocal(h) /\ UNCHANGED lcache
     ELSE /\ lcache' = [lcache EXCEPT ![sess[h]] = EmptyCache]
          /\ Goto(h, "reload")
          /\ UNCHANGED plan
  /\ UNCHANGED <<available, req, sess, seen, graph, global, lversion, txn, served>>

\* version_ = global_cache_->version(), and the lookup in the emptied cache.
ReloadVersion(h) ==
  /\ At(h, "reload")
  /\ lversion' = [lversion EXCEPT ![sess[h]] = version]
  /\ Goto(h, "find")
  /\ UNCHANGED <<available, handler, graph, global, lcache, txn, served>>

\* The local emplace after GlobalQueryCache::Get returned p.
Remember(h, p) ==
  /\ lcache' = [lcache EXCEPT ![sess[h]][req[h].query] = p]
  /\ Planned(h, p)

\* GlobalQueryCache::Get, the lookup under the shared lock.
FindGlobal(h) ==
  /\ At(h, "find")
  /\ ~locked
  /\ LET p == cache[req[h].query] IN
     IF p # NoPlan THEN Remember(h, p)
                   ELSE Goto(h, "compile") /\ UNCHANGED <<lcache, plan>>
  /\ UNCHANGED <<available, req, sess, seen, graph, global, lversion, txn, served>>

\* planner_->compilePlan, with no lock: the plan for the schema it knows.
CompilePlan(h) ==
  /\ At(h, "compile")
  /\ plan' = [plan EXCEPT ![h] = [meta |-> meta, schema |-> -1]]
  /\ Goto(h, "parse")
  /\ UNCHANGED <<available, req, sess, seen, graph, global, local, txn, served>>

\* PlanParser::parse_execute_pipeline against the graph's schema.
ParsePlan(h) ==
  /\ At(h, "parse")
  /\ plan' = [plan EXCEPT ![h] = [meta |-> plan[h].meta, schema |-> schema]]
  /\ Goto(h, "insert")
  /\ UNCHANGED <<available, req, sess, seen, graph, global, local, txn, served>>

\* The end of GlobalQueryCache::Get under the unique lock: the first plan wins.
InsertGlobal(h) ==
  /\ At(h, "insert")
  /\ ~locked
  /\ LET q == req[h].query
         p == IF cache[q] # NoPlan THEN cache[q] ELSE plan[h]
     IN cache' = [cache EXCEPT ![q] = p] /\ Remember(h, p)
  /\ UNCHANGED <<available, req, sess, seen, graph, meta, version, locked,
                 lversion, txn, served>>

-----------------------------------------------------------------------------
(* Eval: running the plan and ending the transaction.                      *)

IsReadOnly(flags) == flags \cap {"insert", "update", "schema", "batch", "call"} = {}

IsInsertOnly(flags) ==
  "insert" \in flags /\ flags \cap {"read", "update", "schema", "batch", "call"} = {}

\* validate_flags.
ValidFlags(mode, flags) ==
  /\ ReadOnlyDb => IsReadOnly(flags) /\ mode = "read"
  /\ mode = "read" => IsReadOnly(flags)
  /\ mode = "insert" => IsInsertOnly(flags)
  /\ "batch" \notin flags

Valid(h) == ValidFlags(Mode(h), Flags[req[h].query])

\* Abort, called or from the transaction's destructor: the undo log restores
\* the graph, then the timestamp goes back.
AbortTransaction(h) ==
  /\ dirty' = IF phase[sess[h]] = "update" THEN {} ELSE dirty
  /\ Oracle!End(sess[h])
  /\ Goto(h, "done")
  /\ UNCHANGED <<available, handler, schema, data, global, local, served>>

\* Get or validate_flags returns an error.
PlanFails(h) ==
  /\ At(h, "compile") \/ (At(h, "exec") /\ ~Valid(h))
  /\ AbortTransaction(h)

Touches ==
  [read |-> {}, insert |-> {"data"}, update |-> {"data"}, schema |-> {"schema"},
   batch |-> {"data"}, call |-> {}]

\* What the pipeline may change in place; inserts stay invisible until they
\* commit.
Changes(h) ==
  IF phase[sess[h]] = "update"
  THEN SUBSET UNION {Touches[f] : f \in Flags[req[h].query]}
  ELSE {{}}

\* pipeline.Execute: reads run at their snapshot, updates change the graph.
Execute(h) ==
  /\ At(h, "exec")
  /\ Valid(h)
  /\ \E c \in Changes(h) : dirty' = dirty \cup c
  /\ seen' = [seen EXCEPT ![h] = <<schema, data, dirty'>>]
  /\ Goto(h, "commit")
  /\ UNCHANGED <<available, req, sess, plan, schema, data, global, local, txn, served>>

\* The pipeline failed, or logger_.append failed in Commit.
ExecuteFails(h) ==
  /\ At(h, "commit")
  /\ AbortTransaction(h)

\* ReadTransaction::Commit, InsertTransaction::Commit, and
\* UpdateTransaction::Commit of a transaction without operations.
CommitUnchanged(h) ==
  /\ At(h, "commit")
  /\ phase[sess[h]] = "update" => dirty = {}
  /\ Oracle!End(sess[h])
  /\ Goto(h, IF phase[sess[h]] = "insert" THEN "done" ELSE "sink")
  /\ UNCHANGED <<available, handler, graph, global, local, served>>

\* UpdateTransaction::Commit: logged, deferred deletions applied; without a
\* schema change the timestamp is released.
CommitUpdate(h) ==
  /\ At(h, "commit")
  /\ phase[sess[h]] = "update" /\ dirty # {}
  /\ data' = IF "data" \in dirty THEN data + 1 ELSE data
  /\ schema' = IF "schema" \in dirty THEN schema + 1 ELSE schema
  /\ dirty' = {}
  /\ seen' = [seen EXCEPT ![h] = <<schema', data', {}>>]
  /\ IF "schema" \in dirty THEN Goto(h, "clear") /\ UNCHANGED txn
                           ELSE Goto(h, "sink") /\ Oracle!End(sess[h])
  /\ UNCHANGED <<available, req, sess, plan, global, local, served>>

\* Fault: the version is not advanced.
BumpVersionNot(h) ==
  /\ At(h, "clear")
  /\ locked' = TRUE
  /\ Goto(h, "cleared")
  /\ UNCHANGED <<available, handler, graph, meta, version, cache, local, txn, served>>

\* GlobalQueryCache::clear: the unique lock and version_.fetch_add(1), which
\* sessions load without the lock.
BumpVersion(h) ==
  /\ At(h, "clear")
  /\ ~locked
  /\ locked' = TRUE
  /\ version' = version + 1
  /\ Goto(h, "cleared")
  /\ UNCHANGED <<available, handler, graph, meta, cache, local, txn, served>>

\* Fault: the lock is not given back.
ClearGlobalKeepsLock(h) ==
  /\ At(h, "cleared")
  /\ cache' = EmptyCache
  /\ meta' = schema
  /\ Goto(h, "release")
  /\ UNCHANGED <<available, handler, graph, version, locked, local, txn, served>>

\* The rest of clear: drop the plans, planner_->update_meta, unlock.
ClearGlobal(h) ==
  /\ At(h, "cleared")
  /\ cache' = EmptyCache
  /\ meta' = schema
  /\ locked' = FALSE
  /\ Goto(h, "release")
  /\ UNCHANGED <<available, handler, graph, version, local, txn, served>>

\* The end of clearGlobalCache and of Commit: the session's own cache, then
\* the timestamp.
ReleaseUpdate(h) ==
  /\ At(h, "release")
  /\ lversion' = [lversion EXCEPT ![sess[h]] = version]
  /\ lcache' = [lcache EXCEPT ![sess[h]] = EmptyCache]
  /\ Oracle!End(sess[h])
  /\ Goto(h, "sink")
  /\ UNCHANGED <<available, handler, graph, global, served>>

\* Sink::sink_results reads the properties of the result from the graph, and
\* Eval returns.
SinkResults(h) ==
  /\ At(h, "sink")
  /\ Goto(h, "done")
  /\ UNCHANGED <<available, handler, graph, global, local, txn, served>>

\* GetSchemaImpl: a reply with the graph's schema, outside any transaction.
GetSchema(h) ==
  /\ Accepts(h)
  /\ served < MaxRequests
  /\ served' = served + 1
  /\ UNCHANGED <<available, pc, handler, graph, global, local, txn>>

-----------------------------------------------------------------------------
EvalStep(h) ==
  \/ RejectRequest(h) \/ BeginTransaction(h)
  \/ CheckVersion(h) \/ ReloadVersion(h) \/ FindGlobal(h)
  \/ CompilePlan(h) \/ ParsePlan(h) \/ InsertGlobal(h)
  \/ PlanFails(h) \/ Execute(h) \/ ExecuteFails(h)
  \/ CommitUnchanged(h) \/ CommitUpdate(h)
  \/ BumpVersion(h) \/ ClearGlobal(h) \/ ReleaseUpdate(h)
  \/ SinkResults(h)

HandlerStep(h) == Retry(h) \/ EvalStep(h) \/ ReleaseSession(h)

SNext ==
  \E h \in Handlers :
    Receive(h) \/ HandlerStep(h) \/ SpuriousWakeup(h) \/ GetSchema(h)

SSpec == SInit /\ [][SNext]_svars

\* Every handler thread is scheduled; requests need not come and waits need
\* not end by themselves.
SFairSpec == SSpec /\ \A h \in Handlers : WF_svars(HandlerStep(h))

-----------------------------------------------------------------------------
(* Properties.                                                             *)

\* Every session is either free, exactly once in the deque, or in the hands
\* of exactly one handler (AcquireSession, ReleaseSession, SessionGuard).
PoolExact ==
  /\ \A i, j \in DOMAIN available : available[i] = available[j] => i = j
  /\ \A g, h \in Handlers : sess[g] = sess[h] /\ sess[g] # NoSession => g = h
  /\ \A s \in Sessions :
       (\E i \in DOMAIN available : available[i] = s) <=> (\A h \in Handlers : sess[h] # s)

\* No wakeup is lost: while handlers wait on cond_, every free session has a
\* woken handler on its way to it (one signal per ReleaseSession).
NoLostWakeup == Waiting # {} => Len(available) <= Cardinality(Woken)

\* A pipeline only runs when it was compiled and parsed for the schema the
\* graph has now, whichever cache it came from (LocalQueryCache::Get,
\* GlobalQueryCache::Get, invalidate_query_cache_if_needed).
PlanCurrent ==
  \A h \in Handlers : At(h, "exec") =>
    plan[h] = [meta |-> schema, schema |-> schema] /\ dirty = {}

\* Between update transactions the planner knows the graph's schema and no
\* cache a session would use holds a plan for another one.
CachesCurrent ==
  (\A s \in Sessions : phase[s] # "update") =>
    /\ meta = schema
    /\ \A q \in Queries :
         /\ cache[q] \in {NoPlan, [meta |-> schema, schema |-> schema]}
         /\ \A s \in Sessions : lversion[s] = version =>
              lcache[s][q] \in {NoPlan, [meta |-> schema, schema |-> schema]}

\* A handler that holds or waits for a session answers its request: no set
\* of handlers blocks itself on sessions, timestamps and the cache lock.
RequestAnswered == \A h \in Handlers : ~At(h, "idle") ~> At(h, "idle")

\* The result a client gets is read from the graph its pipeline ran on
\* ("ReadTransaction: Read-only snapshot access").  Not so: Commit gives the
\* timestamp back before sink_results.
SinkSeesSnapshot ==
  \A h \in Handlers : At(h, "sink") => seen[h] = <<schema, data, dirty>>

\* A schema reply shows a committed schema.  Not so: GetSchemaImpl takes no
\* transaction.
SchemaReplyCommitted == [][\A h \in Handlers : GetSchema(h) => "schema" \notin dirty]_svars
=============================================================================
