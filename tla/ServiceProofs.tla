---------------------------- MODULE ServiceProofs ----------------------------
(***************************************************************************)
(* Proofs about Service for every number of handlers and sessions, every   *)
(* set of queries with any flags, and any number of requests: the session  *)
(* pool first, then the query caches on top of it.                         *)
(***************************************************************************)
EXTENDS Service, FiniteSetTheorems, TLAPS

Outside == {"idle", "waiting", "woken"}

Inside == {"begin", "get", "reload", "find", "compile", "parse", "insert",
           "exec", "commit", "clear", "cleared", "release", "sink", "done"}

-----------------------------------------------------------------------------
(* The session pool.                                                       *)

\* PoolExact made inductive: a handler has a session exactly while it is
\* inside Eval or about to give the session back.
PoolInv ==
  /\ available \in Seq(Sessions)
  /\ pc \in [Handlers -> Outside \cup Inside]
  /\ sess \in [Handlers -> Sessions \cup {NoSession}]
  /\ \A h \in Handlers : sess[h] = NoSession <=> pc[h] \in Outside
  /\ PoolExact

\* The constructor of SessionPool enters every session once.
LEMMA AllSessionsOnce ==
  /\ AllSessions \in Seq(Sessions)
  /\ \A i, j \in DOMAIN AllSessions : AllSessions[i] = AllSessions[j] => i = j
  /\ \A s \in Sessions : \E i \in DOMAIN AllSessions : AllSessions[i] = s
<1> DEFINE n == Cardinality(Sessions)
<1>1. n \in Nat /\ ExistsBijection(1..n, Sessions)
  BY FS_CardinalityType, ServiceAssumption
<1>2. AllSessions \in Bijection(1..n, Sessions)
  BY <1>1 DEF AllSessions, ExistsBijection
<1>3. /\ AllSessions \in [1..n -> Sessions]
      /\ \A i, j \in 1..n : AllSessions[i] = AllSessions[j] => i = j
      /\ \A s \in Sessions : \E i \in 1..n : AllSessions[i] = s
  BY <1>2 DEF Bijection, Injection, Surjection, IsInjective
<1>4. AllSessions \in Seq(Sessions)
  BY <1>1, <1>3
<1> QED
  BY <1>3, <1>4

\* A step of Eval moves its handler within Eval and touches no session.
LEMMA EvalStaysInside ==
  ASSUME NEW h \in Handlers, pc \in [Handlers -> Outside \cup Inside], EvalStep(h)
  PROVE  /\ available' = available /\ sess' = sess
         /\ pc[h] \in Inside
         /\ \E p \in Inside : pc' = [pc EXCEPT ![h] = p]
<1> USE DEF Inside, Goto, At
<1>1. CASE RejectRequest(h) BY <1>1 DEF RejectRequest, handler
<1>2. CASE BeginTransaction(h) BY <1>2 DEF BeginTransaction, handler
<1>3. CASE CheckVersion(h) BY <1>3 DEF CheckVersion, FindLocal, Planned
<1>4. CASE ReloadVersion(h) BY <1>4 DEF ReloadVersion, handler
<1>5. CASE FindGlobal(h) BY <1>5 DEF FindGlobal, Remember, Planned
<1>6. CASE CompilePlan(h) BY <1>6 DEF CompilePlan
<1>7. CASE ParsePlan(h) BY <1>7 DEF ParsePlan
<1>8. CASE InsertGlobal(h) BY <1>8 DEF InsertGlobal, Remember, Planned
<1>9. CASE PlanFails(h) BY <1>9 DEF PlanFails, AbortTransaction, handler
<1>10. CASE Execute(h) BY <1>10 DEF Execute
<1>11. CASE ExecuteFails(h) BY <1>11 DEF ExecuteFails, AbortTransaction, handler
<1>12. CASE CommitUnchanged(h) BY Zenon, <1>12 DEF CommitUnchanged, handler
<1>13. CASE CommitUpdate(h) BY <1>13 DEF CommitUpdate
<1>14. CASE BumpVersion(h) BY <1>14 DEF BumpVersion, handler
<1>15. CASE ClearGlobal(h) BY <1>15 DEF ClearGlobal, handler
<1>16. CASE ReleaseUpdate(h) BY <1>16 DEF ReleaseUpdate, handler
<1>17. CASE SinkResults(h) BY <1>17 DEF SinkResults, handler
<1> QED
  BY <1>1, <1>2, <1>3, <1>4, <1>5, <1>6, <1>7, <1>8, <1>9, <1>10, <1>11, <1>12,
     <1>13, <1>14, <1>15, <1>16, <1>17 DEF EvalStep

LEMMA PoolInit == SInit => PoolInv
<1> SUFFICES ASSUME SInit PROVE PoolInv
  OBVIOUS
<1>1. available = AllSessions /\ pc = [h \in Handlers |-> "idle"]
      /\ sess = [h \in Handlers |-> NoSession]
  BY DEF SInit
<1>2. PoolExact
  BY <1>1, AllSessionsOnce, ServiceAssumption DEF PoolExact
<1> QED
  BY <1>1, <1>2, AllSessionsOnce, ServiceAssumption DEF PoolInv, Outside, Inside

\* acquire_session_impl moves the front of the deque to the handler or
\* changes neither.
LEMMA TakeKeepsPool ==
  ASSUME NEW h \in Handlers, PoolInv, pc[h] \in Outside, TakeSession(h)
  PROVE  PoolInv'
<1> USE DEF Outside, Inside, Goto
<1>1. CASE available = <<>>
  BY <1>1 DEF TakeSession, PoolInv, PoolExact
<1>2. CASE available # <<>>
  <2> DEFINE s0 == Head(available)
             n == Len(available)
  <2>1. /\ sess' = [sess EXCEPT ![h] = s0]
        /\ available' = Tail(available)
        /\ pc' = [pc EXCEPT ![h] = "begin"]
    BY <1>2 DEF TakeSession
  <2>2. /\ available \in Seq(Sessions) /\ n \in Nat /\ n >= 1
        /\ DOMAIN available = 1..n
        /\ s0 = available[1] /\ s0 \in Sessions
        /\ available' \in Seq(Sessions)
        /\ DOMAIN available' = 1..(n - 1)
        /\ \A i \in 1..(n - 1) : available'[i] = available[i + 1]
    BY <1>2, <2>1 DEF PoolInv
  <2>a. \A i, j \in 1..n : available[i] = available[j] => i = j
    BY <2>2 DEF PoolInv, PoolExact
  <2> HIDE DEF n, s0
  <2>3. /\ pc' \in [Handlers -> Outside \cup Inside]
        /\ sess' \in [Handlers -> Sessions \cup {NoSession}]
        /\ \A g \in Handlers : sess'[g] = NoSession <=> pc'[g] \in Outside
    BY <2>1, <2>2, ServiceAssumption DEF PoolInv
  <2>4. \A i, j \in 1..(n - 1) : available'[i] = available'[j] => i = j
    <3> SUFFICES ASSUME NEW i \in 1..(n - 1), NEW j \in 1..(n - 1),
                        available'[i] = available'[j]
                 PROVE  i = j
      OBVIOUS
    <3>1. i + 1 \in 1..n /\ j + 1 \in 1..n /\ available[i + 1] = available[j + 1]
      BY <2>2
    <3>2. i + 1 = j + 1
      BY <2>a, <3>1
    <3> QED BY <3>2
  <2>5. \A g \in Handlers : sess[g] # s0
    BY <2>2 DEF PoolInv, PoolExact
  <2>6. \A f, g \in Handlers : sess'[f] = sess'[g] /\ sess'[f] # NoSession => f = g
    BY <2>1, <2>5 DEF PoolInv, PoolExact
  <2>7. ASSUME NEW s \in Sessions
        PROVE  (\E i \in 1..(n - 1) : available'[i] = s) <=> (\A g \in Handlers : sess'[g] # s)
    <3>1. CASE s = s0
      <4>1. sess'[h] = s
        BY <2>1, <3>1 DEF PoolInv
      <4>2. ASSUME NEW i \in 1..(n - 1), available'[i] = s PROVE FALSE
        <5>1. i + 1 \in 1..n /\ 1 \in 1..n /\ available[i + 1] = available[1]
          BY <2>2, <3>1, <4>2
        <5>2. i + 1 = 1
          BY <2>a, <5>1
        <5> QED BY <5>2
      <4> QED BY <4>1, <4>2
    <3>2. CASE s # s0
      <4>1. (\A g \in Handlers : sess'[g] # s) <=> (\A g \in Handlers : sess[g] # s)
        <5>1. sess[h] = NoSession
          BY DEF PoolInv
        <5> QED BY <2>1, <3>2, <5>1, ServiceAssumption DEF PoolInv
      <4>2. (\E i \in 1..(n - 1) : available'[i] = s) <=> (\E i \in 1..n : available[i] = s)
        <5>1. ASSUME NEW i \in 1..(n - 1), available'[i] = s
              PROVE  \E k \in 1..n : available[k] = s
          <6>1. i + 1 \in 1..n /\ available[i + 1] = s
            BY <2>2, <5>1
          <6> QED BY <6>1
        <5>2. ASSUME NEW i \in 1..n, available[i] = s
              PROVE  \E k \in 1..(n - 1) : available'[k] = s
          <6>1. i # 1
            BY <2>2, <3>2, <5>2
          <6>2. i - 1 \in 1..(n - 1) /\ available'[i - 1] = available[(i - 1) + 1] /\ (i - 1) + 1 = i
            BY <2>2, <6>1
          <6> QED BY <5>2, <6>2
        <5> QED BY <5>1, <5>2
      <4>3. (\E i \in 1..n : available[i] = s) <=> (\A g \in Handlers : sess[g] # s)
        BY <2>2 DEF PoolInv, PoolExact
      <4> QED BY <4>1, <4>2, <4>3
    <3> QED BY <3>1, <3>2
  <2>8. PoolExact'
    BY <2>2, <2>4, <2>6, <2>7 DEF PoolExact
  <2> QED BY <2>2, <2>3, <2>8 DEF PoolInv
<1> QED BY <1>1, <1>2

\* ~SessionGuard moves the session of its handler to the end of the deque.
LEMMA ReleaseKeepsPool ==
  ASSUME NEW h \in Handlers, PoolInv, ReleaseSession(h)
  PROVE  PoolInv'
<1> USE DEF Outside, Inside
<1> DEFINE s0 == sess[h]
           n == Len(available)
<1>1. /\ available' = Append(available, s0)
      /\ sess' = [sess EXCEPT ![h] = NoSession]
      /\ pc[h] = "done"
      /\ \/ pc' = [pc EXCEPT ![h] = "idle"]
         \/ \E w \in Waiting : pc' = [pc EXCEPT ![h] = "idle", ![w] = "woken"]
  BY DEF ReleaseSession, ForgetRequest, SignalAndLeave, Goto, At
<1>2. s0 \in Sessions /\ \A i \in DOMAIN available : available[i] # s0
  BY <1>1 DEF PoolInv, PoolExact
<1>3. /\ available \in Seq(Sessions) /\ n \in Nat
      /\ DOMAIN available = 1..n
      /\ available' \in Seq(Sessions)
      /\ DOMAIN available' = 1..(n + 1)
      /\ \A i \in 1..n : available'[i] = available[i]
      /\ available'[n + 1] = s0
  BY <1>1, <1>2 DEF PoolInv
<1> HIDE DEF n, s0
<1> DEFINE Typed == /\ pc' \in [Handlers -> Outside \cup Inside]
                    /\ sess' \in [Handlers -> Sessions \cup {NoSession}]
                    /\ \A g \in Handlers : sess'[g] = NoSession <=> pc'[g] \in Outside
<1>4. Typed
  <2>1. CASE pc' = [pc EXCEPT ![h] = "idle"]
    BY <1>1, <2>1 DEF PoolInv
  <2>2. ASSUME NEW w \in Waiting, pc' = [pc EXCEPT ![h] = "idle", ![w] = "woken"]
        PROVE  Typed
    <3>1. w \in Handlers /\ pc[w] = "waiting" /\ w # h
      BY <1>1 DEF Waiting, At
    <3> QED BY <1>1, <2>2, <3>1 DEF PoolInv
  <2> QED BY <1>1, <2>1, <2>2
<1>5. \A i, j \in 1..(n + 1) : available'[i] = available'[j] => i = j
  <2> SUFFICES ASSUME NEW i \in 1..(n + 1), NEW j \in 1..(n + 1),
                      available'[i] = available'[j], i # j
               PROVE  FALSE
    OBVIOUS
  <2>1. i \in 1..n \/ i = n + 1
    BY <1>3
  <2>2. j \in 1..n \/ j = n + 1
    BY <1>3
  <2> QED BY <1>2, <1>3, <2>1, <2>2 DEF PoolInv, PoolExact
<1>6. \A f, g \in Handlers : sess'[f] = sess'[g] /\ sess'[f] # NoSession => f = g
  BY <1>1 DEF PoolInv, PoolExact
<1>7. ASSUME NEW s \in Sessions
      PROVE  (\E i \in 1..(n + 1) : available'[i] = s) <=> (\A g \in Handlers : sess'[g] # s)
  <2>1. CASE s = s0
    <3>1. \A g \in Handlers : sess'[g] # s
      BY <1>1, <2>1, ServiceAssumption DEF PoolInv, PoolExact, s0
    <3>2. n + 1 \in 1..(n + 1)
      BY <1>3
    <3> QED BY <1>3, <2>1, <3>1, <3>2
  <2>2. CASE s # s0
    <3>1. (\E i \in 1..(n + 1) : available'[i] = s) <=> (\E i \in 1..n : available[i] = s)
      <4>1. \A i \in 1..(n + 1) : i \in 1..n \/ i = n + 1
        BY <1>3
      <4>2. \A i \in 1..n : i \in 1..(n + 1)
        BY <1>3
      <4> QED BY <1>3, <2>2, <4>1, <4>2
    <3>2. (\A g \in Handlers : sess'[g] # s) <=> (\A g \in Handlers : sess[g] # s)
      BY <1>1, <2>2, ServiceAssumption DEF PoolInv, s0
    <3> QED BY Zenon, <1>3, <3>1, <3>2 DEF PoolInv, PoolExact
  <2> QED BY <2>1, <2>2
<1>8. PoolExact'
  BY <1>3, <1>5, <1>6, <1>7 DEF PoolExact
<1> QED BY <1>3, <1>4, <1>8 DEF PoolInv

LEMMA PoolNext == PoolInv /\ [SNext]_svars => PoolInv'
<1> SUFFICES ASSUME PoolInv, [SNext]_svars PROVE PoolInv'
  OBVIOUS
<1>1. ASSUME NEW h \in Handlers, Receive(h) PROVE PoolInv'
  BY <1>1, TakeKeepsPool DEF Receive, Accepts, At, Outside
<1>2. ASSUME NEW h \in Handlers, Retry(h) PROVE PoolInv'
  BY <1>2, TakeKeepsPool DEF Retry, At, Outside
<1>3. ASSUME NEW h \in Handlers, EvalStep(h) PROVE PoolInv'
  <2>1. /\ available' = available /\ sess' = sess /\ pc[h] \in Inside
        /\ \E p \in Inside : pc' = [pc EXCEPT ![h] = p]
    BY <1>3, EvalStaysInside DEF PoolInv
  <2> QED BY <2>1 DEF PoolInv, PoolExact, Inside, Outside
<1>4. ASSUME NEW h \in Handlers, ReleaseSession(h) PROVE PoolInv'
  BY <1>4, ReleaseKeepsPool
<1>5. ASSUME NEW h \in Handlers, SpuriousWakeup(h) PROVE PoolInv'
  BY <1>5 DEF SpuriousWakeup, handler, Goto, At, PoolInv, PoolExact, Inside, Outside
<1>6. ASSUME NEW h \in Handlers, GetSchema(h) PROVE PoolInv'
  BY <1>6 DEF GetSchema, handler, PoolInv, PoolExact
<1>7. CASE UNCHANGED svars
  BY <1>7 DEF svars, handler, PoolInv, PoolExact
<1> QED
  BY <1>1, <1>2, <1>3, <1>4, <1>5, <1>6, <1>7 DEF SNext, HandlerStep

\* Every session is free once or held by one handler, for every number of
\* sessions and handlers (session_pool.cc).
THEOREM PoolIsExact == SSpec => []PoolExact
<1>1. PoolInv => PoolExact
  BY DEF PoolInv
<1> QED
  BY PoolInit, PoolNext, <1>1, PTL DEF SSpec

-----------------------------------------------------------------------------
(* Waiting handlers.                                                       *)

LEMMA HandlersFinite ==
  ASSUME NEW S \in SUBSET Handlers
  PROVE  IsFiniteSet(S) /\ Cardinality(S) \in Nat
<1>1. IsFiniteSet(S)
  BY Zenon, FS_Subset, ServiceAssumption
<1> QED
  BY <1>1, FS_CardinalityType

\* A session is taken only by the handler that saw it, and a handler that
\* finds none leaves none behind.
LEMMA TakeWakes ==
  ASSUME NEW h \in Handlers, PoolInv, NoLostWakeup, TakeSession(h),
         pc[h] \in {"idle", "woken"}
  PROVE  NoLostWakeup'
<1> USE DEF Goto, At
<1>1. CASE available = <<>>
  <2>1. available' = <<>> /\ Len(available') = 0
    BY <1>1 DEF TakeSession
  <2>2. Woken' \in SUBSET Handlers
    BY DEF Woken
  <2>3. Cardinality(Woken') \in Nat
    BY <2>2, HandlersFinite
  <2> QED BY <2>1, <2>3 DEF NoLostWakeup
<1>2. CASE available # <<>>
  <2>1. /\ pc' = [pc EXCEPT ![h] = "begin"]
        /\ available' = Tail(available)
    BY <1>2 DEF TakeSession
  <2>2. Len(available) \in Nat /\ Len(available') = Len(available) - 1
    BY <1>2, <2>1 DEF PoolInv
  <2>3. Waiting' = Waiting /\ Woken' = Woken \ {h}
    BY <2>1 DEF Waiting, Woken, PoolInv
  <2>4. IsFiniteSet(Woken) /\ Cardinality(Woken) \in Nat
    BY HandlersFinite DEF Woken
  <2>5. Cardinality(Woken \ {h}) \in {Cardinality(Woken), Cardinality(Woken) - 1}
    BY <2>4, FS_RemoveElement
  <2> QED BY <2>2, <2>3, <2>4, <2>5 DEF NoLostWakeup
<1> QED BY <1>1, <1>2

\* ReleaseSession adds one session and wakes one handler, if one waits.
LEMMA ReleaseWakes ==
  ASSUME NEW h \in Handlers, PoolInv, NoLostWakeup, ReleaseSession(h)
  PROVE  NoLostWakeup'
<1> USE DEF At
<1>1. pc[h] = "done" /\ available' = Append(available, sess[h])
  BY DEF ReleaseSession
<1>2. Len(available) \in Nat /\ Len(available') = Len(available) + 1
  BY <1>1 DEF PoolInv
<1>3. CASE Waiting = {} /\ pc' = [pc EXCEPT ![h] = "idle"]
  <2>1. Waiting' = {}
    BY <1>3 DEF Waiting, PoolInv
  <2> QED BY <2>1 DEF NoLostWakeup
<1>4. ASSUME NEW w \in Waiting, pc' = [pc EXCEPT ![h] = "idle", ![w] = "woken"]
      PROVE  NoLostWakeup'
  <2>1. w \in Handlers /\ pc[w] = "waiting" /\ w # h /\ w \notin Woken
    BY <1>1 DEF Waiting, Woken
  <2>2. Woken' = Woken \cup {w}
    BY <1>1, <1>4, <2>1 DEF Woken, PoolInv
  <2>3. IsFiniteSet(Woken) /\ Cardinality(Woken) \in Nat
    BY HandlersFinite DEF Woken
  <2>4. Cardinality(Woken') = Cardinality(Woken) + 1
    BY Zenon, <2>1, <2>2, <2>3, FS_AddElement
  <2>5. Waiting # {}
    BY <1>4
  <2> QED BY <1>2, <2>3, <2>4, <2>5 DEF NoLostWakeup
<1> QED BY <1>3, <1>4 DEF ReleaseSession, SignalAndLeave, Goto

\* While handlers wait, every free session has a woken handler on its way,
\* for every number of handlers and sessions: the signal of ReleaseSession is
\* never lost (session_pool.cc).
THEOREM WakeupsAreNotLost == SSpec => []NoLostWakeup
<1>1. SInit => NoLostWakeup
  BY DEF SInit, NoLostWakeup, Waiting, At
<1>2. PoolInv /\ NoLostWakeup /\ [SNext]_svars => NoLostWakeup'
  <2> SUFFICES ASSUME PoolInv, NoLostWakeup, [SNext]_svars PROVE NoLostWakeup'
    OBVIOUS
  <2>1. ASSUME NEW h \in Handlers, Receive(h) PROVE NoLostWakeup'
    BY <2>1, TakeWakes DEF Receive, Accepts, At
  <2>2. ASSUME NEW h \in Handlers, Retry(h) PROVE NoLostWakeup'
    BY <2>2, TakeWakes DEF Retry, At
  <2>3. ASSUME NEW h \in Handlers, EvalStep(h) PROVE NoLostWakeup'
    <3>1. /\ available' = available /\ pc[h] \in Inside
          /\ \E p \in Inside : pc' = [pc EXCEPT ![h] = p]
      BY <2>3, EvalStaysInside DEF PoolInv
    <3>2. Waiting' = Waiting /\ Woken' = Woken
      BY <3>1 DEF PoolInv, Waiting, Woken, At, Inside
    <3> QED BY <3>1, <3>2 DEF NoLostWakeup
  <2>4. ASSUME NEW h \in Handlers, ReleaseSession(h) PROVE NoLostWakeup'
    BY <2>4, ReleaseWakes
  <2>5. ASSUME NEW h \in Handlers, SpuriousWakeup(h) PROVE NoLostWakeup'
    <3>1. pc[h] = "waiting" /\ pc' = [pc EXCEPT ![h] = "woken"] /\ available' = available
      BY <2>5 DEF SpuriousWakeup, Goto, At
    <3>2. Woken' = Woken \cup {h} /\ h \in Waiting /\ h \notin Woken
      BY <3>1 DEF Woken, Waiting, At, PoolInv
    <3>3. IsFiniteSet(Woken) /\ Cardinality(Woken) \in Nat
      BY HandlersFinite DEF Woken
    <3>4. Cardinality(Woken') = Cardinality(Woken) + 1
      BY <3>2, <3>3, FS_AddElement
    <3>5. Len(available) \in Nat /\ Len(available) <= Cardinality(Woken)
      BY <3>2 DEF NoLostWakeup, PoolInv
    <3> QED BY <3>1, <3>3, <3>4, <3>5 DEF NoLostWakeup
  <2>6. ASSUME NEW h \in Handlers, GetSchema(h) PROVE NoLostWakeup'
    BY <2>6 DEF GetSchema, NoLostWakeup, Waiting, Woken, At
  <2>7. CASE UNCHANGED svars
    BY <2>7 DEF svars, NoLostWakeup, Waiting, Woken, At
  <2> QED
    BY <2>1, <2>2, <2>3, <2>4, <2>5, <2>6, <2>7 DEF SNext, HandlerStep
<1> QED
  BY PoolInit, PoolNext, <1>1, <1>2, PTL DEF SSpec

-----------------------------------------------------------------------------
(* Transactions of the handlers.                                           *)

\* Where a handler is inside a transaction, and where it changes the schema.
Active == {"get", "reload", "find", "compile", "parse", "insert", "exec",
           "commit", "clear", "cleared", "release"}

Clearing == {"clear", "cleared", "release"}

\* The timestamps keep updates alone, and a handler inside a transaction
\* holds one; changes not yet committed belong to an update about to commit.
TxnInv ==
  /\ phase \in [Sessions -> {"idle", "read", "insert", "update"}]
  /\ \A r, s \in Sessions : phase[s] = "update" /\ r # s => phase[r] = "idle"
  /\ \A h \in Handlers : pc[h] \in Active => phase[sess[h]] # "idle"
  /\ \A h \in Handlers : pc[h] \in Clearing => phase[sess[h]] = "update"
  /\ dirty # {} => \E h \in Handlers : pc[h] = "commit" /\ phase[sess[h]] = "update"

LEMMA SessionsDistinct ==
  ASSUME PoolInv
  PROVE  \A h \in Handlers : pc[h] \in Inside =>
           /\ sess[h] \in Sessions
           /\ \A g \in Handlers : pc[g] \in Inside /\ g # h => sess[g] # sess[h]
BY ServiceAssumption DEF PoolInv, PoolExact, Inside, Outside

LEMMA ActiveInside == Active \subseteq Inside /\ Clearing \subseteq Active
BY DEF Active, Inside, Clearing

\* While one handler updates, no other is inside a transaction.
LEMMA UpdatesAlone ==
  ASSUME PoolInv, TxnInv, NEW h \in Handlers, NEW g \in Handlers, g # h,
         pc[h] \in Active, phase[sess[h]] = "update"
  PROVE  pc[g] \notin Active
BY SessionsDistinct, ActiveInside DEF TxnInv

\* The handler that runs a plan, or is on the way to it, meets no other that
\* clears the caches.
LEMMA NobodyClears ==
  ASSUME PoolInv, TxnInv, NEW h \in Handlers, pc[h] \in Active \ Clearing
  PROVE  \A g \in Handlers : pc[g] \notin Clearing
<1> SUFFICES ASSUME NEW g \in Handlers, pc[g] \in Clearing PROVE FALSE
  OBVIOUS
<1>1. g # h /\ pc[g] \in Active /\ phase[sess[g]] = "update"
  BY ActiveInside DEF TxnInv
<1> QED BY <1>1, UpdatesAlone

\* A handler moves within its transaction, or outside of one.
LEMMA MoveKeepsTxn ==
  ASSUME PoolInv, TxnInv, NEW h \in Handlers, NEW p \in Inside \cup Outside,
         pc' = [pc EXCEPT ![h] = p], pc[h] # "commit",
         sess' = sess \/ (p \notin Active /\ \A g \in Handlers \ {h} : sess'[g] = sess[g]),
         phase' = phase, dirty' = dirty,
         p \in Active => pc[h] \in Active,
         p \in Clearing => pc[h] \in Clearing
  PROVE  TxnInv'
<1>1. \A g \in Handlers : g # h => pc'[g] = pc[g] /\ sess'[g] = sess[g]
  BY DEF PoolInv
<1>2. pc'[h] = p
  BY DEF PoolInv
<1>3. p \in Active => sess'[h] = sess[h]
  OBVIOUS
<1>4. \A g \in Handlers : pc'[g] \in Active => pc[g] \in Active /\ sess'[g] = sess[g]
  BY <1>1, <1>2, <1>3
<1>5. \A g \in Handlers : pc'[g] \in Clearing => pc[g] \in Clearing /\ sess'[g] = sess[g]
  BY <1>1, <1>2, <1>3, ActiveInside
<1>6. \A g \in Handlers : pc[g] = "commit" => pc'[g] = "commit" /\ sess'[g] = sess[g]
  BY <1>1
<1> QED BY <1>4, <1>5, <1>6 DEF TxnInv

\* A handler ends its transaction; what an update left uncommitted is gone.
LEMMA EndKeepsTxn ==
  ASSUME PoolInv, TxnInv, NEW h \in Handlers, NEW p \in Inside, p \notin Active,
         pc' = [pc EXCEPT ![h] = p], sess' = sess, pc[h] \in Active,
         Oracle!End(sess[h]),
         phase[sess[h]] = "update" => dirty' = {},
         phase[sess[h]] # "update" => dirty' = dirty
  PROVE  TxnInv'
<1> DEFINE s0 == sess[h]
<1>1. s0 \in Sessions /\ phase' = [phase EXCEPT ![s0] = "idle"]
  BY SessionsDistinct, ActiveInside DEF Oracle!End
<1>2. \A g \in Handlers : g # h => pc'[g] = pc[g]
  BY DEF PoolInv
<1>3. pc'[h] = p
  BY DEF PoolInv
<1>4. \A g \in Handlers : pc'[g] \in Active =>
         g # h /\ pc[g] = pc'[g] /\ sess[g] \in Sessions /\ sess[g] # s0
  BY <1>2, <1>3, SessionsDistinct, ActiveInside
<1>5. \A g \in Handlers : pc'[g] \in Active => phase'[sess'[g]] = phase[sess[g]]
  BY <1>1, <1>4 DEF TxnInv
<1>6. phase' \in [Sessions -> {"idle", "read", "insert", "update"}]
      /\ \A r, s \in Sessions : phase'[s] = "update" /\ r # s => phase'[r] = "idle"
  BY <1>1 DEF TxnInv
<1>7. dirty' # {} => \E g \in Handlers : pc'[g] = "commit" /\ phase'[sess'[g]] = "update"
  <2> SUFFICES ASSUME dirty' # {}
               PROVE  \E g \in Handlers : pc'[g] = "commit" /\ phase'[sess'[g]] = "update"
    OBVIOUS
  <2>1. phase[s0] # "update" /\ dirty # {}
    OBVIOUS
  <2>2. PICK g \in Handlers : pc[g] = "commit" /\ phase[sess[g]] = "update"
    BY <2>1 DEF TxnInv
  <2>3. g # h /\ pc'[g] = "commit" /\ "commit" \in Active
    BY <1>2, <2>1, <2>2 DEF Active
  <2> QED BY <1>5, <2>2, <2>3
<1> QED BY <1>4, <1>5, <1>6, <1>7, ActiveInside DEF TxnInv

\* Get...Transaction: an update begins only while no other session has one.
LEMMA BeginKeepsTxn ==
  ASSUME PoolInv, TxnInv, NEW h \in Handlers, BeginTransaction(h)
  PROVE  TxnInv'
<1> DEFINE s0 == sess[h]
<1>1. /\ pc[h] = "begin" /\ pc' = [pc EXCEPT ![h] = "get"]
      /\ sess' = sess /\ dirty' = dirty
  BY DEF BeginTransaction, At, Goto, handler, graph
<1>2. s0 \in Sessions
  BY <1>1, SessionsDistinct DEF Inside
<1>3. PICK p \in {"read", "insert", "update"} :
        /\ phase[s0] = "idle" /\ phase' = [phase EXCEPT ![s0] = p]
        /\ IF p = "update" THEN \A r \in Sessions : phase[r] = "idle"
                           ELSE \A r \in Sessions : phase[r] # "update"
  BY DEF BeginTransaction, Oracle!BeginRead, Oracle!BeginInsert, Oracle!BeginUpdate,
         Oracle!Start
<1>4. \A g \in Handlers : g # h => pc'[g] = pc[g]
  BY <1>1 DEF PoolInv
<1>5. pc'[h] = "get" /\ phase'[s0] = p
  BY <1>1, <1>2, <1>3 DEF PoolInv, TxnInv
<1>6. \A g \in Handlers : g # h /\ pc[g] \in Active => phase'[sess'[g]] = phase[sess[g]]
  BY <1>1, <1>2, <1>3, SessionsDistinct, ActiveInside DEF TxnInv
<1>7. /\ phase' \in [Sessions -> {"idle", "read", "insert", "update"}]
      /\ \A r, s \in Sessions : phase'[s] = "update" /\ r # s => phase'[r] = "idle"
  BY <1>2, <1>3 DEF TxnInv
<1>8. \A g \in Handlers : pc'[g] \in Active => phase'[sess'[g]] # "idle"
  BY <1>1, <1>3, <1>4, <1>5, <1>6 DEF TxnInv
<1>9. \A g \in Handlers : pc'[g] \in Clearing => phase'[sess'[g]] = "update"
  BY <1>4, <1>5, <1>6, ActiveInside DEF TxnInv, Clearing
<1>10. dirty' # {} => \E g \in Handlers : pc'[g] = "commit" /\ phase'[sess'[g]] = "update"
  <2> SUFFICES ASSUME dirty # {}
               PROVE  \E g \in Handlers : pc'[g] = "commit" /\ phase'[sess'[g]] = "update"
    BY <1>1
  <2>1. PICK g \in Handlers : pc[g] = "commit" /\ phase[sess[g]] = "update"
    BY DEF TxnInv
  <2> QED BY <1>1, <1>4, <1>6, <2>1 DEF Active
<1> QED BY <1>7, <1>8, <1>9, <1>10 DEF TxnInv

\* pipeline.Execute: only an update changes the graph in place.
LEMMA ExecuteKeepsTxn ==
  ASSUME PoolInv, TxnInv, NEW h \in Handlers, Execute(h)
  PROVE  TxnInv'
<1>1. /\ pc[h] = "exec" /\ pc' = [pc EXCEPT ![h] = "commit"]
      /\ sess' = sess /\ phase' = phase
      /\ \E c \in Changes(h) : dirty' = dirty \cup c
  BY DEF Execute, At, Goto, txn
<1>2. phase[sess[h]] # "update" => dirty' = dirty
  BY <1>1 DEF Changes
<1>3. \A g \in Handlers : pc'[g] \in Active => pc[g] \in Active
  BY <1>1 DEF PoolInv, Active
<1>4. \A g \in Handlers : pc'[g] \in Clearing => pc[g] \in Clearing
  BY <1>1 DEF PoolInv, Clearing
<1>5. \A g \in Handlers : pc[g] = "commit" => pc'[g] = "commit"
  BY <1>1 DEF PoolInv
<1>6. pc'[h] = "commit"
  BY <1>1 DEF PoolInv
<1>7. dirty' # {} => \E g \in Handlers : pc'[g] = "commit" /\ phase'[sess'[g]] = "update"
  BY <1>1, <1>2, <1>5, <1>6 DEF TxnInv
<1> QED BY <1>1, <1>3, <1>4, <1>7 DEF TxnInv

\* UpdateTransaction::Commit: with a schema change the caches are cleared
\* before the timestamp goes.
LEMMA CommitKeepsTxn ==
  ASSUME PoolInv, TxnInv, NEW h \in Handlers, CommitUpdate(h)
  PROVE  TxnInv'
<1>1. pc[h] = "commit" /\ phase[sess[h]] = "update" /\ dirty' = {} /\ sess' = sess
  BY DEF CommitUpdate, At
<1>2. CASE "schema" \in dirty
  <2>1. pc' = [pc EXCEPT ![h] = "clear"] /\ phase' = phase
    BY <1>2 DEF CommitUpdate, Goto, txn
  <2>2. \A g \in Handlers : pc'[g] \in Active => pc[g] \in Active
    BY <1>1, <2>1 DEF PoolInv, Active
  <2>3. \A g \in Handlers : pc'[g] \in Clearing => pc[g] \in Clearing \/ g = h
    BY <2>1 DEF PoolInv
  <2> QED BY <1>1, <2>1, <2>2, <2>3 DEF TxnInv
<1>3. CASE "schema" \notin dirty
  <2>1. pc' = [pc EXCEPT ![h] = "sink"] /\ Oracle!End(sess[h])
    BY <1>3 DEF CommitUpdate, Goto
  <2>2. "sink" \in Inside /\ "sink" \notin Active /\ pc[h] \in Active
    BY <1>1 DEF Inside, Active
  <2> QED BY Zenon, <1>1, <2>1, <2>2, EndKeepsTxn
<1> QED BY <1>2, <1>3

LEMMA AbortKeepsTxn ==
  ASSUME PoolInv, TxnInv, NEW h \in Handlers, pc[h] \in Active, AbortTransaction(h)
  PROVE  TxnInv'
<1>1. /\ pc' = [pc EXCEPT ![h] = "done"] /\ sess' = sess
      /\ Oracle!End(sess[h])
      /\ dirty' = IF phase[sess[h]] = "update" THEN {} ELSE dirty
  BY DEF AbortTransaction, Goto, handler
<1>2. "done" \in Inside /\ "done" \notin Active
  BY DEF Inside, Active
<1> QED BY Zenon, <1>1, <1>2, EndKeepsTxn

\* The steps of Eval that neither begin nor end a transaction nor run a plan.
LEMMA QuietEvalKeepsTxn ==
  ASSUME PoolInv, TxnInv, NEW h \in Handlers,
         \/ RejectRequest(h) \/ CheckVersion(h) \/ ReloadVersion(h) \/ FindGlobal(h)
         \/ CompilePlan(h) \/ ParsePlan(h) \/ InsertGlobal(h) \/ BumpVersion(h)
         \/ ClearGlobal(h) \/ SinkResults(h)
  PROVE  TxnInv'
<1> USE DEF At, Goto
<1>1. CASE RejectRequest(h) \/ SinkResults(h)
  <2>1. /\ pc[h] # "commit" /\ pc' = [pc EXCEPT ![h] = "done"]
        /\ sess' = sess /\ phase' = phase /\ dirty' = dirty
    BY <1>1 DEF RejectRequest, SinkResults, handler, graph, txn
  <2> QED BY Zenon, <2>1, MoveKeepsTxn DEF Inside, Active, Clearing
<1>2. CASE CheckVersion(h) \/ ReloadVersion(h) \/ FindGlobal(h) \/ CompilePlan(h)
           \/ ParsePlan(h) \/ InsertGlobal(h)
  <2>1. /\ pc[h] \in {"get", "reload", "find", "compile", "parse", "insert"}
        /\ \E p \in {"reload", "find", "compile", "parse", "insert", "exec"} :
             pc' = [pc EXCEPT ![h] = p]
        /\ sess' = sess /\ phase' = phase /\ dirty' = dirty
    BY Zenon, <1>2 DEF CheckVersion, FindLocal, ReloadVersion, FindGlobal, CompilePlan,
                ParsePlan, InsertGlobal, Remember, Planned, handler, graph, txn
  <2> QED BY Zenon, <2>1, MoveKeepsTxn DEF Inside, Active, Clearing
<1>3. CASE BumpVersion(h) \/ ClearGlobal(h)
  <2>1. /\ pc[h] \in {"clear", "cleared"}
        /\ \E p \in {"cleared", "release"} : pc' = [pc EXCEPT ![h] = p]
        /\ sess' = sess /\ phase' = phase /\ dirty' = dirty
    BY <1>3 DEF BumpVersion, ClearGlobal, handler, graph, txn
  <2> QED BY Zenon, <2>1, MoveKeepsTxn DEF Inside, Active, Clearing
<1> QED BY <1>1, <1>2, <1>3

\* A handler takes or gives back a session outside of any transaction.
LEMMA PoolStepKeepsTxn ==
  ASSUME PoolInv, TxnInv, NEW h \in Handlers,
         \/ Receive(h) \/ Retry(h) \/ SpuriousWakeup(h) \/ ReleaseSession(h)
  PROVE  TxnInv'
<1> USE DEF At, Goto
<1>1. CASE Receive(h) \/ Retry(h)
  <2>1. /\ pc[h] \in {"idle", "woken"} /\ TakeSession(h)
        /\ phase' = phase /\ dirty' = dirty
    BY <1>1 DEF Receive, Retry, Accepts, graph, txn
  <2>2. /\ \E p \in {"begin", "waiting"} : pc' = [pc EXCEPT ![h] = p]
        /\ \A g \in Handlers \ {h} : sess'[g] = sess[g]
    BY <2>1 DEF TakeSession, PoolInv
  <2> QED BY Zenon, <2>1, <2>2, MoveKeepsTxn DEF Inside, Outside, Active, Clearing
<1>2. CASE SpuriousWakeup(h)
  <2>1. /\ pc[h] = "waiting" /\ pc' = [pc EXCEPT ![h] = "woken"]
        /\ sess' = sess /\ phase' = phase /\ dirty' = dirty
    BY <1>2 DEF SpuriousWakeup, handler, graph, txn
  <2> QED BY Zenon, <2>1, MoveKeepsTxn DEF Inside, Outside, Active, Clearing
<1>3. CASE ReleaseSession(h)
  <2>1. /\ pc[h] = "done" /\ sess' = [sess EXCEPT ![h] = NoSession]
        /\ phase' = phase /\ dirty' = dirty
        /\ \/ pc' = [pc EXCEPT ![h] = "idle"]
           \/ \E w \in Waiting : pc' = [pc EXCEPT ![h] = "idle", ![w] = "woken"]
    BY <1>3 DEF ReleaseSession, ForgetRequest, SignalAndLeave, graph, txn
  <2>2. \A g \in Handlers : pc[g] \in Active \/ pc'[g] \in Active =>
           g # h /\ pc'[g] = pc[g] /\ sess'[g] = sess[g]
    BY <2>1 DEF PoolInv, Active, Waiting
  <2>3. "commit" \in Active
    BY DEF Active
  <2> QED BY <2>1, <2>2, <2>3, ActiveInside DEF TxnInv
<1> QED BY <1>1, <1>2, <1>3

\* Nothing is uncommitted while a handler clears the caches.
LEMMA CleanWhileClearing ==
  ASSUME PoolInv, TxnInv, NEW h \in Handlers, pc[h] \in Clearing
  PROVE  dirty = {}
<1> SUFFICES ASSUME dirty # {} PROVE FALSE
  OBVIOUS
<1>1. PICK g \in Handlers : pc[g] = "commit" /\ phase[sess[g]] = "update"
  BY DEF TxnInv
<1>2. pc[g] \in Active \ Clearing
  BY <1>1 DEF Active, Clearing
<1> QED BY <1>2, NobodyClears

LEMMA TxnNext == PoolInv /\ TxnInv /\ [SNext]_svars => TxnInv'
<1> SUFFICES ASSUME PoolInv, TxnInv, [SNext]_svars PROVE TxnInv'
  OBVIOUS
<1>1. ASSUME NEW h \in Handlers, EvalStep(h) PROVE TxnInv'
  <2>1. CASE PlanFails(h) \/ ExecuteFails(h)
    BY <2>1, AbortKeepsTxn DEF PlanFails, ExecuteFails, At, Active
  <2>2. CASE CommitUnchanged(h)
    <3>1. /\ pc[h] = "commit" /\ sess' = sess /\ dirty' = dirty
          /\ phase[sess[h]] = "update" => dirty = {}
          /\ Oracle!End(sess[h])
          /\ \E p \in {"done", "sink"} : pc' = [pc EXCEPT ![h] = p]
      BY Zenon, <2>2 DEF CommitUnchanged, At, Goto, handler, graph
    <3> QED BY Zenon, <3>1, EndKeepsTxn DEF Inside, Active
  <2>3. CASE ReleaseUpdate(h)
    <3>1. /\ pc[h] = "release" /\ sess' = sess /\ dirty' = dirty
          /\ Oracle!End(sess[h])
          /\ pc' = [pc EXCEPT ![h] = "sink"]
      BY <2>3 DEF ReleaseUpdate, At, Goto, handler, graph
    <3>2. dirty = {}
      BY <3>1, CleanWhileClearing DEF Clearing
    <3> QED BY Zenon, <3>1, <3>2, EndKeepsTxn DEF Inside, Active
  <2> QED
    BY <1>1, <2>1, <2>2, <2>3, BeginKeepsTxn, ExecuteKeepsTxn, CommitKeepsTxn,
       QuietEvalKeepsTxn DEF EvalStep
<1>2. ASSUME NEW h \in Handlers, GetSchema(h) PROVE TxnInv'
  BY <1>2 DEF GetSchema, handler, graph, txn, TxnInv
<1>3. CASE UNCHANGED svars
  BY <1>3 DEF svars, handler, graph, txn, TxnInv
<1> QED
  BY <1>1, <1>2, <1>3, PoolStepKeepsTxn DEF SNext, HandlerStep

LEMMA TxnInit == SInit => TxnInv
<1> SUFFICES ASSUME SInit PROVE TxnInv
  OBVIOUS
<1>1. /\ pc = [h \in Handlers |-> "idle"] /\ dirty = {}
      /\ phase = [s \in Sessions |-> "idle"]
  BY DEF SInit, Oracle!Init
<1> QED BY <1>1 DEF TxnInv, Active, Clearing

-----------------------------------------------------------------------------
(* The query caches.                                                       *)

Plans == {NoPlan} \cup [meta : Int, schema : Int]

\* A plan for the schema the graph has now.
Current == [meta |-> schema, schema |-> schema]

CacheTypes ==
  /\ schema \in Int /\ meta \in Int /\ version \in Int
  /\ plan \in [Handlers -> Plans]
  /\ cache \in [Queries -> Plans]
  /\ lversion \in [Sessions -> Int]
  /\ lcache \in [Sessions -> [Queries -> Plans]]
  /\ req \in [Handlers -> {BadRequest} \cup Requests]
  /\ \A h \in Handlers : pc[h] \in Active => req[h] \in [query : Queries, mode : Modes]

\* Only between the commit of a schema change and the end of clear are there
\* stale plans where a lookup finds them: those of the sessions until the
\* version is advanced, those of the global cache until it is emptied.
PlansInv ==
  /\ (\A h \in Handlers : pc[h] \notin {"clear", "cleared"}) =>
       meta = schema /\ \A q \in Queries : cache[q] \in {NoPlan, Current}
  /\ (\A h \in Handlers : pc[h] # "clear") =>
       \A s \in Sessions, q \in Queries :
         lversion[s] = version => lcache[s][q] \in {NoPlan, Current}
  /\ \A s \in Sessions : lversion[s] <= version
  /\ \A h \in Handlers : pc[h] = "reload" => lcache[sess[h]] = EmptyCache
  /\ \A h \in Handlers : pc[h] = "parse" => plan[h] = [meta |-> schema, schema |-> -1]
  /\ \A h \in Handlers : pc[h] \in {"insert", "exec"} => plan[h] = Current

CacheInv == CacheTypes /\ PlansInv

LEMMA CacheInit == SInit => CacheInv
<1> SUFFICES ASSUME SInit PROVE CacheInv
  OBVIOUS
<1>1. /\ pc = [h \in Handlers |-> "idle"]
      /\ req = [h \in Handlers |-> BadRequest]
      /\ plan = [h \in Handlers |-> NoPlan]
      /\ schema = 0 /\ meta = 0 /\ version = 0
      /\ cache = EmptyCache
      /\ lversion = [s \in Sessions |-> 0]
      /\ lcache = [s \in Sessions |-> EmptyCache]
  BY DEF SInit
<1>2. EmptyCache \in [Queries -> Plans] /\ \A q \in Queries : EmptyCache[q] = NoPlan
  BY DEF EmptyCache, Plans
<1> HIDE DEF EmptyCache
<1>3. CacheTypes
  BY <1>1, <1>2 DEF CacheTypes, Plans, Active
<1>4. PlansInv
  BY <1>1, <1>2 DEF PlansInv
<1> QED BY <1>3, <1>4 DEF CacheInv

\* While a handler is on the way to a plan, no cache is stale.
LEMMA CachesFresh ==
  ASSUME PoolInv, TxnInv, CacheInv, NEW h \in Handlers, pc[h] \in Active \ Clearing
  PROVE  /\ \A g \in Handlers : pc[g] \notin {"clear", "cleared"}
         /\ meta = schema
         /\ \A q \in Queries : cache[q] \in {NoPlan, Current}
         /\ \A s \in Sessions, q \in Queries :
              lversion[s] = version => lcache[s][q] \in {NoPlan, Current}
BY NobodyClears DEF CacheInv, PlansInv, Clearing

\* A handler moves; no plan, cache or schema changes and it enters no state
\* that promises something of its plan.
LEMMA MoveKeepsCache ==
  ASSUME PoolInv, CacheInv, NEW h \in Handlers, NEW p,
         pc' = [pc EXCEPT ![h] = p],
         UNCHANGED <<schema, meta, version, plan, cache, lversion, lcache, req>>,
         \A g \in Handlers : pc[g] = "reload" => sess'[g] = sess[g],
         p \notin {"clear", "cleared", "reload", "parse", "insert", "exec"},
         pc[h] \notin {"clear", "cleared"},
         p \in Active => pc[h] \in Active \/ req[h] \in [query : Queries, mode : Modes]
  PROVE  CacheInv'
<1>1. \A g \in Handlers : g # h => pc'[g] = pc[g]
  BY DEF PoolInv
<1>2. pc'[h] = p
  BY DEF PoolInv
<1>3. CacheTypes'
  BY <1>1, <1>2 DEF CacheInv, CacheTypes
<1>4. \A g \in Handlers : pc'[g] \in {"clear", "cleared"} <=> pc[g] \in {"clear", "cleared"}
  BY <1>1, <1>2
<1>5. \A g \in Handlers : pc'[g] = "clear" <=> pc[g] = "clear"
  BY <1>1, <1>2
<1>6. \A g \in Handlers : pc'[g] \in {"reload", "parse", "insert", "exec"} => pc'[g] = pc[g]
  BY <1>1, <1>2
<1>7. EmptyCache' = EmptyCache /\ Current' = Current
  BY DEF EmptyCache, Current
<1>8. PlansInv'
  BY <1>4, <1>5, <1>6, <1>7 DEF CacheInv, PlansInv
<1> QED BY <1>3, <1>8 DEF CacheInv

\* A handler on the way to a plan moves on: it may set its plan and write
\* current plans to the caches, and the plan it goes on with fits.
LEMMA PlanStepKeepsCache ==
  ASSUME PoolInv, TxnInv, CacheInv, NEW h \in Handlers,
         NEW p \in {"reload", "find", "compile", "parse", "insert", "exec"},
         pc[h] \in Active \ Clearing,
         pc' = [pc EXCEPT ![h] = p],
         UNCHANGED <<schema, meta, version, req, sess>>,
         plan' \in [Handlers -> Plans],
         \A g \in Handlers : g # h => plan'[g] = plan[g],
         cache' \in [Queries -> Plans],
         \A q \in Queries : cache'[q] \in {NoPlan, Current},
         lversion' \in [Sessions -> Int],
         \A s \in Sessions : lversion'[s] <= version,
         lcache' \in [Sessions -> [Queries -> Plans]],
         \A s \in Sessions : s # sess[h] => lcache'[s] = lcache[s],
         \A s \in Sessions, q \in Queries :
           lversion'[s] = version => lcache'[s][q] \in {NoPlan, Current},
         p = "reload" => lcache'[sess[h]] = EmptyCache,
         p = "parse" => plan'[h] = [meta |-> schema, schema |-> -1],
         p \in {"insert", "exec"} => plan'[h] = Current
  PROVE  CacheInv'
<1>1. \A g \in Handlers : g # h => pc'[g] = pc[g]
  BY Zenon DEF PoolInv
<1>2. pc'[h] = p
  BY DEF PoolInv
<1>3. CacheTypes'
  BY <1>1, <1>2 DEF CacheInv, CacheTypes
<1>4. EmptyCache' = EmptyCache /\ Current' = Current
  BY DEF EmptyCache, Current
<1>5. \A g \in Handlers : g # h /\ pc[g] = "reload" => sess[g] \in Sessions /\ sess[g] # sess[h]
  BY Zenon, SessionsDistinct, ActiveInside DEF Inside
<1>6. \A g \in Handlers : pc'[g] = "reload" => lcache'[sess'[g]] = EmptyCache'
  BY <1>1, <1>2, <1>4, <1>5 DEF CacheInv, PlansInv
<1>7. /\ \A g \in Handlers : pc'[g] = "parse" => plan'[g] = [meta |-> schema', schema |-> -1]
      /\ \A g \in Handlers : pc'[g] \in {"insert", "exec"} => plan'[g] = Current'
  BY <1>1, <1>2, <1>4 DEF CacheInv, PlansInv
<1>8. meta' = schema'
  BY CachesFresh
<1>9. PlansInv'
  BY <1>4, <1>6, <1>7, <1>8 DEF PlansInv
<1> QED BY Zenon, <1>3, <1>9 DEF CacheInv

LEMMA CheckVersionKeeps ==
  ASSUME PoolInv, TxnInv, CacheInv, NEW h \in Handlers, CheckVersion(h)
  PROVE  CacheInv'
<1>1. /\ pc[h] = "get" /\ pc[h] \in Active \ Clearing
      /\ UNCHANGED <<schema, meta, version, req, sess, cache, lversion>>
  BY Zenon DEF CheckVersion, At, graph, global, Active, Clearing
<1>2. /\ sess[h] \in Sessions
      /\ req[h].query \in Queries
  BY <1>1, SessionsDistinct, ActiveInside DEF CacheInv, CacheTypes
<1>3. EmptyCache \in [Queries -> Plans] /\ \A q \in Queries : EmptyCache[q] = NoPlan
  BY DEF EmptyCache, Plans
<1>a. /\ \A q \in Queries : cache[q] \in {NoPlan, Current}
      /\ \A s \in Sessions, q \in Queries :
              lversion[s] = version => lcache[s][q] \in {NoPlan, Current}
  BY Zenon, <1>1, CachesFresh
<1>b. /\ plan \in [Handlers -> Plans] /\ cache \in [Queries -> Plans]
      /\ lversion \in [Sessions -> Int] /\ lcache \in [Sessions -> [Queries -> Plans]]
      /\ \A s \in Sessions : lversion[s] <= version
      /\ schema \in Int
  BY DEF CacheInv, CacheTypes, PlansInv
<1> DEFINE s0 == sess[h]
           p0 == lcache[s0][req[h].query]
<1>4. CASE lversion[s0] = version /\ p0 # NoPlan
  <2>1. /\ plan' = [plan EXCEPT ![h] = p0] /\ pc' = [pc EXCEPT ![h] = "exec"]
        /\ lcache' = lcache
    BY Zenon, <1>4 DEF CheckVersion, FindLocal, Planned, Goto
  <2>2. p0 = Current /\ p0 \in Plans
    BY <1>2, <1>4, <1>a, <1>b
  <2>3. plan' \in [Handlers -> Plans] /\ plan'[h] = Current
        /\ \A g \in Handlers : g # h => plan'[g] = plan[g]
    BY <1>b, <2>1, <2>2
  <2> HIDE DEF p0
  <2> QED BY Zenon, <1>1, <1>a, <1>b, <2>1, <2>3, PlanStepKeepsCache
<1>5. CASE lversion[s0] = version /\ p0 = NoPlan
  <2>1. /\ plan' = plan /\ pc' = [pc EXCEPT ![h] = "find"] /\ lcache' = lcache
    BY Zenon, <1>5 DEF CheckVersion, FindLocal, Goto
  <2> QED BY Zenon, <1>1, <1>a, <1>b, <2>1, PlanStepKeepsCache
<1>6. CASE lversion[s0] # version
  <2>1. /\ plan' = plan /\ pc' = [pc EXCEPT ![h] = "reload"]
        /\ lcache' = [lcache EXCEPT ![s0] = EmptyCache]
    BY Zenon, <1>6 DEF CheckVersion, Goto
  <2>2. /\ lcache' \in [Sessions -> [Queries -> Plans]] /\ lcache'[s0] = EmptyCache
        /\ \A s \in Sessions : s # s0 => lcache'[s] = lcache[s]
    BY <1>2, <1>3, <1>b, <2>1
  <2>3. \A s \in Sessions, q \in Queries :
           lversion'[s] = version => lcache'[s][q] \in {NoPlan, Current}
    BY <1>1, <1>3, <1>a, <2>2
  <2> QED BY Zenon, <1>1, <1>a, <1>b, <2>1, <2>2, <2>3, PlanStepKeepsCache
<1> QED BY <1>4, <1>5, <1>6

LEMMA ReloadVersionKeeps ==
  ASSUME PoolInv, TxnInv, CacheInv, NEW h \in Handlers, ReloadVersion(h)
  PROVE  CacheInv'
<1>1. /\ pc[h] = "reload" /\ pc[h] \in Active \ Clearing
      /\ pc' = [pc EXCEPT ![h] = "find"]
      /\ UNCHANGED <<schema, meta, version, req, sess, plan, cache, lcache>>
      /\ lversion' = [lversion EXCEPT ![sess[h]] = version]
  BY Zenon DEF ReloadVersion, At, Goto, handler, graph, global, Active, Clearing
<1>2. sess[h] \in Sessions
  BY <1>1, SessionsDistinct, ActiveInside
<1>3. lcache[sess[h]] = EmptyCache /\ \A q \in Queries : EmptyCache[q] = NoPlan
  BY <1>1 DEF CacheInv, PlansInv, EmptyCache
<1>4. /\ \A q \in Queries : cache[q] \in {NoPlan, Current}
      /\ \A s \in Sessions, q \in Queries :
              lversion[s] = version => lcache[s][q] \in {NoPlan, Current}
  BY <1>1, CachesFresh
<1>5. /\ lversion' \in [Sessions -> Int]
      /\ \A s \in Sessions : lversion'[s] <= version
      /\ \A s \in Sessions : s # sess[h] => lversion'[s] = lversion[s]
  BY <1>1, <1>2 DEF CacheInv, CacheTypes, PlansInv
<1>6. \A s \in Sessions, q \in Queries :
        lversion'[s] = version => lcache'[s][q] \in {NoPlan, Current}
  BY <1>1, <1>3, <1>4, <1>5
<1>7. plan \in [Handlers -> Plans] /\ cache \in [Queries -> Plans]
      /\ lcache \in [Sessions -> [Queries -> Plans]]
  BY DEF CacheInv, CacheTypes
<1> QED BY Zenon, <1>1, <1>4, <1>5, <1>6, <1>7, PlanStepKeepsCache

\* The facts every step through GlobalQueryCache::Get starts from.
LEMMA OnTheWay ==
  ASSUME PoolInv, TxnInv, CacheInv, NEW h \in Handlers, pc[h] \in Active \ Clearing
  PROVE  /\ sess[h] \in Sessions /\ req[h].query \in Queries
         /\ plan \in [Handlers -> Plans] /\ cache \in [Queries -> Plans]
         /\ lversion \in [Sessions -> Int]
         /\ \A s \in Sessions : lversion[s] <= version
         /\ lcache \in [Sessions -> [Queries -> Plans]]
         /\ Current \in Plans /\ schema \in Int
BY SessionsDistinct, ActiveInside DEF CacheInv, CacheTypes, PlansInv, Plans, Current

\* The local emplace and the return of a current plan.
LEMMA RememberKeeps ==
  ASSUME PoolInv, TxnInv, CacheInv, NEW h \in Handlers, pc[h] \in Active \ Clearing,
         Remember(h, Current),
         UNCHANGED <<schema, meta, version, req, sess, lversion>>,
         cache' \in [Queries -> Plans],
         \A q \in Queries : cache'[q] \in {NoPlan, Current}
  PROVE  CacheInv'
<1> DEFINE s0 == sess[h]
           q0 == req[h].query
<1>1. /\ s0 \in Sessions /\ q0 \in Queries /\ Current \in Plans
      /\ plan \in [Handlers -> Plans]
      /\ lversion \in [Sessions -> Int]
      /\ \A s \in Sessions : lversion[s] <= version
      /\ lcache \in [Sessions -> [Queries -> Plans]]
  BY Zenon, OnTheWay
<1>2. /\ plan' = [plan EXCEPT ![h] = Current]
      /\ pc' = [pc EXCEPT ![h] = "exec"]
      /\ lcache' = [lcache EXCEPT ![s0] = [lcache[s0] EXCEPT ![q0] = Current]]
  BY DEF Remember, Planned, Goto
<1> HIDE DEF Current, s0, q0
<1>3. /\ plan' \in [Handlers -> Plans] /\ plan'[h] = Current
      /\ \A g \in Handlers : g # h => plan'[g] = plan[g]
  BY <1>1, <1>2
<1>4. [lcache[s0] EXCEPT ![q0] = Current] \in [Queries -> Plans]
  BY <1>1
<1>5. /\ lcache' \in [Sessions -> [Queries -> Plans]]
      /\ \A s \in Sessions : s # s0 => lcache'[s] = lcache[s]
      /\ lcache'[s0] = [lcache[s0] EXCEPT ![q0] = Current]
  BY <1>1, <1>2, <1>4
<1>6. \A q \in Queries : lcache'[s0][q] = IF q = q0 THEN Current ELSE lcache[s0][q]
  BY <1>1, <1>5
<1>7. \A s \in Sessions, q \in Queries :
        lversion[s] = version => lcache[s][q] \in {NoPlan, Current}
  BY CachesFresh
<1>8. \A s \in Sessions, q \in Queries :
        lversion'[s] = version => lcache'[s][q] \in {NoPlan, Current}
  BY <1>1, <1>5, <1>6, <1>7
<1> QED BY Zenon, <1>1, <1>2, <1>3, <1>5, <1>8, PlanStepKeepsCache DEF s0

LEMMA GlobalGetKeeps ==
  ASSUME PoolInv, TxnInv, CacheInv, NEW h \in Handlers,
         FindGlobal(h) \/ CompilePlan(h) \/ ParsePlan(h) \/ InsertGlobal(h)
  PROVE  CacheInv'
<1> USE DEF At, Goto
<1>1. /\ pc[h] \in {"find", "compile", "parse", "insert"}
      /\ pc[h] \in Active \ Clearing
      /\ UNCHANGED <<schema, meta, version, req, sess, lversion>>
  BY DEF FindGlobal, CompilePlan, ParsePlan, InsertGlobal, graph, global, local,
         Active, Clearing
<1>2. /\ sess[h] \in Sessions /\ req[h].query \in Queries
      /\ plan \in [Handlers -> Plans] /\ cache \in [Queries -> Plans]
      /\ lversion \in [Sessions -> Int]
      /\ \A s \in Sessions : lversion[s] <= version
      /\ lcache \in [Sessions -> [Queries -> Plans]]
      /\ Current \in Plans /\ schema \in Int
  BY Zenon, <1>1, OnTheWay
<1>3. /\ meta = schema
      /\ \A q \in Queries : cache[q] \in {NoPlan, Current}
      /\ \A s \in Sessions, q \in Queries :
           lversion[s] = version => lcache[s][q] \in {NoPlan, Current}
  BY <1>1, CachesFresh
<1>4. CASE FindGlobal(h)
  <2>1. cache' = cache
    BY Zenon, <1>4 DEF FindGlobal, global
  <2>2. CASE cache[req[h].query] # NoPlan
    <3>1. cache[req[h].query] = Current
      BY Zenon, <1>2, <1>3, <2>2
    <3>2. Remember(h, Current)
      BY Zenon, <1>4, <2>2, <3>1 DEF FindGlobal
    <3> QED BY Zenon, <1>1, <1>2, <1>3, <2>1, <3>2, RememberKeeps
  <2>3. CASE cache[req[h].query] = NoPlan
    <3>1. pc' = [pc EXCEPT ![h] = "compile"] /\ UNCHANGED <<plan, lcache>>
      BY Zenon, <1>4, <2>3 DEF FindGlobal
    <3> QED BY Zenon, <1>1, <1>2, <1>3, <2>1, <3>1, PlanStepKeepsCache
  <2> QED BY <2>2, <2>3
<1>5. CASE CompilePlan(h)
  <2>1. /\ pc' = [pc EXCEPT ![h] = "parse"] /\ UNCHANGED <<cache, lcache>>
        /\ plan' = [plan EXCEPT ![h] = [meta |-> meta, schema |-> -1]]
    BY <1>5 DEF CompilePlan, global, local
  <2>2. [meta |-> meta, schema |-> -1] \in Plans
    <3>1. meta \in Int
      BY Zenon, <1>2, <1>3
    <3> QED BY <3>1 DEF Plans
  <2>3. /\ plan' \in [Handlers -> Plans]
        /\ plan'[h] = [meta |-> schema, schema |-> -1]
        /\ \A g \in Handlers : g # h => plan'[g] = plan[g]
    BY Zenon, <1>2, <1>3, <2>1, <2>2
  <2> QED BY Zenon, <1>1, <1>2, <1>3, <2>1, <2>3, PlanStepKeepsCache
<1>6. CASE ParsePlan(h)
  <2>1. /\ pc[h] = "parse" /\ pc' = [pc EXCEPT ![h] = "insert"] /\ UNCHANGED <<cache, lcache>>
        /\ plan' = [plan EXCEPT ![h] = [meta |-> plan[h].meta, schema |-> schema]]
    BY <1>6 DEF ParsePlan, global, local
  <2>2. [meta |-> plan[h].meta, schema |-> schema] = Current
    BY <2>1 DEF CacheInv, PlansInv, Current
  <2>3. /\ plan' \in [Handlers -> Plans] /\ plan'[h] = Current
        /\ \A g \in Handlers : g # h => plan'[g] = plan[g]
    BY <1>2, <2>1, <2>2
  <2> QED BY Zenon, <1>1, <1>2, <1>3, <2>1, <2>3, PlanStepKeepsCache
<1>7. CASE InsertGlobal(h)
  <2> DEFINE q0 == req[h].query
             p0 == IF cache[q0] # NoPlan THEN cache[q0] ELSE plan[h]
  <2>1. pc[h] = "insert" /\ cache' = [cache EXCEPT ![q0] = p0] /\ Remember(h, p0)
    BY <1>7 DEF InsertGlobal
  <2>2. p0 = Current
    BY Zenon, <1>2, <1>3, <2>1 DEF CacheInv, PlansInv
  <2>3. /\ cache' \in [Queries -> Plans]
        /\ \A q \in Queries : cache'[q] \in {NoPlan, Current}
    BY <1>2, <1>3, <2>1, <2>2
  <2>4. Remember(h, Current)
    BY <2>1, <2>2
  <2> QED BY <1>1, <2>3, <2>4, RememberKeeps
<1> QED BY <1>4, <1>5, <1>6, <1>7

\* A committing update is the only handler inside a transaction.
LEMMA ClearStepAlone ==
  ASSUME PoolInv, TxnInv, NEW h \in Handlers, NEW p, pc[h] \in Active,
         phase[sess[h]] = "update", pc' = [pc EXCEPT ![h] = p]
  PROVE  pc'[h] = p /\ \A g \in Handlers : g # h => pc'[g] = pc[g] /\ pc'[g] \notin Active
BY UpdatesAlone DEF PoolInv

\* The commit of a schema change makes every cached plan stale, and no handler
\* is on its way to one.
LEMMA CommitUpdateKeeps ==
  ASSUME PoolInv, TxnInv, CacheInv, NEW h \in Handlers, CommitUpdate(h)
  PROVE  CacheInv'
<1>1. /\ pc[h] = "commit" /\ pc[h] \in Active /\ phase[sess[h]] = "update"
      /\ UNCHANGED <<req, sess, plan, meta, version, cache, lversion, lcache>>
      /\ schema' = IF "schema" \in dirty THEN schema + 1 ELSE schema
  BY DEF CommitUpdate, At, global, local, Active
<1>2. CASE "schema" \in dirty
  <2>1. pc' = [pc EXCEPT ![h] = "clear"]
    BY <1>2 DEF CommitUpdate, Goto
  <2>2. pc'[h] = "clear" /\ \A g \in Handlers : g # h => pc'[g] = pc[g] /\ pc'[g] \notin Active
    BY Zenon, <1>1, <2>1, ClearStepAlone
  <2>3. CacheTypes'
    BY <1>1, <2>2 DEF CacheInv, CacheTypes
  <2>4. PlansInv'
    BY Zenon, <1>1, <2>2 DEF CacheInv, PlansInv, Active
  <2> QED BY <2>3, <2>4 DEF CacheInv
<1>3. CASE "schema" \notin dirty
  <2>1. pc' = [pc EXCEPT ![h] = "sink"] /\ schema' = schema
    BY <1>1, <1>3 DEF CommitUpdate, Goto
  <2> QED BY Zenon, <1>1, <2>1, MoveKeepsCache DEF Active
<1> QED BY <1>2, <1>3

\* Advancing the version outdates the cache of every session.
LEMMA BumpVersionKeeps ==
  ASSUME PoolInv, TxnInv, CacheInv, NEW h \in Handlers, BumpVersion(h)
  PROVE  CacheInv'
<1>1. /\ pc[h] = "clear" /\ pc[h] \in Active /\ phase[sess[h]] = "update"
      /\ UNCHANGED <<req, sess, plan, schema, meta, cache, lversion, lcache>>
      /\ version' = version + 1 /\ pc' = [pc EXCEPT ![h] = "cleared"]
  BY DEF BumpVersion, At, Goto, handler, graph, local, Active, TxnInv, Clearing
<1>2. pc'[h] = "cleared" /\ \A g \in Handlers : g # h => pc'[g] = pc[g] /\ pc'[g] \notin Active
  BY Zenon, <1>1, ClearStepAlone
<1>3. CacheTypes'
  <2>1. version \in Int
    BY Zenon DEF CacheInv, CacheTypes
  <2>2. version' \in Int
    BY <1>1, <2>1
  <2> QED BY Zenon, <1>1, <1>2, <2>2 DEF CacheInv, CacheTypes
<1>4. \A s \in Sessions : lversion'[s] <= version' /\ lversion'[s] # version'
  <2>1. version \in Int /\ \A s \in Sessions : lversion[s] \in Int /\ lversion[s] <= version
    BY Zenon DEF CacheInv, CacheTypes, PlansInv
  <2>2. lversion' = lversion /\ version' = version + 1
    BY <1>1
  <2> QED BY <2>1, <2>2
<1>5. PlansInv'
  <2>1. ~(\A g \in Handlers : pc'[g] \notin {"clear", "cleared"})
    BY <1>2
  <2>2. \A g \in Handlers : pc'[g] \notin {"reload", "parse", "insert", "exec"}
    BY <1>2 DEF Active
  <2> QED BY Zenon, <1>4, <2>1, <2>2 DEF PlansInv
<1> QED BY <1>3, <1>5 DEF CacheInv

\* clear empties the global cache and the planner gets the new schema.
LEMMA ClearGlobalKeeps ==
  ASSUME PoolInv, TxnInv, CacheInv, NEW h \in Handlers, ClearGlobal(h)
  PROVE  CacheInv'
<1>1. /\ pc[h] = "cleared" /\ pc[h] \in Active /\ phase[sess[h]] = "update"
      /\ UNCHANGED <<req, sess, plan, schema, version, lversion, lcache>>
      /\ cache' = EmptyCache /\ meta' = schema /\ pc' = [pc EXCEPT ![h] = "release"]
  BY DEF ClearGlobal, At, Goto, handler, graph, local, Active, TxnInv, Clearing
<1>2. pc'[h] = "release" /\ \A g \in Handlers : g # h => pc'[g] = pc[g] /\ pc'[g] \notin Active
  BY Zenon, <1>1, ClearStepAlone
<1>3. EmptyCache \in [Queries -> Plans] /\ \A q \in Queries : EmptyCache[q] = NoPlan
  BY DEF EmptyCache, Plans
<1>4. Current' = Current
  BY <1>1 DEF Current
<1>5. CacheTypes'
  BY <1>1, <1>2, <1>3 DEF CacheInv, CacheTypes
<1>6. \A g \in Handlers : pc[g] # "clear"
  BY <1>1, <1>2 DEF Active
<1>7. \A g \in Handlers : pc'[g] \notin {"reload", "parse", "insert", "exec"}
  BY <1>2 DEF Active
<1>8. \A s \in Sessions, q \in Queries :
        lversion[s] = version => lcache[s][q] \in {NoPlan, Current}
  BY <1>6 DEF CacheInv, PlansInv
<1>9. \A s \in Sessions : lversion[s] <= version
  BY DEF CacheInv, PlansInv
<1>10. PlansInv'
  BY <1>1, <1>3, <1>4, <1>7, <1>8, <1>9 DEF PlansInv
<1> QED BY <1>5, <1>10 DEF CacheInv

\* The session that changed the schema starts with an empty cache.
LEMMA ReleaseUpdateKeeps ==
  ASSUME PoolInv, TxnInv, CacheInv, NEW h \in Handlers, ReleaseUpdate(h)
  PROVE  CacheInv'
<1>1. /\ pc[h] = "release" /\ pc[h] \in Active /\ phase[sess[h]] = "update"
      /\ UNCHANGED <<req, sess, plan, schema, meta, version, cache>>
      /\ lversion' = [lversion EXCEPT ![sess[h]] = version]
      /\ lcache' = [lcache EXCEPT ![sess[h]] = EmptyCache]
      /\ pc' = [pc EXCEPT ![h] = "sink"]
  BY Zenon DEF ReleaseUpdate, At, Goto, handler, graph, global, Active, TxnInv, Clearing
<1>2. pc'[h] = "sink" /\ \A g \in Handlers : g # h => pc'[g] = pc[g] /\ pc'[g] \notin Active
  BY Zenon, <1>1, ClearStepAlone
<1>3. EmptyCache \in [Queries -> Plans] /\ \A q \in Queries : EmptyCache[q] = NoPlan
  BY DEF EmptyCache, Plans
<1>4. sess[h] \in Sessions /\ Current' = Current
  BY <1>1, SessionsDistinct, ActiveInside DEF Current
<1>5. /\ lversion' \in [Sessions -> Int] /\ lcache' \in [Sessions -> [Queries -> Plans]]
      /\ lversion'[sess[h]] = version /\ lcache'[sess[h]] = EmptyCache
      /\ \A s \in Sessions : s # sess[h] => lversion'[s] = lversion[s] /\ lcache'[s] = lcache[s]
  BY <1>1, <1>3, <1>4 DEF CacheInv, CacheTypes
<1>6. CacheTypes'
  BY Zenon, <1>1, <1>2, <1>5 DEF CacheInv, CacheTypes, Active
<1>7. \A g \in Handlers : /\ pc[g] \notin {"clear", "cleared"}
                         /\ pc'[g] \notin {"reload", "parse", "insert", "exec"}
  BY <1>1, <1>2 DEF Active
<1>8. /\ meta = schema /\ version \in Int
      /\ \A q \in Queries : cache[q] \in {NoPlan, Current}
      /\ \A s \in Sessions, q \in Queries :
           lversion[s] = version => lcache[s][q] \in {NoPlan, Current}
      /\ \A s \in Sessions : lversion[s] <= version
  BY <1>7 DEF CacheInv, CacheTypes, PlansInv
<1>9. /\ \A s \in Sessions : lversion'[s] <= version
      /\ \A s \in Sessions, q \in Queries :
           lversion'[s] = version => lcache'[s][q] \in {NoPlan, Current}
  BY <1>3, <1>5, <1>8
<1>10. PlansInv'
  BY <1>1, <1>4, <1>7, <1>8, <1>9 DEF PlansInv
<1> QED BY <1>6, <1>10 DEF CacheInv

\* The steps that leave plans, caches and schema alone.
LEMMA QuietStepKeeps ==
  ASSUME PoolInv, TxnInv, CacheInv, NEW h \in Handlers,
         \/ RejectRequest(h) \/ BeginTransaction(h) \/ PlanFails(h) \/ Execute(h)
         \/ ExecuteFails(h) \/ CommitUnchanged(h) \/ SinkResults(h)
         \/ Retry(h) \/ SpuriousWakeup(h)
  PROVE  CacheInv'
<1> USE DEF At, Goto
<1>1. UNCHANGED <<schema, meta, version, plan, cache, lversion, lcache, req>>
  BY Zenon DEF RejectRequest, BeginTransaction, PlanFails, Execute, ExecuteFails, AbortTransaction,
         CommitUnchanged, SinkResults, Retry, SpuriousWakeup, handler, graph, global, local
<1>2. CASE BeginTransaction(h)
  <2>1. /\ pc[h] = "begin" /\ pc' = [pc EXCEPT ![h] = "get"] /\ sess' = sess
        /\ req[h] # BadRequest
    BY Zenon, <1>2 DEF BeginTransaction, handler
  <2>2. req[h] \in [query : Queries, mode : Modes]
    BY <2>1, ServiceAssumption DEF CacheInv, CacheTypes
  <2> QED BY Zenon, <1>1, <2>1, <2>2, MoveKeepsCache
<1>3. CASE Retry(h)
  <2>1. /\ pc[h] = "woken"
        /\ \E p \in {"begin", "waiting"} : pc' = [pc EXCEPT ![h] = p]
        /\ \A g \in Handlers : g # h => sess'[g] = sess[g]
    BY <1>3 DEF Retry, TakeSession, PoolInv
  <2>2. \A g \in Handlers : pc[g] = "reload" => sess'[g] = sess[g]
    BY Zenon, <2>1
  <2> QED BY Zenon, <1>1, <2>1, <2>2, MoveKeepsCache DEF Active
<1>4. CASE Execute(h)
  <2>1. pc[h] = "exec" /\ pc' = [pc EXCEPT ![h] = "commit"] /\ sess' = sess
    BY <1>4 DEF Execute
  <2> QED BY Zenon, <1>1, <2>1, MoveKeepsCache DEF Active
<1>5. CASE RejectRequest(h) \/ PlanFails(h) \/ ExecuteFails(h) \/ CommitUnchanged(h)
           \/ SinkResults(h) \/ SpuriousWakeup(h)
  <2>1. /\ pc[h] \notin {"clear", "cleared"} /\ sess' = sess
        /\ \E p \in {"done", "sink", "woken"} : pc' = [pc EXCEPT ![h] = p]
    BY Zenon, <1>5 DEF RejectRequest, PlanFails, ExecuteFails, AbortTransaction,
                CommitUnchanged, SinkResults, SpuriousWakeup, handler
  <2> QED BY Zenon, <1>1, <2>1, MoveKeepsCache DEF Active
<1> QED BY <1>2, <1>3, <1>4, <1>5

\* A request comes or goes: nothing but its handler's locals changes.
LEMMA RequestKeeps ==
  ASSUME PoolInv, TxnInv, CacheInv, NEW h \in Handlers, Receive(h) \/ ReleaseSession(h)
  PROVE  CacheInv'
<1> USE DEF At, Goto
<1>1. UNCHANGED <<schema, meta, version, cache, lversion, lcache>>
  BY DEF Receive, ReleaseSession, graph, global, local
<1>2. pc[h] \in {"idle", "done"} /\ pc'[h] \in {"begin", "waiting", "idle"}
      /\ \A g \in Handlers : g # h =>
           \/ pc'[g] = pc[g]
           \/ pc[g] = "waiting" /\ pc'[g] = "woken"
  BY DEF Receive, Accepts, TakeSession, ReleaseSession, SignalAndLeave, Waiting, PoolInv
<1>3. /\ req' \in [Handlers -> {BadRequest} \cup Requests]
      /\ plan' \in [Handlers -> Plans]
      /\ \A g \in Handlers : g # h => req'[g] = req[g] /\ plan'[g] = plan[g] /\ sess'[g] = sess[g]
  BY Zenon DEF Receive, TakeSession, ReleaseSession, ForgetRequest, PoolInv, CacheInv, CacheTypes, Plans
<1>4. \A g \in Handlers : pc[g] \in Active \/ pc'[g] \in Active => g # h /\ pc'[g] = pc[g]
  BY <1>2 DEF Active
<1>5. CacheTypes'
  BY Zenon, <1>1, <1>3, <1>4 DEF CacheInv, CacheTypes
<1>6. \A g \in Handlers :
        /\ pc'[g] \in {"clear", "cleared"} <=> pc[g] \in {"clear", "cleared"}
        /\ pc'[g] = "clear" <=> pc[g] = "clear"
        /\ pc'[g] \in {"reload", "parse", "insert", "exec"} =>
             g # h /\ pc'[g] = pc[g]
  BY <1>2
<1>7. EmptyCache' = EmptyCache /\ Current' = Current
  BY <1>1 DEF EmptyCache, Current
<1>8. PlansInv'
  <2>1. ASSUME \A g \in Handlers : pc'[g] \notin {"clear", "cleared"}
        PROVE  meta' = schema' /\ \A q \in Queries : cache'[q] \in {NoPlan, Current'}
    BY Zenon, <1>1, <1>6, <1>7, <2>1 DEF CacheInv, PlansInv
  <2>2. ASSUME \A g \in Handlers : pc'[g] # "clear",
               NEW s \in Sessions, NEW q \in Queries, lversion'[s] = version'
        PROVE  lcache'[s][q] \in {NoPlan, Current'}
    BY <1>1, <1>6, <1>7, <2>2 DEF CacheInv, PlansInv
  <2>3. \A s \in Sessions : lversion'[s] <= version'
    BY <1>1 DEF CacheInv, PlansInv
  <2>4. ASSUME NEW g \in Handlers
        PROVE  /\ pc'[g] = "reload" => lcache'[sess'[g]] = EmptyCache'
               /\ pc'[g] = "parse" => plan'[g] = [meta |-> schema', schema |-> -1]
               /\ pc'[g] \in {"insert", "exec"} => plan'[g] = Current'
    <3>1. CASE pc'[g] \in {"reload", "parse", "insert", "exec"}
      <4>1. pc'[g] = pc[g] /\ plan'[g] = plan[g] /\ sess'[g] = sess[g]
        BY Zenon, <1>3, <1>6, <3>1
      <4>2. /\ pc[g] = "reload" => lcache[sess[g]] = EmptyCache
            /\ pc[g] = "parse" => plan[g] = [meta |-> schema, schema |-> -1]
            /\ pc[g] \in {"insert", "exec"} => plan[g] = Current
        BY Zenon DEF CacheInv, PlansInv
      <4>3. lcache' = lcache /\ schema' = schema
        BY <1>1
      <4> QED BY <1>7, <4>1, <4>2, <4>3
    <3>2. CASE pc'[g] \notin {"reload", "parse", "insert", "exec"}
      BY <3>2
    <3> QED BY <3>1, <3>2
  <2> QED BY <2>1, <2>2, <2>3, <2>4 DEF PlansInv
<1> QED BY <1>5, <1>8 DEF CacheInv

LEMMA CacheNext == PoolInv /\ TxnInv /\ CacheInv /\ [SNext]_svars => CacheInv'
<1> SUFFICES ASSUME PoolInv, TxnInv, CacheInv, [SNext]_svars PROVE CacheInv'
  OBVIOUS
<1>1. ASSUME NEW h \in Handlers, EvalStep(h) PROVE CacheInv'
  BY <1>1, QuietStepKeeps, CheckVersionKeeps, ReloadVersionKeeps, GlobalGetKeeps,
     CommitUpdateKeeps, BumpVersionKeeps, ClearGlobalKeeps, ReleaseUpdateKeeps
     DEF EvalStep
<1>2. ASSUME NEW h \in Handlers, Receive(h) \/ Retry(h) \/ ReleaseSession(h) \/ SpuriousWakeup(h)
      PROVE  CacheInv'
  BY <1>2, QuietStepKeeps, RequestKeeps
<1>3. ASSUME UNCHANGED <<pc, sess, req, plan, schema, meta, version, cache, lversion, lcache>>
      PROVE  CacheInv'
  BY <1>3 DEF CacheInv, CacheTypes, PlansInv, EmptyCache, Current
<1>4. ASSUME NEW h \in Handlers, GetSchema(h) PROVE CacheInv'
  BY <1>3, <1>4 DEF GetSchema, handler, graph, global, local
<1>5. CASE UNCHANGED svars
  BY <1>3, <1>5 DEF svars, handler, graph, global, local
<1> QED
  BY <1>1, <1>2, <1>4, <1>5 DEF SNext, HandlerStep

ServiceInv == PoolInv /\ TxnInv /\ CacheInv

LEMMA ServiceInductive == SSpec => []ServiceInv
<1>1. SInit => ServiceInv
  BY PoolInit, TxnInit, CacheInit DEF ServiceInv
<1>2. ServiceInv /\ [SNext]_svars => ServiceInv'
  BY PoolNext, TxnNext, CacheNext DEF ServiceInv
<1> QED
  BY <1>1, <1>2, PTL DEF SSpec

\* Whichever cache a plan came from, and whatever schema changes committed
\* meanwhile, it runs on the schema it was compiled and parsed for, and on no
\* uncommitted change of another update (query_cache.h, neug_db_session.cc).
THEOREM PlansAreCurrent == SSpec => []PlanCurrent
<1>1. ServiceInv => PlanCurrent
  <2> SUFFICES ASSUME ServiceInv, NEW h \in Handlers, pc[h] = "exec"
               PROVE  plan[h] = Current /\ dirty = {}
    BY DEF PlanCurrent, At, Current
  <2>1. plan[h] = Current
    BY DEF ServiceInv, CacheInv, PlansInv
  <2>2. ASSUME dirty # {} PROVE FALSE
    <3>1. PICK g \in Handlers : pc[g] = "commit" /\ phase[sess[g]] = "update"
      BY <2>2 DEF ServiceInv, TxnInv
    <3>2. pc[h] \notin Active
      BY <3>1, UpdatesAlone DEF ServiceInv, Active
    <3> QED BY <3>2 DEF Active
  <2> QED BY <2>1, <2>2
<1> QED
  BY <1>1, ServiceInductive, PTL

\* Between update transactions the planner knows the schema of the graph and
\* no cache a session would use holds a plan for another one.
THEOREM CachesAreCurrent == SSpec => []CachesCurrent
<1>1. ServiceInv => CachesCurrent
  <2> SUFFICES ASSUME ServiceInv, \A s \in Sessions : phase[s] # "update"
               PROVE  /\ meta = schema
                      /\ \A q \in Queries :
                           /\ cache[q] \in {NoPlan, Current}
                           /\ \A s \in Sessions : lversion[s] = version =>
                                lcache[s][q] \in {NoPlan, Current}
    BY DEF CachesCurrent, Current
  <2>1. \A h \in Handlers : pc[h] \notin Clearing
    BY Zenon, SessionsDistinct, ActiveInside DEF ServiceInv, TxnInv
  <2> QED BY <2>1 DEF ServiceInv, CacheInv, PlansInv, Clearing
<1> QED
  BY <1>1, ServiceInductive, PTL
=============================================================================
