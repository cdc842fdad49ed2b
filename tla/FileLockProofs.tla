--------------------------- MODULE FileLockProofs ---------------------------
(***************************************************************************)
(* Proofs about FileLock for every number of database objects, spread over *)
(* any number of processes.                                                *)
(***************************************************************************)
EXTENDS FileLock, FiniteSetTheorems, TLAPS

Types ==
  /\ pc \in [Handles -> {"closed", "created", "registered", "locked", "unlocked",
                         "refused", "ended"}]
  /\ mode \in [Handles -> {"read", "write"}]
  /\ held \in [Processes -> Int]
  /\ posix \in [Processes -> {"none", "read", "write"}]

\* The handles that opened_dbs_ of a process counts.
In(p) == {h \in Of(p) : pc[h] \in {"registered", "locked", "unlocked", "refused"}}

Counted(p) ==
  \/ held[p] = NotHeld /\ In(p) = {}
  \/ held[p] = 0 /\ Cardinality(In(p)) = 1 /\ \A h \in In(p) : mode[h] = "write"
  \/ held[p] = Cardinality(In(p)) /\ In(p) # {} /\ \A h \in In(p) : mode[h] = "read"

(***************************************************************************)
(* The inductive invariant.  A POSIX lock that the process still has is    *)
(* the one its open databases asked for (the table lets only readers share *)
(* a process), the only database of a process never loses it, and the      *)
(* kernel grants two processes read locks only.                            *)
(***************************************************************************)
LocksOK ==
  /\ \A h \in Handles :
       pc[h] = "locked" /\ Protected(h) => posix[Process[h]] = mode[h]
  /\ \A p, q \in Processes :
       p # q /\ posix[p] # "none" /\ posix[q] # "none" =>
         posix[p] = "read" /\ posix[q] = "read"

LockInv == Types /\ (\A p \in Processes : Counted(p)) /\ LocksOK

LEMMA InFinite == \A p \in Processes : IsFiniteSet(In(p)) /\ Cardinality(In(p)) \in Nat
  BY LockAssumption, FS_Subset, FS_CardinalityType DEF In, Of

LEMMA ProcessOf == \A h \in Handles : Process[h] \in Processes /\ h \in Of(Process[h])
  BY DEF Processes, Of

\* Databases that share a process are all readers.
LEMMA SharersRead ==
  ASSUME LockInv, NEW g \in Handles, NEW h \in Handles, g # h,
         Process[g] = Process[h], g \in In(Process[g]), h \in In(Process[h])
  PROVE  mode[g] = "read" /\ mode[h] = "read"
<1> DEFINE p == Process[g]
<1>1. g \in In(p) /\ h \in In(p) /\ p \in Processes
  BY ProcessOf
<1>2. Cardinality(In(p)) # 1
  BY <1>1, InFinite, FS_Singleton
<1> QED
  BY <1>1, <1>2 DEF LockInv, Counted

LEMMA LockInit == FInit => LockInv
<1> SUFFICES ASSUME FInit PROVE LockInv
  OBVIOUS
<1>1. \A p \in Processes : In(p) = {}
  BY DEF FInit, In, Of
<1> QED
  BY <1>1, ProcessOf DEF FInit, LockInv, Types, Counted, LocksOK, NotHeld

\* A step that leaves the table, the registered handles and their modes alone.
LEMMA TableKept ==
  ASSUME LockInv, held' = held, \A p \in Processes : In(p)' = In(p),
         \A h \in Handles : h \in In(Process[h]) => mode'[h] = mode[h]
  PROVE  \A p \in Processes : Counted(p)'
<1> SUFFICES ASSUME NEW p \in Processes PROVE Counted(p)'
  OBVIOUS
<1>1. Counted(p) /\ In(p)' = In(p) /\ \A h \in In(p) : mode'[h] = mode[h]
  BY DEF LockInv, In, Of
<1> QED
  BY <1>1 DEF Counted, NotHeld

\* A step that leaves the POSIX locks alone and locks no handle.
LEMMA LocksKept ==
  ASSUME LockInv, posix' = posix,
         \A g \in Handles : pc'[g] = "locked" => pc[g] = "locked" /\ mode'[g] = mode[g]
  PROVE  LocksOK'
BY DEF LockInv, LocksOK, Protected

\* A step that gives up the lock of p: a database still open in p shares it.
LEMMA LocksDropped ==
  ASSUME LockInv, NEW p \in Processes, posix' = [posix EXCEPT ![p] = "none"],
         \A g \in Handles : pc'[g] = "locked" =>
           pc[g] = "locked" /\ mode'[g] = mode[g] /\ (Process[g] = p => Of(p) # {g})
  PROVE  LocksOK'
<1>1. posix'[p] = "none" /\ \A q \in Processes : q # p => posix'[q] = posix[q]
  BY DEF LockInv, Types
<1>2. ASSUME NEW g \in Handles, pc'[g] = "locked", Protected(g)'
      PROVE  posix'[Process[g]] = mode'[g]
  <2>1. Process[g] # p
    BY <1>1, <1>2 DEF Protected
  <2>2. Protected(g)
    BY <1>1, <1>2, <2>1, ProcessOf DEF Protected
  <2> QED
    BY <1>1, <1>2, <2>1, <2>2, ProcessOf DEF LockInv, LocksOK
<1>3. \A q, r \in Processes :
        q # r /\ posix'[q] # "none" /\ posix'[r] # "none" =>
          posix'[q] = "read" /\ posix'[r] = "read"
  BY <1>1 DEF LockInv, LocksOK
<1> QED
  BY <1>2, <1>3 DEF LocksOK

LEMMA CreateKeeps ==
  ASSUME LockInv, NEW h \in Handles, Create(h)
  PROVE  LockInv'
<1>1. /\ pc[h] = "closed" /\ pc' = [pc EXCEPT ![h] = "created"] /\ held' = held /\ posix' = posix
      /\ mode' \in [Handles -> {"read", "write"}]
      /\ \A g \in Handles : g # h => mode'[g] = mode[g]
  BY LockAssumption DEF Create, Goto, LockInv, Types
<1>2. Types'
  BY <1>1 DEF LockInv, Types
<1>3. \A p \in Processes : Counted(p)'
  BY <1>1, TableKept DEF LockInv, Types, In
<1>4. LocksOK'
  BY <1>1, LocksKept DEF LockInv, Types
<1> QED
  BY <1>2, <1>3, <1>4 DEF LockInv

\* CurrentHoldDbs::lock counts one more handle or refuses it.
LEMMA HoldLockKeeps ==
  ASSUME LockInv, NEW h \in Handles, HoldLock(h)
  PROVE  LockInv'
<1> DEFINE p == Process[h]
           joins == held[p] > 0 /\ mode[h] = "read"
<1>1. pc[h] = "created" /\ mode' = mode /\ posix' = posix /\ p \in Processes
  BY ProcessOf DEF HoldLock
<1>2. CASE held[p] = NotHeld \/ joins
  <2>1. /\ pc' = [pc EXCEPT ![h] = "registered"]
        /\ held' = [held EXCEPT ![p] = IF joins THEN held[p] + 1
                                       ELSE IF mode[h] = "read" THEN 1 ELSE 0]
    BY <1>2 DEF HoldLock, Goto
  <2>2. Types'
    BY <1>1, <2>1 DEF LockInv, Types
  <2>3. h \notin In(p) /\ In(p)' = In(p) \union {h} /\ \A q \in Processes : q # p => In(q)' = In(q)
    BY <1>1, <2>1, ProcessOf DEF LockInv, Types, In, Of
  <2>4. Cardinality(In(p)') = Cardinality(In(p)) + 1 /\ Cardinality(In(p)) \in Nat
    BY <1>1, <2>3, InFinite, FS_AddElement, Zenon
  <2>5. \A q \in Processes : q # p => Counted(q)'
    BY <1>1, <2>1, <2>3 DEF LockInv, Types, Counted, NotHeld
  <2>6. ASSUME held[p] = NotHeld PROVE Counted(p)'
    <3>1. In(p) = {} /\ Cardinality(In(p)) = 0
      BY <1>1, <2>4, <2>6, FS_EmptySet DEF LockInv, Counted, NotHeld
    <3>2. held'[p] = IF mode[h] = "read" THEN 1 ELSE 0
      BY <1>1, <2>1, <2>6 DEF LockInv, Types, NotHeld
    <3> QED
      BY <1>1, <2>3, <2>4, <3>1, <3>2 DEF LockInv, Types, Counted, NotHeld
  <2>7. ASSUME joins PROVE Counted(p)'
    <3>1. held[p] = Cardinality(In(p)) /\ \A g \in In(p) : mode[g] = "read"
      BY <1>1, <2>7 DEF LockInv, Counted, NotHeld
    <3>2. held'[p] = held[p] + 1
      BY <1>1, <2>1, <2>7 DEF LockInv, Types
    <3> QED
      BY <1>1, <2>3, <2>4, <2>7, <3>1, <3>2 DEF Counted
  <2>8. LocksOK'
    BY <1>1, <2>1, LocksKept DEF LockInv, Types
  <2> QED
    BY <1>2, <2>2, <2>5, <2>6, <2>7, <2>8 DEF LockInv
<1>3. CASE ~(held[p] = NotHeld \/ joins)
  <2>1. pc' = [pc EXCEPT ![h] = "ended"] /\ held' = held
    BY <1>3 DEF HoldLock, Goto
  <2>2. Types'
    BY <1>1, <2>1 DEF LockInv, Types
  <2>3. \A q \in Processes : Counted(q)'
    BY <1>1, <2>1, TableKept DEF LockInv, Types, In
  <2>4. LocksOK'
    BY <1>1, <2>1, LocksKept DEF LockInv, Types
  <2> QED
    BY <2>2, <2>3, <2>4 DEF LockInv
<1> QED
  BY <1>2, <1>3

\* F_SETLK: the handle is locked with the lock it asked for, or refused.
LEMMA SetLockKeeps ==
  ASSUME LockInv, NEW h \in Handles, SetLock(h)
  PROVE  LockInv'
<1> DEFINE p == Process[h]
<1>1. /\ pc[h] = "registered" /\ mode' = mode /\ held' = held /\ p \in Processes
      /\ \/ pc' = [pc EXCEPT ![h] = "locked"] /\ Compatible(p, mode[h])
            /\ posix' = [posix EXCEPT ![p] = mode[h]]
         \/ pc' = [pc EXCEPT ![h] = "refused"] /\ posix' = posix
  BY ProcessOf DEF SetLock, Goto
<1>2. Types'
  BY <1>1 DEF LockInv, Types
<1>3. \A q \in Processes : Counted(q)'
  <2>1. \A q \in Processes : In(q)' = In(q)
    BY <1>1 DEF LockInv, Types, In, Of
  <2> QED
    BY <1>1, <2>1, TableKept
<1>4. CASE pc' = [pc EXCEPT ![h] = "refused"] /\ posix' = posix
  <2>1. LocksOK'
    BY <1>1, <1>4, LocksKept DEF LockInv, Types
  <2> QED
    BY <1>2, <1>3, <2>1 DEF LockInv
<1>5. CASE /\ pc' = [pc EXCEPT ![h] = "locked"] /\ Compatible(p, mode[h])
           /\ posix' = [posix EXCEPT ![p] = mode[h]]
  <2>1. posix'[p] = mode[h] /\ \A q \in Processes : q # p => posix'[q] = posix[q]
    BY <1>1, <1>5 DEF LockInv, Types
  <2>2. ASSUME NEW g \in Handles, pc'[g] = "locked", Protected(g)'
        PROVE  posix'[Process[g]] = mode'[g]
    <3>1. CASE g = h
      BY <1>1, <2>1, <3>1
    <3>2. CASE g # h /\ Process[g] = p
      <4>1. g \in In(p) /\ h \in In(p)
        BY <1>1, <1>5, <2>2, <3>2, ProcessOf DEF LockInv, Types, In, Of
      <4> QED
        BY <1>1, <2>1, <3>2, <4>1, SharersRead
    <3>3. CASE Process[g] # p
      <4>1. pc[g] = "locked" /\ Protected(g)
        BY <1>5, <2>1, <2>2, <3>3, ProcessOf DEF LockInv, Types, Protected
      <4> QED
        BY <1>1, <2>1, <3>3, <4>1, ProcessOf DEF LockInv, LocksOK
    <3> QED
      BY <3>1, <3>2, <3>3
  <2>3. \A q \in Processes : q # p /\ posix[q] # "none" => posix[q] = "read" /\ mode[h] = "read"
    BY <1>5 DEF Compatible
  <2>4. \A q, r \in Processes :
          q # r /\ posix'[q] # "none" /\ posix'[r] # "none" =>
            posix'[q] = "read" /\ posix'[r] = "read"
    BY <2>1, <2>3 DEF LockInv, LocksOK
  <2> QED
    BY <1>2, <1>3, <2>2, <2>4 DEF LockInv, LocksOK
<1> QED
  BY <1>1, <1>4, <1>5

\* F_UNLCK, and the close of a descriptor: the lock of the process is gone.
LEMMA GiveUpKeeps ==
  ASSUME LockInv, NEW h \in Handles, Unlock(h) \/ Destroy(h)
  PROVE  LockInv'
<1> DEFINE p == Process[h]
<1>1. /\ mode' = mode /\ held' = held /\ p \in Processes /\ h \in Of(p)
      /\ posix' = [posix EXCEPT ![p] = "none"]
      /\ \/ pc[h] = "locked" /\ pc' = [pc EXCEPT ![h] = "unlocked"]
         \/ pc[h] = "ended" /\ pc' = [pc EXCEPT ![h] = "closed"]
  BY ProcessOf DEF Unlock, Destroy, Goto
<1>2. Types'
  BY <1>1 DEF LockInv, Types
<1>3. \A q \in Processes : Counted(q)'
  <2>1. \A q \in Processes : In(q)' = In(q)
    BY <1>1 DEF LockInv, Types, In, Of
  <2> QED
    BY <1>1, <2>1, TableKept
<1>4. \A g \in Handles : pc'[g] = "locked" => pc[g] = "locked" /\ g # h
  BY <1>1 DEF LockInv, Types
<1>5. \A g \in Handles : g # h => Of(p) # {g}
  BY <1>1
<1>6. LocksOK'
  BY <1>1, <1>4, <1>5, LocksDropped
<1> QED
  BY <1>2, <1>3, <1>6 DEF LockInv

\* CurrentHoldDbs::unlock counts one handle less.
LEMMA HoldUnlockKeeps ==
  ASSUME LockInv, NEW h \in Handles, HoldUnlock(h)
  PROVE  LockInv'
<1> DEFINE p == Process[h]
           rest == held[p] - 1
<1>1. /\ pc[h] \in {"unlocked", "refused"} /\ mode' = mode /\ posix' = posix /\ p \in Processes
      /\ pc' = [pc EXCEPT ![h] = "ended"]
      /\ held' = [held EXCEPT ![p] = IF rest <= 0 THEN NotHeld ELSE rest]
  BY ProcessOf DEF HoldUnlock, Goto
<1>2. Types'
  BY <1>1 DEF LockInv, Types, NotHeld
<1>3. h \in In(p) /\ In(p)' = In(p) \ {h} /\ \A q \in Processes : q # p => In(q)' = In(q)
  BY <1>1, ProcessOf DEF LockInv, Types, In, Of
<1>4. /\ IsFiniteSet(In(p)') /\ Cardinality(In(p)') = Cardinality(In(p)) - 1
      /\ Cardinality(In(p)) \in Nat
  BY <1>1, <1>3, InFinite, FS_RemoveElement
<1>5. \A q \in Processes : q # p => Counted(q)'
  BY <1>1, <1>3 DEF LockInv, Types, Counted, NotHeld
<1>6. Cardinality(In(p)') = 0 <=> In(p)' = {}
  BY <1>4, FS_EmptySet
<1>7. held'[p] = IF rest <= 0 THEN NotHeld ELSE rest
  BY <1>1 DEF LockInv, Types
<1>8. \/ held[p] = 0 /\ Cardinality(In(p)) = 1
      \/ held[p] = Cardinality(In(p)) /\ \A g \in In(p) : mode[g] = "read"
  BY <1>1, <1>3 DEF LockInv, Counted
<1>9. Counted(p)'
  <2>1. CASE Cardinality(In(p)) = 1
    BY <1>4, <1>6, <1>7, <1>8, <2>1 DEF Counted, NotHeld
  <2>2. CASE Cardinality(In(p)) # 1
    <3>1. held[p] = Cardinality(In(p)) /\ \A g \in In(p) : mode[g] = "read"
      BY <1>8, <2>2
    <3>2. Cardinality(In(p)) # 0
      BY <1>1, <1>3, InFinite, FS_EmptySet
    <3> QED
      BY <1>1, <1>3, <1>4, <1>6, <1>7, <2>2, <3>1, <3>2 DEF Counted, NotHeld
  <2> QED
    BY <2>1, <2>2
<1>10. LocksOK'
  BY <1>1, LocksKept DEF LockInv, Types
<1> QED
  BY <1>2, <1>5, <1>9, <1>10 DEF LockInv

\* A process that dies leaves neither entry nor lock.
LEMMA CrashKeeps ==
  ASSUME LockInv, NEW p \in Processes, Crash(p)
  PROVE  LockInv'
<1>1. /\ pc' = [h \in Handles |-> IF h \in Of(p) THEN "closed" ELSE pc[h]] /\ mode' = mode
      /\ held' = [held EXCEPT ![p] = NotHeld] /\ posix' = [posix EXCEPT ![p] = "none"]
  BY DEF Crash
<1>2. Types'
  BY <1>1 DEF LockInv, Types, NotHeld
<1>3. In(p)' = {} /\ \A q \in Processes : q # p => In(q)' = In(q)
  BY <1>1 DEF In, Of
<1>4. \A q \in Processes : Counted(q)'
  BY <1>1, <1>3 DEF LockInv, Types, Counted, NotHeld
<1>5. \A g \in Handles : pc'[g] = "locked" => pc[g] = "locked" /\ Process[g] # p
  BY <1>1 DEF Of
<1>6. LocksOK'
  BY <1>1, <1>5, LocksDropped
<1> QED
  BY <1>2, <1>4, <1>6 DEF LockInv

-----------------------------------------------------------------------------

LEMMA LockStep == LockInv /\ [FNext]_fvars => LockInv'
<1> SUFFICES ASSUME LockInv, [FNext]_fvars PROVE LockInv'
  OBVIOUS
<1>1. ASSUME NEW h \in Handles, Handle(h) PROVE LockInv'
  BY <1>1, CreateKeeps, HoldLockKeeps, SetLockKeeps, GiveUpKeeps, HoldUnlockKeeps DEF Handle
<1>2. ASSUME NEW p \in Processes, Crash(p) PROVE LockInv'
  BY <1>2, CrashKeeps
<1>3. CASE UNCHANGED fvars
  BY <1>3 DEF fvars, LockInv, Types, Counted, In, LocksOK, Protected, NotHeld
<1> QED
  BY <1>1, <1>2, <1>3 DEF FNext

(***************************************************************************)
(* The table, the POSIX locks and the handles keep the inductive invariant.*)
(***************************************************************************)
THEOREM LockInvariant == FSpec => []LockInv
  BY LockInit, LockStep, PTL DEF FSpec

(***************************************************************************)
(* opened_dbs_ of every process counts exactly the databases that          *)
(* registered, refused opens and crashes included.                         *)
(***************************************************************************)
THEOREM TableIsExact == FSpec => []RegisteredExact
<1>1. LockInv => RegisteredExact
  BY DEF LockInv, Counted, In, RegisteredExact
<1> QED
  BY <1>1, LockInvariant, PTL

(***************************************************************************)
(* NeugDB::Open lets a writer in only when it is alone, as long as no      *)
(* database of a process unlocked or closed the lock file under another.   *)
(***************************************************************************)
THEOREM WritersAreAlone == FSpec => []ExclusiveIfProtected
<1>1. ASSUME LockInv, NEW g \in Handles, NEW h \in Handles,
             g # h, pc[g] = "locked", pc[h] = "locked",
             Process[g] # Process[h] => Protected(g) /\ Protected(h)
      PROVE  mode[g] = "read" /\ mode[h] = "read"
  <2>1. CASE Process[g] = Process[h]
    <3>1. g \in In(Process[g]) /\ h \in In(Process[h])
      BY <1>1, ProcessOf DEF In
    <3> QED
      BY <1>1, <2>1, <3>1, SharersRead
  <2>2. CASE Process[g] # Process[h]
    <3>1. posix[Process[g]] = mode[g] /\ posix[Process[h]] = mode[h]
      BY <1>1, <2>2 DEF LockInv, LocksOK
    <3>2. mode[g] # "none" /\ mode[h] # "none"
      BY <1>1 DEF LockInv, Types
    <3> QED
      BY <1>1, <2>2, <3>1, <3>2, ProcessOf DEF LockInv, LocksOK
  <2> QED
    BY <2>1, <2>2
<1>2. LockInv => ExclusiveIfProtected
  BY <1>1 DEF ExclusiveIfProtected
<1> QED
  BY <1>2, LockInvariant, PTL
=============================================================================
