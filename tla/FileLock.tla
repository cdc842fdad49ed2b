------------------------------ MODULE FileLock ------------------------------
(***************************************************************************)
(* FileLock, by which NeugDB::Open keeps two instances from working on one *)
(* directory.  Each database object has a FileLock with a descriptor of    *)
(* the lock file.  A table of the process, CurrentHoldDbs, arbitrates      *)
(* between the objects of a process, and the POSIX lock of the file        *)
(* between processes.  The POSIX lock belongs to the process: every        *)
(* F_UNLCK and every close of a descriptor of the file gives it up.        *)
(***************************************************************************)
EXTENDS Integers, FiniteSets

CONSTANTS
  Handles,   \* the database objects
  Process,   \* the process of each
  Modes      \* the modes each is opened in: a set of "read" and "write"

ASSUME LockAssumption ==
  /\ IsFiniteSet(Handles)
  /\ DOMAIN Process = Handles
  /\ Modes \in [Handles -> SUBSET {"read", "write"}]

Processes == {Process[h] : h \in Handles}

NotHeld == -1   \* the directory is not in opened_dbs_

VARIABLES
  pc,     \* where each handle is
  mode,   \* the mode of its last open
  held,   \* opened_dbs_ of each process: its count, or NotHeld
  posix   \* the POSIX lock of each process

fvars == <<pc, mode, held, posix>>

FInit ==
  /\ pc = [h \in Handles |-> "closed"]
  /\ mode = [h \in Handles |-> "read"]
  /\ held = [p \in Processes |-> NotHeld]
  /\ posix = [p \in Processes |-> "none"]

Of(p) == {h \in Handles : Process[h] = p}

Goto(h, place) == pc' = [pc EXCEPT ![h] = place]

\* The constructor opens the lock file.
Create(h) ==
  /\ pc[h] = "closed"
  /\ \E m \in Modes[h] : mode' = [mode EXCEPT ![h] = m]
  /\ Goto(h, "created")
  /\ UNCHANGED <<held, posix>>

\* CurrentHoldDbs::lock.  A writer is entered with the count 0.
HoldLock(h) ==
  LET p == Process[h]
      joins == held[p] > 0 /\ mode[h] = "read"
  IN  /\ pc[h] = "created"
      /\ IF held[p] = NotHeld \/ joins
         THEN /\ held' = [held EXCEPT ![p] = IF joins THEN @ + 1
                                             ELSE IF mode[h] = "read" THEN 1 ELSE 0]
              /\ Goto(h, "registered")
         ELSE Goto(h, "ended") /\ UNCHANGED held
      /\ UNCHANGED <<mode, posix>>

\* What the kernel grants.
Compatible(p, m) ==
  \A q \in Processes \ {p} : posix[q] = "none" \/ (posix[q] = "read" /\ m = "read")

\* Fault: the file is not locked by readers.
SetLock_WritersOnly(h) ==
  LET p == Process[h]
  IN  /\ pc[h] = "registered"
      /\ IF mode[h] = "read"
         THEN Goto(h, "locked") /\ UNCHANGED posix
         ELSE IF Compatible(p, mode[h])
              THEN posix' = [posix EXCEPT ![p] = mode[h]] /\ Goto(h, "locked")
              ELSE Goto(h, "refused") /\ UNCHANGED posix
      /\ UNCHANGED <<mode, held>>

\* F_SETLK, which replaces the lock the process has.
SetLock(h) ==
  LET p == Process[h]
  IN  /\ pc[h] = "registered"
      /\ IF Compatible(p, mode[h])
         THEN posix' = [posix EXCEPT ![p] = mode[h]] /\ Goto(h, "locked")
         ELSE Goto(h, "refused") /\ UNCHANGED posix
      /\ UNCHANGED <<mode, held>>

\* FileLock::unlock: first F_UNLCK,
Unlock(h) ==
  /\ pc[h] = "locked"
  /\ posix' = [posix EXCEPT ![Process[h]] = "none"]
  /\ Goto(h, "unlocked")
  /\ UNCHANGED <<mode, held>>

\* Fault: the entry of a refused open is left in the table.
HoldUnlock_Unlocked(h) ==
  LET p == Process[h]
      rest == IF pc[h] = "refused" THEN held[p] ELSE held[p] - 1
  IN  /\ pc[h] \in {"unlocked", "refused"}
      /\ held' = [held EXCEPT ![p] = IF rest <= 0 THEN NotHeld ELSE rest]
      /\ Goto(h, "ended")
      /\ UNCHANGED <<mode, posix>>

\* then CurrentHoldDbs::unlock, which a refused lock calls as well.
HoldUnlock(h) ==
  LET p == Process[h]
      rest == held[p] - 1
  IN  /\ pc[h] \in {"unlocked", "refused"}
      /\ held' = [held EXCEPT ![p] = IF rest <= 0 THEN NotHeld ELSE rest]
      /\ Goto(h, "ended")
      /\ UNCHANGED <<mode, posix>>

\* The destructor closes the descriptor.
Destroy(h) ==
  /\ pc[h] = "ended"
  /\ posix' = [posix EXCEPT ![Process[h]] = "none"]
  /\ Goto(h, "closed")
  /\ UNCHANGED <<mode, held>>

\* The process dies: its table is gone and the kernel drops its lock.
Crash(p) ==
  /\ \E h \in Of(p) : pc[h] # "closed"
  /\ pc' = [h \in Handles |-> IF h \in Of(p) THEN "closed" ELSE pc[h]]
  /\ held' = [held EXCEPT ![p] = NotHeld]
  /\ posix' = [posix EXCEPT ![p] = "none"]
  /\ UNCHANGED mode

Handle(h) ==
  Create(h) \/ HoldLock(h) \/ SetLock(h) \/ Unlock(h) \/ HoldUnlock(h) \/ Destroy(h)

FNext == (\E h \in Handles : Handle(h)) \/ (\E p \in Processes : Crash(p))

FSpec == FInit /\ [][FNext]_fvars

-----------------------------------------------------------------------------

\* Every process counts the handles that registered: none without an entry, a
\* writer alone under the entry 0, and otherwise the readers.
RegisteredExact ==
  \A p \in Processes :
    LET in == {h \in Of(p) : pc[h] \in {"registered", "locked", "unlocked", "refused"}}
    IN  \/ held[p] = NotHeld /\ in = {}
        \/ held[p] = 0 /\ Cardinality(in) = 1 /\ \A h \in in : mode[h] = "write"
        \/ held[p] = Cardinality(in) /\ in # {} /\ \A h \in in : mode[h] = "read"

\* Databases that are open at the same time are all read-only: whoever opened
\* for writing is alone, in its process and beyond.
Exclusive ==
  \A g, h \in Handles :
    g # h /\ pc[g] = "locked" /\ pc[h] = "locked" =>
      mode[g] = "read" /\ mode[h] = "read"

\* No other database of its process has given the file up under it.
Protected(h) == posix[Process[h]] # "none" \/ Of(Process[h]) = {h}

\* The same as far as the code keeps it: in a process, where the table decides,
\* and between the databases of two processes unless another database of one
\* of them unlocked or closed the lock file.
ExclusiveIfProtected ==
  \A g, h \in Handles :
    /\ g # h /\ pc[g] = "locked" /\ pc[h] = "locked"
    /\ Process[g] # Process[h] => Protected(g) /\ Protected(h)
    => mode[g] = "read" /\ mode[h] = "read"
=============================================================================
