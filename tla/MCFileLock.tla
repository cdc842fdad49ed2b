----------------------------- MODULE MCFileLock -----------------------------
(***************************************************************************)
(* FileLock for TLC: each handle in a process of its own, all handles in   *)
(* one process, and two handles that share a process.                      *)
(***************************************************************************)
EXTENDS FileLock, TLC

CONSTANTS h1, h2, h3, p1, p2, p3

MCApart == h1 :> p1 @@ h2 :> p2 @@ h3 :> p3
MCTogether == h1 :> p1 @@ h2 :> p1 @@ h3 :> p1
MCShared == h1 :> p1 @@ h2 :> p1 @@ h3 :> p2

MCAnyMode == [h \in Handles |-> {"read", "write"}]
MCTwoReaders == h1 :> {"read"} @@ h2 :> {"read"} @@ h3 :> {"write"}
MCWriters == [h \in Handles |-> {"write"}]
=============================================================================
