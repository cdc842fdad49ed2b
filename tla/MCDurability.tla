---------------------------- MODULE MCDurability ----------------------------
\* Instances of Durability for TLC.
EXTENDS Durability

CONSTANTS s1, s2, k1, k2

\* Each client inserts its own key.
MCOwnKeys == (s1 :> {k1}) @@ (s2 :> {k2})

\* The clients are alike: they may be exchanged, each with its own key.
MCExchange ==
  {f \in Permutations({s1, s2, k1, k2}) :
     \A s \in {s1, s2} : /\ f[s] \in {s1, s2}
                         /\ {f[k] : k \in MCOwnKeys[s]} = MCOwnKeys[f[s]]}

\* Both clients insert any key.
MCSharedKeys == (s1 :> {k1, k2}) @@ (s2 :> {k1, k2})
=============================================================================
