---------------------------- MODULE MCAccountAccess ----------------------------
\* Instances of AccountAccess for TLC.
EXTENDS AccountAccess, TLC

CONSTANTS u1, u2, o1, o2

TwoTenants == u1 :> o1 @@ u2 :> o2

Symmetric == Permutations(Handlers) \cup Permutations(Callers)
================================================================================
