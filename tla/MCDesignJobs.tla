---------------------------- MODULE MCDesignJobs ----------------------------
EXTENDS DesignJobs, TLC
CONSTANTS o1, o2, p1, p2
\* One project per organisation, or two projects of one organisation.
TwoTenants == (p1 :> o1) @@ (p2 :> o2)
OneTenant == (p1 :> o1)
Symmetric == Permutations(Requests) \cup Permutations(Workers)
===============================================================================
