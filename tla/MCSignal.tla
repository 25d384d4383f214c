------------------------------ MODULE MCSignal ------------------------------
(* Small instances of Signal for TLC. *)
EXTENDS Signal

CONSTANTS t1, t2, r1, r2

MCThreads == {t1, t2}
MCReceivers == {r1, r2}
MCHome == r1 :> t1 @@ r2 :> t2

\* The two threads are alike, and so are their objects: swap both at once.
MCSymmetry ==
    {f \in Permutations(MCThreads \cup MCReceivers) :
        \A r \in MCReceivers : f[r] \in MCReceivers /\ f[MCHome[r]] = MCHome[f[r]]}
=============================================================================
