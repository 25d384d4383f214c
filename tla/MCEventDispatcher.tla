------------------------- MODULE MCEventDispatcher -------------------------
(* Small instances of EventDispatcher for TLC. *)
EXTENDS EventDispatcher

CONSTANTS r1, r2

MCReceivers == {r1, r2}
MCBystanders == {r2}
MCTwoPriorities == {-1, 0}
MCUnbounded == {0}
MCTwoCapacities == {0, 2}
Symmetry == Permutations(Receivers)
=============================================================================
