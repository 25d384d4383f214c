---------------------------- MODULE MCAnimation -----------------------------
EXTENDS Animation, TLC

CONSTANTS a1, a2

\* -1 and 0 are refused or corrected; a run takes a step, or a step and a half.
MCDurations == {-1, 1}
MCLoopCounts == {-1, 0}
MCSteps == {-1, 0, 3}

\* At once, twice and for ever; from where the property is, or from a given value.
MCMade ==
    {[New EXCEPT !.duration = 2, !.loopCount = 2, !.to = 2],
     [New EXCEPT !.duration = 2, !.loopCount = -1, !.to = 2, !.from = 1, !.hasFrom = TRUE],
     [New EXCEPT !.to = 1]}
Symmetry == Permutations(Animations)

=============================================================================
