----------------------------- MODULE MCProactive ------------------------------
(* Proactive with a few candidates and runs.                                *)
EXTENDS Proactive

CONSTANTS c1, c2

mcWorker == {Holder}
mcOneRun == 1 .. 1
mcTwoRuns == 1 .. 2
mcThreeRuns == 1 .. 3
mcSymmetry == Permutations(Candidate)
===============================================================================
