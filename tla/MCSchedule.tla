------------------------------ MODULE MCSchedule ------------------------------
(* Schedule with one or two tasks on a short clock.                         *)
EXTENDS Schedule

CONSTANTS s1, s2, e1, e2

mcMessage == Schedule \X Slot
mcWorker == {Holder}

\* s1 comes twice, so that a run of it may still be under way when the next is
\* due; s2 is a single reminder (COUNT=1).
mcRule == [s \in Schedule |-> (IF s = s1 THEN {1, 2} ELSE {2}) \cap Time]
===============================================================================
