------------------------------- MODULE MCMemory -------------------------------
(* Memory with two messages, a run of either kind and one console.          *)
EXTENDS Memory

CONSTANTS m1, m2, a1, p1
===============================================================================
