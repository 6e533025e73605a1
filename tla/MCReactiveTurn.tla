---------------------------- MODULE MCReactiveTurn ----------------------------
(* ReactiveTurn on small bounds; the two inbound messages are symmetric.    *)
EXTENDS ReactiveTurn, TLC

CONSTANTS a, b

mcMessage == Turn \X Bubble
mcWorker == {Holder}
mcSymmetry == Permutations(Inbound)

(* A clearing and a repeated message are looked at apart from each other    *)
(* and from retries and stops; a crash may come with any of them.           *)
mcApart ==
  LET Kinds == {k \in Bounded \ {"crash"} : spent[k] > 0} IN
    Kinds \subseteq {"retry", "stop"} \/ Cardinality(Kinds) = 1
===============================================================================
