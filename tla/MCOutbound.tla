------------------------------ MODULE MCOutbound ------------------------------
(* Outbound with one session that has two replies, a scheduled and a        *)
(* proactive message: every origin shares its lock with every other.        *)
EXTENDS Outbound, TLC

CONSTANTS r1, r2, t1, p1, s1

mcMessage == {r1, r2, t1, p1}
mcSession == {s1}
mcWorker == {s1, Recovery}
mcSessionOf == [m \in mcMessage |-> s1]
mcOrigin == r1 :> "reactive" @@ r2 :> "reactive"
            @@ t1 :> "scheduled" @@ p1 :> "proactive"

\* The two replies may be exchanged.
mcSymmetry == Permutations({r1, r2})

\* One message of each origin, for the liveness runs.
liveMessage == {r1, t1, p1}
liveSessionOf == [m \in liveMessage |-> s1]
liveOrigin == [m \in liveMessage |-> mcOrigin[m]]
===============================================================================
