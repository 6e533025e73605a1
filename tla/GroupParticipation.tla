-------------------------- MODULE GroupParticipation --------------------------
(***************************************************************************)
(* How often the agent speaks in one group when nobody addressed it: a     *)
(* pause after each reply, a longer and longer one after turns in which    *)
(* nothing was worth an answer, both forgotten after a quiet time.  Turns, *)
(* retries by hand and the recovery after a start hold the lock of the     *)
(* session; the platform is connected before that recovery.                *)
(***************************************************************************)
EXTENDS Integers, Sequences, FiniteSets

CONSTANTS None,
          Cooldown,        \* what the user may set cooldown_seconds to
          Quiet,           \* the 300 seconds that end a back-off
          Bubbles,         \* most messages of one reply
          Lag,             \* how late a message may arrive
          MaxTime, MaxTurns, MaxChanges, MaxRetries, MaxFaults   \* bounds

VARIABLES now,
          policy,     \* the row of group_participation_policies
          pending,    \* what a turn took and did not answer: [newest, forced], or None
          turn,       \* the turn in progress
          replies,    \* turns decided to reply, and the state of their messages
          sending,    \* the batch being sent: [reply, bubble, retry, recovery], or None
          left,       \* batches the recovery of this start has before it
          n
vars == <<now, policy, pending, turn, replies, sending, left, n>>

NoTurn == [pc |-> "none"]
Free == turn = NoTurn /\ sending = None
Least(a, b) == IF a < b THEN a ELSE b
Most(a, b) == IF a > b THEN a ELSE b

Init == /\ now = 0 /\ pending = None /\ turn = NoTurn /\ replies = <<>> /\ sending = None
        /\ \E c \in Cooldown :
             policy = [silent |-> FALSE, cooldown |-> c, streak |-> 0, until |-> None, reply |-> None,
                       last |-> None, ewma |-> None]
        /\ left = {} /\ n = [turns |-> 0, changes |-> 0, retries |-> 0, faults |-> 0]

Count(c, most) == n[c] < most /\ n' = [n EXCEPT ![c] = @ + 1]
Tick == now < MaxTime /\ now' = now + 1 /\ UNCHANGED <<policy, pending, turn, replies, sending, left, n>>

Together(a, b) == IF None \in {a, b} THEN IF a = None THEN b ELSE a
                  ELSE [newest |-> Most(a.newest, b.newest), forced |-> a.forced \/ b.forced]
(* What a turn finds: messages that came since the last one, some of them  *)
(* late, with those a turn that did not end had taken.                     *)
Message == [newest : Most(0, now - Lag)..now, forced : BOOLEAN] \cup {None}

Configure == /\ Free /\ Count("changes", MaxChanges)
             /\ \E c \in Cooldown, s \in BOOLEAN :
                  /\ policy' = [policy EXCEPT !.cooldown = c, !.silent = s]
                  /\ policy' # policy
             /\ UNCHANGED <<now, pending, turn, replies, sending, left>>

---------------------------------------------------------------------------
(* The decision.  Times are whole units, and the average is rounded down.  *)
Ladder == <<1, 1, 2, 3, 5, 8>>
Backoff(c, streak) == c * Ladder[Least(streak, 5) + 1]
Observed(at) == IF policy.last = None \/ (policy.last # None /\ at <= policy.last) THEN None
                ELSE at - policy.last
Average(seen) == IF seen = None THEN policy.ewma
                 ELSE IF policy.ewma = None THEN seen ELSE (seen + 3 * policy.ewma) \div 4

(* What the gate makes of the state: a message that is not newer than the  *)
(* last one counts like one after a quiet time.                            *)
Cleared(at) == Observed(at) = None \/ Observed(at) >= Quiet
Cooling == policy.reply # None /\ now - policy.reply < policy.cooldown
Compensation(at) ==
  IF Observed(at) = None \/ policy.ewma = None THEN 0
  ELSE Least(Backoff(policy.cooldown, IF Cleared(at) THEN 0 ELSE policy.streak),
             Most(0, Observed(at) - policy.ewma))
Backing(at) == /\ ~Cleared(at) /\ policy.until # None
               /\ policy.until - now - Compensation(at) > 0
Gated(at) == policy.silent \/ Cooling \/ Backing(at)

(* Whether an ordinary batch scores high enough is a matter of its text:   *)
(* questions, requests, how many have piled up.                            *)
Score == BOOLEAN

(* A turn.  Text of some length is given to a model to understand.         *)
Decide ==
  /\ Free /\ Count("turns", MaxTurns)
  /\ \E m \in Message, worth \in Score, long \in BOOLEAN :
       LET batch == Together(pending, m)
           gated == ~batch.forced /\ Gated(batch.newest)
           speak == batch.forced \/ (~gated /\ worth)
       IN /\ batch # None /\ (long => ~gated /\ (worth = batch.forced))
          /\ turn' = [pc |-> IF long THEN "understand" ELSE "save",
                      batch |-> batch, snap |-> now,
                      reply |-> speak, idle |-> ~speak /\ ~gated]
  /\ pending' = None
  /\ UNCHANGED <<now, policy, replies, sending, left>>
Understand == /\ turn.pc = "understand"
              /\ \E worth \in BOOLEAN :
                   turn' = IF turn.batch.forced THEN [turn EXCEPT !.pc = "save"]
                           ELSE [turn EXCEPT !.pc = "save", !.reply = worth, !.idle = ~worth]
              /\ UNCHANGED <<now, policy, pending, replies, sending, left, n>>

(* What the transaction of the turn makes of the state: here only a first  *)
(* message or a quiet time clears it.  The state_version it compares never *)
(* differs, for what moves it holds the lock of the session.               *)
Renewed(at) == policy.last = None \/ (Observed(at) # None /\ Observed(at) >= Quiet)
Advanced ==
  LET at == turn.batch.newest
      streak == IF Renewed(at) THEN 0 ELSE policy.streak
      until == IF Renewed(at) THEN None ELSE policy.until
  IN [policy EXCEPT !.streak = IF turn.idle THEN streak + 1 ELSE streak,
                    !.until = IF turn.idle THEN turn.snap + Backoff(policy.cooldown, streak + 1) ELSE until,
                    !.last = IF policy.last = None THEN at ELSE Most(policy.last, at),
                    !.ewma = Average(Observed(at))]
Save == /\ turn.pc = "save"
        /\ policy' = Advanced
        /\ IF turn.reply
           THEN /\ replies' = Append(replies, [forced |-> turn.batch.forced, bubble |-> <<>>,
                                               recorded |-> FALSE])
                /\ turn' = [pc |-> "generate", reply |-> Len(replies) + 1, retry |-> FALSE]
           ELSE turn' = NoTurn /\ UNCHANGED replies
        /\ UNCHANGED <<now, pending, sending, left, n>>
TurnFails == /\ turn.pc = "understand"
             /\ turn' = NoTurn /\ pending' = turn.batch
             /\ UNCHANGED <<now, policy, replies, sending, left, n>>

---------------------------------------------------------------------------
(* The reply: its messages are prepared together and sent in order.        *)
Prepared(k) == [b \in 1..k |-> [status |-> IF b = 1 THEN "prepared" ELSE "blocked", at |-> None]]
Generate ==
  /\ turn.pc = "generate" /\ turn' = NoTurn
  /\ \/ \E k \in 1..Bubbles :
          /\ replies' = [replies EXCEPT ![turn.reply].bubble = Prepared(k)]
          /\ sending' = [reply |-> turn.reply, bubble |-> 1, retry |-> FALSE, recovery |-> FALSE]
     \/ UNCHANGED <<replies, sending>>
  /\ UNCHANGED <<now, policy, pending, left, n>>

Current == replies[sending.reply].bubble[sending.bubble]
Set(b) == [replies EXCEPT ![sending.reply].bubble = [@ EXCEPT ![sending.bubble] = b]]
Send == /\ sending # None
        /\ \/ Current.status \in {"prepared", "blocked"}
           \/ Current.status = "failed" /\ sending.retry
        /\ \E s \in {"sent", "failed", "unknown"} :
             /\ replies' = Set([status |-> s, at |-> IF s = "sent" THEN now ELSE None])
             /\ sending' = IF s = "sent" THEN sending ELSE None
        /\ UNCHANGED <<now, policy, pending, turn, left, n>>
Halt == /\ sending # None
        /\ \/ Current.status \in {"unknown", "dispatching"}
           \/ Current.status = "failed" /\ ~sending.retry
        /\ replies' = Set([Current EXCEPT !.status = IF @ = "dispatching" THEN "unknown" ELSE @])
        /\ sending' = None
        /\ UNCHANGED <<now, policy, pending, turn, left, n>>

(* A sent message becomes history; the first of an ordinary reply to do so *)
(* ends the back-off and starts the pause.                                 *)
Record(at) == [policy EXCEPT !.streak = 0, !.until = None,
                             !.reply = IF @ = None THEN at ELSE Most(@, at)]
(* Mutant: the pause starts with the reply recorded last.                  *)
RecordLast(at) == [policy EXCEPT !.streak = 0, !.until = None, !.reply = at]
Recorded(at) == Record(at)
Commit ==
  /\ sending # None /\ Current.status \in {"sent", "shown"}
  /\ policy' = IF replies[sending.reply].recorded \/ replies[sending.reply].forced THEN policy
               ELSE Recorded(Current.at)
  /\ replies' = [Set([Current EXCEPT !.status = "shown"]) EXCEPT ![sending.reply].recorded = TRUE]
  /\ sending' = IF sending.bubble < Len(replies[sending.reply].bubble)
                THEN [sending EXCEPT !.bubble = @ + 1] ELSE None
  /\ UNCHANGED <<now, pending, turn, left, n>>

---------------------------------------------------------------------------
(* By hand, what failed is sent again, or generated if it never was.       *)
Statuses(r) == {r.bubble[b].status : b \in DOMAIN r.bubble}
Retry(i) == /\ Free /\ Count("retries", MaxRetries) /\ "unknown" \notin Statuses(replies[i])
            /\ IF replies[i].bubble = <<>>
               THEN turn' = [pc |-> "generate", reply |-> i, retry |-> TRUE] /\ UNCHANGED sending
               ELSE /\ ~ Statuses(replies[i]) \subseteq {"sent", "shown"}
                    /\ sending' = [reply |-> i, bubble |-> 1, retry |-> TRUE, recovery |-> FALSE] /\ UNCHANGED turn
            /\ UNCHANGED <<now, policy, pending, replies, left>>

Recoverable(r) == Statuses(r) \cap {"blocked", "prepared", "dispatching", "sent"} # {}
Recover(i) == /\ Free /\ i \in left /\ left' = left \ {i}
              /\ sending' = [reply |-> i, bubble |-> 1, retry |-> FALSE, recovery |-> TRUE]
              /\ UNCHANGED <<now, policy, pending, turn, replies, n>>

(* A turn is interrupted by a command of the user, or the process dies.  A *)
(* send that had begun is left as it is.                                   *)
Cut == /\ Count("faults", MaxFaults) /\ turn' = NoTurn /\ sending' = None
       /\ pending' = IF turn.pc \in {"understand", "save"} THEN turn.batch ELSE pending
       /\ \/ UNCHANGED replies
          \/ /\ sending # None /\ Current.status \in {"prepared", "blocked"}
             /\ replies' = Set([Current EXCEPT !.status = "dispatching"])
       /\ UNCHANGED <<now, policy>>
Interrupt == /\ turn # NoTurn \/ (sending # None /\ ~sending.recovery)
             /\ Cut /\ UNCHANGED left
Crash == Cut /\ left' = {i \in DOMAIN replies' : Recoverable(replies'[i])}

Next == \/ Tick \/ Configure \/ Decide \/ Understand \/ Save \/ TurnFails
        \/ Generate \/ Send \/ Halt \/ Commit \/ Interrupt \/ Crash
        \/ \E i \in DOMAIN replies : Retry(i) \/ Recover(i)

Spec == Init /\ [][Next]_vars

---------------------------------------------------------------------------
(* "真实 SENT 后...群普通回复冷却": an ordinary reply is decided only when   *)
(* the pause after every reply on record is over, in whatever order the    *)
(* replies came on record.                                                 *)
Ordinary(rs) == {i \in DOMAIN rs : ~rs[i].forced}
PauseKept ==
  [][Len(replies') > Len(replies) /\ ~replies'[Len(replies')].forced =>
       \A i \in Ordinary(replies) : \A b \in DOMAIN replies[i].bubble :
         b = 1 /\ replies[i].bubble[b].status = "shown"
           => turn.snap - replies[i].bubble[b].at >= policy.cooldown]_vars

(* "按 Turn 幂等提交": a later message of a reply, or the same one again,   *)
(* does not wipe the back-off of turns that came in between.               *)
ResetOnce ==
  [][policy'.streak = 0 /\ policy.streak > 0 /\ sending # None =>
       "shown" \notin Statuses(replies[sending.reply])]_vars

(* "冷却、已有 idle 退避...不应改变 streak": while a back-off runs, turns     *)
(* that bring no quiet time neither lengthen it nor answer.                *)
BackoffStands ==
  [][turn.pc = "save" /\ policy' # policy /\ ~turn.batch.forced /\ policy.until # None
       /\ ~Renewed(turn.batch.newest) /\ turn.snap < policy.until - Compensation(turn.batch.newest)
     => policy'.streak = policy.streak /\ Len(replies') = Len(replies)]_vars

(* A reply that comes on record late does not wipe the back-off of turns   *)
(* that were idle after it was sent.                                       *)
LateReset ==
  [][policy'.streak = 0 /\ policy.streak > 0 /\ sending # None
       => policy.last # None /\ policy.last <= Current.at]_vars
=============================================================================
