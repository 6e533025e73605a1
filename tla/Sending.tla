------------------------------- MODULE Sending -------------------------------
(***************************************************************************)
(* What a platform plugin does with a message to send, and how the tasks   *)
(* of several sessions share one access token.  The token of the official  *)
(* accounts is fetched by whoever finds none, under a lock; OneBot has a   *)
(* fixed one.  The coordinator sends again, by hand, what came back FAILED *)
(* and never what came back UNKNOWN.                                       *)
(***************************************************************************)
EXTENDS Integers, FiniteSets

CONSTANTS Platform,       \* of "qq", "wechat", "onebot"
          Message,        \* messages of different sessions
          None,
          MaxRetries, MaxGaps, MaxLosses      \* bounds

VARIABLES platform,
          token,      \* the cached token and whether it is in date, or None
          holder,     \* the sender that holds the lock of the cache, or None
          accepted,   \* the tokens the platform accepts
          send,       \* per message: where its send is, and the token it took
          status,     \* per message: what the coordinator was told
          reached,    \* per message: how often the user received it
          m           \* tokens issued, gaps in the cache, answers lost, retries
vars == <<platform, token, holder, accepted, send, status, reached, m>>

At(pc, t) == [pc |-> pc, token |-> t]
Move(i, pc, t) == send' = [send EXCEPT ![i] = At(pc, t)]
Tell(i, s) == send' = [send EXCEPT ![i] = At("told", None)] /\ status' = [status EXCEPT ![i] = s]
Add(c) == m' = [m EXCEPT ![c] = @ + 1]

Init == /\ platform \in Platform /\ token = None /\ holder = None /\ accepted = {}
        /\ send = [i \in Message |-> At("idle", None)]
        /\ status = [i \in Message |-> "dispatching"] /\ reached = [i \in Message |-> 0]
        /\ m = [issued |-> 0, gaps |-> 1, lost |-> 0, retries |-> 0]

(* What cannot be rendered, or whose file cannot be read, is refused here. *)
Begin(i) == /\ send[i].pc = "idle"
            /\ \/ Tell(i, "failed")
               \/ Move(i, IF platform = "onebot" THEN "post" ELSE "token", None) /\ UNCHANGED status
            /\ UNCHANGED <<platform, token, holder, accepted, reached, m>>

Usable == token # None /\ token.fresh
Cached(i) == /\ send[i].pc = "token"
             /\ IF Usable THEN Move(i, "post", token.of) ELSE Move(i, "wait", None)
             /\ UNCHANGED <<platform, token, holder, accepted, status, reached, m>>
(* Mutant: whoever waited asks, though the holder before brought a token.  *)
AskAgain(i) == /\ send[i].pc = "wait" /\ holder = None
               /\ Move(i, "ask", None) /\ holder' = i
               /\ UNCHANGED <<platform, token, accepted, status, reached, m>>
Enter(i) == /\ send[i].pc = "wait" /\ holder = None
            /\ IF Usable THEN Move(i, "post", token.of) /\ UNCHANGED holder
               ELSE Move(i, "ask", None) /\ holder' = i
            /\ UNCHANGED <<platform, token, accepted, status, reached, m>>
(* A new token of a WeChat account replaces the one before; QQ keeps both. *)
Issue(i) == /\ send[i].pc = "ask" /\ Add("issued")
            /\ accepted' = (IF platform = "wechat" THEN {} ELSE accepted) \cup {m.issued + 1}
            /\ Move(i, "brought", m.issued + 1)
            /\ UNCHANGED <<platform, token, holder, status, reached>>
Fetched(i) == /\ send[i].pc = "brought" /\ token' = [of |-> send[i].token, fresh |-> TRUE]
              /\ holder' = None /\ Move(i, "post", send[i].token)
              /\ UNCHANGED <<platform, accepted, status, reached, m>>
FetchFails(i) == /\ send[i].pc \in {"ask", "brought"} /\ m.lost < MaxLosses /\ Add("lost")
                 /\ holder' = None /\ Tell(i, "unknown")
                 /\ UNCHANGED <<platform, token, accepted, reached>>

Expire == /\ Usable /\ m.gaps < MaxGaps /\ Add("gaps")
          /\ token' = [token EXCEPT !.fresh = FALSE]
          /\ UNCHANGED <<platform, holder, accepted, send, status, reached>>
Revoke == /\ m.gaps < MaxGaps /\ \E t \in accepted : accepted' = accepted \ {t}
          /\ UNCHANGED <<platform, token, holder, send, status, reached, m>>

(* The platform delivers the message, refuses it, or rejects the token.    *)
Post(i) == /\ send[i].pc = "post"
           /\ IF platform = "onebot" \/ send[i].token \in accepted
              THEN \/ reached' = [reached EXCEPT ![i] = @ + 1] /\ Move(i, "delivered", None)
                   \/ UNCHANGED reached /\ Move(i, "refused", None)
              ELSE UNCHANGED reached /\ Move(i, "rejected", None)
           /\ UNCHANGED <<platform, token, holder, accepted, status, m>>
Result(pc) == IF pc = "delivered" THEN "sent" ELSE "failed"
(* A rejected token is dropped from the cache, whichever is there by now.  *)
Answer(i) == /\ send[i].pc \in {"delivered", "refused", "rejected"}
             /\ Tell(i, Result(send[i].pc))
             /\ token' = IF send[i].pc = "rejected" THEN None ELSE token
             /\ IF send[i].pc = "rejected" /\ Usable THEN Add("gaps") ELSE UNCHANGED m
             /\ UNCHANGED <<platform, holder, accepted, reached>>
Lost(i) == /\ send[i].pc \in {"post", "delivered", "refused", "rejected"}
           /\ m.lost < MaxLosses /\ Add("lost") /\ Tell(i, "unknown")
           /\ UNCHANGED <<platform, token, holder, accepted, reached>>

Retry(i) == /\ status[i] = "failed" /\ m.retries < MaxRetries /\ Add("retries")
            /\ status' = [status EXCEPT ![i] = "dispatching"] /\ Move(i, "idle", None)
            /\ UNCHANGED <<platform, token, holder, accepted, reached>>

Next == \/ Expire \/ Revoke
        \/ \E i \in Message : \/ Begin(i) \/ Cached(i) \/ Enter(i) \/ Issue(i) \/ Fetched(i)
                              \/ FetchFails(i) \/ Post(i) \/ Answer(i) \/ Lost(i) \/ Retry(i)
Spec == Init /\ [][Next]_vars

---------------------------------------------------------------------------
(* "串行刷新": however many senders find the cache empty, one token is      *)
(* asked for; another only when it ran out, was rejected or never arrived. *)
SharedRefresh == m.issued <= m.gaps + m.lost

(* A message the platform delivered is never told FAILED, so that sending  *)
(* again what failed never delivers twice.                                 *)
ReachedOnce == \A i \in Message : /\ reached[i] <= 1
                                  /\ status[i] = "failed" => reached[i] = 0

(* A token the platform accepts and that is in date stays in the cache.    *)
GoodTokenKept == [][Usable /\ token.of \in accepted /\ token' = None => FALSE]_vars
=============================================================================
