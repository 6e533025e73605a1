----------------------------- MODULE OutboundCall -----------------------------
(****************************************************************************)
(* OutboundCoordinator.deliver and the SQLite rows it drives, one step per  *)
(* database transaction or platform call: between two steps the coroutine   *)
(* is suspended at an await, other coroutines run, and the process may die. *)
(*                                                                          *)
(* attempt and history are durable; call is the stack of the coroutines     *)
(* that are inside deliver(), one per worker (a holder of a session lock,   *)
(* or the start-up recovery loop).  retries, sends and arrived record what  *)
(* the outside world saw and guide no action.                               *)
(****************************************************************************)
EXTENDS Naturals

CONSTANTS Message,  \* stable outbound ids
          Worker,   \* who may be inside deliver()
          NoMsg     \* no message

ASSUME NoMsgAssumption == NoMsg \notin Message

VARIABLES attempt, history, call, retries, sends, arrived

callVars == <<attempt, history, call, retries, sends, arrived>>

Status == {"NONE", "BLOCKED", "PREPARED", "DISPATCHING", "SENT", "FAILED",
           "UNKNOWN", "DROPPED"}
Outcome == {"SENT", "FAILED", "UNKNOWN"}
Pc == {"idle", "look", "doubt", "prepare", "dispatch", "send", "settle",
       "commit", "done"}

Idle == [pc |-> "idle", msg |-> NoMsg, receipt |-> "NONE"]

CallInit ==
  /\ attempt = [m \in Message |-> "NONE"]
  /\ history = {}
  /\ call = [w \in Worker |-> Idle]
  /\ retries = [m \in Message |-> 0]
  /\ sends = [m \in Message |-> 0]
  /\ arrived = [m \in Message |-> 0]

Free(w) == call[w].pc \in {"idle", "done"}
At(w, pc) == call[w].pc = pc

\* The coroutine of w goes on at pc.
Goto(w, pc) == call' = [call EXCEPT ![w].pc = pc]
\* deliver() returns the receipt r.
Return(w, r) ==
  call' = [call EXCEPT ![w] = [pc |-> "done", msg |-> NoMsg, receipt |-> r]]

SaveDelivery(m, status) == attempt' = [attempt EXCEPT ![m] = status]

-------------------------------------------------------------------------------
(* deliver(session, message) *)

Begin(w, m) ==
  /\ Free(w)
  /\ call' = [call EXCEPT ![w] = [pc |-> "look", msg |-> m, receipt |-> "NONE"]]
  /\ UNCHANGED <<attempt, history, retries, sends, arrived>>

\* Mutant: a send that was under way is taken for one that did not begin.
LookResends(w) ==
  LET m == call[w].msg IN
  /\ At(w, "look")
  /\ CASE attempt[m] = "NONE" -> Goto(w, "prepare")
       [] attempt[m] \in {"PREPARED", "DISPATCHING"} -> Goto(w, "dispatch")
       [] attempt[m] = "SENT" -> Goto(w, "commit")
       [] OTHER -> Return(w, attempt[m])
  /\ UNCHANGED <<attempt, history, retries, sends, arrived>>

\* get_delivery and the branch on what it read.
Look(w) ==
  LET m == call[w].msg IN
  /\ At(w, "look")
  /\ CASE attempt[m] = "NONE" -> Goto(w, "prepare")
       [] attempt[m] = "PREPARED" -> Goto(w, "dispatch")
       [] attempt[m] = "DISPATCHING" -> Goto(w, "doubt")
       [] attempt[m] = "SENT" -> Goto(w, "commit")
       [] OTHER -> Return(w, attempt[m])
  /\ UNCHANGED <<attempt, history, retries, sends, arrived>>

\* A send that began in an earlier life of the coroutine is never repeated.
Doubt(w) ==
  /\ At(w, "doubt")
  /\ SaveDelivery(call[w].msg, "UNKNOWN")
  /\ Return(w, "UNKNOWN")
  /\ UNCHANGED <<history, retries, sends, arrived>>

Prepare(w) ==
  /\ At(w, "prepare")
  /\ SaveDelivery(call[w].msg, "PREPARED")
  /\ Goto(w, "dispatch")
  /\ UNCHANGED <<history, retries, sends, arrived>>

\* Mutant: the platform is called before the row says so.
DispatchUnsaved(w) ==
  /\ At(w, "dispatch")
  /\ Goto(w, "send")
  /\ UNCHANGED <<attempt, history, retries, sends, arrived>>

Dispatch(w) ==
  /\ At(w, "dispatch")
  /\ SaveDelivery(call[w].msg, "DISPATCHING")
  /\ Goto(w, "send")
  /\ UNCHANGED <<history, retries, sends, arrived>>

\* Mutant: an exception of the platform counts as a success.
SendOptimistic == {<<"SENT", 1>>, <<"SENT", 0>>, <<"FAILED", 0>>}

\* What channel.send may do: the platform confirms, refuses before anything
\* left, or raises, which says nothing about the recipient.
SendResult == {<<"SENT", 1>>, <<"FAILED", 0>>, <<"UNKNOWN", 0>>, <<"UNKNOWN", 1>>}

Send(w) ==
  LET m == call[w].msg IN
  /\ At(w, "send")
  /\ \E r \in SendResult :
       /\ call' = [call EXCEPT ![w].pc = "settle", ![w].receipt = r[1]]
       /\ arrived' = [arrived EXCEPT ![m] = @ + r[2]]
  /\ sends' = [sends EXCEPT ![m] = @ + 1]
  /\ UNCHANGED <<attempt, history, retries>>

Settle(w) ==
  /\ At(w, "settle")
  /\ SaveDelivery(call[w].msg, call[w].receipt)
  /\ IF call[w].receipt = "SENT" THEN Goto(w, "commit")
                                 ELSE Return(w, call[w].receipt)
  /\ UNCHANGED <<history, retries, sends, arrived>>

\* commit_outbound refuses a message without a SENT receipt.
Commit(w) ==
  LET m == call[w].msg IN
  /\ At(w, "commit")
  /\ history' = IF attempt[m] = "SENT" THEN history \cup {m} ELSE history
  /\ Return(w, "SENT")
  /\ UNCHANGED <<attempt, retries, sends, arrived>>

\* One suspended coroutine resumes.
Step(w) ==
  \/ Look(w) \/ Doubt(w) \/ Prepare(w) \/ Dispatch(w)
  \/ Send(w) \/ Settle(w) \/ Commit(w)

-------------------------------------------------------------------------------
(* The other writers of the attempt rows *)

\* prepare_outbound_batch: one transaction, existing rows keep their status.
PrepareBatch(first, rest) ==
  /\ attempt' = [m \in Message |->
                   IF attempt[m] # "NONE" THEN attempt[m]
                   ELSE IF m = first THEN "PREPARED"
                   ELSE IF m \in rest THEN "BLOCKED" ELSE "NONE"]
  /\ UNCHANGED <<history, call, retries, sends, arrived>>

\* promote_blocked: after the message before it was sent.
PromoteBlocked(m) ==
  /\ attempt[m] = "BLOCKED"
  /\ SaveDelivery(m, "PREPARED")
  /\ UNCHANGED <<history, call, retries, sends, arrived>>

\* retry_failed: only the manual retry reopens a definite failure.
RetryFailed(m) ==
  /\ attempt[m] = "FAILED"
  /\ SaveDelivery(m, "PREPARED")
  /\ retries' = [retries EXCEPT ![m] = @ + 1]
  /\ UNCHANGED <<history, call, sends, arrived>>

\* drop_prepared_proactive_delivery
DropPrepared(m) ==
  /\ attempt[m] = "PREPARED"
  /\ SaveDelivery(m, "DROPPED")
  /\ UNCHANGED <<history, call, retries, sends, arrived>>

\* The coroutine of w is cancelled at the await it is suspended at.
Abandon(w) ==
  /\ call' = [call EXCEPT ![w] = Idle]
  /\ UNCHANGED <<attempt, history, retries, sends, arrived>>

-------------------------------------------------------------------------------
CallTypeOK ==
  /\ attempt \in [Message -> Status]
  /\ history \in SUBSET Message
  /\ call \in [Worker -> [pc : Pc, msg : Message \cup {NoMsg}, receipt : Status]]
  /\ retries \in [Message -> Nat]
  /\ sends \in [Message -> Nat]
  /\ arrived \in [Message -> Nat]
InFlight(w) == call[w].pc \notin {"idle", "done"}

\* The promise every chain keeps through its calls, free of processes and
\* transactions.
D == INSTANCE Delivery WITH
       stage <- attempt,
       grants <- [m \in Message |-> retries[m] + 1],
       shown <- history
ImplementsDelivery == D!DSpec

-------------------------------------------------------------------------------
(* The part of every chain's inductive invariant that is about the calls *)

\* What a suspended call may rely on about the row it works on.
Suspended(w) ==
  LET m == call[w].msg
      r == call[w].receipt IN
  /\ InFlight(w) => m \in Message
  /\ At(w, "doubt") => attempt[m] = "DISPATCHING"
  /\ At(w, "prepare") => attempt[m] = "NONE"
  /\ At(w, "dispatch") => attempt[m] = "PREPARED"
  /\ At(w, "send") => attempt[m] = "DISPATCHING" /\ sends[m] = retries[m]
  /\ At(w, "settle") => /\ attempt[m] = "DISPATCHING"
                        /\ sends[m] = retries[m] + 1
                        /\ r \in Outcome
                        /\ r = "SENT" => arrived[m] = 1
                        /\ r = "FAILED" => arrived[m] = 0
  /\ At(w, "commit") => attempt[m] = "SENT"

\* What a row says about the tries and the recipient of its message.
RowMeans(m) ==
  /\ sends[m] \in {retries[m], retries[m] + 1}
  /\ sends[m] = retries[m] => arrived[m] = 0
  /\ arrived[m] <= 1
  /\ attempt[m] \in {"NONE", "BLOCKED", "PREPARED", "DROPPED"} => sends[m] = retries[m]
  /\ attempt[m] = "FAILED" => arrived[m] = 0 /\ sends[m] = retries[m] + 1
  /\ attempt[m] = "SENT" => arrived[m] = 1

CallInv ==
  /\ CallTypeOK
  /\ \A w \in Worker : Suspended(w)
  /\ \A m \in Message : RowMeans(m)
  /\ \A m \in history : attempt[m] = "SENT"
===============================================================================
