------------------------------- MODULE Outbound -------------------------------
(****************************************************************************)
(* The coordinator in its process: the chains that call deliver(), the      *)
(* start-up recovery that runs while the platform plugins already accept    *)
(* messages, cancellation, and crashes.                                     *)
(*                                                                          *)
(* The chains are reactive replies, scheduled tasks (with their pause       *)
(* alerts) and proactive messages.  Each calls deliver() while it holds the *)
(* lock of the message's session, so a session is one worker; recover()     *)
(* takes no lock and is a worker of its own.                                *)
(****************************************************************************)
EXTENDS OutboundCall

CONSTANTS Session, Recovery,
          SessionOf,   \* [Message -> Session]
          Origin,      \* [Message -> {"reactive", "scheduled", "proactive"}]
          MaxRetry,    \* bound: manual retries of one message
          MaxCrash     \* bound: process deaths

ASSUME OutboundAssumption ==
  /\ Recovery \notin Session
  /\ Worker = Session \cup {Recovery}
  /\ SessionOf \in [Message -> Session]
  /\ Origin \in [Message -> {"reactive", "scheduled", "proactive"}]
  /\ MaxRetry \in Nat /\ MaxCrash \in Nat

VARIABLES phase,    \* the process: "down", "booting" (recover() runs), "ready"
          todo,     \* what recover() has still to visit
          crashes

vars == <<callVars, phase, todo, crashes>>

Reactive == {m \in Message : Origin[m] = "reactive"}

\* Mutant: recovery forgets the sends under way.
RecoverableOpen ==
  {m \in Message \ Reactive : attempt[m] \in {"PREPARED", "SENT"}}

\* list_recoverable_outbound_messages
Recoverable ==
  {m \in Message \ Reactive : attempt[m] \in {"PREPARED", "DISPATCHING", "SENT"}}

Init ==
  /\ CallInit
  /\ phase = "down"
  /\ todo = {}
  /\ crashes = 0

-------------------------------------------------------------------------------
(* The process *)

Boot ==
  /\ phase = "down"
  /\ phase' = "booting"
  /\ todo' = Recoverable
  /\ UNCHANGED <<callVars, crashes>>

\* recover() leaves a prepared proactive message to the proactive chain.
RecoverSkip(m) ==
  /\ phase = "booting" /\ Free(Recovery) /\ m \in todo
  /\ Origin[m] = "proactive" /\ attempt[m] = "PREPARED"
  /\ todo' = todo \ {m}
  /\ UNCHANGED <<callVars, phase, crashes>>

RecoverBegin(m) ==
  /\ phase = "booting" /\ m \in todo
  /\ ~(Origin[m] = "proactive" /\ attempt[m] = "PREPARED")
  /\ Begin(Recovery, m)
  /\ todo' = todo \ {m}
  /\ UNCHANGED <<phase, crashes>>

Ready ==
  /\ phase = "booting" /\ todo = {} /\ Free(Recovery)
  /\ phase' = "ready"
  /\ UNCHANGED <<callVars, todo, crashes>>

Crash ==
  /\ phase # "down"
  /\ crashes < MaxCrash
  /\ phase' = "down"
  /\ crashes' = crashes + 1
  /\ todo' = {}
  /\ call' = [w \in Worker |-> Idle]
  /\ UNCHANGED <<attempt, history, retries, sends, arrived>>

Resume(w) == Step(w) /\ UNCHANGED <<phase, todo, crashes>>

-------------------------------------------------------------------------------
(* The chains.  Platform plugins start before recover(), the schedulers after. *)

Running(m) == phase = "ready" \/ (phase = "booting" /\ m \in Reactive)
Holds(m) == Running(m) /\ Free(SessionOf[m])

\* Replies and proactive messages have a row before deliver() sees them.
Deliver(m) ==
  /\ Holds(m)
  /\ Origin[m] # "scheduled" => attempt[m] # "NONE"
  /\ Begin(SessionOf[m], m)
  /\ UNCHANGED <<phase, todo, crashes>>

PrepareReplies(first, rest) ==
  /\ \A m \in rest \cup {first} : /\ m \in Reactive
                                  /\ SessionOf[m] = SessionOf[first]
  /\ Holds(first)
  /\ PrepareBatch(first, rest)
  /\ UNCHANGED <<phase, todo, crashes>>

Promote(m) ==
  /\ m \in Reactive /\ Holds(m)
  /\ PromoteBlocked(m)
  /\ UNCHANGED <<phase, todo, crashes>>

Retry(m) ==
  /\ m \in Reactive /\ Holds(m)
  /\ retries[m] < MaxRetry
  /\ RetryFailed(m)
  /\ UNCHANGED <<phase, todo, crashes>>

\* prepare_proactive_delivery runs outside the session lock.
PrepareProactive(m) ==
  /\ Origin[m] = "proactive" /\ Running(m)
  /\ attempt[m] = "NONE"
  /\ PrepareBatch(m, {})
  /\ UNCHANGED <<phase, todo, crashes>>

Drop(m) ==
  /\ Origin[m] = "proactive" /\ Holds(m)
  /\ DropPrepared(m)
  /\ UNCHANGED <<phase, todo, crashes>>

\* "/stop" cancels the reactive turn that holds the session lock.
Interrupt(s) ==
  /\ ~Free(s) /\ call[s].msg \in Reactive
  /\ Abandon(s)
  /\ UNCHANGED <<phase, todo, crashes>>

Next ==
  \/ Boot \/ Ready \/ Crash
  \/ \E m \in Message :
       \/ RecoverSkip(m) \/ RecoverBegin(m)
       \/ Deliver(m) \/ Promote(m) \/ Retry(m) \/ PrepareProactive(m) \/ Drop(m)
       \/ \E rest \in SUBSET (Message \ {m}) : PrepareReplies(m, rest)
  \/ \E w \in Worker : Resume(w)
  \/ \E s \in Session : Interrupt(s)

\* The event loop runs every coroutine that can run, and a supervisor restarts
\* the process; nothing makes a chain call or a user retry.
Fairness ==
  /\ WF_vars(Boot)
  /\ WF_vars(Ready)
  /\ WF_vars(\E m \in Message : RecoverSkip(m) \/ RecoverBegin(m))
  /\ \A w \in Worker : WF_vars(Resume(w))

Spec == Init /\ [][Next]_vars
FairSpec == Spec /\ Fairness

-------------------------------------------------------------------------------
TypeOK ==
  /\ CallTypeOK
  /\ phase \in {"down", "booting", "ready"}
  /\ todo \in SUBSET Message
  /\ crashes \in Nat

\* The recipient of a message never gets it twice: neither a crash after the
\* send, nor an exception from the platform, nor a manual retry repeats a send
\* that may have arrived (OutboundCoordinator.deliver, retry_failed).
AtMostOnce == \A m \in Message : arrived[m] <= 1

\* What the conversation history shows did reach the recipient, and its receipt
\* still says so: commit_outbound only follows a SENT receipt.
HistoryTruthful == \A m \in history : attempt[m] = "SENT" /\ arrived[m] = 1

\* No two coroutines are ever inside deliver() with the same message, although
\* recover() takes no session lock and runs while plugins already accept input.
SingleDeliverer ==
  \A v, w \in Worker :
    InFlight(v) /\ InFlight(w) /\ call[v].msg = call[w].msg => v = w

\* save_delivery overwrites a row without looking at it; even so no writer ever
\* replaces a status that closes the message.
ClosedStaysClosed ==
  [][\A m \in Message : attempt[m] \in {"SENT", "UNKNOWN", "DROPPED"}
                          => attempt'[m] = attempt[m]]_vars

\* A scheduled or proactive send that was under way when the process died gets
\* an outcome after the restart: it does not stay DISPATCHING for ever.
SendResolved ==
  \A m \in Message \ Reactive :
    attempt[m] = "DISPATCHING" ~> attempt[m] \in Outcome

\* A scheduled or proactive message that was sent gets into the history, even
\* when the process died between the receipt and the commit.
SentCommitted ==
  \A m \in Message \ Reactive : attempt[m] = "SENT" ~> m \in history

-------------------------------------------------------------------------------
(* The inductive invariant *)

\* Who may be inside deliver() with which message, and when.
Owned(w) ==
  InFlight(w) =>
    /\ call[w].msg \in Message
    /\ phase # "down"
    /\ w = Recovery => phase = "booting" /\ call[w].msg \notin Reactive
    /\ w # Recovery => /\ SessionOf[call[w].msg] = w
                       /\ phase = "booting" => call[w].msg \in Reactive

\* Only scheduled messages come without a row.
Registered(w) ==
  At(w, "prepare") \/ (At(w, "look") /\ attempt[call[w].msg] = "NONE")
    => Origin[call[w].msg] = "scheduled"

IInv ==
  /\ TypeOK
  /\ CallInv
  /\ \A w \in Worker : Owned(w) /\ Registered(w)
  /\ \A m \in todo : m \notin Reactive /\ attempt[m] # "NONE"
===============================================================================
