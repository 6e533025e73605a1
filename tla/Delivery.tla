------------------------------- MODULE Delivery -------------------------------
(****************************************************************************)
(* What the outbound side of the service promises, with no process, no      *)
(* database transaction, no crash and no recovery in it.                    *)
(*                                                                          *)
(* A message is registered, is opened for sending, is started, is put on    *)
(* the wire at most once for every grant it holds, and gets an outcome.     *)
(* Only a definite failure can be granted another try, and only a message   *)
(* whose outcome is "SENT" becomes visible in the conversation.             *)
(* OutboundCall, and so every chain that uses it, implements this module.   *)
(****************************************************************************)
EXTENDS Naturals

CONSTANT Message

VARIABLES
  stage,    \* [Message -> Stage]: the last durable status of the message
  grants,   \* [Message -> Nat]: how many tries it was authorised for
  sends,    \* [Message -> Nat]: how often it was handed to the platform
  arrived,  \* [Message -> Nat]: how often the recipient got it
  shown     \* SUBSET Message: part of the visible conversation

dvars == <<stage, grants, sends, arrived, shown>>

Stage == {"NONE", "BLOCKED", "PREPARED", "DISPATCHING", "SENT", "FAILED",
          "UNKNOWN", "DROPPED"}

DInit ==
  /\ stage = [m \in Message |-> "NONE"]
  /\ grants = [m \in Message |-> 1]
  /\ sends = [m \in Message |-> 0]
  /\ arrived = [m \in Message |-> 0]
  /\ shown = {}

-------------------------------------------------------------------------------
\* New messages enter, some ready to go and some held behind them.
Register(ready, held) ==
  /\ ready \cap held = {}
  /\ \A m \in ready \cup held : stage[m] = "NONE"
  /\ stage' = [m \in Message |-> IF m \in ready THEN "PREPARED"
                                 ELSE IF m \in held THEN "BLOCKED"
                                 ELSE stage[m]]
  /\ UNCHANGED <<grants, sends, arrived, shown>>

Open(m) ==
  /\ stage[m] = "BLOCKED"
  /\ stage' = [stage EXCEPT ![m] = "PREPARED"]
  /\ UNCHANGED <<grants, sends, arrived, shown>>

\* Another try is granted after a definite failure and after nothing else.
Regrant(m) ==
  /\ stage[m] = "FAILED"
  /\ stage' = [stage EXCEPT ![m] = "PREPARED"]
  /\ grants' = [grants EXCEPT ![m] = @ + 1]
  /\ UNCHANGED <<sends, arrived, shown>>

Withdraw(m) ==
  /\ stage[m] = "PREPARED"
  /\ stage' = [stage EXCEPT ![m] = "DROPPED"]
  /\ UNCHANGED <<grants, sends, arrived, shown>>

Start(m) ==
  /\ stage[m] = "PREPARED"
  /\ stage' = [stage EXCEPT ![m] = "DISPATCHING"]
  /\ UNCHANGED <<grants, sends, arrived, shown>>

Emit(m) ==
  /\ stage[m] = "DISPATCHING"
  /\ sends[m] < grants[m]
  /\ sends' = [sends EXCEPT ![m] = @ + 1]
  /\ arrived' \in {arrived, [arrived EXCEPT ![m] = @ + 1]}
  /\ UNCHANGED <<stage, grants, shown>>

\* SENT and FAILED are claims about the recipient, UNKNOWN claims nothing.
Resolve(m, outcome) ==
  /\ stage[m] = "DISPATCHING"
  /\ outcome = "SENT" => arrived[m] = 1
  /\ outcome = "FAILED" => arrived[m] = 0 /\ sends[m] = grants[m]
  /\ stage' = [stage EXCEPT ![m] = outcome]
  /\ UNCHANGED <<grants, sends, arrived, shown>>

Show(m) ==
  /\ stage[m] = "SENT"
  /\ shown' = shown \cup {m}
  /\ UNCHANGED <<stage, grants, sends, arrived>>

DNext ==
  \/ \E ready, held \in SUBSET Message : Register(ready, held)
  \/ \E m \in Message :
       \/ Open(m) \/ Regrant(m) \/ Withdraw(m) \/ Start(m) \/ Emit(m) \/ Show(m)
       \/ \E outcome \in {"SENT", "FAILED", "UNKNOWN"} : Resolve(m, outcome)

DSpec == DInit /\ [][DNext]_dvars

-------------------------------------------------------------------------------
DTypeOK ==
  /\ stage \in [Message -> Stage]
  /\ grants \in [Message -> Nat]
  /\ sends \in [Message -> Nat]
  /\ arrived \in [Message -> Nat]
  /\ shown \in SUBSET Message

\* A recipient never gets the same message twice, however often it was retried.
AtMostOnce == \A m \in Message : arrived[m] <= 1

\* What the conversation shows did reach the recipient.
ShownArrived == \A m \in shown : stage[m] = "SENT" /\ arrived[m] = 1

\* A message with more than a definite failure behind it is never granted again.
SendsGranted == \A m \in Message : sends[m] <= grants[m]

\* The inductive strengthening: while a message may still be put on the wire,
\* nothing of it has arrived.
DInv ==
  /\ DTypeOK
  /\ SendsGranted
  /\ AtMostOnce
  /\ \A m \in Message :
       /\ stage[m] \in {"NONE", "BLOCKED", "PREPARED"} => sends[m] < grants[m]
       /\ grants[m] <= sends[m] + 1
       /\ sends[m] < grants[m] => arrived[m] = 0
       /\ stage[m] = "FAILED" => arrived[m] = 0 /\ sends[m] = grants[m]
       /\ stage[m] = "SENT" => arrived[m] = 1
  /\ ShownArrived
===============================================================================
