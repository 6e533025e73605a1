----------------------------- MODULE DelayedReply -----------------------------
(****************************************************************************)
(* The ingress plugin that merges the consecutive private messages of a     *)
(* user: one batch per route with one timer, typing that extends the window *)
(* once, the submission of a batch to the core message by message, and the  *)
(* orderly stop, which the plugin host begins only after it has closed      *)
(* admission and every admitted call has returned.                          *)
(*                                                                          *)
(* A message is named by its ticket, the number of its arrival.  A section  *)
(* under the plugin's lock holds no other await and is one step; cancelling *)
(* a timer always wins over its wake-up, so a batch has one live timer.     *)
(* Timers are as punctual as the clock: Tick waits for a due one.           *)
(****************************************************************************)
EXTENDS Naturals, Sequences, FiniteSets, SequencesExt

CONSTANTS Route, Id, NoId,   \* NoId: a platform without message ids
          MessageDelay,      \* settings.message_delay_seconds
          TypingDelay,       \* settings.typing_delay_seconds
          MaxArrivals,       \* bound: messages that come
          MaxRaises          \* bound: exceptions of the core

ASSUME DelayAssumption ==
  /\ MessageDelay \in Nat \ {0} /\ TypingDelay \in Nat /\ MessageDelay <= TypingDelay
  /\ MaxArrivals \in Nat /\ MaxRaises \in Nat /\ NoId \notin Id

VARIABLES
  arrived,  \* the messages answered as accepted, in order: their route and id
  batch,    \* [Route -> the waiting batch; no messages: none]
  flushes,  \* the submissions under way
  stopq,    \* batches that stop() has still to submit
  phase,    \* of the plugin, as the host drives it
  core,     \* what the core stored, in order
  raised    \* messages for which the core raised

vars == <<arrived, batch, flushes, stopq, phase, core, raised>>

Ticket == 1 .. MaxArrivals
NoBatch == [envs |-> <<>>, extended |-> FALSE, left |-> 0, age |-> 0]
Batch == [envs: Seq(Ticket), extended: BOOLEAN, left: Nat, age: Nat]
Flush == [batch: Ticket, todo: Seq(Ticket) \ {<<>>}, by: {"timer", "stop"}]

Init ==
  /\ arrived = <<>> /\ batch = [r \in Route |-> NoBatch]
  /\ flushes = {} /\ stopq = {} /\ phase = "open"
  /\ core = <<>> /\ raised = {}

Waits(r) == batch[r].envs # <<>>

(***************************** the admitted calls ***************************)
\* _arm_timer: a new window, whatever the old one had left.
Arm(envs, extended, delay, age) ==
  [envs |-> envs, extended |-> extended, left |-> delay, age |-> age]

\* A message a batch has already is answered as a duplicate: no state changes.
\* The branch for a plugin that is stopping is not taken: the host has closed
\* admission by then.
InBatch(r, id) ==
  id # NoId /\ \E t \in ToSet(batch[r].envs) : arrived[t].id = id

IngestArm(b, t) ==
  Arm(Append(b.envs, t), FALSE, MessageDelay, 0)

Ingest(r, id) ==
  /\ phase = "open" /\ Len(arrived) < MaxArrivals
  /\ ~InBatch(r, id)
  /\ arrived' = Append(arrived, [route |-> r, id |-> id])
  /\ batch' = [batch EXCEPT ![r] = IngestArm(@, Len(arrived'))]
  /\ UNCHANGED <<flushes, stopq, phase, core, raised>>

\* A mutant for WaitBounded: every typing event extends the window.
TypingAgain(r) ==
  /\ phase = "open" /\ Waits(r)
  /\ batch' = [batch EXCEPT ![r] = Arm(@.envs, TRUE, TypingDelay, @.age)]
  /\ UNCHANGED <<arrived, flushes, stopq, phase, core, raised>>

Typing(r) ==
  /\ phase = "open" /\ Waits(r) /\ ~batch[r].extended
  /\ batch' = [batch EXCEPT ![r] = Arm(@.envs, TRUE, TypingDelay, @.age)]
  /\ UNCHANGED <<arrived, flushes, stopq, phase, core, raised>>

(**************************** timers and submission *************************)
Pass(b) ==
  [envs |-> b.envs, extended |-> b.extended, left |-> b.left - 1, age |-> b.age + 1]

Tick ==
  /\ phase \in {"open", "closed"}
  /\ \E r \in Route : Waits(r)
  /\ \A r \in Route : Waits(r) => batch[r].left > 0
  /\ batch' = [r \in Route |->
       IF Waits(r) THEN Pass(batch[r]) ELSE batch[r]]
  /\ UNCHANGED <<arrived, flushes, stopq, phase, core, raised>>

FlushOf(envs, by) == [batch |-> Head(envs), todo |-> envs, by |-> by]

\* The timer takes its batch out and begins to submit it.
Fire(r) ==
  /\ Waits(r) /\ batch[r].left = 0
  /\ batch' = [batch EXCEPT ![r] = NoBatch]
  /\ flushes' = flushes \cup {FlushOf(batch[r].envs, "timer")}
  /\ UNCHANGED <<arrived, stopq, phase, core, raised>>

\* The next message of a batch, and whether it schedules the turn.
Pick(f) == [t |-> Head(f.todo), rest |-> Tail(f.todo), turn |-> Len(f.todo) = 1]

Submit(f) ==
  LET p == Pick(f) IN
  /\ core' = Append(core, [t |-> p.t, batch |-> f.batch, turn |-> p.turn])
  /\ flushes' = (flushes \ {f}) \cup
       (IF p.rest = <<>> THEN {} ELSE {[f EXCEPT !.todo = p.rest]})
  /\ UNCHANGED <<arrived, batch, stopq, phase, raised>>

\* call_next raises: the rest of the batch is gone.  Under a timer that is
\* logged; in stop() the exception ends stop(), and the batches behind it go too.
SubmitRaises(f) ==
  /\ Cardinality(raised) < MaxRaises
  /\ raised' = raised \cup {Pick(f).t}
  /\ flushes' = flushes \ {f}
  /\ IF f.by = "stop" THEN stopq' = {} /\ phase' = "stopped"
                      ELSE UNCHANGED <<stopq, phase>>
  /\ UNCHANGED <<arrived, batch, core>>

(******************************* stop and start *****************************)
\* The host refuses new calls and waits for those it admitted.
CloseAdmission ==
  /\ phase = "open" /\ phase' = "closed"
  /\ UNCHANGED <<arrived, batch, flushes, stopq, core, raised>>

\* Mutant for Submitted: the table is cleared before it is read.
StopClears ==
  /\ phase = "closed" /\ phase' = "stopping"
  /\ batch' = [r \in Route |-> NoBatch] /\ stopq' = {}
  /\ UNCHANGED <<arrived, flushes, core, raised>>

StopBegin ==
  /\ phase = "closed" /\ phase' = "stopping"
  /\ stopq' = {batch[r].envs : r \in {q \in Route : Waits(q)}}
  /\ batch' = [r \in Route |-> NoBatch]
  /\ UNCHANGED <<arrived, flushes, core, raised>>

\* One batch after the other, when the submissions of timers have ended.
StopFlush ==
  /\ phase = "stopping" /\ flushes = {}
  /\ \E envs \in stopq :
       /\ flushes' = {FlushOf(envs, "stop")}
       /\ stopq' = stopq \ {envs}
  /\ UNCHANGED <<arrived, batch, phase, core, raised>>

StopEnd ==
  /\ phase = "stopping" /\ flushes = {} /\ stopq = {}
  /\ phase' = "stopped"
  /\ UNCHANGED <<arrived, batch, flushes, stopq, core, raised>>

\* A rollback of the host starts the same instance again.
Start ==
  /\ phase = "stopped" /\ phase' = "open"
  /\ UNCHANGED <<arrived, batch, flushes, stopq, core, raised>>

Next ==
  \/ \E r \in Route, id \in Id \cup {NoId} : Ingest(r, id)
  \/ \E r \in Route : Typing(r) \/ Fire(r)
  \/ Tick
  \/ \E f \in flushes : Submit(f) \/ SubmitRaises(f)
  \/ CloseAdmission \/ StopBegin \/ StopFlush \/ StopEnd \/ Start

Spec == Init /\ [][Next]_vars

\* The event loop runs what is ready, time passes, and a host that has closed
\* admission carries its stop through.  Nobody has to write, type or stop.
FairSpec ==
  /\ Spec
  /\ WF_vars(Tick)
  /\ \A r \in Route : WF_vars(Fire(r))
  /\ WF_vars(\E f \in flushes : Submit(f))
  /\ WF_vars(StopBegin) /\ WF_vars(StopFlush) /\ WF_vars(StopEnd)

(********************************* properties *******************************)
\* The type of the state, and the host's order: while the plugin is being
\* stopped or is stopped, no batch waits; stop() submits one batch at a time, and alone.
TypeOK ==
  /\ arrived \in Seq([route: Route, id: Id \cup {NoId}]) /\ Len(arrived) <= MaxArrivals
  /\ batch \in [Route -> Batch]
  /\ flushes \subseteq Flush /\ stopq \subseteq Seq(Ticket) \ {<<>>}
  /\ phase \in {"open", "closed", "stopping", "stopped"}
  /\ core \in Seq([t: Ticket, batch: Ticket, turn: BOOLEAN])
  /\ raised \subseteq Ticket
  /\ phase \in {"stopping", "stopped"} => \A r \in Route : ~Waits(r)
  /\ stopq # {} => phase = "stopping"
  /\ \A f \in flushes : f.by = "stop" => phase = "stopping" /\ flushes = {f}

Stored == {core[i].t : i \in DOMAIN core}
Held ==
  UNION ({ToSet(batch[r].envs) : r \in Route} \cup {ToSet(f.todo) : f \in flushes}
         \cup {ToSet(envs) : envs \in stopq})

\* However timers, typing, the stop and a restart of the plugin interleave, a
\* message reaches the core at most once, and none that reached it is still held.
SubmittedOnce ==
  /\ \A i, j \in DOMAIN core : core[i].t = core[j].t => i = j
  /\ Stored \cap Held = {}

\* The messages of a batch reach the core in the order in which they came.
InOrder ==
  \A i, j \in DOMAIN core :
    i < j /\ core[i].batch = core[j].batch => core[i].t < core[j].t

\* When a batch schedules its turn, every message of it is with the core: the
\* turn reads all of them (comment at runtime.py:197).
TurnSeesBatch ==
  \A i \in DOMAIN core : core[i].turn =>
    /\ \A j \in DOMAIN core : core[j].batch = core[i].batch => j <= i
    /\ \A f \in flushes : f.batch # core[i].batch

\* A message that was answered as accepted is held or with the core, unless the
\* core raised: no order of timers and stop() loses one.
NothingLost ==
  raised = {} => 1 .. Len(arrived) \subseteq Stored \cup Held

\* A user who keeps typing cannot put a batch off for ever: it is submitted at
\* most one message window and one typing window after its last message.
WaitBounded ==
  \A r \in Route : batch[r].age + batch[r].left <= MessageDelay + TypingDelay

\* Every accepted message reaches the core, through stops and restarts, unless the
\* core raised.
Submitted ==
  \A t \in Ticket : t <= Len(arrived) ~> t \in Stored \/ raised # {}

\* "取消计时并提交剩余批次，确保正常关机不丢消息" (runtime.py:71): when stop() has
\* ended, every message was handed to the core.
StopLosesNothing ==
  phase = "stopped" => 1 .. Len(arrived) \subseteq Stored \cup raised
===============================================================================
