----------------------------- MODULE ReactiveTurn -----------------------------
(****************************************************************************)
(* The reactive chain of ChatService for one session: inbound messages, the *)
(* debounce timer, the FIFO session lock and the turns that queue for it,   *)
(* the transaction that consumes messages, reply batches delivered bubble   *)
(* by bubble, manual retries, "/stop", the clearing of memories, crashes,   *)
(* and start-up recovery.                                                   *)
(*                                                                          *)
(* Sessions share no state of this chain, so one is modelled.  The holder   *)
(* of its lock is the only worker of OutboundCall.  Model output, prompts   *)
(* and tools are reduced to whether they succeed and how many bubbles come. *)
(****************************************************************************)
EXTENDS OutboundCall, Sequences, FiniteSets

CONSTANTS Inbound,    \* the user messages that may arrive
          NoInbound,
          Absent,     \* owner of a message that has not arrived
          Waiting,    \* owner of a stored message that no turn has consumed
          Holder,     \* the worker: whoever holds the session lock
          MaxTurn,    \* bound: turns that consume messages
          MaxBubble,  \* bound: bubbles of one reply
          MaxRetry,   \* bound: manual retries
          MaxStop,    \* bound: "/stop" commands that hit a turn
          MaxClear,   \* bound: requests to clear the session's memories
          MaxRepeat,  \* bound: messages delivered again that ask for a turn
          MaxCrash    \* bound: process deaths

Turn == 1 .. MaxTurn
Bubble == 1 .. MaxBubble

ASSUME ReactiveAssumption ==
  /\ MaxTurn \in Nat /\ MaxBubble \in Nat \ {0}
  /\ MaxRetry \in Nat /\ MaxStop \in Nat /\ MaxCrash \in Nat
  /\ MaxClear \in Nat /\ MaxRepeat \in Nat
  /\ NoInbound \notin Inbound
  /\ Absent # Waiting /\ {Absent, Waiting} \cap Turn = {}
  /\ Message = Turn \X Bubble
  /\ Worker = {Holder}

VARIABLES
  owner,     \* [Inbound -> Absent, Waiting or the turn that consumed it]
  bounded,   \* the session has a memory_cleared_at
  cleared,   \* the messages stamped no later than that
  action,    \* [Turn -> "none", "reply", "silence"]: the saved decision
  memrun,    \* [Turn -> "none", "pending", "running", "done"]: its archive run
  up,        \* "off", "starting", "recovering", "on"
  arriving,  \* the message inside ingest(), appended but not yet scheduled
  timer,     \* a debounce task sleeps
  queue,     \* the tasks at the session lock, the holder first
  turn,      \* the holder's local state
  batches,   \* turns start-up recovery has still to visit
  stopped,   \* turns cut short by "/stop" since the process started
  quiet,     \* messages taken in with schedule_turn=False, no turn asked for since
  excused,   \* messages whose ingest, turn or clearing raised or was stopped
  spent      \* [Bounded -> Nat]: what the bounds count

clearVars == <<bounded, cleared>>
chainVars == <<owner, clearVars, action, memrun, up, arriving, timer, queue, turn,
               batches, stopped, quiet, excused, spent>>
vars == <<callVars, chainVars>>

Bounded == {"retry", "stop", "crash", "clear", "repeat"}

NewTask == [kind |-> "new", t |-> 0]
RetryTask(t) == [kind |-> "retry", t |-> t]
RecoverTask(t) == [kind |-> "recover", t |-> t]
ClearTask == [kind |-> "clear", t |-> 0]

Resting == [pc |-> "idle", t |-> 0, pend |-> {}, next |-> 1]

\* list_pending_messages: what was stamped before the last clearing is left alone.
Pending == {m \in Inbound : owner[m] = Waiting /\ m \notin cleared}
BubblesOf(t) == {i \in Bubble : attempt[<<t, i>>] # "NONE"}
Statuses(t) == {attempt[<<t, i>>] : i \in BubblesOf(t)}
Committed(t) == {i \in Bubble : <<t, i>> \in history}

Init ==
  /\ CallInit
  /\ owner = [m \in Inbound |-> Absent]
  /\ bounded = FALSE /\ cleared = {}
  /\ action = [t \in Turn |-> "none"]
  /\ memrun = [t \in Turn |-> "none"]
  /\ up = "off"
  /\ arriving = NoInbound
  /\ timer = FALSE
  /\ queue = <<>>
  /\ turn = Resting
  /\ batches = {}
  /\ stopped = {} /\ quiet = {} /\ excused = {}
  /\ spent = [k \in Bounded |-> 0]

\* The holder goes on at pc.
AtPc(pc) == turn.pc = pc
Become(pc) == turn' = [turn EXCEPT !.pc = pc]
\* The finally clause: the lock passes to the next task.
Release == turn' = Resting /\ queue' = Tail(queue)

StartMemory(t) ==
  memrun' = [memrun EXCEPT ![t] = IF @ = "pending" THEN "running" ELSE @]

-------------------------------------------------------------------------------
(* Ingress: ingest() and the requests that delete data hold one lifecycle lock *)

LifecycleFree == arriving = NoInbound /\ \A j \in DOMAIN queue : queue[j].kind # "clear"

\* ingest(): append_inbound commits the row; the vision call is still to come.  The
\* platform's stamp may lie before the last clearing.
AppendInbound(m) ==
  /\ up # "off" /\ LifecycleFree /\ owner[m] = Absent
  /\ owner' = [owner EXCEPT ![m] = Waiting]
  /\ \E old \in {FALSE, bounded} : cleared' = IF old THEN cleared \cup {m} ELSE cleared
  /\ arriving' = m
  /\ UNCHANGED <<callVars, bounded, action, memrun, up, timer, queue, turn,
                 batches, stopped, quiet, excused, spent>>

\* _schedule_turn: a sleeping debounce task is replaced, a running one is not.
ScheduleTurn ==
  /\ arriving # NoInbound
  /\ arriving' = NoInbound
  /\ timer' = TRUE /\ quiet' = {}
  /\ UNCHANGED <<callVars, owner, clearVars, action, memrun, up, queue, turn,
                 batches, stopped, excused, spent>>

\* schedule_turn=False: a caller that hands in several messages asks for a turn with
\* the last one.
KeepQuiet ==
  /\ arriving # NoInbound
  /\ arriving' = NoInbound
  /\ quiet' = quiet \cup {arriving}
  /\ UNCHANGED <<callVars, owner, clearVars, action, memrun, up, timer, queue,
                 turn, batches, stopped, excused, spent>>

\* The persona, the vision call or the event raises behind the committed row.
IngestRaises ==
  /\ arriving # NoInbound
  /\ arriving' = NoInbound
  /\ excused' = excused \cup {arriving}
  /\ UNCHANGED <<callVars, owner, clearVars, action, memrun, up, timer, queue,
                 turn, batches, stopped, quiet, spent>>

\* A message that is already stored comes again, with schedule_duplicate; without it
\* nothing happens.
Repeat(m) ==
  /\ up # "off" /\ LifecycleFree /\ owner[m] # Absent
  /\ spent["repeat"] < MaxRepeat
  /\ spent' = [spent EXCEPT !["repeat"] = @ + 1]
  /\ timer' = TRUE /\ quiet' = {}
  /\ UNCHANGED <<callVars, owner, clearVars, action, memrun, up, arriving, queue,
                 turn, batches, stopped, excused>>

\* _debounced_process wakes, leaves the table of sleepers and queues a turn.
Fire ==
  /\ timer
  /\ timer' = FALSE
  /\ queue' = Append(queue, NewTask)
  /\ UNCHANGED <<callVars, owner, clearVars, action, memrun, up, arriving, turn,
                 batches, stopped, quiet, excused, spent>>

RetryReply(t) ==
  /\ up = "on" /\ action[t] # "none"
  /\ spent["retry"] < MaxRetry
  /\ spent' = [spent EXCEPT !["retry"] = @ + 1]
  /\ queue' = Append(queue, RetryTask(t))
  /\ UNCHANGED <<callVars, owner, clearVars, action, memrun, up, arriving, timer,
                 turn, batches, stopped, quiet, excused>>

-------------------------------------------------------------------------------
(* clear_memory *)

\* The sleeping timer is cancelled, then the request queues for the session lock; no
\* turn is scheduled in its place.
ClearBegin ==
  /\ up = "on" /\ LifecycleFree
  /\ spent["clear"] < MaxClear
  /\ spent' = [spent EXCEPT !["clear"] = @ + 1]
  /\ timer' = FALSE
  /\ queue' = Append(queue, ClearTask)
  /\ UNCHANGED <<callVars, owner, clearVars, action, memrun, up, arriving, turn,
                 batches, stopped, quiet, excused>>

\* Mutant: the memories go, but the session's boundary does not move.
ClearKeepsBoundary ==
  /\ AtPc("clear")
  /\ bounded' = TRUE /\ cleared' = cleared
  /\ memrun' = [t \in Turn |-> "none"]
  /\ Release
  /\ UNCHANGED <<callVars, owner, action, up, arriving, timer, batches, stopped,
                 quiet, excused, spent>>

\* Archive tasks are cancelled; then one transaction deletes the archive runs with the
\* memories and sets memory_cleared_at to now, past every stored message.
ClearMemory ==
  /\ AtPc("clear")
  /\ bounded' = TRUE /\ cleared' = cleared \cup {m \in Inbound : owner[m] # Absent}
  /\ memrun' = [t \in Turn |-> "none"]
  /\ Release
  /\ UNCHANGED <<callVars, owner, action, up, arriving, timer, batches, stopped,
                 quiet, excused, spent>>

\* Something raises before the commit: the cancelled archives rest until the next
\* start, and nothing replaces the timer.
ClearFails ==
  /\ AtPc("clear")
  /\ memrun' = [t \in Turn |-> IF memrun[t] = "running" THEN "pending" ELSE memrun[t]]
  /\ excused' = excused \cup Pending
  /\ Release
  /\ UNCHANGED <<callVars, owner, clearVars, action, up, arriving, timer, batches,
                 stopped, quiet, spent>>

-------------------------------------------------------------------------------
(* _run_session_turn: a new turn *)

\* lock.acquire, then snapshot_time: what has arrived by now will be seen, as long
\* as the platform does not stamp messages later than this host's clock.
Acquire ==
  /\ AtPc("idle") /\ queue # <<>>
  /\ LET task == Head(queue) IN
       turn' = [pc |-> CASE task.kind = "new" -> "list"
                         [] task.kind = "retry" -> "retry"
                         [] task.kind = "recover" -> "bubble"
                         [] task.kind = "clear" -> "clear",
                t |-> task.t, pend |-> Pending, next |-> 1]
  /\ UNCHANGED <<callVars, owner, clearVars, action, memrun, up, arriving, timer,
                 queue, batches, stopped, quiet, excused, spent>>

\* list_pending_messages: what was appended since may carry an earlier or a
\* later receive time than the snapshot.
ListPending ==
  /\ AtPc("list")
  /\ \E late \in SUBSET (Pending \ turn.pend) :
       IF turn.pend \cup late = {}
       THEN Release
       ELSE /\ turn' = [turn EXCEPT !.pc = "decide", !.pend = @ \cup late]
            /\ UNCHANGED queue
  /\ UNCHANGED <<callVars, owner, clearVars, action, memrun, up, arriving, timer,
                 batches, stopped, quiet, excused, spent>>

NextTurn == Cardinality({t \in Turn : action[t] # "none"}) + 1

\* One transaction saves the decision, consumes exactly the listed messages and
\* creates the archive run; a silent turn then starts it and ends.
SaveTurn(choice) ==
  /\ AtPc("decide") /\ NextTurn \in Turn
  /\ \A m \in turn.pend : owner[m] = Waiting
  /\ LET t == NextTurn IN
       /\ owner' = [m \in Inbound |-> IF m \in turn.pend THEN t ELSE owner[m]]
       /\ action' = [action EXCEPT ![t] = choice]
       /\ IF choice = "reply"
          THEN /\ memrun' = [memrun EXCEPT ![t] = "pending"]
               /\ turn' = [turn EXCEPT !.pc = "generate", !.t = t]
               /\ UNCHANGED queue
          ELSE /\ memrun' = [memrun EXCEPT ![t] = "running"]
               /\ Release
  /\ UNCHANGED <<callVars, clearVars, up, arriving, timer, batches, stopped, quiet,
                 excused, spent>>

\* Understanding raises, or the group policy moved under the turn: "turn.failed"
\* is published and nothing is saved or scheduled again.
TurnRaises ==
  /\ AtPc("decide")
  /\ excused' = excused \cup turn.pend
  /\ Release
  /\ UNCHANGED <<callVars, owner, clearVars, action, memrun, up, arriving, timer,
                 batches, stopped, quiet, spent>>

\* The model answered with n bubbles that passed the egress filter; the batch is
\* stored in one transaction under ids that the turn determines.
Generate(n) ==
  /\ AtPc("generate")
  /\ PrepareBatch(<<turn.t, 1>>, {<<turn.t, i>> : i \in 2 .. n})
  /\ Become("bubble")
  /\ UNCHANGED <<owner, clearVars, action, memrun, up, arriving, timer, queue,
                 batches, stopped, quiet, excused, spent>>

\* The model, a tool or the egress filter failed: no batch, archive, raise (the
\* FAILED row it leaves has an id of its own that nothing reads).  A retry has no
\* archive run of its own.
GenerateFails ==
  /\ AtPc("generate")
  /\ IF Head(queue).kind = "new" THEN StartMemory(turn.t) ELSE UNCHANGED memrun
  /\ Release
  /\ UNCHANGED <<callVars, owner, clearVars, action, up, arriving, timer, batches,
                 stopped, quiet, excused, spent>>

\* Retrieval or prompt assembly raises before the guarded part of the turn: the
\* consumed messages' archive run exists but is not started.
AssemblyRaises ==
  /\ AtPc("generate")
  /\ Release
  /\ UNCHANGED <<callVars, owner, clearVars, action, memrun, up, arriving, timer,
                 batches, stopped, quiet, excused, spent>>

-------------------------------------------------------------------------------
(* _run_session_turn: a manual retry *)

\* Mutant: a batch of which some bubble was sent is refused.
RetryRefusedPartly(t) ==
  \/ action[t] # "reply"
  \/ Statuses(t) \cap {"SENT", "UNKNOWN", "DROPPED"} # {}

RetryRefused(t) ==
  \/ action[t] # "reply"
  \/ BubblesOf(t) # {} /\ \/ Statuses(t) = {"SENT"}
                          \/ Statuses(t) \cap {"UNKNOWN", "DROPPED"} # {}
  \/ BubblesOf(t) = {} /\ \/ Committed(t) # {}
                          \/ \A m \in Inbound : owner[m] # t

RetryStarts ==
  /\ AtPc("retry")
  /\ IF RetryRefused(turn.t)
     THEN Release
     ELSE /\ Become(IF BubblesOf(turn.t) = {} THEN "generate" ELSE "bubble")
          /\ UNCHANGED queue
  /\ UNCHANGED <<callVars, owner, clearVars, action, memrun, up, arriving, timer,
                 batches, stopped, quiet, excused, spent>>

-------------------------------------------------------------------------------
(* _deliver_reactive_batch *)

Current == <<turn.t, turn.next>>
Retrying == Head(queue).kind = "retry"

\* The batch is through, or stops at a bubble it may not go beyond; a new turn
\* starts its archive run on the way out.
BatchEnds ==
  /\ IF Head(queue).kind = "new" THEN StartMemory(turn.t) ELSE UNCHANGED memrun
  /\ Release
  /\ UNCHANGED <<owner, clearVars, action, up, arriving, timer, batches, stopped,
                 quiet, excused, spent>>

AllSent ==
  /\ AtPc("bubble") /\ Free(Holder)
  /\ turn.next \notin BubblesOf(turn.t)
  /\ UNCHANGED callVars
  /\ BatchEnds

\* The receipt of a bubble allows no delivery.
Blocked ==
  /\ AtPc("bubble")
  /\ turn.next \in BubblesOf(turn.t)
  /\ \/ attempt[Current] \in {"UNKNOWN", "DROPPED"}
     \/ attempt[Current] = "FAILED" /\ ~Retrying
  /\ UNCHANGED callVars
  /\ BatchEnds

\* A blocked bubble is opened once the one before it was sent, a failed one only
\* by a manual retry.
OpenBubble ==
  /\ AtPc("bubble")
  /\ turn.next \in BubblesOf(turn.t)
  /\ \/ PromoteBlocked(Current)
     \/ Retrying /\ RetryFailed(Current)
  /\ Become("open")
  /\ UNCHANGED <<owner, clearVars, action, memrun, up, arriving, timer, queue,
                 batches, stopped, quiet, excused, spent>>

DeliverBubble ==
  /\ \/ AtPc("open")
     \/ /\ AtPc("bubble") /\ turn.next \in BubblesOf(turn.t)
        /\ attempt[Current] \in {"PREPARED", "DISPATCHING", "SENT"}
  /\ Begin(Holder, Current)
  /\ Become("deliver")
  /\ UNCHANGED <<owner, clearVars, action, memrun, up, arriving, timer, queue,
                 batches, stopped, quiet, excused, spent>>

DeliverStep == AtPc("deliver") /\ Step(Holder) /\ UNCHANGED chainVars

\* deliver() returned: go on after SENT, stop after anything else.
NextBubble ==
  /\ AtPc("deliver") /\ At(Holder, "done")
  /\ call[Holder].receipt = "SENT"
  /\ Abandon(Holder)
  /\ turn' = [turn EXCEPT !.pc = "bubble", !.next = @ + 1]
  /\ UNCHANGED <<owner, clearVars, action, memrun, up, arriving, timer, queue,
                 batches, stopped, quiet, excused, spent>>

\* Mutant: the batch goes on behind a bubble that was not sent.
BubbleSkipped ==
  /\ AtPc("deliver") /\ At(Holder, "done")
  /\ call[Holder].receipt # "SENT"
  /\ Abandon(Holder)
  /\ turn' = [turn EXCEPT !.pc = "bubble", !.next = @ + 1]
  /\ UNCHANGED <<owner, clearVars, action, memrun, up, arriving, timer, queue,
                 batches, stopped, quiet, excused, spent>>

BubbleFailed ==
  /\ AtPc("deliver") /\ At(Holder, "done")
  /\ call[Holder].receipt # "SENT"
  /\ Abandon(Holder)
  /\ BatchEnds

-------------------------------------------------------------------------------
(* "/stop", the archive task, and the process *)

\* request_interrupt cancels the active turn wherever it is suspended.  Only the
\* delivery part of a turn starts the archive run in its finally clause; the
\* recovery loop and a clearing are no active turns and are never cancelled.
Stop ==
  /\ ~AtPc("idle") /\ Head(queue).kind \notin {"recover", "clear"}
  /\ spent["stop"] < MaxStop
  /\ spent' = [spent EXCEPT !["stop"] = @ + 1]
  /\ IF turn.pc \in {"bubble", "open", "deliver"} /\ Head(queue).kind = "new"
     THEN StartMemory(turn.t) ELSE UNCHANGED memrun
  /\ stopped' = IF turn.t \in Turn THEN stopped \cup {turn.t} ELSE stopped
  /\ excused' = IF turn.t = 0 THEN excused \cup turn.pend ELSE excused
  /\ Abandon(Holder)
  /\ Release
  /\ UNCHANGED <<owner, clearVars, action, up, arriving, timer, batches, quiet>>

FinishMemory(t) ==
  /\ memrun[t] = "running"
  /\ memrun' = [memrun EXCEPT ![t] = "done"]
  /\ UNCHANGED <<callVars, owner, clearVars, action, up, arriving, timer, queue,
                 turn, batches, stopped, quiet, excused, spent>>

\* The platform plugins accept messages before the services below them start.
Boot ==
  /\ up = "off"
  /\ up' = "starting"
  /\ UNCHANGED <<callVars, owner, clearVars, action, memrun, arriving, timer,
                 queue, turn, batches, stopped, quiet, excused, spent>>

\* Mutant: recovery does not look for bubbles under way.
RecoverableOpen ==
  {t \in Turn : \E i \in BubblesOf(t) : attempt[<<t, i>>] \in {"BLOCKED", "PREPARED"}}

\* list_recoverable_reactive_outbound_batches
Recoverable ==
  {t \in Turn : \E i \in BubblesOf(t) :
      \/ attempt[<<t, i>>] \in {"BLOCKED", "PREPARED", "DISPATCHING"}
      \/ attempt[<<t, i>>] = "SENT" /\ i \notin Committed(t)}

\* memory.start() resumes the unfinished archive runs; chat.start() lists the
\* batches to recover.
StartServices ==
  /\ up = "starting"
  /\ up' = "recovering"
  /\ memrun' = [t \in Turn |-> IF memrun[t] = "pending" THEN "running" ELSE memrun[t]]
  /\ batches' = Recoverable
  /\ UNCHANGED <<callVars, owner, clearVars, action, arriving, timer, queue, turn,
                 stopped, quiet, excused, spent>>

\* One batch at a time, under the session lock.
RecoverBatch(t) ==
  /\ up = "recovering" /\ t \in batches
  /\ \A j \in DOMAIN queue : queue[j].kind # "recover"
  /\ batches' = batches \ {t}
  /\ queue' = Append(queue, RecoverTask(t))
  /\ UNCHANGED <<callVars, owner, clearVars, action, memrun, up, arriving, timer,
                 turn, stopped, quiet, excused, spent>>

\* Mutant: nothing takes up the messages that were pending when the process died.
StartTurnsIdle ==
  /\ up = "recovering" /\ batches = {}
  /\ \A j \in DOMAIN queue : queue[j].kind # "recover"
  /\ up' = "on"
  /\ UNCHANGED <<callVars, owner, clearVars, action, memrun, arriving, timer,
                 queue, turn, batches, stopped, quiet, excused, spent>>

\* The last step of chat.start(): a turn for what is still pending.
StartTurns ==
  /\ up = "recovering" /\ batches = {}
  /\ \A j \in DOMAIN queue : queue[j].kind # "recover"
  /\ up' = "on"
  /\ timer' = (timer \/ Pending # {}) /\ quiet' = {}
  /\ UNCHANGED <<callVars, owner, clearVars, action, memrun, arriving, queue, turn,
                 batches, stopped, excused, spent>>

Crash ==
  /\ up # "off" /\ spent["crash"] < MaxCrash
  /\ spent' = [spent EXCEPT !["crash"] = @ + 1]
  /\ up' = "off"
  /\ arriving' = NoInbound /\ timer' = FALSE /\ queue' = <<>> /\ turn' = Resting
  /\ batches' = {} /\ stopped' = {} /\ quiet' = {} /\ excused' = {}
  /\ memrun' = [t \in Turn |-> IF memrun[t] = "running" THEN "pending" ELSE memrun[t]]
  /\ Abandon(Holder)
  /\ UNCHANGED <<owner, clearVars, action>>

-------------------------------------------------------------------------------
\* What the event loop runs by itself.
TurnStep ==
  \/ Acquire \/ ListPending \/ TurnRaises \/ GenerateFails \/ AssemblyRaises
  \/ RetryStarts \/ AllSent \/ Blocked \/ OpenBubble \/ DeliverBubble
  \/ DeliverStep \/ NextBubble \/ BubbleFailed
  \/ \E choice \in {"reply", "silence"} : SaveTurn(choice)
  \/ \E n \in Bubble : Generate(n)

StartStep ==
  StartServices \/ StartTurns \/ \E t \in Turn : RecoverBatch(t)

\* ingest() goes on behind the commit.
IngestStep == ScheduleTurn \/ KeepQuiet \/ IngestRaises

ClearStep == ClearMemory \/ ClearFails

Next ==
  \/ TurnStep \/ StartStep \/ IngestStep \/ ClearStep
  \/ \E m \in Inbound : AppendInbound(m) \/ Repeat(m)
  \/ Fire \/ ClearBegin
  \/ \E t \in Turn : RetryReply(t) \/ FinishMemory(t)
  \/ Boot \/ Stop \/ Crash

\* Coroutines that can run do run, the debounce timer fires, and the process is
\* started again after a crash.  Nothing makes users write, retry, stop or clear.
Fairness ==
  /\ WF_vars(TurnStep) /\ WF_vars(StartStep)
  /\ WF_vars(IngestStep) /\ WF_vars(ClearStep) /\ WF_vars(Fire) /\ WF_vars(Boot)
  /\ \A t \in Turn : WF_vars(FinishMemory(t))

Spec == Init /\ [][Next]_vars
FairSpec == Spec /\ Fairness

-------------------------------------------------------------------------------
TypeOK ==
  /\ CallTypeOK
  /\ owner \in [Inbound -> {Absent, Waiting} \cup Turn]
  /\ bounded \in BOOLEAN /\ cleared \in SUBSET Inbound
  /\ action \in [Turn -> {"none", "reply", "silence"}]
  /\ memrun \in [Turn -> {"none", "pending", "running", "done"}]
  /\ up \in {"off", "starting", "recovering", "on"}
  /\ arriving \in Inbound \cup {NoInbound}
  /\ timer \in BOOLEAN
  /\ queue \in Seq([kind : {"new", "retry", "recover", "clear"}, t : {0} \cup Turn])
  /\ turn \in [pc : {"idle", "list", "decide", "generate", "retry", "bubble", "open",
                     "deliver", "clear"},
               t : {0} \cup Turn, pend : SUBSET Inbound, next : 1 .. MaxBubble + 1]
  /\ batches \in SUBSET Turn /\ stopped \in SUBSET Turn
  /\ quiet \in SUBSET Inbound /\ excused \in SUBSET Inbound
  /\ spent \in [Bounded -> Nat]

\* A bubble is only sent when every bubble before it was sent and is part of the
\* visible history, whatever retries, stops, crashes and recoveries happened:
\* the recipient never reads a later bubble without the earlier ones
\* (_deliver_reactive_batch).
BubbleOrder ==
  \A t \in Turn, i, j \in Bubble :
    i < j /\ sends[<<t, j>>] > 0 => <<t, i>> \in history

\* Once start-up is over, a turn that is neither running nor was stopped leaves
\* nothing half done: no send without an outcome, no bubble that was sent but is
\* missing from the history, none that is ready but will not be sent.
NothingHalfDone ==
  up = "on" =>
    \A t \in Turn \ (stopped \cup {turn.t}), i \in Bubble :
      /\ attempt[<<t, i>>] \notin {"PREPARED", "DISPATCHING"}
      /\ attempt[<<t, i>>] = "SENT" => <<t, i>> \in history

\* reactive_reply_retryable, which decides whether the console offers a retry.
Retryable(t) ==
  /\ action[t] = "reply"
  /\ IF BubblesOf(t) = {} THEN Committed(t) = {}
     ELSE /\ Statuses(t) # {"SENT"}
          /\ Statuses(t) \cap {"DISPATCHING", "UNKNOWN", "DROPPED"} = {}

\* A retry that the console offers is not refused by the turn that serves it, as
\* long as nothing else ran in between.
OfferHonoured == \A t \in Turn : Retryable(t) => ~RetryRefused(t)

\* A stored message that no turn has consumed and no clearing put behind the session's
\* boundary is in somebody's hands: its ingest is under way, the timer runs, a turn that
\* will read it is queued or is running on it, or a clearing is.  Bursts, repeated
\* messages, cancelled timers, clearings and crashes leave no message behind; what is
\* left is a message whose caller has not yet asked for the turn, or whose ingest, turn
\* or clearing raised or was stopped.
InHands(m) ==
  \/ m = arriving \/ timer \/ m \in quiet \/ m \in excused
  \/ turn.pc \in {"list", "decide"} /\ m \in turn.pend
  \/ \E j \in DOMAIN queue : queue[j].kind = "new" /\ (j > 1 \/ turn.pc = "idle")
  \/ \E j \in DOMAIN queue : queue[j].kind = "clear"

NobodyForgotten ==
  up = "on" => \A m \in Pending : InHands(m)

AllShown(t) == BubblesOf(t) # {} /\ Committed(t) = BubblesOf(t)

\* A decided reply ends where somebody can see it: shown in full, offered for a
\* manual retry, or closed by an unknown outcome; only "/stop" may leave it open.
ReplyAccounted ==
  \A t \in Turn :
    action[t] = "reply" ~>
      \/ AllShown(t) \/ Retryable(t) \/ "UNKNOWN" \in Statuses(t) \/ t \in stopped

\* Consumed messages are archived by their own run (the comment in
\* _run_session_turn: silence, model failure and failed delivery must not lose
\* the evidence).
Archived == \A t \in Turn : action[t] # "none" ~> memrun[t] = "done"

\* The archive run of a reply only starts when the tools of its turn are done (the
\* comment at the end of _run_session_turn): it never reads memories that a
\* remember or forget tool of the same turn is about to change.
ArchiveAfterTools ==
  AtPc("generate") /\ Head(queue).kind = "new" => memrun[turn.t] = "pending"
===============================================================================
