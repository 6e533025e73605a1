------------------------------- MODULE Schedule -------------------------------
(****************************************************************************)
(* Scheduled tasks of one session: the dispatcher loop of ScheduleScheduler *)
(* with its wake event, the runs it spawns, ChatService.execute_scheduled   *)
(* under the session lock, the edits of users (console and chat tools) that *)
(* go on at the same time, crashes, and recovery.                           *)
(*                                                                          *)
(* Time is a small clock and the rule of a task is the set of its           *)
(* occurrences.  A run is named by its task and slot: an occurrence, or a   *)
(* number above the clock for a manual run; it sends one message under an   *)
(* id that the run determines, through OutboundCall.  Prompts, tools and    *)
(* the model are reduced to whether they produce a text.                    *)
(****************************************************************************)
EXTENDS OutboundCall, Sequences, FiniteSets, FiniteSetsExt, SequencesExt

CONSTANTS Schedule, NoSchedule,
          Rule,       \* [Schedule -> SUBSET Time]: the occurrences of its RRULE
          Editor,     \* user operations that may be under way at once
          Op,         \* the operations users perform
          Holder,     \* the worker: whoever holds the session lock
          MaxActive,  \* settings.schedule.max_active_per_session
          MaxTime,    \* bound: the clock
          MaxManual,  \* bound: manual runs of a task
          MaxEdit,    \* bound: user operations
          MaxCrash    \* bound: process deaths

Time == 1 .. MaxTime
Slot == 1 .. MaxTime + MaxManual

ASSUME ScheduleAssumption ==
  /\ MaxActive \in Nat \ {0} /\ MaxTime \in Nat \ {0} /\ MaxManual \in Nat
  /\ MaxEdit \in Nat /\ MaxCrash \in Nat
  /\ IsFiniteSet(Schedule) /\ NoSchedule \notin Schedule
  /\ Rule \in [Schedule -> SUBSET Time]
  /\ Op \subseteq {"create", "edit", "pause", "resume", "delete", "run"}
  /\ Message = Schedule \X Slot
  /\ Worker = {Holder}

VARIABLES
  now,
  row,       \* [Schedule -> [status, next, failures]]: the schedules table
  revision,  \* [Schedule -> Nat]
  run,       \* [Message -> RunStatus]: the schedule_runs table
  on,        \* "off", "recovering", "on"
  todo,      \* messages outbound.recover() has still to visit
  loop,      \* the dispatcher coroutine
  wake,      \* its wake event
  tasks,     \* the spawned _execute tasks in lock order: [id, copy]
  exec,      \* the one that holds the session lock
  edit,      \* [Editor -> a user operation under way]
  spent,     \* [{"edit", "crash"} -> Nat]: what the bounds count
  taken,     \* messages whose occurrence the dispatcher took off the calendar
  streak,    \* [Schedule -> Nat]: failed runs since the last success or resume
  blind      \* runs that an execution ended before it had read their receipt

chainVars == <<now, row, revision, run, on, todo, loop, wake, tasks, exec, edit, spent,
               taken, streak, blind>>
vars == <<callVars, chainVars>>

RowStatus == {"none", "active", "paused", "completed", "deleted"}
RunStatus == {"none", "pending", "running", "completed", "failed"}
Terminal == {"completed", "failed"}

NoTime == 0
Blank == [status |-> "none", next |-> NoTime, failures |-> 0]
LoopIdle == [pc |-> "off", at |-> NoTime, seen |-> [s \in Schedule |-> Blank],
             left |-> {}, cur |-> NoSchedule, until |-> NoTime]
ExecIdle == [pc |-> "idle", copy |-> Blank, outcome |-> "none"]
EditIdle == [pc |-> "idle", op |-> "none", s |-> NoSchedule, seen |-> Blank, rev |-> 0]

Init ==
  /\ CallInit
  /\ now = 1
  /\ row = [s \in Schedule |-> Blank]
  /\ revision = [s \in Schedule |-> 0]
  /\ run = [m \in Message |-> "none"]
  /\ on = "off" /\ todo = {}
  /\ loop = LoopIdle /\ wake = FALSE
  /\ tasks = <<>> /\ exec = ExecIdle
  /\ edit = [e \in Editor |-> EditIdle]
  /\ spent = [k \in {"edit", "crash"} |-> 0]
  /\ taken = {}
  /\ streak = [s \in Schedule |-> 0]
  /\ blind = {}

\* rrule.before(t, inc=True), rrule.after(t, inc=False), rrule.after(t, inc=True)
FirstOf(S) == IF S = {} THEN NoTime ELSE Min(S)
LatestBefore(s, t) == Max({u \in Rule[s] : u <= t})

NextAfter(s, t) == FirstOf({u \in Rule[s] : u > t})
NextFrom(s, t) == FirstOf({u \in Rule[s] : u >= t})

Due(r, t) == r.status = "active" /\ r.next # NoTime /\ r.next <= t
ActiveCount == Cardinality({s \in Schedule : row[s].status = "active"})

Tick ==
  /\ now < MaxTime
  /\ now' = now + 1
  /\ UNCHANGED <<callVars, row, revision, run, on, todo, loop, wake, tasks, exec, edit,
                 spent, taken, streak, blind>>

-------------------------------------------------------------------------------
(* ScheduleScheduler._loop *)

\* _dispatch_due: the clock, then one read of all schedules.
ListDue ==
  /\ loop.pc = "list"
  /\ LET due == {s \in Schedule : Due(row[s], now)} IN
       loop' = IF due = {} THEN [LoopIdle EXCEPT !.pc = "delay"]
               ELSE [loop EXCEPT !.pc = "visit", !.at = now, !.seen = row, !.left = due]
  /\ UNCHANGED <<callVars, now, row, revision, run, on, todo, wake, tasks, exec, edit,
                 spent, taken, streak, blind>>

\* coalesced_due: every overdue occurrence is folded into the latest one.
Slotted(s) == LatestBefore(s, loop.at)
Dispatched(s) ==
  LET later == NextAfter(s, loop.at) IN
  [loop.seen[s] EXCEPT !.next = later,
                       !.status = IF later = NoTime THEN "completed" ELSE @]

\* save_schedule_runtime writes status, next run and failures of the object that
\* was read by ListDue, whatever the row holds now.
SaveDispatch(s) ==
  /\ loop.pc = "visit" /\ s \in loop.left
  /\ row' = [row EXCEPT ![s] = Dispatched(s)]
  /\ loop' = [loop EXCEPT !.pc = "create", !.cur = s]
  /\ taken' = taken \cup {<<s, Slotted(s)>>}
  /\ UNCHANGED <<callVars, now, revision, run, on, todo, wake, tasks, exec, edit, spent,
                 streak, blind>>

\* Mutant: the run is spawned although its record existed.
CreateRunAgain ==
  LET s == loop.cur
      m == <<s, Slotted(s)>>
      rest == loop.left \ {s} IN
  /\ loop.pc = "create"
  /\ run' = IF run[m] = "none" THEN [run EXCEPT ![m] = "pending"] ELSE run
  /\ tasks' = Append(tasks, [id |-> m, copy |-> Dispatched(s)])
  /\ loop' = IF rest = {} THEN [LoopIdle EXCEPT !.pc = "delay"]
             ELSE [loop EXCEPT !.pc = "visit", !.left = rest, !.cur = NoSchedule]
  /\ UNCHANGED <<callVars, now, row, revision, on, todo, wake, exec, edit, spent, taken,
                 streak, blind>>

\* create_schedule_run is unique per task and occurrence; only a new run is
\* spawned, with the object of the loop.
CreateRun ==
  LET s == loop.cur
      m == <<s, Slotted(s)>>
      rest == loop.left \ {s} IN
  /\ loop.pc = "create"
  /\ IF run[m] = "none"
     THEN /\ run' = [run EXCEPT ![m] = "pending"]
          /\ tasks' = Append(tasks, [id |-> m, copy |-> Dispatched(s)])
     ELSE UNCHANGED <<run, tasks>>
  /\ loop' = IF rest = {} THEN [LoopIdle EXCEPT !.pc = "delay"]
             ELSE [loop EXCEPT !.pc = "visit", !.left = rest, !.cur = NoSchedule]
  /\ UNCHANGED <<callVars, now, row, revision, on, todo, wake, exec, edit, spent, taken,
                 streak, blind>>

\* _next_delay reads the schedules a second time.
ReadDelay ==
  /\ loop.pc = "delay"
  /\ loop' = [loop EXCEPT
       !.pc = "clear",
       !.until = FirstOf({row[s].next : s \in {z \in Schedule :
                            row[z].status = "active" /\ row[z].next # NoTime}})]
  /\ UNCHANGED <<callVars, now, row, revision, run, on, todo, wake, tasks, exec, edit,
                 spent, taken, streak, blind>>

ClearWake ==
  /\ loop.pc = "clear"
  /\ wake' = FALSE
  /\ loop' = [loop EXCEPT !.pc = "wait"]
  /\ UNCHANGED <<callVars, now, row, revision, run, on, todo, tasks, exec, edit, spent,
                 taken, streak, blind>>

\* The event is set or the delay is over.
Wakes ==
  /\ loop.pc = "wait"
  /\ wake \/ (loop.until # NoTime /\ now >= loop.until)
  /\ loop' = [loop EXCEPT !.pc = "list", !.until = NoTime]
  /\ UNCHANGED <<callVars, now, row, revision, run, on, todo, wake, tasks, exec, edit,
                 spent, taken, streak, blind>>

-------------------------------------------------------------------------------
(* ChatService.execute_scheduled for the task at the head of the lock queue *)

Id == Head(tasks).id
Scheduled == Id[1]

\* A task is created by a chat tool, inside a turn that holds the session lock;
\* every other user operation also comes from the console, which takes no lock.
ChatBusy == \E e \in Editor : edit[e].op = "create"

\* The lock is acquired and the run saved as running.
StartRun ==
  /\ exec.pc = "idle" /\ tasks # <<>> /\ ~ChatBusy
  /\ run' = [run EXCEPT ![Id] = "running"]
  /\ exec' = [pc |-> "look", copy |-> Head(tasks).copy, outcome |-> "none"]
  /\ UNCHANGED <<callVars, now, row, revision, on, todo, loop, wake, tasks, edit, spent,
                 taken, streak, blind>>

\* Mutant: a run that is executed again generates its text again.
LookNothing ==
  /\ exec.pc = "look"
  /\ exec' = [exec EXCEPT !.pc = "generate"]
  /\ UNCHANGED <<callVars, now, row, revision, run, on, todo, loop, wake, tasks, edit,
                 spent, taken, streak, blind>>

\* A receipt that is still open or confirmed is taken up, not generated again.
LookReceipt ==
  /\ exec.pc = "look"
  /\ IF attempt[Id] \in {"PREPARED", "DISPATCHING", "SENT"}
     THEN Begin(Holder, Id) /\ exec' = [exec EXCEPT !.pc = "deliver"]
     ELSE UNCHANGED callVars /\ exec' = [exec EXCEPT !.pc = "generate"]
  /\ UNCHANGED <<now, row, revision, run, on, todo, loop, wake, tasks, edit, spent, taken,
                 streak, blind>>

GenerateText ==
  /\ exec.pc = "generate"
  /\ Begin(Holder, Id)
  /\ exec' = [exec EXCEPT !.pc = "deliver"]
  /\ UNCHANGED <<now, row, revision, run, on, todo, loop, wake, tasks, edit, spent, taken,
                 streak, blind>>

\* The except clause: one more failure, and at the third the task is paused, with
\* an alert to the session.
Failed(copy) ==
  LET failures == copy.failures + 1 IN
  IF failures >= 3 THEN [status |-> "paused", next |-> NoTime, failures |-> failures]
                   ELSE [copy EXCEPT !.failures = failures]
FailRun ==
  LET copy == Failed(exec.copy) IN
  exec' = [pc |-> IF copy.failures >= 3 THEN "alert" ELSE "save", copy |-> copy,
           outcome |-> "failed"]

\* Before the receipt is read the persona is looked up, and a receipt may have no
\* message to take up: both raise inside the try, whatever was sent before.
LookFails ==
  /\ exec.pc = "look"
  /\ FailRun
  /\ blind' = blind \cup {Id}
  /\ UNCHANGED <<callVars, now, row, revision, run, on, todo, loop, wake, tasks, edit,
                 spent, taken, streak>>

GenerateFails ==
  /\ exec.pc = "generate"
  /\ FailRun
  /\ UNCHANGED <<callVars, now, row, revision, run, on, todo, loop, wake, tasks, edit,
                 spent, taken, streak, blind>>

DeliverStep == Step(Holder) /\ UNCHANGED chainVars

Delivered ==
  /\ exec.pc = "deliver" /\ At(Holder, "done")
  /\ IF call[Holder].receipt = "SENT"
     THEN exec' = [pc |-> "save", copy |-> [exec.copy EXCEPT !.failures = 0],
                   outcome |-> "completed"]
     ELSE FailRun
  /\ Abandon(Holder)
  /\ UNCHANGED <<now, row, revision, run, on, todo, loop, wake, tasks, edit, spent, taken,
                 streak, blind>>

\* The alert is a message of its own; sending it takes time.
SendAlert ==
  /\ exec.pc = "alert"
  /\ exec' = [exec EXCEPT !.pc = "save"]
  /\ UNCHANGED <<callVars, now, row, revision, run, on, todo, loop, wake, tasks, edit,
                 spent, taken, streak, blind>>

\* The finally clause: save_schedule_runtime with the object the run was spawned
\* with, then save_schedule_run.
SaveRuntime ==
  /\ exec.pc = "save"
  /\ row' = [row EXCEPT ![Scheduled] = exec.copy]
  /\ exec' = [exec EXCEPT !.pc = "finish"]
  /\ UNCHANGED <<callVars, now, revision, run, on, todo, loop, wake, tasks, edit, spent,
                 taken, streak, blind>>

SaveRun ==
  /\ exec.pc = "finish"
  /\ run' = [run EXCEPT ![Id] = exec.outcome]
  /\ streak' = [streak EXCEPT ![Scheduled] =
                  IF exec.outcome = "failed" THEN @ + 1 ELSE 0]
  /\ tasks' = Tail(tasks)
  /\ exec' = ExecIdle
  /\ UNCHANGED <<callVars, now, row, revision, on, todo, loop, wake, edit, spent, taken,
                 blind>>

-------------------------------------------------------------------------------
(* ScheduleService and run_now *)

BeginEdit(e, op, s) ==
  /\ on = "on" /\ edit[e].pc = "idle" /\ spent["edit"] < MaxEdit
  /\ IF op = "create" THEN row[s].status = "none" /\ exec.pc = "idle" /\ ~ChatBusy
                      ELSE row[s].status \notin {"none", "deleted"}
  /\ spent' = [spent EXCEPT !["edit"] = @ + 1]
  /\ edit' = [edit EXCEPT ![e] = [pc |-> IF op \in {"create", "resume"}
                                         THEN "count" ELSE "write",
                                  op |-> op, s |-> s, seen |-> row[s],
                                  rev |-> revision[s]]]
  /\ UNCHANGED <<callVars, now, row, revision, run, on, todo, loop, wake, tasks, exec,
                 taken, streak, blind>>

\* count_active_schedules; a task that is active already needs no room.
CountActive(e) ==
  /\ edit[e].pc = "count"
  /\ edit' = [edit EXCEPT ![e] =
       IF edit[e].seen.status # "active" /\ ActiveCount >= MaxActive
       THEN EditIdle ELSE [edit[e] EXCEPT !.pc = "write"]]
  /\ UNCHANGED <<callVars, now, row, revision, run, on, todo, loop, wake, tasks, exec,
                 spent, taken, streak, blind>>

\* What the operation makes of the row it read; status "none" stands for the
\* InputValidationError of a rule without a future occurrence.
Edited(d) ==
  LET next == NextFrom(d.s, now) IN
  CASE d.op \in {"pause", "delete"} ->
         [status |-> IF d.op = "pause" THEN "paused" ELSE "deleted", next |-> NoTime]
    [] d.op = "resume" ->
         [status |-> IF next = NoTime THEN "completed" ELSE "active", next |-> next]
    [] next = NoTime -> [status |-> "none", next |-> NoTime]
    [] d.op = "edit" /\ d.seen.status = "paused" -> [status |-> "paused", next |-> NoTime]
    [] OTHER -> [status |-> "active", next |-> next]

\* create_schedule, or update_schedule: refused for a deleted row or another
\* revision; it writes status and next run but not the failure count.
WriteEdit(e) ==
  LET d == edit[e]
      new == Edited(d) IN
  /\ d.pc = "write" /\ d.op # "run"
  /\ IF row[d.s].status = "deleted" \/ revision[d.s] # d.rev \/ new.status = "none"
     THEN /\ edit' = [edit EXCEPT ![e] = EditIdle]
          /\ UNCHANGED <<row, revision, streak>>
     ELSE /\ row' = [row EXCEPT ![d.s].status = new.status, ![d.s].next = new.next]
          /\ revision' = [revision EXCEPT ![d.s] = @ + 1]
          /\ streak' = IF d.op = "resume" /\ d.seen.status = "paused"
                       THEN [streak EXCEPT ![d.s] = 0] ELSE streak
          /\ edit' = [edit EXCEPT ![e].pc = "notify"]
  /\ UNCHANGED <<callVars, now, run, on, todo, loop, wake, tasks, exec, spent, taken,
                 blind>>

\* The committed coroutine resumes and wakes the dispatcher.
Notify(e) ==
  /\ edit[e].pc = "notify"
  /\ wake' = TRUE
  /\ edit' = [edit EXCEPT ![e] = EditIdle]
  /\ UNCHANGED <<callVars, now, row, revision, run, on, todo, loop, tasks, exec, spent,
                 taken, streak, blind>>

\* run_now: a run for this very moment, spawned with the row it read.
RunNow(e) ==
  LET d == edit[e]
      free == {t \in Slot : t > MaxTime /\ run[<<d.s, t>>] = "none"} IN
  /\ d.pc = "write" /\ d.op = "run"
  /\ IF free = {}
     THEN UNCHANGED <<run, tasks>>
     ELSE LET m == <<d.s, Min(free)>> IN
          /\ run' = [run EXCEPT ![m] = "pending"]
          /\ tasks' = Append(tasks, [id |-> m, copy |-> d.seen])
  /\ edit' = [edit EXCEPT ![e] = EditIdle]
  /\ UNCHANGED <<callVars, now, row, revision, on, todo, loop, wake, exec, spent, taken,
                 streak, blind>>

-------------------------------------------------------------------------------
(* The process *)

Recoverable == {m \in Message : attempt[m] \in {"PREPARED", "DISPATCHING", "SENT"}}

Boot ==
  /\ on = "off"
  /\ on' = "recovering"
  /\ todo' = Recoverable
  /\ UNCHANGED <<callVars, now, row, revision, run, loop, wake, tasks, exec, edit, spent,
                 taken, streak, blind>>

\* outbound.recover() runs before the scheduler starts.
RecoverMessage(m) ==
  /\ on = "recovering" /\ m \in todo
  /\ Begin(Holder, m)
  /\ todo' = todo \ {m}
  /\ UNCHANGED <<now, row, revision, run, on, loop, wake, tasks, exec, edit, spent, taken,
                 streak, blind>>

\* Mutant: running ones are not resumed.
UnfinishedPending ==
  {m \in Message : run[m] = "pending" /\ row[m[1]].status # "deleted"}

\* start(): unfinished runs of tasks that are not deleted are spawned again.
Unfinished ==
  {m \in Message : run[m] \in {"pending", "running"} /\ row[m[1]].status # "deleted"}

StartScheduler ==
  /\ on = "recovering" /\ todo = {} /\ Free(Holder)
  /\ on' = "on"
  /\ \E order \in SetToSeqs(Unfinished) :
       tasks' = [j \in DOMAIN order |-> [id |-> order[j], copy |-> row[order[j][1]]]]
  /\ loop' = [LoopIdle EXCEPT !.pc = "list"]
  /\ Abandon(Holder)
  /\ UNCHANGED <<now, row, revision, run, todo, wake, exec, edit, spent, taken, streak,
                 blind>>

Crash ==
  /\ on # "off" /\ spent["crash"] < MaxCrash
  /\ spent' = [spent EXCEPT !["crash"] = @ + 1]
  /\ on' = "off" /\ todo' = {}
  /\ loop' = LoopIdle /\ wake' = FALSE
  /\ tasks' = <<>> /\ exec' = ExecIdle
  /\ edit' = [e \in Editor |-> EditIdle]
  /\ Abandon(Holder)
  /\ UNCHANGED <<now, row, revision, run, taken, streak, blind>>

-------------------------------------------------------------------------------
LoopStep ==
  \/ ListDue \/ CreateRun \/ ReadDelay \/ ClearWake \/ Wakes
  \/ \E s \in Schedule : SaveDispatch(s)

ExecStep ==
  \/ StartRun \/ LookReceipt \/ LookFails \/ GenerateText \/ GenerateFails
  \/ DeliverStep \/ Delivered \/ SendAlert \/ SaveRuntime \/ SaveRun

EditStep(e) == CountActive(e) \/ WriteEdit(e) \/ Notify(e) \/ RunNow(e)

StartStep == Boot \/ StartScheduler \/ \E m \in Message : RecoverMessage(m)

Next ==
  \/ Tick \/ LoopStep \/ ExecStep \/ StartStep \/ Crash
  \/ \E e \in Editor : EditStep(e)
  \/ \E e \in Editor, op \in Op, s \in Schedule : BeginEdit(e, op, s)

\* Time passes, coroutines that can run do run, and the process is restarted.
Fairness ==
  /\ WF_vars(Tick) /\ WF_vars(LoopStep) /\ WF_vars(ExecStep) /\ WF_vars(StartStep)
  /\ \A e \in Editor : WF_vars(EditStep(e))

Spec == Init /\ [][Next]_vars
FairSpec == Spec /\ Fairness

-------------------------------------------------------------------------------
TypeOK ==
  /\ CallTypeOK
  /\ now \in 1 .. MaxTime
  /\ row \in [Schedule -> [status : RowStatus, next : {NoTime} \cup Time, failures : Nat]]
  /\ revision \in [Schedule -> Nat]
  /\ run \in [Message -> RunStatus]
  /\ on \in {"off", "recovering", "on"}
  /\ todo \in SUBSET Message
  /\ loop.pc \in {"off", "list", "visit", "create", "delay", "clear", "wait"}
  /\ loop.left \in SUBSET Schedule
  /\ wake \in BOOLEAN
  /\ \A j \in DOMAIN tasks : tasks[j].id \in Message /\ tasks[j].copy.status \in RowStatus
  /\ exec.pc \in {"idle", "look", "generate", "deliver", "alert", "save", "finish"}
  /\ exec.outcome \in {"none"} \cup Terminal
  /\ \A e \in Editor : edit[e].pc \in {"idle", "count", "write", "notify"}
  /\ taken \in SUBSET Message
  /\ streak \in [Schedule -> Nat]
  /\ blind \in SUBSET Message

\* What the record of a run says is what happened to its message, also when the
\* process died in the middle and the run was executed again.  A completed run was
\* delivered and is in the history.  A failed run was not sent, with one exception:
\* the execution that failed had not read the receipt of an earlier one.  Even then
\* recovery has put what was sent into the history, and nothing else is there.
RunTruthful ==
  \A m \in Message :
    /\ run[m] = "completed" => attempt[m] = "SENT" /\ m \in history
    /\ run[m] = "failed" => /\ attempt[m] = "SENT" => m \in blind
                            /\ attempt[m] = "SENT" <=> m \in history

\* A finished run is never executed again, and nothing sends its message later:
\* neither recovery nor a second dispatch of the occurrence.
FinishedForGood ==
  [][\A m \in Message : run[m] \in Terminal
                          => run'[m] = run[m] /\ sends'[m] = sends[m]]_vars

\* No two spawned tasks execute the same run.
SpawnedOnce ==
  \A i, j \in DOMAIN tasks : tasks[i].id = tasks[j].id => i = j

\* While the scheduler is on, a run that has not ended is in the hands of a spawned
\* task, however its creation, its execution, an edit and a crash fell together:
\* nothing else would ever end it.  The runs of a deleted task are given up.
UnfinishedSpawned ==
  on = "on" => \A m \in Message :
    run[m] \in {"pending", "running"} /\ row[m[1]].status # "deleted"
      => \E j \in DOMAIN tasks : tasks[j].id = m

-------------------------------------------------------------------------------
(* What the comments and messages of the code say, and the code does not keep *)

\* "Earliest due time and wake events" (scheduler.py): a task that is due is
\* dispatched, unless it is edited before.
DueDispatched ==
  \A s \in Schedule :
    Due(row[s], now) ~> ~Due(row[s], now)

\* save_schedule_runtime only updates running fields: no step of the scheduler
\* takes back the pause or the deletion a user decided.
UserDecisionStands ==
  [][\A s \in Schedule :
       row[s].status \in {"paused", "deleted"} /\ revision'[s] = revision[s]
         => row'[s].status = row[s].status]_vars

\* The SQLite records make execution recoverable: an occurrence the dispatcher
\* took off the calendar has its run, or gets it in the dispatcher's next step.
OccurrenceKept ==
  \A m \in taken : run[m] # "none" \/ (loop.pc = "create" /\ m[1] = loop.cur)

\* The alert says "failed three times in a row, paused": it is only sent when the
\* failure is the third since the last success or since a user resumed the task.
ThreeInARow ==
  [][exec.pc # "alert" /\ exec'.pc = "alert" => streak[Scheduled] >= 2]_vars

\* A session never has more active tasks than the configured limit.
ActiveBounded == ActiveCount <= MaxActive
===============================================================================
