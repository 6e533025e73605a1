----------------------------- MODULE ScheduleProofs -----------------------------
(* Proofs about the scheduled tasks, for any number of tasks, occurrences,  *)
(* editors, edits and crashes.                                              *)
EXTENDS Schedule, OutboundCallProofs, FiniteSetTheorems, WellFoundedInduction

(****************************************************************************)
(* The inductive invariant, in three parts that build on each other         *)
(****************************************************************************)

Row == [status : RowStatus, next : {NoTime} \cup Time, failures : Nat]

\* A copy of the row of s, however old, has an occurrence of the rule as its next.
RowOf(s) == {r \in Row : r.next \in {NoTime} \cup Rule[s]}

Task == [id : Message, copy : Row]
Loop == [pc : {"off", "list", "visit", "create", "delay", "clear", "wait"},
         at : {NoTime} \cup Time, seen : [Schedule -> Row], left : SUBSET Schedule,
         cur : Schedule \cup {NoSchedule}, until : {NoTime} \cup Time]
Exec == [pc : {"idle", "look", "generate", "deliver", "alert", "save", "finish"},
         copy : Row, outcome : {"none"} \cup Terminal]
Edit == [pc : {"idle", "count", "write", "notify"},
         op : {"none", "create", "edit", "pause", "resume", "delete", "run"},
         s : Schedule \cup {NoSchedule}, seen : Row, rev : Nat]

TableTypes ==
  /\ now \in Time
  /\ row \in [Schedule -> Row]
  /\ \A s \in Schedule : row[s] \in RowOf(s)
  /\ revision \in [Schedule -> Nat]
  /\ run \in [Message -> RunStatus]
  /\ on \in {"off", "recovering", "on"}
  /\ todo \in SUBSET Message
  /\ wake \in BOOLEAN
  /\ spent \in [{"edit", "crash"} -> Nat]
  /\ taken \in SUBSET Message
  /\ streak \in [Schedule -> Nat]
  /\ blind \in SUBSET Message

\* The dispatcher only visits tasks that were due when it listed them.
LoopTypes ==
  /\ loop \in Loop
  /\ \A s \in Schedule : loop.seen[s] \in RowOf(s)
  /\ \A s \in loop.left : loop.seen[s].next \in Rule[s] /\ loop.seen[s].next <= loop.at
  /\ loop.pc = "create" => loop.cur \in loop.left

TaskTypes ==
  /\ tasks \in Seq(Task)
  /\ \A j \in DOMAIN tasks : tasks[j].copy \in RowOf(tasks[j].id[1])
  /\ exec \in Exec
  /\ exec.pc # "idle" => tasks # <<>> /\ exec.copy \in RowOf(Scheduled)

EditTypes ==
  /\ edit \in [Editor -> Edit]
  /\ \A e \in Editor : edit[e].pc # "idle" =>
       edit[e].s \in Schedule /\ edit[e].seen \in RowOf(edit[e].s)

\* Nothing is under way but the recovery of deliveries before the scheduler is on.
Quiet ==
  on # "on" => /\ loop = LoopIdle /\ tasks = <<>> /\ exec = ExecIdle
               /\ \A e \in Editor : edit[e].pc = "idle"

Typed == TableTypes /\ LoopTypes /\ TaskTypes /\ EditTypes /\ Quiet

-------------------------------------------------------------------------------
RunOpen(m) == run[m] \in {"pending", "running"}
HasTask(m) == \E j \in DOMAIN tasks : tasks[j].id = m

\* A task that exists works on a run that has not ended.
TasksOpen ==
  /\ \A j \in DOMAIN tasks : RunOpen(tasks[j].id)
  /\ exec.pc # "idle" => run[Id] = "running"

\* Nobody can touch the row of a task whose run was given up: it stays deleted.
GivenUp(s) ==
  /\ row[s].status = "deleted"
  /\ s \notin loop.left
  /\ \A j \in DOMAIN tasks : tasks[j].id[1] # s
  /\ \A e \in Editor : edit[e].pc # "idle" => edit[e].s # s

Books ==
  /\ TasksOpen
  /\ SpawnedOnce
  /\ on = "on" => \A m \in Message : RunOpen(m) /\ ~HasTask(m) => GivenUp(m[1])

-------------------------------------------------------------------------------
OpenReceipt == {"PREPARED", "DISPATCHING", "SENT"}
Kept(m) == attempt[m] = "SENT" /\ m \in history
Lost(m) == attempt[m] \notin OpenReceipt

\* A message between its try and its history row is in the hands of recovery or of
\* the call of deliver() that is under way; once the scheduler is on, of the latter.
Unsettled(m) == \/ attempt[m] \in {"PREPARED", "DISPATCHING"}
                \/ attempt[m] = "SENT" /\ m \notin history
InCall(m) == InFlight(Holder) /\ call[Holder].msg = m
Looked == \A m \in Message : Unsettled(m) =>
            on = "off" \/ (on = "recovering" /\ m \in todo) \/ InCall(m)

\* What a failed run may leave: nothing, or a message that was sent before the
\* execution that failed, which had not read its receipt.
FailedTells(m) == Lost(m) \/ (Kept(m) /\ m \in blind)

\* The only call of deliver() is recovery's, which has of the failed runs only those
\* that were sent to visit, or that of the run that holds the session lock.
CallPlaced ==
  InFlight(Holder) =>
    \/ on = "recovering" /\ (run[call[Holder].msg] = "failed" => Kept(call[Holder].msg))
    \/ on = "on" /\ exec.pc = "deliver" /\ call[Holder].msg = Id

\* What the run that holds the lock may believe about its message.
ExecKnows ==
  /\ exec.pc = "generate" => Lost(Id)
  /\ exec.pc = "deliver" =>
       /\ ~At(Holder, "idle")
       /\ At(Holder, "done") =>
            /\ call[Holder].receipt = attempt[Id]
            /\ attempt[Id] \notin {"NONE", "PREPARED", "DISPATCHING"}
            /\ attempt[Id] = "SENT" => Id \in history
  /\ exec.pc \in {"alert", "save", "finish"} =>
       \/ exec.outcome = "completed" /\ Kept(Id)
       \/ exec.outcome = "failed" /\ FailedTells(Id)

RunsTell ==
  \A m \in Message : /\ run[m] = "completed" => Kept(m)
                     /\ run[m] = "failed" => FailedTells(m) /\ (Lost(m) => m \notin todo)

Truth == /\ CallPlaced /\ ExecKnows /\ RunsTell
         /\ on # "recovering" => todo = {}

IInv == Typed /\ Books /\ CallInv /\ Looked /\ Truth

(****************************************************************************)
(* The operators the model is built from                                    *)
(****************************************************************************)

\* A set of times has a least one.
LEMMA MinMember ==
  ASSUME NEW S \in SUBSET Nat, S # {}
  PROVE  Min(S) \in S
<1>1. PICK x \in S : \A y \in S : ~(<<y, x>> \in OpToRel(<, Nat))
  BY NatLessThanWellFounded, WFMin
<1>2. \A y \in S : ~(y < x)
  BY <1>1 DEF OpToRel
<1>3. \A y \in S : x <= y
  BY <1>2
<1> QED BY <1>3, Zenon DEF Min

LEMMA FirstOfType ==
  ASSUME NEW S \in SUBSET Nat
  PROVE  FirstOf(S) \in {NoTime} \cup S
  BY MinMember DEF FirstOf

\* A set of times up to n has a greatest one.
LEMMA MaxMember ==
  ASSUME NEW n \in Nat, NEW S \in SUBSET (0 .. n), S # {}
  PROVE  Max(S) \in S
<1> DEFINE T == {t \in Nat : n - t \in S}
<1>1. PICK u \in S : TRUE
  OBVIOUS
<1>2. n - u \in T
  BY n - (n - u) = u
<1>3. PICK x \in T : \A y \in T : ~(<<y, x>> \in OpToRel(<, Nat))
  <2> HIDE DEF T
  <2>1. T \subseteq Nat
    BY DEF T
  <2> QED BY <1>2, <2>1, NatLessThanWellFounded, WFMin
<1>4. \A y \in T : ~(y < x)
  BY <1>3 DEF OpToRel
<1>5. PICK k \in S : k = n - x
  BY <1>3
<1>6. \A v \in S : k >= v
  <2>1. \A v \in S : n - v \in T
    BY \A v \in S : n - (n - v) = v
  <2> QED BY <1>4, <1>5, <2>1
<1> QED BY <1>6, Zenon DEF Max

LEMMA Orders ==
  ASSUME NEW S, IsFiniteSet(S), NEW order \in SetToSeqs(S)
  PROVE  /\ order \in Seq(S)
         /\ \A x \in S : \E j \in DOMAIN order : order[j] = x
         /\ \A i, j \in DOMAIN order : order[i] = order[j] => i = j
<1> DEFINE n == Cardinality(S)
<1>1. n \in Nat
  BY FS_CardinalityType
<1>2. order \in [1 .. n -> S] /\ \A i, j \in 1 .. n : i # j => order[i] # order[j]
  BY DEF SetToSeqs
<1>3. order \in Injection(1 .. n, S)
  BY <1>2 DEF Injection, IsInjective
<1>4. IsFiniteSet(1 .. n) /\ Cardinality(1 .. n) = n
  BY <1>1, FS_Interval
<1>5. order \in Surjection(1 .. n, S)
  BY <1>3, <1>4, FS_Injection
<1> QED BY <1>1, <1>2, <1>5 DEF Surjection

LEMMA MessagesFinite == IsFiniteSet(Message)
<1>1. IsFiniteSet(Slot)
  BY ScheduleAssumption, FS_Interval DEF Slot
<1> QED BY <1>1, ScheduleAssumption, FS_Product

LEMMA Times ==
  /\ Time \subseteq Slot /\ Time \subseteq Nat /\ Slot \subseteq Nat
  /\ NoTime \notin Time /\ NoTime \in Nat
  /\ \A s \in Schedule : Rule[s] \subseteq Time
  /\ \A s \in Schedule, t \in Slot : <<s, t>> \in Message
  /\ \A m \in Message : m[1] \in Schedule
  BY ScheduleAssumption DEF Time, Slot, NoTime

LEMMA NextType ==
  ASSUME NEW s \in Schedule, NEW t
  PROVE  NextAfter(s, t) \in {NoTime} \cup Rule[s] /\ NextFrom(s, t) \in {NoTime} \cup Rule[s]
<1>1. {u \in Rule[s] : u > t} \in SUBSET Nat /\ {u \in Rule[s] : u >= t} \in SUBSET Nat
  BY Times
<1> QED BY <1>1, FirstOfType DEF NextAfter, NextFrom

\* The dispatcher visits tasks whose rule has an occurrence to fold.
LEMMA SlottedType ==
  ASSUME Typed, NEW s \in loop.left
  PROVE  s \in Schedule /\ Slotted(s) \in Rule[s] /\ <<s, Slotted(s)>> \in Message
<1> USE DEF Typed, LoopTypes, Loop
<1> DEFINE S == {u \in Rule[s] : u <= loop.at}
<1>1. s \in Schedule /\ loop.seen[s].next \in S
  OBVIOUS
<1>2. S \in SUBSET (0 .. MaxTime) /\ MaxTime \in Nat
  BY <1>1, Times, ScheduleAssumption DEF Time
<1>3. Max(S) \in S
  <2> HIDE DEF S
  <2> QED BY <1>1, <1>2, MaxMember
<1>4. Slotted(s) \in Rule[s]
  BY <1>3 DEF Slotted, LatestBefore
<1> QED BY <1>1, <1>4, Times

LEMMA DispatchedType ==
  ASSUME Typed, NEW s \in loop.left
  PROVE  Dispatched(s) \in RowOf(s)
<1>1. s \in Schedule /\ loop.seen[s] \in RowOf(s)
  BY DEF Typed, LoopTypes, Loop
<1>2. NextAfter(s, loop.at) \in {NoTime} \cup Rule[s] /\ Rule[s] \subseteq Time
  BY <1>1, NextType, Times
<1> QED BY <1>1, <1>2 DEF Dispatched, RowOf, Row, RowStatus

LEMMA FailedType ==
  ASSUME NEW s \in Schedule, NEW copy \in RowOf(s)
  PROVE  Failed(copy) \in RowOf(s)
  BY Times DEF Failed, RowOf, Row, RowStatus, NoTime

LEMMA BlankType == \A s \in Schedule : Blank \in RowOf(s)
  BY DEF Blank, RowOf, Row, RowStatus, NoTime

LEMMA IdleTypes ==
  /\ LoopIdle \in Loop /\ LoopIdle.left = {} /\ LoopIdle.seen = [s \in Schedule |-> Blank]
  /\ ExecIdle \in Exec /\ EditIdle \in Edit
  BY DEF LoopIdle, Loop, ExecIdle, Exec, EditIdle, Edit, Blank, Row, RowStatus, NoTime

-------------------------------------------------------------------------------
(* The types *)

LEMMA TypedInit == Init => Typed
<1> SUFFICES ASSUME Init
             PROVE  Typed
  OBVIOUS
<1>1. TableTypes
  <2>1. now \in Time
    BY ScheduleAssumption DEF Init, Time
  <2>2. row \in [Schedule -> Row] /\ \A s \in Schedule : row[s] \in RowOf(s)
    BY BlankType DEF Init, RowOf
  <2> QED BY <2>1, <2>2 DEF Init, TableTypes, RunStatus
<1>2. LoopTypes
  <2>1. loop = LoopIdle /\ loop.pc = "off"
    BY DEF Init, LoopIdle
  <2> QED BY <2>1, BlankType, IdleTypes DEF LoopTypes
<1>3. TaskTypes
  BY IdleTypes DEF Init, TaskTypes, ExecIdle
<1>4. EditTypes
  BY IdleTypes DEF Init, EditTypes, EditIdle
<1>5. Quiet
  BY DEF Init, Quiet, EditIdle
<1> QED BY <1>1, <1>2, <1>3, <1>4, <1>5 DEF Typed

\* A task is spawned behind the ones that wait.
LEMMA TaskAdded ==
  ASSUME TaskTypes, NEW t \in Task, t.copy \in RowOf(t.id[1]),
         tasks' = Append(tasks, t), exec' = exec
  PROVE  TaskTypes'
<1>1. /\ tasks' \in Seq(Task) /\ tasks' # <<>>
      /\ \A j \in DOMAIN tasks' : tasks'[j] = t \/ (j \in DOMAIN tasks /\ tasks'[j] = tasks[j])
      /\ tasks # <<>> => Head(tasks') = Head(tasks)
  BY DEF TaskTypes
<1>2. \A j \in DOMAIN tasks' : tasks'[j].copy \in RowOf(tasks'[j].id[1])
  BY <1>1 DEF TaskTypes
<1>3. exec'.pc # "idle" => exec'.copy \in RowOf(Scheduled')
  BY <1>1 DEF TaskTypes, Scheduled, Id
<1> QED BY <1>1, <1>2, <1>3 DEF TaskTypes

LEMMA TypedTick == Typed /\ Tick => Typed'
<1> SUFFICES ASSUME Typed, Tick
             PROVE  Typed'
  OBVIOUS
<1>1. TableTypes'
  BY ScheduleAssumption DEF Typed, TableTypes, Tick, Time
<1> QED
  BY <1>1 DEF Typed, Tick, LoopTypes, TaskTypes, Scheduled, Id, EditTypes, Quiet

\* The dispatcher's steps touch the loop, the rows of due tasks and new runs.
LEMMA TypedLoop == Typed /\ LoopStep => Typed'
<1> SUFFICES ASSUME Typed, LoopStep
             PROVE  Typed'
  OBVIOUS
<1>1. on = "on"
  <2>1. loop.pc # "off"
    BY DEF LoopStep, ListDue, CreateRun, ReadDelay, ClearWake, Wakes, SaveDispatch
  <2> QED BY <2>1 DEF Typed, Quiet, LoopIdle
<1>2. EditTypes' /\ Quiet'
  BY <1>1 DEF Typed, EditTypes, Quiet, LoopStep, ListDue, CreateRun, ReadDelay, ClearWake,
              Wakes, SaveDispatch
<1> DEFINE Rest == TableTypes' /\ LoopTypes' /\ TaskTypes'
<1>3. ASSUME ListDue
      PROVE  Rest
  <2> DEFINE due == {s \in Schedule : Due(row[s], now)}
  <2>1. TableTypes' /\ TaskTypes'
    BY <1>3 DEF ListDue, Typed, TableTypes, TaskTypes, Scheduled, Id
  <2>2. CASE due = {}
    <3>1. loop' = [LoopIdle EXCEPT !.pc = "delay"]
      BY <1>3, <2>2 DEF ListDue
    <3>2. loop' \in Loop /\ loop'.left = {} /\ loop'.seen = [s \in Schedule |-> Blank]
          /\ loop'.pc = "delay"
      BY <3>1, IdleTypes DEF Loop
    <3> QED BY <2>1, <3>2, BlankType DEF LoopTypes
  <2>3. CASE due # {}
    <3>1. loop' = [loop EXCEPT !.pc = "visit", !.at = now, !.seen = row, !.left = due]
      BY <1>3, <2>3 DEF ListDue
    <3>2. loop' \in Loop /\ loop'.left = due /\ loop'.seen = row /\ loop'.at = now
          /\ loop'.pc = "visit"
      BY <3>1 DEF Typed, LoopTypes, Loop, TableTypes
    <3>3. \A s \in due : row[s].next \in Rule[s] /\ row[s].next <= now
      BY DEF Due, Typed, TableTypes, RowOf
    <3> HIDE DEF due
    <3>4. LoopTypes'
      BY <3>2, <3>3 DEF LoopTypes, Typed, TableTypes
    <3> QED BY <2>1, <3>4
  <2> QED BY <2>2, <2>3
<1>4. ASSUME NEW s \in Schedule, SaveDispatch(s)
      PROVE  Rest
  <2>1. s \in loop.left /\ Dispatched(s) \in RowOf(s) /\ <<s, Slotted(s)>> \in Message
    BY <1>4, SlottedType, DispatchedType DEF SaveDispatch
  <2>2. TableTypes'
    BY <1>4, <2>1 DEF SaveDispatch, Typed, TableTypes, RowOf
  <2>3. LoopTypes'
    BY <1>4, <2>1 DEF SaveDispatch, Typed, LoopTypes, Loop
  <2>4. TaskTypes'
    BY <1>4 DEF SaveDispatch, Typed, TaskTypes, Scheduled, Id
  <2> QED BY <2>2, <2>3, <2>4
<1>5. ASSUME CreateRun
      PROVE  Rest
  <2> DEFINE s == loop.cur
             m == <<s, Slotted(s)>>
             rest == loop.left \ {s}
  <2>1. s \in loop.left
    BY <1>5 DEF CreateRun, Typed, LoopTypes
  <2>2. s \in Schedule /\ m \in Message /\ Dispatched(s) \in RowOf(s)
    BY <2>1, SlottedType, DispatchedType
  <2>3. TableTypes'
    BY <1>5, <2>2 DEF CreateRun, Typed, TableTypes, RunStatus
  <2>4. LoopTypes'
    <3>1. CASE rest = {}
      <4>1. loop' = [LoopIdle EXCEPT !.pc = "delay"]
        BY <1>5, <3>1 DEF CreateRun
      <4>2. loop' \in Loop /\ loop'.left = {} /\ loop'.seen = [z \in Schedule |-> Blank]
            /\ loop'.pc = "delay"
        BY <4>1, IdleTypes DEF Loop
      <4> QED BY <4>2, BlankType DEF LoopTypes
    <3>2. CASE rest # {}
      <4>1. loop' = [loop EXCEPT !.pc = "visit", !.left = rest, !.cur = NoSchedule]
        BY <1>5, <3>2 DEF CreateRun
      <4> QED BY <4>1 DEF Typed, LoopTypes, Loop
    <3> QED BY <3>1, <3>2
  <2>5. TaskTypes'
    <3>1. CASE run[m] = "none"
      <4> DEFINE new == [id |-> m, copy |-> Dispatched(s)]
      <4>1. tasks' = Append(tasks, new) /\ new \in Task
        BY <1>5, <2>2, <3>1 DEF CreateRun, Task, RowOf
      <4>2. new.id[1] = s /\ new.copy \in RowOf(s)
        BY <2>2
      <4> HIDE DEF new
      <4> QED BY <1>5, <4>1, <4>2, TaskAdded DEF CreateRun, Typed
    <3>2. CASE run[m] # "none"
      BY <1>5, <3>2 DEF CreateRun, Typed, TaskTypes, Scheduled, Id
    <3> QED BY <3>1, <3>2
  <2> QED BY <2>3, <2>4, <2>5
<1>6. ASSUME ReadDelay
      PROVE  Rest
  <2> DEFINE next == {row[s].next : s \in {z \in Schedule :
                        row[z].status = "active" /\ row[z].next # NoTime}}
  <2>1. next \subseteq Time
    BY DEF Typed, TableTypes, Row, NoTime
  <2>2. FirstOf(next) \in {NoTime} \cup Time
    <3> HIDE DEF next
    <3> QED BY <2>1, FirstOfType, Times
  <2> HIDE DEF next
  <2>3. LoopTypes'
    BY <1>6, <2>2 DEF ReadDelay, Typed, LoopTypes, Loop, next
  <2> QED BY <1>6, <2>3 DEF ReadDelay, Typed, TableTypes, TaskTypes, Scheduled, Id
<1>7. ASSUME ClearWake \/ Wakes
      PROVE  Rest
  BY <1>7 DEF ClearWake, Wakes, Typed, TableTypes, LoopTypes, Loop, TaskTypes, Scheduled, Id,
              NoTime
<1> QED BY <1>2, <1>3, <1>4, <1>5, <1>6, <1>7 DEF LoopStep, Typed

LEMMA HeadType ==
  ASSUME TaskTypes, tasks # <<>>
  PROVE  /\ Id \in Message /\ Scheduled \in Schedule
         /\ Head(tasks) \in Task /\ Head(tasks).copy \in RowOf(Scheduled)
<1>1. Head(tasks) \in Task /\ Head(tasks).copy \in RowOf(Head(tasks).id[1])
  BY DEF TaskTypes
<1> QED BY <1>1, Times DEF Id, Scheduled, Task

\* A task spawned behind others does not change who holds the lock.
LEMMA HeadStays ==
  ASSUME tasks \in Seq(Task), tasks # <<>>, NEW t, tasks' = Append(tasks, t)
  PROVE  Id' = Id
  BY DEF Id

\* The run that holds the session lock saves the copy it was spawned with.
LEMMA TypedExec == Typed /\ ExecStep => Typed'
<1> SUFFICES ASSUME Typed, ExecStep
             PROVE  Typed'
  OBVIOUS
<1>1. DeliverStep => UNCHANGED chainVars
  BY DEF DeliverStep
<1>2. tasks # <<>> => Id \in Message /\ Scheduled \in Schedule /\ Head(tasks) \in Task
                      /\ Head(tasks).copy \in RowOf(Scheduled)
  BY HeadType DEF Typed
<1>3. ASSUME ~DeliverStep
      PROVE  on = "on" /\ tasks # <<>>
  <2>1. exec.pc # "idle" \/ tasks # <<>>
    BY <1>3 DEF ExecStep, StartRun, LookReceipt, LookFails, GenerateText, GenerateFails,
                Delivered, SendAlert, SaveRuntime, SaveRun
  <2> QED BY <2>1 DEF Typed, TaskTypes, Quiet, ExecIdle
<1>4. ASSUME ~DeliverStep
      PROVE  LoopTypes' /\ EditTypes' /\ Quiet'
  <2>1. on' = "on" /\ loop' = loop /\ edit' = edit
    BY <1>3, <1>4 DEF ExecStep, StartRun, LookReceipt, LookFails, GenerateText, GenerateFails,
                      Delivered, SendAlert, SaveRuntime, SaveRun
  <2> QED BY <2>1 DEF Typed, LoopTypes, EditTypes, Quiet
<1> DEFINE Rest == TableTypes' /\ TaskTypes'
<1>5. ASSUME StartRun
      PROVE  Rest
  <2>1. exec' \in Exec /\ exec'.copy = Head(tasks).copy
    BY <1>2, <1>5 DEF StartRun, Exec, Task
  <2> QED
    BY <1>2, <1>5, <2>1 DEF StartRun, Typed, TableTypes, RunStatus, TaskTypes, Scheduled, Id
<1>6. ASSUME LookReceipt \/ GenerateText \/ SendAlert
      PROVE  Rest
  <2>1. exec.pc # "idle" /\ exec' \in Exec /\ exec'.copy = exec.copy /\ tasks' = tasks
    BY <1>6 DEF LookReceipt, GenerateText, SendAlert, Typed, TaskTypes, Exec
  <2>2. UNCHANGED <<now, row, revision, run, on, todo, wake, spent, taken, streak, blind>>
    BY <1>6 DEF LookReceipt, GenerateText, SendAlert
  <2> QED BY <2>1, <2>2 DEF Typed, TableTypes, TaskTypes, Scheduled, Id
<1>7. ASSUME FailRun, exec.pc # "idle", tasks' = tasks,
             UNCHANGED <<now, row, revision, run, on, todo, wake, spent, taken, streak>>,
             blind' \in SUBSET Message
      PROVE  Rest
  <2>1. tasks # <<>> /\ exec.copy \in RowOf(Scheduled) /\ Scheduled \in Schedule
    BY <1>2, <1>7 DEF Typed, TaskTypes
  <2>2. Failed(exec.copy) \in RowOf(Scheduled)
    BY <2>1, FailedType
  <2>3. exec' \in Exec /\ exec'.copy = Failed(exec.copy)
    BY <1>7, <2>2 DEF FailRun, Exec, RowOf, Terminal
  <2> QED BY <1>7, <2>1, <2>2, <2>3 DEF Typed, TableTypes, TaskTypes, Scheduled, Id
<1>8. ASSUME GenerateFails \/ LookFails
      PROVE  Rest
  <2>1. CASE GenerateFails
    BY <1>7, <2>1 DEF GenerateFails, Typed, TableTypes
  <2>2. CASE LookFails
    <3>1. Id \in Message
      BY <1>2, <2>2 DEF LookFails, Typed, TaskTypes
    <3>2. blind' \in SUBSET Message
      BY <2>2, <3>1 DEF LookFails, Typed, TableTypes
    <3> QED BY <1>7, <2>2, <3>2 DEF LookFails
  <2> QED BY <1>8, <2>1, <2>2
<1>9. ASSUME Delivered
      PROVE  Rest
  <2>1. CASE call[Holder].receipt = "SENT"
    <3>1. tasks # <<>> /\ exec.copy \in RowOf(Scheduled)
      BY <1>9 DEF Delivered, Typed, TaskTypes
    <3>2. exec' = [pc |-> "save", copy |-> [exec.copy EXCEPT !.failures = 0],
                   outcome |-> "completed"]
      BY <1>9, <2>1 DEF Delivered
    <3>3. exec' \in Exec /\ exec'.copy \in RowOf(Scheduled)
      BY <3>1, <3>2 DEF Exec, RowOf, Row, Terminal
    <3> QED BY <1>9, <3>1, <3>3 DEF Delivered, Typed, TableTypes, TaskTypes, Scheduled, Id
  <2>2. CASE call[Holder].receipt # "SENT"
    BY <1>7, <1>9, <2>2 DEF Delivered, Typed, TableTypes
  <2> QED BY <2>1, <2>2
<1>10. ASSUME SaveRuntime
       PROVE  Rest
  <2>1. tasks # <<>> /\ exec.copy \in RowOf(Scheduled) /\ Scheduled \in Schedule
    BY <1>2, <1>10 DEF SaveRuntime, Typed, TaskTypes
  <2>2. exec' \in Exec /\ exec'.copy = exec.copy
    BY <1>10 DEF SaveRuntime, Typed, TaskTypes, Exec
  <2>3. TableTypes'
    BY <1>10, <2>1 DEF SaveRuntime, Typed, TableTypes, RowOf
  <2> QED BY <1>10, <2>1, <2>2, <2>3 DEF SaveRuntime, Typed, TaskTypes, Scheduled, Id
<1>11. ASSUME SaveRun
       PROVE  Rest
  <2>1. exec.outcome \in RunStatus /\ Scheduled \in Schedule /\ Id \in Message
    BY <1>2, <1>11 DEF SaveRun, Typed, TaskTypes, Exec, RunStatus, Terminal
  <2>2. TableTypes'
    BY <1>11, <2>1 DEF SaveRun, Typed, TableTypes
  <2>3. tasks' \in Seq(Task)
        /\ \A j \in DOMAIN tasks' : j + 1 \in DOMAIN tasks /\ tasks'[j] = tasks[j + 1]
    BY <1>2, <1>3, <1>11 DEF SaveRun, Typed, TaskTypes
  <2>4. exec' = ExecIdle
    BY <1>11 DEF SaveRun
  <2> QED BY <2>2, <2>3, <2>4, IdleTypes DEF Typed, TaskTypes, ExecIdle
<1>12. ASSUME DeliverStep
       PROVE  Typed'
  BY <1>1, <1>12 DEF chainVars, Typed, TableTypes, LoopTypes, TaskTypes, Scheduled, Id,
                     EditTypes, Quiet
<1> QED
  BY <1>4, <1>5, <1>6, <1>8, <1>9, <1>10, <1>11, <1>12 DEF ExecStep, Typed

\* What a user operation writes fits the rule of the task.
LEMMA EditedType ==
  ASSUME NEW d, d.s \in Schedule
  PROVE  /\ Edited(d).status \in RowStatus
         /\ Edited(d).next \in {NoTime} \cup Rule[d.s]
<1>1. NextFrom(d.s, now) \in {NoTime} \cup Rule[d.s]
  BY NextType
<1>2. Edited(d) \in [status : RowStatus, next : {NoTime} \cup Rule[d.s]]
  BY <1>1 DEF Edited, RowStatus
<1> QED BY <1>2

\* A user operation stays with its task until it ends.
LEMMA EditMoves ==
  ASSUME NEW e \in Editor, Typed, EditStep(e)
  PROVE  \E new \in Edit : /\ edit' = [edit EXCEPT ![e] = new]
                           /\ new.pc # "idle" => new.s = edit[e].s /\ new.seen = edit[e].seen
<1> DEFINE d == edit[e]
<1>1. d \in Edit /\ EditIdle \in Edit /\ EditIdle.pc = "idle"
  BY IdleTypes DEF Typed, EditTypes, EditIdle
<1>2. CASE edit' = [edit EXCEPT ![e] = EditIdle]
  BY <1>1, <1>2
<1>3. ASSUME NEW pc \in {"write", "notify"}, edit' = [edit EXCEPT ![e] = [d EXCEPT !.pc = pc]]
      PROVE  \E new \in Edit : /\ edit' = [edit EXCEPT ![e] = new]
                               /\ new.pc # "idle" => new.s = d.s /\ new.seen = d.seen
  <2>1. [d EXCEPT !.pc = pc] \in Edit
    BY <1>1 DEF Edit
  <2> QED BY <1>1, <1>3, <2>1 DEF Edit
<1>4. edit' = [edit EXCEPT ![e] = EditIdle]
      \/ \E pc \in {"write", "notify"} : edit' = [edit EXCEPT ![e] = [d EXCEPT !.pc = pc]]
  BY DEF EditStep, CountActive, WriteEdit, Notify, RunNow
<1> QED BY <1>2, <1>3, <1>4

\* A user operation touches the row it works on, the wake event or a new run.
LEMMA TypedEdit == ASSUME NEW e \in Editor, Typed, EditStep(e) PROVE Typed'
<1> DEFINE d == edit[e]
<1>1. /\ d \in Edit /\ d.s \in Schedule /\ d.seen \in RowOf(d.s) /\ d.pc # "idle"
      /\ on = "on" /\ EditIdle \in Edit /\ EditIdle.pc = "idle"
  BY IdleTypes DEF EditStep, CountActive, WriteEdit, Notify, RunNow, Typed, EditTypes,
                   Quiet, EditIdle
<1>2. LoopTypes' /\ Quiet'
  BY <1>1 DEF EditStep, CountActive, WriteEdit, Notify, RunNow, Typed, LoopTypes, Quiet
<1>3. EditTypes'
  <2>1. PICK new \in Edit : /\ edit' = [edit EXCEPT ![e] = new]
                            /\ new.pc # "idle" => new.s = d.s /\ new.seen = d.seen
    BY EditMoves
  <2> QED BY <1>1, <2>1 DEF Typed, EditTypes
<1> DEFINE Rest == TableTypes' /\ TaskTypes'
<1>4. ASSUME CountActive(e) \/ Notify(e)
      PROVE  Rest
  BY <1>4 DEF CountActive, Notify, Typed, TableTypes, TaskTypes, Scheduled, Id
<1>5. ASSUME WriteEdit(e)
      PROVE  Rest
  <2> UNCHANGED <<now, run, on, todo, wake, tasks, exec, spent, taken, blind>>
    BY <1>5 DEF WriteEdit
  <2>1. TaskTypes'
    BY DEF Typed, TaskTypes, Scheduled, Id
  <2>2. CASE row' = row /\ revision' = revision /\ streak' = streak
    BY <2>1, <2>2 DEF Typed, TableTypes
  <2>3. CASE /\ row' = [row EXCEPT ![d.s].status = Edited(d).status, ![d.s].next = Edited(d).next]
             /\ revision' = [revision EXCEPT ![d.s] = @ + 1]
             /\ streak' \in {streak, [streak EXCEPT ![d.s] = 0]}
    <3> DEFINE new == [row[d.s] EXCEPT !.status = Edited(d).status, !.next = Edited(d).next]
    <3>1. row' = [row EXCEPT ![d.s] = new]
      BY <2>3
    <3>2. new \in RowOf(d.s)
      BY <1>1, EditedType, Times DEF Typed, TableTypes, RowOf, Row
    <3>3. row' \in [Schedule -> Row] /\ \A s \in Schedule : row'[s] \in RowOf(s)
      <4> HIDE DEF new
      <4> QED BY <1>1, <3>1, <3>2 DEF Typed, TableTypes, RowOf
    <3>4. revision' \in [Schedule -> Nat] /\ streak' \in [Schedule -> Nat]
      BY <1>1, <2>3 DEF Typed, TableTypes
    <3> QED BY <2>1, <3>3, <3>4 DEF Typed, TableTypes
  <2>4. \/ row' = row /\ revision' = revision /\ streak' = streak
        \/ /\ row' = [row EXCEPT ![d.s].status = Edited(d).status, ![d.s].next = Edited(d).next]
           /\ revision' = [revision EXCEPT ![d.s] = @ + 1]
           /\ streak' \in {streak, [streak EXCEPT ![d.s] = 0]}
    BY <1>5 DEF WriteEdit
  <2> QED BY <2>1, <2>2, <2>3, <2>4
<1>6. ASSUME RunNow(e)
      PROVE  Rest
  <2> DEFINE free == {t \in Slot : t > MaxTime /\ run[<<d.s, t>>] = "none"}
             m == <<d.s, Min(free)>>
  <2>1. CASE free = {}
    BY <1>6, <2>1 DEF RunNow, Typed, TableTypes, TaskTypes, Scheduled, Id
  <2>2. CASE free # {}
    <3>1. Min(free) \in free
      <4>1. free \in SUBSET Nat
        BY Times
      <4> HIDE DEF free
      <4> QED BY <2>2, <4>1, MinMember
    <3>2. m \in Message
      BY <1>1, <3>1, Times
    <3> DEFINE new == [id |-> m, copy |-> d.seen]
    <3>3. run' = [run EXCEPT ![m] = "pending"] /\ tasks' = Append(tasks, new)
      BY <1>6, <2>2 DEF RunNow
    <3>4. new \in Task /\ new.copy \in RowOf(new.id[1])
      BY <1>1, <3>2 DEF Task, RowOf
    <3>5. TaskTypes'
      <4> HIDE DEF new
      <4> QED BY <1>6, <3>3, <3>4, TaskAdded DEF RunNow, Typed
    <3> HIDE DEF m
    <3> QED BY <1>6, <3>2, <3>3, <3>5 DEF RunNow, Typed, TableTypes, RunStatus
  <2> QED BY <2>1, <2>2
<1> QED BY <1>2, <1>3, <1>4, <1>5, <1>6 DEF EditStep, Typed

LEMMA TypedBegin ==
  ASSUME NEW e \in Editor, NEW op \in Op, NEW s \in Schedule, Typed, BeginEdit(e, op, s)
  PROVE  Typed'
<1>1. PICK new \in Edit : /\ edit' = [edit EXCEPT ![e] = new]
                          /\ new.s = s /\ new.seen = row[s]
  <2> DEFINE new == [pc |-> IF op \in {"create", "resume"} THEN "count" ELSE "write",
                     op |-> op, s |-> s, seen |-> row[s], rev |-> revision[s]]
  <2>1. new \in Edit
    BY ScheduleAssumption DEF Edit, Typed, TableTypes
  <2> QED BY <2>1 DEF BeginEdit
<1>2. EditTypes' /\ Quiet'
  BY <1>1 DEF BeginEdit, Typed, EditTypes, TableTypes, Quiet
<1> QED
  BY <1>2 DEF BeginEdit, Typed, TableTypes, LoopTypes, TaskTypes, Scheduled, Id

\* Start-up fills the queue with the unfinished runs, and with nothing else.
LEMMA StartsUnfinished ==
  ASSUME Typed, StartScheduler
  PROVE  /\ tasks' \in Seq(Task)
         /\ \A j \in DOMAIN tasks' : /\ tasks'[j].id \in Unfinished
                                     /\ tasks'[j].copy = row[tasks'[j].id[1]]
         /\ \A m \in Unfinished : \E j \in DOMAIN tasks' : tasks'[j].id = m
         /\ \A i, j \in DOMAIN tasks' : tasks'[i].id = tasks'[j].id => i = j
<1>1. PICK order \in SetToSeqs(Unfinished) :
        tasks' = [j \in DOMAIN order |-> [id |-> order[j], copy |-> row[order[j][1]]]]
  BY DEF StartScheduler
<1>2. IsFiniteSet(Unfinished) /\ Unfinished \subseteq Message
  BY MessagesFinite, FS_Subset DEF Unfinished
<1>3. /\ order \in Seq(Unfinished)
      /\ \A x \in Unfinished : \E j \in DOMAIN order : order[j] = x
      /\ \A i, j \in DOMAIN order : order[i] = order[j] => i = j
  BY <1>2, Orders
<1>4. /\ DOMAIN tasks' = DOMAIN order
      /\ \A j \in DOMAIN order : /\ order[j] \in Unfinished
                                 /\ tasks'[j].id = order[j]
                                 /\ tasks'[j].copy = row[order[j][1]]
                                 /\ tasks'[j] \in Task
  <2>1. \A j \in DOMAIN order : order[j] \in Unfinished /\ row[order[j][1]] \in Row
    BY <1>2, <1>3, Times DEF Typed, TableTypes
  <2> QED BY <1>1, <1>2, <2>1 DEF Task
<1>5. tasks' \in Seq(Task)
  <2>1. Len(order) \in Nat /\ DOMAIN order = 1 .. Len(order)
    BY <1>3
  <2>2. tasks' \in [1 .. Len(order) -> Task]
    BY <1>1, <1>4, <2>1
  <2> QED BY <2>1, <2>2
<1> QED BY <1>3, <1>4, <1>5

LEMMA TypedStart == Typed /\ StartStep => Typed'
<1> SUFFICES ASSUME Typed, StartStep
             PROVE  Typed'
  OBVIOUS
<1>1. ASSUME Boot
      PROVE  Typed'
  BY <1>1 DEF Boot, Recoverable, Typed, TableTypes, LoopTypes, TaskTypes, Scheduled, Id,
              EditTypes, Quiet
<1>2. ASSUME NEW m \in Message, RecoverMessage(m)
      PROVE  Typed'
  BY <1>2 DEF RecoverMessage, Typed, TableTypes, LoopTypes, TaskTypes, Scheduled, Id,
              EditTypes, Quiet
<1>3. ASSUME StartScheduler
      PROVE  Typed'
  <2>1. TableTypes' /\ EditTypes' /\ Quiet'
    BY <1>3 DEF StartScheduler, Typed, TableTypes, EditTypes, Quiet
  <2>2. LoopTypes'
    <3>1. loop' \in Loop /\ loop'.left = {} /\ loop'.seen = [s \in Schedule |-> Blank]
          /\ loop'.pc = "list"
      BY <1>3, IdleTypes DEF StartScheduler, Loop
    <3> QED BY <3>1, BlankType DEF LoopTypes
  <2>3. tasks' \in Seq(Task)
        /\ \A j \in DOMAIN tasks' : tasks'[j].copy \in RowOf(tasks'[j].id[1])
    BY <1>3, StartsUnfinished, Times DEF Typed, TableTypes, Unfinished
  <2>4. exec' = ExecIdle
    BY <1>3 DEF StartScheduler, Typed, Quiet
  <2> QED BY <2>1, <2>2, <2>3, <2>4, IdleTypes DEF Typed, TaskTypes, ExecIdle
<1> QED BY <1>1, <1>2, <1>3 DEF StartStep

LEMMA TypedCrash == Typed /\ Crash => Typed'
<1> SUFFICES ASSUME Typed, Crash
             PROVE  Typed'
  OBVIOUS
<1>1. TableTypes'
  <2>1. spent' \in [{"edit", "crash"} -> Nat]
    BY DEF Crash, Typed, TableTypes
  <2> QED BY <2>1 DEF Crash, Typed, TableTypes
<1>2. LoopTypes'
  <2>1. loop' = LoopIdle /\ LoopIdle.pc = "off"
    BY DEF Crash, LoopIdle
  <2> QED BY <2>1, BlankType, IdleTypes DEF LoopTypes
<1>3. TaskTypes'
  BY IdleTypes DEF Crash, TaskTypes, ExecIdle
<1>4. EditTypes' /\ Quiet'
  BY IdleTypes DEF Crash, EditTypes, Quiet, EditIdle
<1> QED BY <1>1, <1>2, <1>3, <1>4 DEF Typed

LEMMA TypedNext == Typed /\ [Next]_vars => Typed'
<1> SUFFICES ASSUME Typed, [Next]_vars
             PROVE  Typed'
  OBVIOUS
<1>1. CASE UNCHANGED vars
  BY <1>1 DEF vars, chainVars, Typed, TableTypes, LoopTypes, TaskTypes, Scheduled, Id,
              EditTypes, Quiet
<1> QED
  BY <1>1, TypedTick, TypedLoop, TypedExec, TypedEdit, TypedBegin, TypedStart, TypedCrash
     DEF Next

-------------------------------------------------------------------------------
(* The calls of deliver() *)

\* With one worker no other call is about the same message.
LEMMA Alone == \A M : Untouched({Holder}, M)
  BY ScheduleAssumption DEF Untouched

\* What a step of the scheduler does to the calls.
LEMMA CallMoves ==
  ASSUME Typed, [Next]_vars
  PROVE  \/ UNCHANGED callVars
         \/ \E m \in Message : Begin(Holder, m)
         \/ Step(Holder)
         \/ Abandon(Holder)
<1>1. CASE LoopStep
  BY <1>1 DEF LoopStep, ListDue, CreateRun, ReadDelay, ClearWake, Wakes, SaveDispatch
<1>2. CASE ExecStep
  <2>1. exec.pc # "idle" => Id \in Message
    BY HeadType DEF Typed, TaskTypes
  <2> QED
    BY <1>2, <2>1 DEF ExecStep, StartRun, LookReceipt, LookFails, GenerateText, GenerateFails,
       DeliverStep, Delivered, SendAlert, SaveRuntime, SaveRun
<1>3. CASE StartStep
  BY <1>3 DEF StartStep, Boot, RecoverMessage, StartScheduler
<1>4. CASE Tick \/ Crash
  BY <1>4 DEF Tick, Crash
<1>5. ASSUME NEW e \in Editor, EditStep(e)
      PROVE  UNCHANGED callVars
  BY <1>5 DEF EditStep, CountActive, WriteEdit, Notify, RunNow
<1>6. ASSUME NEW e \in Editor, NEW op \in Op, NEW s \in Schedule, BeginEdit(e, op, s)
      PROVE  UNCHANGED callVars
  BY <1>6 DEF BeginEdit
<1>7. CASE UNCHANGED vars
  BY <1>7 DEF vars
<1> QED BY <1>1, <1>2, <1>3, <1>4, <1>5, <1>6, <1>7 DEF Next

LEMMA CallsNext == Typed /\ CallInv /\ [Next]_vars => CallInv' /\ [D!DNext]_(D!dvars)
<1> SUFFICES ASSUME Typed, CallInv, [Next]_vars
             PROVE  CallInv' /\ (D!DNext \/ UNCHANGED D!dvars)
  OBVIOUS
<1>1. Holder \in Worker
  BY ScheduleAssumption
<1>2. CASE UNCHANGED callVars
  BY <1>2, CallsUntouched, Stutter DEF callVars
<1>3. ASSUME NEW m \in Message, Begin(Holder, m)
      PROVE  CallInv' /\ UNCHANGED D!dvars
  BY <1>1, <1>3, BeginInv, Stutter DEF Begin
<1>4. CASE Step(Holder)
  BY <1>1, <1>4, Alone, StepInv, StepRefines
<1>5. CASE Abandon(Holder)
  BY <1>1, <1>5, AbandonInv, Stutter DEF Abandon
<1> QED BY <1>2, <1>3, <1>4, <1>5, CallMoves

-------------------------------------------------------------------------------
(* The books: every run that has not ended is in the hands of one task *)

\* A task of which a run was given up is never touched again.
LEMMA GivenUpStays ==
  ASSUME Typed, [Next]_vars, NEW s \in Schedule, GivenUp(s)
  PROVE  GivenUp(s)'
<1> USE DEF GivenUp
<1>1. ASSUME tasks' = tasks, row'[s] = row[s], s \notin loop'.left, edit' = edit
      PROVE  GivenUp(s)'
  BY <1>1
<1>2. CASE LoopStep
  <2>1. CASE ListDue
    <3>1. s \notin {z \in Schedule : Due(row[z], now)}
      BY DEF Due
    <3> QED BY <1>1, <2>1, <3>1 DEF ListDue, LoopIdle
  <2>2. ASSUME NEW z \in Schedule, SaveDispatch(z)
        PROVE  GivenUp(s)'
    BY <1>1, <2>2 DEF SaveDispatch, Typed, TableTypes, LoopTypes, Loop
  <2>3. CASE CreateRun
    <3>1. loop.cur \in loop.left /\ loop.cur # s
      BY <2>3 DEF CreateRun, Typed, LoopTypes
    <3>2. s \notin loop'.left
      BY <2>3 DEF CreateRun, LoopIdle, Typed, LoopTypes, Loop
    <3>3. CASE tasks' = tasks
      BY <1>1, <2>3, <3>2, <3>3 DEF CreateRun
    <3>4. CASE tasks' # tasks
      <4> DEFINE new == [id |-> <<loop.cur, Slotted(loop.cur)>>, copy |-> Dispatched(loop.cur)]
      <4>1. tasks' = Append(tasks, new) /\ new.id[1] # s
        BY <2>3, <3>1, <3>4 DEF CreateRun
      <4> HIDE DEF new
      <4>2. \A j \in DOMAIN tasks' : tasks'[j].id[1] # s
        BY <4>1 DEF Typed, TaskTypes
      <4> QED BY <2>3, <3>2, <4>2 DEF CreateRun
    <3> QED BY <3>3, <3>4
  <2>4. CASE ReadDelay \/ ClearWake \/ Wakes
    BY <1>1, <2>4 DEF ReadDelay, ClearWake, Wakes, Typed, LoopTypes, Loop
  <2> QED BY <1>2, <2>1, <2>2, <2>3, <2>4 DEF LoopStep
<1>3. CASE ExecStep
  <2>1. CASE StartRun \/ LookReceipt \/ LookFails \/ GenerateText \/ GenerateFails
             \/ DeliverStep \/ Delivered \/ SendAlert
    BY <1>1, <2>1 DEF StartRun, LookReceipt, LookFails, GenerateText, GenerateFails,
                      DeliverStep, Delivered, SendAlert, chainVars
  <2>2. CASE SaveRuntime
    <3>1. tasks # <<>> /\ Scheduled # s
      BY <2>2 DEF SaveRuntime, Typed, TaskTypes, Scheduled, Id
    <3> QED BY <1>1, <2>2, <3>1 DEF SaveRuntime, Typed, TableTypes
  <2>3. CASE SaveRun
    <3>1. \A j \in DOMAIN tasks' : j + 1 \in DOMAIN tasks /\ tasks'[j] = tasks[j + 1]
      BY <2>3 DEF SaveRun, Typed, TaskTypes
    <3> QED BY <2>3, <3>1 DEF SaveRun
  <2> QED BY <1>3, <2>1, <2>2, <2>3 DEF ExecStep
<1>4. CASE StartStep
  <2>1. CASE Boot
    BY <1>1, <2>1 DEF Boot
  <2>2. ASSUME NEW m \in Message, RecoverMessage(m)
        PROVE  GivenUp(s)'
    BY <1>1, <2>2 DEF RecoverMessage
  <2>3. CASE StartScheduler
    <3>1. \A j \in DOMAIN tasks' : tasks'[j].id[1] # s
      BY <2>3, StartsUnfinished DEF Unfinished
    <3> QED BY <2>3, <3>1 DEF StartScheduler, LoopIdle
  <2> QED BY <1>4, <2>1, <2>2, <2>3 DEF StartStep
<1>5. ASSUME NEW e \in Editor, EditStep(e)
      PROVE  GivenUp(s)'
  <2>1. edit[e].pc # "idle" /\ edit[e].s # s /\ edit[e].s \in Schedule
    BY <1>5 DEF EditStep, CountActive, WriteEdit, Notify, RunNow, Typed, EditTypes
  <2>2. \A d \in Editor : edit'[d].pc # "idle" => edit'[d].s # s
    BY <1>5, <2>1, EditMoves DEF Typed, EditTypes
  <2>3. row'[s] = row[s] /\ loop' = loop
    BY <1>5, <2>1 DEF EditStep, CountActive, WriteEdit, Notify, RunNow, Typed, TableTypes
  <2>4. CASE tasks' = tasks
    BY <2>2, <2>3, <2>4
  <2>5. CASE tasks' # tasks
    <3>1. PICK new : tasks' = Append(tasks, new) /\ new.id[1] = edit[e].s
      BY <1>5, <2>5 DEF EditStep, CountActive, WriteEdit, Notify, RunNow
    <3>2. \A j \in DOMAIN tasks' : tasks'[j].id[1] # s
      BY <2>1, <3>1 DEF Typed, TaskTypes
    <3> QED BY <2>2, <2>3, <3>2
  <2> QED BY <2>4, <2>5
<1>6. ASSUME NEW e \in Editor, NEW op \in Op, NEW z \in Schedule, BeginEdit(e, op, z)
      PROVE  GivenUp(s)'
  <2>1. z # s
    BY <1>6 DEF BeginEdit
  <2> QED BY <1>6, <2>1 DEF BeginEdit, Typed, EditTypes
<1>7. CASE Crash
  BY <1>7 DEF Crash, LoopIdle, EditIdle
<1>8. CASE Tick \/ UNCHANGED vars
  BY <1>1, <1>8 DEF Tick, vars, chainVars
<1> QED BY <1>2, <1>3, <1>4, <1>5, <1>6, <1>7, <1>8 DEF Next

LEMMA BooksInit == Init => Books
  BY DEF Init, Books, TasksOpen, SpawnedOnce, ExecIdle

\* A step that leaves no run behind keeps the given-up ones given up.
LEMMA OrphansStay ==
  ASSUME Typed, Books, [Next]_vars, on = "on",
         \A m \in Message : RunOpen(m)' /\ ~HasTask(m)' => RunOpen(m) /\ ~HasTask(m)
  PROVE  \A m \in Message : RunOpen(m)' /\ ~HasTask(m)' => GivenUp(m[1])'
<1> SUFFICES ASSUME NEW m \in Message, RunOpen(m)', ~HasTask(m)'
             PROVE  GivenUp(m[1])'
  OBVIOUS
<1>1. GivenUp(m[1]) /\ m[1] \in Schedule
  BY Times DEF Books
<1> QED BY <1>1, GivenUpStays

\* Most steps neither spawn nor end a run.
LEMMA BooksFrame ==
  ASSUME Typed, Books, [Next]_vars, UNCHANGED <<run, tasks, on>>,
         exec'.pc # "idle" => exec.pc # "idle"
  PROVE  Books'
<1>1. TasksOpen' /\ SpawnedOnce'
  BY DEF Books, TasksOpen, SpawnedOnce, RunOpen, Id
<1>2. \A m \in Message : RunOpen(m)' /\ ~HasTask(m)' => RunOpen(m) /\ ~HasTask(m)
  BY DEF RunOpen, HasTask
<1> QED BY <1>1, <1>2, OrphansStay DEF Books

\* A new run gets a task of its own: all others work on runs that exist.
LEMMA BooksAdd ==
  ASSUME Typed, Books, [Next]_vars, NEW t \in Task, run[t.id] = "none",
         run' = [run EXCEPT ![t.id] = "pending"], tasks' = Append(tasks, t),
         exec' = exec, on = "on", on' = "on"
  PROVE  Books'
<1>1. /\ tasks \in Seq(Task) /\ t.id \in Message
      /\ \A j \in DOMAIN tasks : tasks[j].id \in Message /\ tasks[j].id # t.id
  <2>1. \A j \in DOMAIN tasks : tasks[j] \in Task
    BY DEF Typed, TaskTypes
  <2> QED BY <2>1 DEF Typed, TaskTypes, Books, TasksOpen, RunOpen, Task
<1>2. /\ \A j \in DOMAIN tasks' : \/ j = Len(tasks) + 1 /\ tasks'[j] = t
                                  \/ j \in DOMAIN tasks /\ tasks'[j] = tasks[j]
      /\ \A j \in DOMAIN tasks : j \in DOMAIN tasks' /\ tasks'[j] = tasks[j]
      /\ Len(tasks) + 1 \in DOMAIN tasks' /\ tasks'[Len(tasks) + 1] = t
      /\ tasks # <<>> => Head(tasks') = Head(tasks)
  BY <1>1
<1>3. SpawnedOnce'
  BY <1>1, <1>2 DEF Books, SpawnedOnce
<1>4. TasksOpen'
  <2>1. \A j \in DOMAIN tasks' : run'[tasks'[j].id] \in {"pending", "running"}
    BY <1>1, <1>2 DEF Books, TasksOpen, RunOpen, Typed, TableTypes
  <2>2. ASSUME exec'.pc # "idle"
        PROVE  run'[Id'] = "running"
    <3>1. tasks # <<>> /\ Id' = Id /\ run[Id] = "running" /\ Id \in Message
      BY <1>2, <2>2, HeadType DEF Typed, TaskTypes, Books, TasksOpen, Id
    <3> QED BY <1>1, <3>1 DEF Typed, TableTypes
  <2> QED BY <2>1, <2>2 DEF TasksOpen, RunOpen
<1>5. \A m \in Message : RunOpen(m)' /\ ~HasTask(m)' => RunOpen(m) /\ ~HasTask(m)
  <2> SUFFICES ASSUME NEW m \in Message, RunOpen(m)', ~HasTask(m)'
               PROVE  RunOpen(m) /\ ~HasTask(m)
    OBVIOUS
  <2>1. m # t.id /\ ~HasTask(m)
    BY <1>2 DEF HasTask
  <2> QED BY <2>1 DEF RunOpen, Typed, TableTypes
<1> QED BY <1>3, <1>4, <1>5, OrphansStay DEF Books

LEMMA BooksLoop == Typed /\ Books /\ LoopStep => Books'
<1> SUFFICES ASSUME Typed, Books, LoopStep
             PROVE  Books'
  OBVIOUS
<1>1. [Next]_vars
  BY DEF Next
<1>2. ListDue \/ ReadDelay \/ ClearWake \/ Wakes \/ (\E s \in Schedule : SaveDispatch(s))
        => Books'
  BY <1>1, BooksFrame DEF ListDue, ReadDelay, ClearWake, Wakes, SaveDispatch
<1>3. CASE CreateRun
  <2> DEFINE s == loop.cur
             t == [id |-> <<s, Slotted(s)>>, copy |-> Dispatched(s)]
  <2>1. CASE run[t.id] = "none"
    <3>1. t \in Task
      <4>1. s \in loop.left
        BY <1>3 DEF CreateRun, Typed, LoopTypes
      <4> QED BY <4>1, SlottedType, DispatchedType DEF Task, RowOf
    <3>2. run' = [run EXCEPT ![t.id] = "pending"] /\ tasks' = Append(tasks, t)
      BY <1>3, <2>1 DEF CreateRun
    <3>3. exec' = exec /\ on = "on" /\ on' = "on"
      BY <1>3 DEF CreateRun, Typed, Quiet, LoopIdle
    <3> HIDE DEF t
    <3> QED BY <1>1, <2>1, <3>1, <3>2, <3>3, BooksAdd
  <2>2. CASE run[t.id] # "none"
    BY <1>1, <1>3, <2>2, BooksFrame DEF CreateRun
  <2> QED BY <2>1, <2>2
<1> QED BY <1>2, <1>3 DEF LoopStep

LEMMA BooksExec == Typed /\ Books /\ ExecStep => Books'
<1> SUFFICES ASSUME Typed, Books, ExecStep
             PROVE  Books'
  OBVIOUS
<1>1. [Next]_vars
  BY DEF Next
<1>2. CASE LookReceipt \/ LookFails \/ GenerateText \/ GenerateFails \/ DeliverStep \/ Delivered
           \/ SendAlert \/ SaveRuntime
  <2>1. /\ UNCHANGED <<run, tasks, on>>
        /\ exec'.pc # "idle" => exec.pc # "idle"
    BY <1>2 DEF LookReceipt, LookFails, GenerateText, GenerateFails, DeliverStep,
                Delivered, SendAlert, SaveRuntime, chainVars
  <2> QED BY <1>1, <2>1, BooksFrame
<1>3. CASE StartRun
  <2>1. tasks # <<>> /\ Id \in Message /\ on = "on" /\ 1 \in DOMAIN tasks /\ Id = tasks[1].id
    BY <1>3, HeadType DEF StartRun, Typed, TaskTypes, Quiet, Id
  <2>2. run' = [run EXCEPT ![Id] = "running"] /\ tasks' = tasks /\ on' = on
    BY <1>3 DEF StartRun
  <2>3. \A j \in DOMAIN tasks : tasks[j].id \in Message
    <3>1. \A j \in DOMAIN tasks : tasks[j] \in Task
      BY DEF Typed, TaskTypes
    <3> QED BY <3>1 DEF Task
  <2>4. TasksOpen' /\ SpawnedOnce'
    BY <2>1, <2>2, <2>3 DEF Books, TasksOpen, SpawnedOnce, RunOpen, Id, Typed, TableTypes
  <2>5. \A m \in Message : RunOpen(m)' /\ ~HasTask(m)' => RunOpen(m) /\ ~HasTask(m)
    BY <2>1, <2>2 DEF RunOpen, HasTask, Typed, TableTypes
  <2> QED BY <1>1, <2>1, <2>4, <2>5, OrphansStay DEF Books
<1>4. CASE SaveRun
  <2>1. /\ tasks \in Seq(Task) /\ tasks # <<>> /\ Id \in Message /\ on = "on" /\ Id = tasks[1].id
        /\ exec.outcome \notin {"pending", "running"}
    BY <1>4, HeadType DEF SaveRun, Typed, TaskTypes, Quiet, ExecIdle, Id, Exec, Terminal
  <2>2. /\ run' = [run EXCEPT ![Id] = exec.outcome] /\ tasks' = Tail(tasks)
        /\ exec' = ExecIdle /\ on' = on
    BY <1>4 DEF SaveRun
  <2>3. /\ \A j \in DOMAIN tasks' : j + 1 \in DOMAIN tasks /\ tasks'[j] = tasks[j + 1] /\ j + 1 # 1
        /\ \A j \in DOMAIN tasks : j = 1 \/ (j - 1 \in DOMAIN tasks' /\ tasks'[j - 1] = tasks[j])
        /\ DOMAIN tasks' \subseteq Nat /\ DOMAIN tasks \subseteq Nat /\ 1 \in DOMAIN tasks
    BY <2>1, <2>2
  <2>4. SpawnedOnce'
    BY <2>3 DEF Books, SpawnedOnce
  <2>5. \A j \in DOMAIN tasks' : tasks'[j].id # Id
    BY <2>1, <2>3 DEF Books, SpawnedOnce
  <2>6. TasksOpen'
    <3>1. \A j \in DOMAIN tasks' : tasks'[j].id \in Message
      <4>1. \A j \in DOMAIN tasks : tasks[j] \in Task
        BY <2>1
      <4> QED BY <2>3, <4>1 DEF Task
    <3> QED BY <2>2, <2>3, <2>5, <3>1 DEF Books, TasksOpen, RunOpen, ExecIdle, Typed, TableTypes
  <2>7. \A m \in Message : RunOpen(m)' /\ ~HasTask(m)' => RunOpen(m) /\ ~HasTask(m)
    <3> SUFFICES ASSUME NEW m \in Message, RunOpen(m)', ~HasTask(m)'
                 PROVE  RunOpen(m) /\ ~HasTask(m)
      OBVIOUS
    <3>1. m # Id /\ RunOpen(m)
      BY <2>1, <2>2 DEF RunOpen, Typed, TableTypes
    <3> QED BY <2>1, <2>3, <3>1 DEF HasTask
  <2> QED BY <1>1, <2>1, <2>4, <2>6, <2>7, OrphansStay DEF Books
<1> QED BY <1>2, <1>3, <1>4 DEF ExecStep

LEMMA BooksEdit ==
  ASSUME NEW e \in Editor, Typed, Books, EditStep(e)
  PROVE  Books'
<1>1. [Next]_vars
  BY DEF Next
<1>2. CASE CountActive(e) \/ WriteEdit(e) \/ Notify(e)
  <2>1. UNCHANGED <<run, tasks, on, exec>>
    BY <1>2 DEF CountActive, WriteEdit, Notify
  <2> QED BY <1>1, <2>1, BooksFrame
<1>3. CASE RunNow(e)
  <2> DEFINE d == edit[e]
             free == {t \in Slot : t > MaxTime /\ run[<<d.s, t>>] = "none"}
             new == [id |-> <<d.s, Min(free)>>, copy |-> d.seen]
  <2>1. CASE free = {}
    BY <1>1, <1>3, <2>1, BooksFrame DEF RunNow
  <2>2. CASE free # {}
    <3>1. Min(free) \in free
      <4>1. free \in SUBSET Nat
        BY Times
      <4> HIDE DEF free
      <4> QED BY <2>2, <4>1, MinMember
    <3>2. d.s \in Schedule /\ d.seen \in Row /\ on = "on" /\ d.pc # "idle"
      BY <1>3 DEF RunNow, Typed, EditTypes, Quiet, RowOf
    <3>3. new \in Task /\ run[new.id] = "none"
      BY <3>1, <3>2, Times DEF Task
    <3>4. run' = [run EXCEPT ![new.id] = "pending"] /\ tasks' = Append(tasks, new)
      BY <1>3, <2>2 DEF RunNow
    <3>5. exec' = exec /\ on' = on
      BY <1>3 DEF RunNow
    <3> HIDE DEF new
    <3> QED BY <1>1, <3>2, <3>3, <3>4, <3>5, BooksAdd
  <2> QED BY <2>1, <2>2
<1> QED BY <1>2, <1>3 DEF EditStep

\* Start-up takes up all that a crash left, or the user has deleted the task.
LEMMA BooksStart == Typed /\ Books /\ StartStep => Books'
<1> SUFFICES ASSUME Typed, Books, StartStep
             PROVE  Books'
  OBVIOUS
<1>1. CASE Boot
  BY <1>1 DEF Boot, Books, TasksOpen, SpawnedOnce, RunOpen, Id
<1>2. ASSUME NEW m \in Message, RecoverMessage(m)
      PROVE  Books'
  BY <1>2 DEF RecoverMessage, Books, TasksOpen, SpawnedOnce, RunOpen, Id
<1>3. CASE StartScheduler
  <2>1. /\ \A j \in DOMAIN tasks' : tasks'[j].id \in Unfinished
        /\ \A m \in Unfinished : \E j \in DOMAIN tasks' : tasks'[j].id = m
        /\ SpawnedOnce'
    BY <1>3, StartsUnfinished DEF SpawnedOnce
  <2>2. run' = run /\ exec' = ExecIdle
    BY <1>3 DEF StartScheduler, Typed, Quiet
  <2>3. TasksOpen'
    BY <2>1, <2>2 DEF TasksOpen, RunOpen, Unfinished, ExecIdle
  <2>4. ASSUME NEW m \in Message, RunOpen(m)', ~HasTask(m)'
        PROVE  GivenUp(m[1])'
    <3>1. row[m[1]].status = "deleted"
      BY <2>1, <2>2, <2>4 DEF RunOpen, HasTask, Unfinished
    <3>2. GivenUp(m[1])
      BY <1>3, <3>1 DEF StartScheduler, Typed, Quiet, GivenUp, LoopIdle
    <3> QED BY <3>2, Times, GivenUpStays DEF Next
  <2> QED BY <2>1, <2>3, <2>4 DEF Books
<1> QED BY <1>1, <1>2, <1>3 DEF StartStep

LEMMA BooksNext == Typed /\ Books /\ [Next]_vars => Books'
<1> SUFFICES ASSUME Typed, Books, [Next]_vars
             PROVE  Books'
  OBVIOUS
<1>1. CASE Tick \/ UNCHANGED vars
  <2>1. UNCHANGED <<run, tasks, on, exec>>
    BY <1>1 DEF Tick, vars, chainVars
  <2> QED BY <2>1, BooksFrame
<1>2. CASE Crash
  BY <1>2 DEF Crash, Books, TasksOpen, SpawnedOnce, ExecIdle
<1>3. ASSUME NEW e \in Editor, NEW op \in Op, NEW s \in Schedule, BeginEdit(e, op, s)
      PROVE  Books'
  BY <1>3, BooksFrame DEF BeginEdit
<1> QED
  BY <1>1, <1>2, <1>3, BooksLoop, BooksExec, BooksEdit, BooksStart DEF Next

-------------------------------------------------------------------------------
(* Messages between their try and their history row *)

LEMMA LookedInit == Init => Looked
  BY DEF Init, CallInit, Looked, Unsettled

\* Most steps move no row, and no message in or out of the hands of those who look.
LEMMA LookedFrame ==
  ASSUME Looked, UNCHANGED <<attempt, history, on, todo>>, UNCHANGED callVars
  PROVE  Looked'
  BY DEF Looked, Unsettled, InCall, InFlight, callVars

\* A call begins or ends while no message is unsettled.
LEMMA LookedFree ==
  ASSUME Looked, ~InFlight(Holder), on = "on", UNCHANGED <<attempt, history>>
  PROVE  Looked'
  BY DEF Looked, Unsettled, InCall

LEMMA LookedExec == Typed /\ CallInv /\ Looked /\ ExecStep => Looked'
<1> SUFFICES ASSUME Typed, CallInv, Looked, ExecStep
             PROVE  Looked'
  OBVIOUS
<1> Holder \in Worker
  BY ScheduleAssumption
<1>1. CASE StartRun \/ LookFails \/ GenerateFails \/ SendAlert \/ SaveRuntime \/ SaveRun
  BY <1>1, LookedFrame DEF StartRun, LookFails, GenerateFails, SendAlert, SaveRuntime,
     SaveRun, callVars
<1>2. CASE LookReceipt \/ GenerateText \/ Delivered
  <2>1. on = "on"
    BY <1>2 DEF LookReceipt, GenerateText, Delivered, Typed, Quiet, ExecIdle
  <2>2. CASE UNCHANGED callVars
    BY <1>2, <2>2, LookedFrame DEF LookReceipt, GenerateText, Delivered, callVars
  <2>3. CASE Begin(Holder, Id) \/ (At(Holder, "done") /\ Abandon(Holder))
    <3>1. ~InFlight(Holder) /\ UNCHANGED <<attempt, history>>
      BY <2>3 DEF Begin, Abandon, Free, At, InFlight
    <3> QED BY <2>1, <3>1, LookedFree
  <2> QED BY <1>2, <2>2, <2>3 DEF LookReceipt, GenerateText, Delivered
<1>3. CASE DeliverStep
  <2> DEFINE m == call[Holder].msg
  <2>1. /\ \A n \in Message \ {m} : attempt'[n] = attempt[n]
        /\ history \subseteq history'
        /\ InFlight(Holder)' => call'[Holder].msg = m
        /\ ~InFlight(Holder)' =>
             /\ attempt'[m] \notin {"NONE", "PREPARED", "DISPATCHING"}
             /\ attempt'[m] = "SENT" => m \in history'
    BY <1>3, StepEffect DEF DeliverStep, Confined
  <2>2. UNCHANGED <<on, todo>>
    BY <1>3 DEF DeliverStep, chainVars
  <2> SUFFICES ASSUME NEW n \in Message, Unsettled(n)'
               PROVE  on' = "off" \/ (on' = "recovering" /\ n \in todo') \/ InCall(n)'
    BY DEF Looked
  <2>3. CASE n = m
    BY <2>1, <2>3 DEF Unsettled, InCall
  <2>4. CASE n # m
    BY <2>1, <2>2, <2>4 DEF Looked, Unsettled, InCall
  <2> QED BY <2>3, <2>4
<1> QED BY <1>1, <1>2, <1>3 DEF ExecStep

LEMMA LookedNext == Typed /\ CallInv /\ Looked /\ [Next]_vars => Looked'
<1> SUFFICES ASSUME Typed, CallInv, Looked, [Next]_vars
             PROVE  Looked'
  OBVIOUS
<1> Holder \in Worker
  BY ScheduleAssumption
<1>1. CASE Tick \/ UNCHANGED vars
  BY <1>1, LookedFrame DEF Tick, vars, chainVars, callVars
<1>2. CASE LoopStep
  BY <1>2, LookedFrame DEF LoopStep, ListDue, CreateRun, ReadDelay, ClearWake, Wakes,
     SaveDispatch, callVars
<1>3. ASSUME NEW e \in Editor, EditStep(e)
      PROVE  Looked'
  BY <1>3, LookedFrame DEF EditStep, CountActive, WriteEdit, Notify, RunNow, callVars
<1>4. ASSUME NEW e \in Editor, NEW op \in Op, NEW s \in Schedule, BeginEdit(e, op, s)
      PROVE  Looked'
  BY <1>4, LookedFrame DEF BeginEdit, callVars
<1>5. CASE Crash
  BY <1>5 DEF Crash, Looked
<1>6. CASE Boot
  BY <1>6 DEF Boot, Recoverable, Looked, Unsettled, callVars
<1>7. ASSUME NEW m \in Message, RecoverMessage(m)
      PROVE  Looked'
  <2>1. /\ ~InFlight(Holder) /\ InCall(m)' /\ UNCHANGED <<attempt, history, on>>
        /\ todo' = todo \ {m}
    BY <1>7 DEF RecoverMessage, Begin, Free, InFlight, InCall, CallInv, CallTypeOK
  <2> QED BY <2>1 DEF Looked, Unsettled, InCall
<1>8. CASE StartScheduler
  <2>1. /\ ~InFlight(Holder) /\ UNCHANGED <<attempt, history>>
        /\ on = "recovering" /\ todo = {}
    BY <1>8 DEF StartScheduler, Abandon, Free, InFlight
  <2> QED BY <2>1 DEF Looked, Unsettled, InCall
<1> QED
  BY <1>1, <1>2, <1>3, <1>4, <1>5, <1>6, <1>7, <1>8, LookedExec DEF Next, StartStep

-------------------------------------------------------------------------------
(* The truth of the records *)

LEMMA TruthInit == Init => Truth
  BY ScheduleAssumption
     DEF Init, CallInit, Idle, Truth, CallPlaced, ExecKnows, RunsTell, InFlight, ExecIdle

\* A step that ends no run and leaves deliver() and its caller alone.
LEMMA TruthFrame ==
  ASSUME IInv, UNCHANGED <<callVars, on, todo, exec, blind>>, exec.pc # "idle" => Id' = Id,
         \A m \in Message : run'[m] \in Terminal => run[m] = run'[m]
  PROVE  Truth'
<1>1. InFlight(Holder) => call[Holder].msg \in Message
  BY ScheduleAssumption DEF IInv, CallInv, Suspended
<1>2. CallPlaced'
  BY <1>1 DEF IInv, Truth, CallPlaced, Kept, InFlight, callVars, Terminal
<1>3. ExecKnows'
  BY DEF IInv, Truth, ExecKnows, FailedTells, Kept, Lost, At, callVars
<1>4. RunsTell'
  BY DEF IInv, Truth, RunsTell, FailedTells, Kept, Lost, callVars, Terminal
<1> QED BY <1>2, <1>3, <1>4 DEF IInv, Truth

\* The run moves on without a call of deliver() under way.
LEMMA TruthExec ==
  ASSUME IInv, UNCHANGED <<on, todo, run, attempt, history>>, blind \subseteq blind',
         on = "on", ~InFlight(Holder)', ExecKnows'
  PROVE  Truth'
<1>1. CallPlaced' /\ RunsTell'
  BY DEF IInv, Truth, CallPlaced, RunsTell, FailedTells, Kept, Lost
<1> QED BY <1>1 DEF IInv, Truth

\* A step of deliver() keeps what was sent; the message of a run that failed was.
LEMMA TruthDeliver == IInv /\ DeliverStep => Truth'
<1> SUFFICES ASSUME IInv, DeliverStep
             PROVE  Truth'
  OBVIOUS
<1> PICK m \in Message : m = call[Holder].msg
  BY StepBusy, ScheduleAssumption DEF IInv, DeliverStep
<1>1. InFlight(Holder) /\ Step(Holder) /\ Holder \in Worker
  BY StepBusy, ScheduleAssumption DEF IInv, DeliverStep
<1>2. /\ \A n \in Message \ {m} : attempt'[n] = attempt[n]
      /\ history \subseteq history'
      /\ attempt[m] = "SENT" => attempt'[m] = "SENT"
      /\ InFlight(Holder)' => call'[Holder].msg = m
      /\ ~InFlight(Holder)' =>
           /\ call'[Holder].pc = "done" /\ call'[Holder].receipt = attempt'[m]
           /\ attempt'[m] \notin {"NONE", "PREPARED", "DISPATCHING"}
           /\ attempt'[m] = "SENT" => m \in history'
  BY <1>1, StepEffect DEF IInv, Confined
<1>3. UNCHANGED <<run, on, exec, tasks, todo, blind>>
  BY DEF DeliverStep, chainVars
<1>4. run[m] = "failed" => Kept(m)
  BY <1>1 DEF IInv, Truth, CallPlaced, Books, TasksOpen
<1>5. RunsTell'
  BY <1>2, <1>3, <1>4 DEF IInv, Truth, RunsTell, FailedTells, Kept, Lost, OpenReceipt
<1>6. CallPlaced'
  BY <1>1, <1>2, <1>3, <1>4 DEF IInv, Truth, CallPlaced, Kept, InFlight, Id
<1>7. ExecKnows'
  <2>1. exec.pc \in {"idle", "deliver"} /\ (exec.pc = "deliver" => m = Id)
    BY <1>1 DEF IInv, Typed, Quiet, ExecIdle, Truth, CallPlaced
  <2>2. ~At(Holder, "idle")'
    BY <1>2 DEF InFlight, At
  <2>3. At(Holder, "done")' => ~InFlight(Holder)'
    BY DEF At, InFlight
  <2> QED BY <1>2, <1>3, <2>1, <2>2, <2>3 DEF ExecKnows, Id
<1> QED BY <1>3, <1>5, <1>6, <1>7 DEF IInv, Truth

LEMMA TruthRun == IInv /\ ExecStep => Truth'
<1> SUFFICES ASSUME IInv, ExecStep
             PROVE  Truth'
  OBVIOUS
<1>1. ASSUME ~DeliverStep
      PROVE  on = "on" /\ tasks # <<>> /\ Id \in Message /\ Holder \in Worker
  <2>1. exec.pc # "idle" \/ tasks # <<>>
    BY <1>1 DEF ExecStep, StartRun, LookReceipt, LookFails, GenerateText, GenerateFails,
                Delivered, SendAlert, SaveRuntime, SaveRun
  <2>2. on = "on" /\ tasks # <<>>
    BY <2>1 DEF IInv, Typed, TaskTypes, Quiet, ExecIdle
  <2> QED BY <2>2, HeadType, ScheduleAssumption DEF IInv, Typed
<1>2. ASSUME on = "on", exec.pc # "deliver"
      PROVE  ~InFlight(Holder)
  BY <1>2 DEF IInv, Truth, CallPlaced
<1>3. CASE StartRun
  <2>1. on = "on" /\ ~InFlight(Holder) /\ Id \in Message
    BY <1>3, <1>2, HeadType DEF StartRun, IInv, Typed, Quiet
  <2>2. UNCHANGED <<callVars, on, todo, tasks, blind>> /\ run' = [run EXCEPT ![Id] = "running"]
        /\ exec'.pc = "look"
    BY <1>3 DEF StartRun
  <2>3. CallPlaced' /\ ExecKnows'
    BY <2>1, <2>2 DEF CallPlaced, ExecKnows, InFlight, callVars
  <2>4. RunsTell'
    BY <2>1, <2>2 DEF IInv, Typed, TableTypes, Truth, RunsTell, FailedTells, Kept,
       Lost, callVars
  <2> QED BY <2>1, <2>2, <2>3, <2>4 DEF IInv, Truth
<1>4. ASSUME Begin(Holder, Id), exec'.pc = "deliver", exec.pc # "deliver",
             UNCHANGED <<on, todo, run, tasks, blind>>, ~DeliverStep
      PROVE  Truth'
  <2>1. /\ call'[Holder].pc = "look" /\ call'[Holder].msg = Id
        /\ UNCHANGED <<attempt, history>> /\ on = "on"
    BY <1>1, <1>4 DEF Begin, IInv, CallInv, CallTypeOK
  <2>2. CallPlaced' /\ ExecKnows'
    BY <1>4, <2>1 DEF CallPlaced, ExecKnows, InFlight, At, Id
  <2> QED BY <1>4, <2>1, <2>2 DEF IInv, Truth, RunsTell, FailedTells, Kept, Lost
<1>5. CASE LookReceipt
  <2>1. CASE attempt[Id] \in OpenReceipt
    <3>1. ~DeliverStep
      BY <1>2, <1>5, StepBusy, ScheduleAssumption
         DEF LookReceipt, DeliverStep, IInv, Typed, Quiet, ExecIdle
    <3>2. Begin(Holder, Id) /\ exec'.pc = "deliver" /\ exec.pc # "deliver"
          /\ UNCHANGED <<on, todo, run, tasks, blind>>
      BY <1>5, <2>1 DEF LookReceipt, OpenReceipt, IInv, Typed, TaskTypes, Exec
    <3> QED BY <1>4, <3>1, <3>2
  <2>2. CASE attempt[Id] \notin OpenReceipt
    <3>1. on = "on" /\ ~InFlight(Holder)
      BY <1>2, <1>5 DEF LookReceipt, IInv, Typed, Quiet, ExecIdle
    <3>2. UNCHANGED <<callVars, tasks, on, todo, run, blind>> /\ exec'.pc = "generate"
      BY <1>5, <2>2 DEF LookReceipt, OpenReceipt, IInv, Typed, TaskTypes, Exec
    <3>3. ExecKnows'
      BY <2>2, <3>2 DEF ExecKnows, Lost, Id, callVars
    <3> QED BY <3>1, <3>2, <3>3, TruthExec DEF callVars, InFlight
  <2> QED BY <2>1, <2>2
<1>6. CASE GenerateText
  <2>1. ~DeliverStep
    BY <1>2, <1>6, StepBusy, ScheduleAssumption
       DEF GenerateText, DeliverStep, IInv, Typed, Quiet, ExecIdle
  <2>2. exec'.pc = "deliver"
    BY <1>6 DEF GenerateText, IInv, Typed, TaskTypes, Exec
  <2> QED BY <1>4, <1>6, <2>1, <2>2 DEF GenerateText
<1>11. CASE LookFails
  <2>1. on = "on" /\ ~InFlight(Holder)
    BY <1>2, <1>11 DEF LookFails, IInv, Typed, Quiet, ExecIdle
  <2>2. UNCHANGED <<callVars, tasks, on, todo, run>> /\ exec'.pc \in {"alert", "save"}
        /\ exec'.outcome = "failed" /\ blind' = blind \cup {Id}
    BY <1>11 DEF LookFails, FailRun
  <2>3. Lost(Id) \/ Kept(Id)
    <3>1. Id \in Message /\ ~InCall(Id)
      BY <1>1, <1>11, <2>1, StepBusy, ScheduleAssumption
         DEF LookFails, DeliverStep, InCall, IInv
    <3> QED BY <2>1, <3>1 DEF IInv, Looked, Unsettled, Lost, Kept, OpenReceipt
  <2>4. ExecKnows'
    BY <2>2, <2>3 DEF ExecKnows, FailedTells, Lost, Kept, Id, callVars
  <2> QED BY <2>1, <2>2, <2>4, TruthExec DEF callVars, InFlight
<1>7. CASE GenerateFails
  <2>1. on = "on" /\ ~InFlight(Holder) /\ Lost(Id)
    BY <1>2, <1>7 DEF GenerateFails, IInv, Typed, Quiet, ExecIdle, Truth, ExecKnows
  <2>2. UNCHANGED <<callVars, tasks, on, todo, run, blind>> /\ exec'.pc \in {"alert", "save"}
        /\ exec'.outcome = "failed"
    BY <1>7 DEF GenerateFails, FailRun
  <2>3. ExecKnows'
    BY <2>1, <2>2 DEF ExecKnows, FailedTells, Lost, Id, callVars
  <2> QED BY <2>1, <2>2, <2>3, TruthExec DEF callVars, InFlight
<1>8. CASE Delivered
  <2>1. /\ on = "on" /\ ~InFlight(Holder) /\ Holder \in Worker
        /\ call[Holder].receipt = attempt[Id]
        /\ attempt[Id] \notin {"NONE", "PREPARED", "DISPATCHING"}
        /\ attempt[Id] = "SENT" => Id \in history
    BY <1>8, ScheduleAssumption
       DEF Delivered, IInv, Typed, Quiet, ExecIdle, Truth, ExecKnows, InFlight, At
  <2>2. UNCHANGED <<attempt, history, tasks, on, todo, run, blind>> /\ ~InFlight(Holder)'
    BY <1>8, <2>1 DEF Delivered, Abandon, Idle, InFlight, IInv, CallInv, CallTypeOK
  <2>3. CASE attempt[Id] = "SENT"
    <3>1. exec'.pc = "save" /\ exec'.outcome = "completed"
      BY <1>8, <2>1, <2>3 DEF Delivered
    <3>2. ExecKnows'
      BY <2>1, <2>2, <2>3, <3>1 DEF ExecKnows, Kept, Id
    <3> QED BY <2>1, <2>2, <3>2, TruthExec
  <2>4. CASE attempt[Id] # "SENT"
    <3>1. exec'.pc \in {"alert", "save"} /\ exec'.outcome = "failed"
      BY <1>8, <2>1, <2>4 DEF Delivered, FailRun
    <3>2. ExecKnows'
      BY <2>1, <2>2, <2>4, <3>1 DEF ExecKnows, FailedTells, Lost, OpenReceipt, Id
    <3> QED BY <2>1, <2>2, <3>2, TruthExec
  <2> QED BY <2>3, <2>4
<1>9. CASE SendAlert \/ SaveRuntime
  <2>1. on = "on" /\ ~InFlight(Holder)
    BY <1>2, <1>9 DEF SendAlert, SaveRuntime, IInv, Typed, Quiet, ExecIdle
  <2>2. /\ UNCHANGED <<callVars, tasks, on, todo, run, blind>>
        /\ exec.pc \in {"alert", "save"} /\ exec'.pc \in {"save", "finish"}
        /\ exec'.outcome = exec.outcome
    BY <1>9 DEF SendAlert, SaveRuntime, IInv, Typed, TaskTypes, Exec
  <2>3. ExecKnows'
    BY <2>2 DEF IInv, Truth, ExecKnows, FailedTells, Kept, Lost, Id, callVars
  <2> QED BY <2>1, <2>2, <2>3, TruthExec DEF callVars, InFlight
<1>10. CASE SaveRun
  <2>1. /\ on = "on" /\ ~InFlight(Holder) /\ Id \in Message
        /\ \/ exec.outcome = "completed" /\ Kept(Id)
           \/ exec.outcome = "failed" /\ FailedTells(Id)
    BY <1>2, <1>10, HeadType
       DEF SaveRun, IInv, Typed, Quiet, ExecIdle, TaskTypes, Truth, ExecKnows
  <2>2. UNCHANGED <<callVars, on, todo, blind>> /\ run' = [run EXCEPT ![Id] = exec.outcome]
        /\ exec' = ExecIdle
    BY <1>10 DEF SaveRun
  <2>3. CallPlaced' /\ ExecKnows'
    BY <2>1, <2>2 DEF CallPlaced, ExecKnows, InFlight, ExecIdle, callVars
  <2>4. todo = {}
    BY <2>1 DEF IInv, Truth
  <2>5. RunsTell'
    BY <2>1, <2>2, <2>4 DEF IInv, Typed, TableTypes, Truth, RunsTell, FailedTells, Kept, Lost,
       callVars
  <2> QED BY <2>1, <2>2, <2>3, <2>4, <2>5 DEF Truth
<1> QED
  BY <1>3, <1>5, <1>6, <1>7, <1>8, <1>9, <1>10, <1>11, TruthDeliver DEF ExecStep

\* Recovery visits open receipts; a failed run has none, or was sent.
LEMMA TruthStart == IInv /\ StartStep => Truth'
<1> SUFFICES ASSUME IInv, StartStep
             PROVE  Truth'
  OBVIOUS
<1> Holder \in Worker
  BY ScheduleAssumption
<1>1. CASE Boot
  <2>1. ~InFlight(Holder) /\ exec.pc = "idle"
    BY <1>1 DEF Boot, IInv, Truth, CallPlaced, Typed, Quiet, ExecIdle
  <2>2. UNCHANGED <<callVars, exec, run, blind>> /\ on' = "recovering" /\ todo' = Recoverable
    BY <1>1 DEF Boot
  <2> QED
    BY <2>1, <2>2 DEF IInv, Truth, CallPlaced, ExecKnows, RunsTell, FailedTells, Kept, Lost,
                      OpenReceipt, Recoverable, InFlight, callVars
<1>2. ASSUME NEW m \in Message, RecoverMessage(m)
      PROVE  Truth'
  <2>1. (run[m] = "failed" => Kept(m)) /\ exec.pc = "idle" /\ on = "recovering"
    BY <1>2 DEF RecoverMessage, IInv, Truth, RunsTell, FailedTells, Typed, Quiet, ExecIdle
  <2>2. /\ call'[Holder].msg = m /\ UNCHANGED <<attempt, history, exec, run, on, blind>>
        /\ todo' \subseteq todo
    BY <1>2 DEF RecoverMessage, Begin, IInv, CallInv, CallTypeOK
  <2> QED
    BY <2>1, <2>2 DEF IInv, Truth, CallPlaced, ExecKnows, RunsTell, FailedTells, Kept, Lost
<1>3. CASE StartScheduler
  <2>1. exec'.pc = "idle" /\ todo' = {} /\ ~InFlight(Holder)'
        /\ UNCHANGED <<attempt, history, run, blind>> /\ on' = "on"
    BY <1>3 DEF StartScheduler, Abandon, Idle, InFlight, IInv, CallInv, CallTypeOK, Typed,
                Quiet, ExecIdle
  <2> QED
    BY <2>1 DEF IInv, Truth, CallPlaced, ExecKnows, RunsTell, FailedTells, Kept, Lost
<1> QED BY <1>1, <1>2, <1>3 DEF StartStep

LEMMA TruthNext == IInv /\ [Next]_vars => Truth'
<1> SUFFICES ASSUME IInv, [Next]_vars
             PROVE  Truth'
  OBVIOUS
<1>1. CASE Tick \/ UNCHANGED vars
  BY <1>1, TruthFrame DEF Tick, vars, chainVars, Id
<1>2. CASE LoopStep
  <2>1. CASE CreateRun
    <3>1. UNCHANGED <<callVars, on, todo, exec, blind>>
      BY <2>1 DEF CreateRun
    <3>2. exec.pc # "idle" => Id' = Id
      BY <2>1, HeadStays DEF CreateRun, IInv, Typed, TaskTypes, Id
    <3>3. \A m \in Message : run'[m] \in Terminal => run[m] = run'[m]
      BY <2>1 DEF CreateRun, IInv, Typed, TableTypes, Terminal
    <3> QED BY <3>1, <3>2, <3>3, TruthFrame
  <2>2. CASE ListDue \/ ReadDelay \/ ClearWake \/ Wakes \/ \E s \in Schedule : SaveDispatch(s)
    BY <2>2, TruthFrame DEF ListDue, ReadDelay, ClearWake, Wakes, SaveDispatch, Id
  <2> QED BY <1>2, <2>1, <2>2 DEF LoopStep
<1>3. ASSUME NEW e \in Editor, EditStep(e)
      PROVE  Truth'
  <2>1. UNCHANGED <<callVars, on, todo, exec, blind>>
    BY <1>3 DEF EditStep, CountActive, WriteEdit, Notify, RunNow
  <2>2. exec.pc # "idle" => Id' = Id
    <3>1. CASE tasks' = tasks
      BY <3>1 DEF Id
    <3>2. CASE tasks' # tasks
      <4>1. \E t : tasks' = Append(tasks, t)
        BY <1>3, <3>2 DEF EditStep, CountActive, WriteEdit, Notify, RunNow
      <4> QED BY <4>1, HeadStays DEF IInv, Typed, TaskTypes
    <3> QED BY <3>1, <3>2
  <2>3. \A m \in Message : run'[m] \in Terminal => run[m] = run'[m]
    BY <1>3 DEF EditStep, CountActive, WriteEdit, Notify, RunNow, IInv, Typed, TableTypes,
                Terminal
  <2> QED BY <2>1, <2>2, <2>3, TruthFrame
<1>4. ASSUME NEW e \in Editor, NEW op \in Op, NEW s \in Schedule, BeginEdit(e, op, s)
      PROVE  Truth'
  BY <1>4, TruthFrame DEF BeginEdit, Id
<1>5. CASE Crash
  <2>1. /\ exec'.pc = "idle" /\ todo' = {} /\ on' = "off" /\ ~InFlight(Holder)'
        /\ UNCHANGED <<attempt, history, run, blind>>
    BY <1>5, ScheduleAssumption DEF Crash, Abandon, Idle, InFlight, IInv, CallInv,
       CallTypeOK, ExecIdle
  <2> QED
    BY <2>1 DEF IInv, Truth, CallPlaced, ExecKnows, RunsTell, FailedTells, Kept, Lost
<1> QED BY <1>1, <1>2, <1>3, <1>4, <1>5, TruthRun, TruthStart DEF Next

(****************************************************************************)
(* The theorems                                                             *)
(****************************************************************************)

LEMMA InitInv == Init => IInv
  BY TypedInit, BooksInit, LookedInit, TruthInit, CallInitInv DEF Init, IInv

LEMMA NextInv == IInv /\ [Next]_vars => IInv'
  BY TypedNext, BooksNext, CallsNext, LookedNext, TruthNext DEF IInv

\* The inductive invariant holds in every state the scheduler reaches.
THEOREM Invariant == Spec => []IInv
  BY InitInv, NextInv, PTL DEF Spec

\* The tables, the coroutines and the queue of tasks hold what the code puts there,
\* through every stale copy of a row that a loop, a run or an edit writes back.
THEOREM TypeCorrect == Spec => []TypeOK
<1>1. IInv => TypeOK
  <2> SUFFICES ASSUME IInv
               PROVE  TypeOK
    OBVIOUS
  <2>1. row \in [Schedule -> [status : RowStatus, next : {NoTime} \cup Time, failures : Nat]]
        /\ now \in 1 .. MaxTime
    BY DEF IInv, Typed, TableTypes, Row, Time
  <2>2. \A j \in DOMAIN tasks : tasks[j].id \in Message /\ tasks[j].copy.status \in RowStatus
    <3>1. \A j \in DOMAIN tasks : tasks[j] \in Task
      BY DEF IInv, Typed, TaskTypes
    <3> QED BY <3>1 DEF Task, Row
  <2>3. /\ loop.pc \in {"off", "list", "visit", "create", "delay", "clear", "wait"}
        /\ loop.left \in SUBSET Schedule
    BY DEF IInv, Typed, LoopTypes, Loop
  <2>4. /\ exec.pc \in {"idle", "look", "generate", "deliver", "alert", "save", "finish"}
        /\ exec.outcome \in {"none"} \cup Terminal
        /\ \A e \in Editor : edit[e].pc \in {"idle", "count", "write", "notify"}
    BY DEF IInv, Typed, TaskTypes, EditTypes, Exec, Edit
  <2> QED BY <2>1, <2>2, <2>3, <2>4 DEF IInv, CallInv, Typed, TableTypes, TypeOK
<1> QED BY <1>1, Invariant, PTL

\* No two tasks execute one run, however dispatch, run_now and recovery interleave.
THEOREM OneTaskPerRun == Spec => []SpawnedOnce
<1>1. IInv => SpawnedOnce
  BY DEF IInv, Books
<1> QED BY <1>1, Invariant, PTL

\* While the scheduler is on, every run that has not ended has a task, unless the
\* user deleted what it belongs to.
THEOREM NoRunForgotten == Spec => []UnfinishedSpawned
<1>1. IInv => UnfinishedSpawned
  BY DEF IInv, Books, RunOpen, HasTask, GivenUp, UnfinishedSpawned
<1> QED BY <1>1, Invariant, PTL

\* The record of a run tells what happened to its message, through crashes,
\* recovery and repeated execution, but for the failed run whose last execution
\* ended before it read the receipt; the history is right even then.
THEOREM RecordsTruthful == Spec => []RunTruthful
<1>1. IInv => RunTruthful
  BY DEF IInv, CallInv, Truth, RunsTell, FailedTells, Kept, Lost, OpenReceipt, RunTruthful
<1> QED BY <1>1, Invariant, PTL

\* A run that ended keeps its record, and nothing sends its message again.
THEOREM FinishedRunsRest == Spec => FinishedForGood
<1> DEFINE Rests == \A m \in Message : run[m] \in Terminal
                                         => run'[m] = run[m] /\ sends'[m] = sends[m]
<1>1. IInv /\ [Next]_vars => [Rests]_vars
  <2> SUFFICES ASSUME IInv, [Next]_vars, NEW m \in Message, run[m] \in Terminal
               PROVE  run'[m] = run[m] /\ sends'[m] = sends[m]
    OBVIOUS
  <2>1. run'[m] = run[m]
    <3>1. exec.pc # "idle" \/ tasks # <<>> => Id \in Message /\ run[Id] \notin Terminal
      <4>1. tasks # <<>> => Id \in Message /\ Id = tasks[1].id /\ 1 \in DOMAIN tasks
        BY HeadType DEF IInv, Typed, TaskTypes, Id
      <4> QED BY <4>1 DEF IInv, Typed, TaskTypes, Books, TasksOpen, RunOpen, Terminal
    <3>2. CASE ExecStep
      BY <3>1, <3>2 DEF ExecStep, StartRun, LookReceipt, LookFails, GenerateText, GenerateFails,
         DeliverStep, chainVars, Delivered, SendAlert, SaveRuntime, SaveRun, IInv, Typed,
         TableTypes
    <3>3. CASE LoopStep
      BY <3>3 DEF LoopStep, ListDue, CreateRun, ReadDelay, ClearWake, Wakes, SaveDispatch,
         IInv, Typed, TableTypes, Terminal
    <3>4. ASSUME NEW e \in Editor, EditStep(e)
          PROVE  run'[m] = run[m]
      <4>1. CASE RunNow(e)
        <5> DEFINE free == {t \in Slot : t > MaxTime /\ run[<<edit[e].s, t>>] = "none"}
        <5>1. free # {} => Min(free) \in free
          <6>1. free \in SUBSET Nat
            BY Times
          <6> HIDE DEF free
          <6> QED BY <6>1, MinMember
        <5>2. CASE free = {}
          BY <4>1, <5>2 DEF RunNow
        <5>3. CASE free # {}
          <6>1. run[<<edit[e].s, Min(free)>>] = "none"
            BY <5>1, <5>3
          <6>2. run' = [run EXCEPT ![<<edit[e].s, Min(free)>>] = "pending"]
            BY <4>1, <5>3 DEF RunNow
          <6> HIDE DEF free
          <6> QED BY <6>1, <6>2 DEF IInv, Typed, TableTypes, Terminal
        <5> QED BY <5>2, <5>3
      <4> QED BY <3>4, <4>1 DEF EditStep, CountActive, WriteEdit, Notify
    <3> QED
      BY <3>2, <3>3, <3>4 DEF Next, Tick, StartStep, Boot, RecoverMessage, StartScheduler,
         Crash, BeginEdit, vars, chainVars
  <2>2. sends'[m] = sends[m]
    <3>1. CASE Step(Holder)
      <4>1. Holder \in Worker
        BY ScheduleAssumption
      <4>2. CASE m = call[Holder].msg
        <5>1. run[m] = "completed" \/ Kept(m)
          BY <3>1, <4>1, <4>2, StepBusy DEF IInv, Truth, CallPlaced, Books, TasksOpen, Terminal
        <5>2. attempt[m] = "SENT"
          BY <5>1 DEF IInv, Truth, RunsTell, Kept
        <5> QED BY <3>1, <4>1, <4>2, <5>2, StepEffect DEF IInv
      <4>3. CASE m # call[Holder].msg
        BY <3>1, <4>1, <4>3, StepEffect DEF IInv, Confined
      <4> QED BY <4>2, <4>3
    <3> QED BY <3>1, CallMoves DEF IInv, callVars, Begin, Abandon
  <2> QED BY <2>1, <2>2
<1> QED BY <1>1, Invariant, PTL DEF Spec, FinishedForGood

\* Scheduled runs, with their retries after a crash and their recovery, deliver as
\* Delivery promises.
THEOREM Refinement == Spec => ImplementsDelivery
<1>1. Init => D!DInit
  BY CallInitRefines DEF Init
<1>2. IInv /\ [Next]_vars => [D!DNext]_(D!dvars)
  BY CallsNext DEF IInv
<1> QED BY <1>1, <1>2, Invariant, PTL DEF Spec, ImplementsDelivery, D!DSpec
=================================================================================
