--------------------------- MODULE ReactiveTurnProofs ---------------------------
(* Proofs about the reactive chain, for any number of messages, turns,      *)
(* bubbles, retries, stops, clearings and crashes.                          *)
EXTENDS ReactiveTurn, OutboundCallProofs, FiniteSetTheorems

(****************************************************************************)
(* The inductive invariant, in parts that build on each other               *)
(****************************************************************************)

Task == [kind : {"new", "retry", "recover", "clear"}, t : {0} \cup Turn]

\* Which turn the holder of the lock works on, and what it stands at the lock for.
TurnShape ==
  /\ turn.pc \in {"idle", "list", "decide", "clear"} <=> turn.t = 0
  /\ turn.pc # "idle" => queue # <<>>
  /\ turn.pc = "decide" => turn.pend # {}
  /\ turn.pc \in {"list", "decide", "generate", "retry"} => turn.next = 1
  /\ turn.pc \in {"open", "deliver"} => turn.next \in Bubble
  /\ turn.pc = "retry" => Head(queue).kind = "retry"
  /\ turn.pc = "clear" <=> turn.pc # "idle" /\ Head(queue).kind = "clear"
  /\ turn.pc # "idle" /\ Head(queue).kind # "new" => Head(queue).t = turn.t

\* Retries come when start-up is over, which is when recovery is through.
QueueShape ==
  /\ \A j \in DOMAIN queue : queue[j].kind \in {"new", "clear"} <=> queue[j].t = 0
  /\ \A j \in DOMAIN queue : queue[j].kind = "retry" => up = "on"
  /\ up = "on" => batches = {} /\ \A j \in DOMAIN queue : queue[j].kind # "recover"

Shape == TypeOK /\ TurnShape /\ QueueShape

-------------------------------------------------------------------------------
Row(t, i) == attempt[<<t, i>>]

\* Behind a bubble that nobody sent, no other bubble is even ready.
Chained ==
  \A t \in Turn, i, j \in Bubble :
    i < j /\ Row(t, j) \notin {"NONE", "BLOCKED"} => <<t, i>> \in history

\* The rows of a batch have no gap.
Gapless ==
  \A t \in Turn, i, j \in Bubble :
    i < j /\ Row(t, j) # "NONE" => Row(t, i) # "NONE"

\* Turns are numbered as they are decided, and only a decided turn has bubbles, a
\* task or a place in recovery.
Decided(t) == action[t] # "none"
Counted == \E k \in 0 .. MaxTurn : {t \in Turn : Decided(t)} = 1 .. k
Empty == \A t \in Turn : ~Decided(t) => \A i \in Bubble : Row(t, i) = "NONE"
Owned == \A t \in Turn : Decided(t) => \E m \in Inbound : owner[m] = t
Known ==
  /\ \A t \in batches : Decided(t)
  /\ \A j \in DOMAIN queue : queue[j].t # 0 => Decided(queue[j].t)
  /\ turn.t # 0 => Decided(turn.t)

Numbered == Counted /\ Empty /\ Owned /\ Known

\* The holder delivers the bubbles of its turn one by one; the only call of
\* deliver() is its own.
Delivering ==
  /\ InFlight(Holder) => turn.pc = "deliver" /\ call[Holder].msg = Current
  /\ turn.pc = "generate" => \A i \in Bubble : Row(turn.t, i) = "NONE"
  /\ turn.pc \in {"bubble", "open", "deliver"} =>
       \A i \in Bubble : i < turn.next => <<turn.t, i>> \in history
  /\ turn.pc = "deliver" =>
       /\ ~At(Holder, "idle")
       /\ At(Holder, "done") =>
            /\ call[Holder].receipt = attempt[Current]
            /\ attempt[Current] \notin {"NONE", "PREPARED", "DISPATCHING"}
            /\ attempt[Current] = "SENT" => Current \in history

\* Only a bubble that was tried before can be tried again.
Untried == \A m \in Message : attempt[m] \in {"NONE", "BLOCKED"} => retries[m] = 0

Order == Chained /\ Gapless /\ Untried /\ Numbered /\ Delivering

-------------------------------------------------------------------------------
\* Nothing of t is half done.
Complete(t) ==
  \A i \in Bubble : /\ Row(t, i) \notin {"PREPARED", "DISPATCHING"}
                    /\ Row(t, i) = "SENT" => <<t, i>> \in history

\* Once recovery has listed the batches, every half-done one is known to somebody.
Recovering(t) ==
  \/ t = turn.t \/ t \in stopped \/ t \in batches
  \/ \E j \in DOMAIN queue : queue[j].kind = "recover" /\ queue[j].t = t

Recovered ==
  /\ up \in {"recovering", "on"} => \A t \in Turn : Recovering(t) \/ Complete(t)
  /\ turn.pc = "retry" => turn.t \in stopped \/ Complete(turn.t)

IInv == Shape /\ CallInv /\ Order /\ Recovered /\ NobodyForgotten

(****************************************************************************)
(* The queue at the session lock                                            *)
(****************************************************************************)

\* A task joins the queue at its end.
LEMMA Added ==
  ASSUME NEW k \in Task, queue \in Seq(Task), queue' = Append(queue, k)
  PROVE  /\ queue' \in Seq(Task) /\ queue' # <<>>
         /\ queue # <<>> => Head(queue') = Head(queue)
         /\ Len(queue) + 1 \in DOMAIN queue' /\ queue'[Len(queue) + 1] = k
         /\ \A j \in DOMAIN queue : j \in DOMAIN queue' /\ queue'[j] = queue[j]
         /\ \A j \in DOMAIN queue' :
              (j \in DOMAIN queue /\ queue'[j] = queue[j]) \/ queue'[j] = k
  OBVIOUS

\* The holder leaves, and the others move up.
LEMMA Released ==
  ASSUME queue \in Seq(Task), queue # <<>>, queue' = Tail(queue)
  PROVE  /\ queue' \in Seq(Task)
         /\ \A j \in DOMAIN queue' : j + 1 \in DOMAIN queue /\ queue'[j] = queue[j + 1]
         /\ \A j \in DOMAIN queue :
              j > 1 => j - 1 \in DOMAIN queue' /\ queue'[j - 1] = queue[j]
  OBVIOUS

\* The holder is one of the tasks.
LEMMA HeadTask ==
  ASSUME queue \in Seq(Task), queue # <<>>
  PROVE  Head(queue) \in Task /\ 1 \in DOMAIN queue /\ Head(queue) = queue[1]
  OBVIOUS

(****************************************************************************)
(* Ingress and the clearing of memories, seen from the turns                *)
(****************************************************************************)

\* Neither touches a delivery, a decision or the start-up.
Aside == IngestStep \/ ClearStep \/ ClearBegin \/ \E m \in Inbound : Repeat(m)

LEMMA AsideFrame ==
  Aside => /\ UNCHANGED <<callVars, owner, action, up, batches, stopped>>
           /\ \/ UNCHANGED <<queue, turn>>
              \/ turn.pc = "clear" /\ Release
              \/ up = "on" /\ queue' = Append(queue, ClearTask) /\ turn' = turn
  BY DEF Aside, IngestStep, ScheduleTurn, KeepQuiet, IngestRaises, ClearStep, ClearMemory,
         ClearFails, ClearBegin, Repeat, AtPc

(****************************************************************************)
(* Shape: types, the holder and its task                                    *)
(****************************************************************************)

LEMMA ShapeInit == Init => Shape
<1> SUFFICES ASSUME Init
             PROVE  Shape
  OBVIOUS
<1>1. CallTypeOK
  BY CallInitInv DEF Init, CallInv
<1>2. 1 \in 1 .. MaxBubble + 1 /\ queue = <<>> /\ turn = Resting
  BY ReactiveAssumption DEF Init
<1>3. turn \in [pc : {"idle", "list", "decide", "generate", "retry", "bubble", "open",
                      "deliver", "clear"},
                t : {0} \cup Turn, pend : SUBSET Inbound, next : 1 .. MaxBubble + 1]
  BY <1>2 DEF Resting
<1>4. queue \in Seq([kind : {"new", "retry", "recover", "clear"}, t : {0} \cup Turn])
  BY <1>2
<1>5. TypeOK
  BY <1>1, <1>3, <1>4 DEF Init, TypeOK
<1>6. TurnShape /\ QueueShape
  BY <1>2 DEF Init, TurnShape, QueueShape, Resting
<1> QED BY <1>5, <1>6 DEF Shape

\* Every way a turn ends.
LEMMA ShapeRelease ==
  ASSUME Shape, turn.pc # "idle", Release,
         UNCHANGED <<up, batches>>
  PROVE  /\ turn' = Resting /\ queue' \in Seq(Task)
         /\ TurnShape' /\ QueueShape'
<1>1. queue # <<>> /\ queue \in Seq(Task)
  BY DEF Shape, TurnShape, TypeOK, Task
<1>2. /\ queue' \in Seq(Task)
      /\ \A j \in DOMAIN queue' : j + 1 \in DOMAIN queue /\ queue'[j] = queue[j + 1]
  BY <1>1, Released DEF Release
<1>3. QueueShape'
  BY <1>2 DEF Shape, QueueShape
<1>4. TurnShape'
  BY DEF Release, Resting, TurnShape
<1> QED BY <1>2, <1>3, <1>4 DEF Release

LEMMA ShapeQueue ==
  ASSUME Shape, NEW k \in Task, queue' = Append(queue, k), UNCHANGED <<turn, up>>,
         k.kind \in {"new", "clear"} <=> k.t = 0,
         k.kind = "retry" => up = "on",
         k.kind = "recover" => up # "on",
         up = "on" => batches' = {}
  PROVE  queue' \in Seq(Task) /\ TurnShape' /\ QueueShape'
<1>1. queue \in Seq(Task)
  BY DEF Shape, TypeOK, Task
<1>2. /\ queue' \in Seq(Task) /\ queue' # <<>>
      /\ queue # <<>> => Head(queue') = Head(queue)
      /\ \A j \in DOMAIN queue' :
           (j \in DOMAIN queue /\ queue'[j] = queue[j]) \/ queue'[j] = k
  BY <1>1, Added
<1>3. QueueShape'
  BY <1>2 DEF Shape, QueueShape
<1>4. TurnShape'
  BY <1>2 DEF Shape, TurnShape
<1> QED BY <1>2, <1>3, <1>4

\* The turn and the queue of the next state; the rest of the types follows.
Moved ==
  /\ turn' \in [pc : {"idle", "list", "decide", "generate", "retry", "bubble", "open",
                      "deliver", "clear"},
                t : {0} \cup Turn, pend : SUBSET Inbound, next : 1 .. MaxBubble + 1]
  /\ queue' \in Seq(Task)
  /\ TurnShape' /\ QueueShape'

\* The holder goes on: the queue stays.
LEMMA ShapeTurn ==
  ASSUME Shape, UNCHANGED <<queue, up, batches>>, TurnShape',
         turn' \in [pc : {"idle", "list", "decide", "generate", "retry", "bubble", "open",
                          "deliver", "clear"},
                    t : {0} \cup Turn, pend : SUBSET Inbound, next : 1 .. MaxBubble + 1]
  PROVE  Moved
<1>1. queue' \in Seq(Task)
  BY DEF Shape, TypeOK, Task
<1>2. QueueShape'
  BY DEF Shape, QueueShape
<1> QED BY <1>1, <1>2 DEF Moved

LEMMA RestingType ==
  Resting \in [pc : {"idle", "list", "decide", "generate", "retry", "bubble", "open",
                     "deliver", "clear"},
               t : {0} \cup Turn, pend : SUBSET Inbound, next : 1 .. MaxBubble + 1]
<1>1. 1 \in 1 .. MaxBubble + 1
  BY ReactiveAssumption
<1> QED BY <1>1 DEF Resting

LEMMA MovedRelease ==
  ASSUME Shape, turn.pc # "idle", Release, UNCHANGED <<up, batches>>
  PROVE  Moved
  BY ShapeRelease, RestingType DEF Moved

LEMMA ShapeStep == Shape /\ TurnStep => Moved
<1> SUFFICES ASSUME Shape, TurnStep
             PROVE  Moved
  OBVIOUS
<1>0. /\ queue \in Seq(Task)
      /\ turn \in [pc : {"idle", "list", "decide", "generate", "retry", "bubble", "open",
                         "deliver", "clear"},
                   t : {0} \cup Turn, pend : SUBSET Inbound, next : 1 .. MaxBubble + 1]
      /\ MaxBubble \in Nat
  BY ReactiveAssumption DEF Shape, TypeOK, Task
<1>1. CASE Acquire
  <2>1. Head(queue) \in Task /\ Head(queue) = queue[1] /\ 1 \in DOMAIN queue
    BY <1>0, <1>1, HeadTask DEF Acquire
  <2>2. UNCHANGED <<queue, up, batches>> /\ 1 \in 1 .. MaxBubble + 1 /\ Pending \in SUBSET Inbound
    BY <1>0, <1>1 DEF Acquire, Pending
  <2>3. /\ turn'.t = Head(queue).t /\ turn'.pend = Pending /\ turn'.next = 1
        /\ turn' = [pc |-> turn'.pc, t |-> turn'.t, pend |-> turn'.pend, next |-> turn'.next]
        /\ Head(queue).kind = "new" => turn'.pc = "list"
        /\ Head(queue).kind = "retry" => turn'.pc = "retry"
        /\ Head(queue).kind = "recover" => turn'.pc = "bubble"
        /\ Head(queue).kind = "clear" => turn'.pc = "clear"
    BY <1>1, <2>1 DEF Acquire, Task
  <2>4. TurnShape'
    BY <1>1, <2>1, <2>2, <2>3 DEF Acquire, TurnShape, Task, Shape, QueueShape
  <2>5. turn' \in [pc : {"idle", "list", "decide", "generate", "retry", "bubble", "open",
                         "deliver", "clear"},
                   t : {0} \cup Turn, pend : SUBSET Inbound, next : 1 .. MaxBubble + 1]
    BY <2>1, <2>2, <2>3 DEF Task
  <2> QED BY <2>2, <2>4, <2>5, ShapeTurn
<1>2. CASE ListPending
  <2>1. PICK late \in SUBSET (Pending \ turn.pend) :
          IF turn.pend \cup late = {}
          THEN Release
          ELSE /\ turn' = [turn EXCEPT !.pc = "decide", !.pend = @ \cup late]
               /\ UNCHANGED queue
    BY <1>2 DEF ListPending
  <2>2. CASE turn.pend \cup late = {}
    BY <1>2, <2>1, <2>2, MovedRelease DEF ListPending, AtPc
  <2>3. CASE turn.pend \cup late # {}
    <3>1. late \in SUBSET Inbound
      BY DEF Pending
    <3>2. TurnShape'
      BY <1>0, <1>2, <2>1, <2>3 DEF ListPending, AtPc, Shape, TurnShape
    <3> QED BY <1>0, <1>2, <2>1, <2>3, <3>1, <3>2, ShapeTurn DEF ListPending
  <2> QED BY <2>2, <2>3
<1>3. ASSUME NEW choice \in {"reply", "silence"}, SaveTurn(choice)
      PROVE  Moved
  <2>1. NextTurn \in Turn /\ UNCHANGED <<up, batches>> /\ turn.pc = "decide"
    BY <1>3 DEF SaveTurn, AtPc
  <2>2. CASE choice = "reply"
    <3>1. turn' = [turn EXCEPT !.pc = "generate", !.t = NextTurn] /\ UNCHANGED queue
      BY <1>3, <2>2 DEF SaveTurn
    <3>2. Head(queue).kind = "new"
      BY <1>0, <2>1, HeadTask DEF Shape, TurnShape, QueueShape
    <3>3. turn'.t # 0
      BY <1>0, <2>1, <3>1 DEF Turn
    <3>4. TurnShape'
      BY <1>0, <2>1, <3>1, <3>2, <3>3 DEF Shape, TurnShape
    <3> QED BY <1>0, <2>1, <3>1, <3>4, ShapeTurn
  <2>3. CASE choice # "reply"
    BY <1>3, <2>1, <2>3, MovedRelease DEF SaveTurn
  <2> QED BY <2>2, <2>3
<1>4. CASE TurnRaises \/ GenerateFails \/ AssemblyRaises \/ AllSent \/ Blocked \/ BubbleFailed
  BY <1>4, MovedRelease
     DEF TurnRaises, GenerateFails, AssemblyRaises, AllSent, Blocked, BubbleFailed, BatchEnds,
         AtPc
<1>5. CASE RetryStarts
  <2>1. CASE RetryRefused(turn.t)
    BY <1>5, <2>1, MovedRelease DEF RetryStarts, AtPc
  <2>2. CASE ~RetryRefused(turn.t)
    <3>1. PICK pc \in {"generate", "bubble"} : turn' = [turn EXCEPT !.pc = pc]
      BY <1>5, <2>2 DEF RetryStarts, Become
    <3>2. TurnShape'
      BY <1>0, <1>5, <2>2, <3>1 DEF RetryStarts, AtPc, Shape, TurnShape
    <3> QED BY <1>0, <1>5, <2>2, <3>1, <3>2, ShapeTurn DEF RetryStarts
  <2> QED BY <2>1, <2>2
<1>6. CASE OpenBubble \/ DeliverBubble
  <2>1. PICK pc \in {"open", "deliver"} : turn' = [turn EXCEPT !.pc = pc]
    BY <1>6 DEF OpenBubble, DeliverBubble, Become
  <2>2. turn.next \in Bubble
    BY <1>6 DEF OpenBubble, DeliverBubble, AtPc, Shape, TurnShape, BubblesOf
  <2>3. TurnShape'
    BY <1>0, <1>6, <2>1, <2>2 DEF OpenBubble, DeliverBubble, AtPc, Shape, TurnShape
  <2> QED BY <1>0, <1>6, <2>1, <2>3, ShapeTurn DEF OpenBubble, DeliverBubble
<1>7. ASSUME NEW n \in Bubble, Generate(n)
      PROVE  Moved
  <2>1. turn' = [turn EXCEPT !.pc = "bubble"]
    BY <1>7 DEF Generate, Become
  <2>2. TurnShape'
    BY <1>0, <1>7, <2>1 DEF Generate, AtPc, Shape, TurnShape
  <2> QED BY <1>0, <1>7, <2>1, <2>2, ShapeTurn DEF Generate
<1>8. CASE NextBubble
  <2>1. turn' = [turn EXCEPT !.pc = "bubble", !.next = @ + 1] /\ turn.pc = "deliver"
    BY <1>8 DEF NextBubble, AtPc
  <2>2. turn.next + 1 \in 1 .. MaxBubble + 1
    BY <1>0, <2>1 DEF Shape, TurnShape, Bubble
  <2>3. TurnShape'
    BY <1>0, <1>8, <2>1 DEF NextBubble, Shape, TurnShape
  <2> QED BY <1>0, <1>8, <2>1, <2>2, <2>3, ShapeTurn DEF NextBubble
<1>9. CASE DeliverStep
  <2>1. UNCHANGED <<turn, queue, up, batches>>
    BY <1>9 DEF DeliverStep, chainVars
  <2>2. TurnShape'
    BY <2>1 DEF Shape, TurnShape
  <2> QED BY <1>0, <2>1, <2>2, ShapeTurn
<1> QED BY <1>1, <1>2, <1>3, <1>4, <1>5, <1>6, <1>7, <1>8, <1>9 DEF TurnStep

LEMMA ShapeMoves == Shape /\ [Next]_vars => Moved
<1> SUFFICES ASSUME Shape, [Next]_vars
             PROVE  Moved
  OBVIOUS
<1>0. /\ queue \in Seq(Task) /\ batches \in SUBSET Turn
      /\ turn \in [pc : {"idle", "list", "decide", "generate", "retry", "bubble", "open",
                         "deliver", "clear"},
                   t : {0} \cup Turn, pend : SUBSET Inbound, next : 1 .. MaxBubble + 1]
  BY DEF Shape, TypeOK, Task
<1>1. ASSUME UNCHANGED <<turn, queue, up, batches>>
      PROVE  Moved
  <2>1. TurnShape'
    BY <1>1 DEF Shape, TurnShape
  <2> QED BY <1>0, <1>1, <2>1, ShapeTurn
<1>2. ASSUME UNCHANGED <<turn, queue>>, QueueShape'
      PROVE  Moved
  <2>1. TurnShape'
    BY <1>2 DEF Shape, TurnShape
  <2> QED BY <1>0, <1>2, <2>1 DEF Moved
<1>3. CASE (\E m \in Inbound : AppendInbound(m)) \/ (\E t \in Turn : FinishMemory(t))
  BY <1>1, <1>3 DEF AppendInbound, FinishMemory
<1>4. CASE UNCHANGED vars
  BY <1>1, <1>4 DEF vars, chainVars
<1>5. CASE Fire
  <2>1. NewTask \in Task /\ NewTask.kind = "new" /\ NewTask.t = 0
    BY DEF NewTask, Task
  <2> QED BY <1>0, <1>5, <2>1, ShapeQueue DEF Fire, Moved, Shape, QueueShape
<1>6. ASSUME NEW t \in Turn, RetryReply(t)
      PROVE  Moved
  <2>1. RetryTask(t) \in Task /\ RetryTask(t).kind = "retry" /\ RetryTask(t).t # 0
    BY DEF RetryTask, Task, Turn
  <2> QED BY <1>0, <1>6, <2>1, ShapeQueue DEF RetryReply, Moved, Shape, QueueShape
<1>7. ASSUME NEW t \in Turn, RecoverBatch(t)
      PROVE  Moved
  <2>1. RecoverTask(t) \in Task /\ RecoverTask(t).kind = "recover" /\ RecoverTask(t).t # 0
    BY DEF RecoverTask, Task, Turn
  <2> QED BY <1>0, <1>7, <2>1, ShapeQueue DEF RecoverBatch, Moved, Shape, QueueShape
<1>8. CASE Boot \/ StartServices \/ StartTurns
  <2>1. QueueShape'
    BY <1>8 DEF Boot, StartServices, StartTurns, Shape, QueueShape
  <2> QED BY <1>2, <1>8, <2>1 DEF Boot, StartServices, StartTurns
<1>9. CASE Stop
  BY <1>9, MovedRelease DEF Stop, AtPc
<1>10. CASE Crash
  <2>1. turn' = Resting /\ queue' = <<>> /\ up' = "off"
    BY <1>10 DEF Crash
  <2>2. TurnShape' /\ QueueShape' /\ queue' \in Seq(Task)
    BY <2>1 DEF TurnShape, QueueShape, Resting
  <2> QED BY <2>1, <2>2, RestingType DEF Moved
<1>11. CASE Aside
  <2>1. ClearTask \in Task /\ ClearTask.kind = "clear" /\ ClearTask.t = 0
    BY DEF ClearTask, Task
  <2>2. CASE UNCHANGED <<queue, turn>>
    BY <1>1, <1>11, <2>2, AsideFrame
  <2>3. CASE turn.pc = "clear" /\ Release
    BY <1>11, <2>3, AsideFrame, MovedRelease
  <2>4. CASE up = "on" /\ queue' = Append(queue, ClearTask) /\ turn' = turn
    BY <1>0, <1>11, <2>1, <2>4, AsideFrame, ShapeQueue DEF Moved, Shape, QueueShape
  <2> QED BY <1>11, <2>2, <2>3, <2>4, AsideFrame
<1> QED
  BY <1>3, <1>4, <1>5, <1>6, <1>7, <1>8, <1>9, <1>10, <1>11, ShapeStep
     DEF Next, StartStep, Aside

LEMMA ShapeNext == Shape /\ CallTypeOK' /\ [Next]_vars => Shape'
<1> SUFFICES ASSUME Shape, CallTypeOK', [Next]_vars
             PROVE  Shape'
  OBVIOUS
<1>0. Moved
  BY ShapeMoves
<1>1. /\ owner \in [Inbound -> {Absent, Waiting} \cup Turn]
      /\ action \in [Turn -> {"none", "reply", "silence"}]
      /\ memrun \in [Turn -> {"none", "pending", "running", "done"}]
      /\ bounded \in BOOLEAN /\ cleared \in SUBSET Inbound
      /\ up \in {"off", "starting", "recovering", "on"}
      /\ arriving \in Inbound \cup {NoInbound}
      /\ timer \in BOOLEAN
      /\ turn.pend \in SUBSET Inbound /\ turn.t \in {0} \cup Turn
      /\ batches \in SUBSET Turn /\ stopped \in SUBSET Turn
      /\ quiet \in SUBSET Inbound /\ excused \in SUBSET Inbound
      /\ spent \in [Bounded -> Nat]
  BY DEF Shape, TypeOK
<1>2. /\ owner' \in [Inbound -> {Absent, Waiting} \cup Turn]
      /\ action' \in [Turn -> {"none", "reply", "silence"}]
      /\ up' \in {"off", "starting", "recovering", "on"}
      /\ arriving' \in Inbound \cup {NoInbound}
      /\ timer' \in BOOLEAN
  <2>1. CASE TurnStep
    <3>1. CASE \E choice \in {"reply", "silence"} : SaveTurn(choice)
      BY <1>1, <3>1 DEF SaveTurn
    <3>2. CASE ~\E choice \in {"reply", "silence"} : SaveTurn(choice)
      BY <1>1, <2>1, <3>2
         DEF TurnStep, Acquire, ListPending, TurnRaises, GenerateFails, AssemblyRaises,
             RetryStarts, AllSent, Blocked, OpenBubble, DeliverBubble, DeliverStep, chainVars,
             NextBubble, BubbleFailed, BatchEnds, Generate
    <3> QED BY <3>1, <3>2
  <2>2. CASE StartStep \/ Fire \/ Boot \/ Stop \/ Crash \/ UNCHANGED vars
    BY <1>1, <2>2
       DEF StartStep, StartServices, StartTurns, RecoverBatch, Fire, Boot, Stop,
           Crash, vars, chainVars
  <2>3. ASSUME NEW m \in Inbound, AppendInbound(m)
        PROVE  /\ owner' \in [Inbound -> {Absent, Waiting} \cup Turn] /\ arriving' \in Inbound
               /\ UNCHANGED <<action, up, timer>>
    BY <1>1, <2>3 DEF AppendInbound
  <2>4. CASE \E t \in Turn : RetryReply(t) \/ FinishMemory(t)
    BY <1>1, <2>4 DEF RetryReply, FinishMemory
  <2>5. CASE Aside
    BY <1>1, <2>5
       DEF Aside, IngestStep, ScheduleTurn, KeepQuiet, IngestRaises, ClearStep, ClearMemory,
           ClearFails, ClearBegin, Repeat
  <2> QED BY <1>1, <2>1, <2>2, <2>3, <2>4, <2>5 DEF Next, Aside
<1>3. memrun' \in [Turn -> {"none", "pending", "running", "done"}]
  <2> USE DEF StartMemory
  <2>1. CASE TurnStep
    <3>1. CASE \E choice \in {"reply", "silence"} : SaveTurn(choice)
      BY <1>1, <3>1 DEF SaveTurn
    <3>2. CASE ~\E choice \in {"reply", "silence"} : SaveTurn(choice)
      BY <1>1, <2>1, <3>2
         DEF TurnStep, Acquire, ListPending, TurnRaises, GenerateFails, AssemblyRaises,
             RetryStarts, AllSent, Blocked, OpenBubble, DeliverBubble, DeliverStep, chainVars,
             NextBubble, BubbleFailed, BatchEnds, Generate
    <3> QED BY <3>1, <3>2
  <2>2. CASE StartStep \/ Fire \/ Boot \/ Stop \/ Crash \/ UNCHANGED vars
    BY <1>1, <2>2
       DEF StartStep, StartServices, StartTurns, RecoverBatch, Fire, Boot, Stop,
           Crash, vars, chainVars
  <2>3. CASE \/ \E m \in Inbound : AppendInbound(m)
             \/ \E t \in Turn : RetryReply(t) \/ FinishMemory(t)
    BY <1>1, <2>3 DEF AppendInbound, RetryReply, FinishMemory
  <2>4. CASE Aside
    BY <1>1, <2>4
       DEF Aside, IngestStep, ScheduleTurn, KeepQuiet, IngestRaises, ClearStep, ClearMemory,
           ClearFails, ClearBegin, Repeat
  <2> QED BY <2>1, <2>2, <2>3, <2>4 DEF Next, Aside
<1>4. /\ batches' \in SUBSET Turn /\ stopped' \in SUBSET Turn
      /\ bounded' \in BOOLEAN /\ cleared' \in SUBSET Inbound
      /\ quiet' \in SUBSET Inbound /\ excused' \in SUBSET Inbound
      /\ spent' \in [Bounded -> Nat]
  <2>1. CASE TurnStep
    BY <1>1, <2>1
       DEF TurnStep, Acquire, ListPending, TurnRaises, GenerateFails, AssemblyRaises,
           RetryStarts, AllSent, Blocked, OpenBubble, DeliverBubble, DeliverStep, chainVars,
           NextBubble, BubbleFailed, BatchEnds, Generate, SaveTurn, clearVars
  <2>2. CASE StartStep \/ Fire \/ Boot \/ Stop \/ Crash \/ UNCHANGED vars
    BY <1>1, <2>2
       DEF StartStep, StartServices, StartTurns, RecoverBatch, Fire, Boot, Stop,
           Crash, vars, chainVars, clearVars, Recoverable, Bounded
  <2>3. CASE \/ \E m \in Inbound : AppendInbound(m)
             \/ \E t \in Turn : RetryReply(t) \/ FinishMemory(t)
    BY <1>1, <2>3 DEF AppendInbound, RetryReply, FinishMemory, clearVars, Bounded
  <2>4. CASE Aside
    <3>1. CASE IngestStep
      BY <1>1, <3>1 DEF IngestStep, ScheduleTurn, KeepQuiet, IngestRaises, clearVars
    <3>2. CASE ClearMemory
      BY <1>1, <3>2 DEF ClearMemory
    <3>3. CASE ClearFails
      BY <1>1, <3>3 DEF ClearFails, clearVars, Pending
    <3>4. CASE ClearBegin \/ \E m \in Inbound : Repeat(m)
      BY <1>1, <3>4 DEF ClearBegin, Repeat, clearVars, Bounded
    <3> QED BY <2>4, <3>1, <3>2, <3>3, <3>4 DEF Aside, ClearStep
  <2> QED BY <2>1, <2>2, <2>3, <2>4 DEF Next, Aside
<1> QED BY <1>0, <1>2, <1>3, <1>4 DEF Moved, Shape, TypeOK, Task

(****************************************************************************)
(* The calls of deliver()                                                   *)
(****************************************************************************)

\* One call at a time: the holder's.
LEMMA Alone == \A M : Untouched({Holder}, M)
  BY ReactiveAssumption DEF Untouched

\* Away from delivery nobody is inside deliver().
LEMMA Calm ==
  ASSUME Delivering, turn.pc # "deliver"
  PROVE  \A M : Untouched({}, M)
  BY ReactiveAssumption DEF Delivering, Untouched

LEMMA CurrentMessage ==
  ASSUME Shape, turn.t # 0, turn.next \in Bubble
  PROVE  Current \in Message /\ turn.t \in Turn
  BY ReactiveAssumption DEF Shape, TypeOK, Current

\* What a step of the chain may do to the calls and the rows.
CallMove ==
  \/ UNCHANGED callVars
  \/ Step(Holder) /\ UNCHANGED chainVars /\ turn.pc = "deliver"
  \/ Abandon(Holder)
  \/ /\ turn.t \in Turn /\ turn.next \in Bubble
     /\ \/ Begin(Holder, Current) /\ turn.pc \in {"bubble", "open"}
        \/ turn.pc = "bubble" /\ (PromoteBlocked(Current) \/ RetryFailed(Current))
  \/ /\ turn.t \in Turn /\ turn.pc = "generate"
     /\ \E n \in Bubble : PrepareBatch(<<turn.t, 1>>, {<<turn.t, i>> : i \in 2 .. n})

LEMMA CallMoves == Shape /\ [Next]_vars => CallMove
<1> SUFFICES ASSUME Shape, [Next]_vars
             PROVE  CallMove
  OBVIOUS
<1>0. turn.t \in {0} \cup Turn
  BY DEF Shape, TypeOK
<1>1. CASE OpenBubble \/ DeliverBubble
  <2>1. turn.next \in Bubble /\ turn.t # 0
    BY <1>1 DEF OpenBubble, DeliverBubble, AtPc, Shape, TurnShape, BubblesOf
  <2> QED BY <1>0, <1>1, <2>1 DEF OpenBubble, DeliverBubble, AtPc, CallMove
<1>2. ASSUME NEW n \in Bubble, Generate(n)
      PROVE  CallMove
  BY <1>0, <1>2 DEF Generate, AtPc, CallMove, Shape, TurnShape
<1>3. CASE TurnStep /\ ~OpenBubble /\ ~DeliverBubble /\ ~\E n \in Bubble : Generate(n)
  BY <1>3
     DEF TurnStep, Acquire, ListPending, TurnRaises, GenerateFails, AssemblyRaises,
         RetryStarts, AllSent, Blocked, DeliverStep, NextBubble, BubbleFailed, SaveTurn,
         CallMove, AtPc
<1>4. CASE ~TurnStep
  BY <1>4, AsideFrame
     DEF Next, StartStep, StartServices, StartTurns, RecoverBatch, Aside, Fire,
         Boot, Stop, Crash, vars, AppendInbound, RetryReply, FinishMemory, CallMove
<1> QED BY <1>1, <1>2, <1>3, <1>4

LEMMA CallsNext ==
  Shape /\ CallInv /\ Delivering /\ [Next]_vars => CallInv' /\ [D!DNext]_(D!dvars)
<1> SUFFICES ASSUME Shape, CallInv, Delivering, [Next]_vars
             PROVE  CallInv' /\ [D!DNext]_(D!dvars)
  OBVIOUS
<1>0. Holder \in Worker /\ CallMove
  BY ReactiveAssumption, CallMoves
<1>1. CASE UNCHANGED callVars
  BY <1>1, CallsUntouched, Stutter DEF callVars
<1>2. CASE Step(Holder)
  BY <1>0, <1>2, Alone, StepInv, StepRefines
<1>3. CASE Abandon(Holder)
  BY <1>0, <1>3, AbandonInv, Stutter DEF Abandon
<1>4. CASE turn.t \in Turn /\ turn.next \in Bubble /\ Begin(Holder, Current)
  <2>1. Current \in Message
    BY <1>4, ReactiveAssumption DEF Current
  <2> QED BY <1>0, <1>4, <2>1, BeginInv, Stutter DEF Begin
<1>5. CASE /\ turn.t \in Turn /\ turn.next \in Bubble /\ turn.pc = "bubble"
           /\ PromoteBlocked(Current) \/ RetryFailed(Current)
  <2>1. Current \in Message /\ Untouched({}, {Current})
    BY <1>5, ReactiveAssumption, Calm DEF Current
  <2> QED BY <1>5, <2>1, PromoteInv, RetryInv, PromoteRefines, RetryRefines
<1>6. ASSUME NEW n \in Bubble, turn.t \in Turn, turn.pc = "generate",
             PrepareBatch(<<turn.t, 1>>, {<<turn.t, i>> : i \in 2 .. n})
      PROVE  CallInv' /\ [D!DNext]_(D!dvars)
  <2> DEFINE first == <<turn.t, 1>>
             rest == {<<turn.t, i>> : i \in 2 .. n}
  <2>1. first \in Message /\ rest \in SUBSET Message /\ first \notin rest
    BY <1>6, ReactiveAssumption DEF Bubble
  <2>2. Untouched({}, rest \cup {first})
    BY <1>6, Calm
  <2>3. PrepareBatch(first, rest)
    BY <1>6
  <2> HIDE DEF first, rest
  <2> QED BY <2>1, <2>2, <2>3, BatchInv, BatchRefines
<1> QED BY <1>0, <1>1, <1>2, <1>3, <1>4, <1>5, <1>6 DEF CallMove

(****************************************************************************)
(* Order: the rows of a batch                                               *)
(****************************************************************************)

\* Every write to the rows is to the bubble at hand, or is the new batch of the turn.
RowsMove ==
  \/ UNCHANGED <<attempt, history, retries>>
  \/ /\ turn.t \in Turn /\ turn.next \in Bubble /\ turn.pc \in {"bubble", "deliver"}
     /\ \A m \in Message \ {Current} : attempt'[m] = attempt[m] /\ retries'[m] = retries[m]
     /\ \/ attempt'[Current] \notin {"NONE", "BLOCKED"}
        \/ attempt'[Current] = attempt[Current] /\ retries'[Current] = retries[Current]
     /\ history \subseteq history'
  \/ /\ turn.t \in Turn /\ turn.pc = "generate"
     /\ \E n \in Bubble : PrepareBatch(<<turn.t, 1>>, {<<turn.t, i>> : i \in 2 .. n})

LEMMA RowsMoves == Shape /\ CallInv /\ Delivering /\ [Next]_vars => RowsMove
<1> SUFFICES ASSUME Shape, CallInv, Delivering, [Next]_vars
             PROVE  RowsMove
  OBVIOUS
<1>0. Holder \in Worker /\ CallMove /\ CallTypeOK
  BY ReactiveAssumption, CallMoves DEF CallInv
<1>1. CASE UNCHANGED callVars \/ Abandon(Holder) \/ Begin(Holder, Current)
  BY <1>1 DEF callVars, Abandon, Begin, RowsMove
<1>2. CASE Step(Holder) /\ turn.pc = "deliver"
  <2>1. turn.next \in Bubble /\ turn.t # 0
    BY <1>2 DEF Shape, TurnShape
  <2>2. turn.t \in Turn
    BY <2>1 DEF Shape, TypeOK
  <2>3. call[Holder].msg = Current
    BY <1>0, <1>2, StepBusy DEF Delivering
  <2>4. /\ Confined({Holder}, {Current}) /\ retries' = retries /\ history \subseteq history'
    BY <1>0, <1>2, <2>3, StepEffect
  <2>5. attempt'[Current] = attempt[Current] \/ attempt'[Current] \notin {"NONE", "BLOCKED"}
    BY <1>0, <1>2, <2>3, StepWrites
  <2> QED BY <1>2, <2>1, <2>2, <2>4, <2>5 DEF Confined, RowsMove
<1>3. CASE /\ turn.t \in Turn /\ turn.next \in Bubble /\ turn.pc = "bubble"
           /\ PromoteBlocked(Current) \/ RetryFailed(Current)
  <2>1. Current \in Message
    BY <1>3, ReactiveAssumption DEF Current
  <2> PICK c \in Message : c = Current
    BY <2>1
  <2>2. /\ attempt' = [attempt EXCEPT ![c] = "PREPARED"]
        /\ retries' = retries \/ retries' = [retries EXCEPT ![c] = @ + 1]
        /\ history' = history
    BY <1>3 DEF PromoteBlocked, RetryFailed, SaveDelivery
  <2>3. /\ attempt'[c] \notin {"NONE", "BLOCKED"}
        /\ \A m \in Message \ {c} : attempt'[m] = attempt[m] /\ retries'[m] = retries[m]
    BY <1>0, <2>2 DEF CallTypeOK
  <2>4. /\ attempt'[Current] \notin {"NONE", "BLOCKED"}
        /\ \A m \in Message \ {Current} : attempt'[m] = attempt[m] /\ retries'[m] = retries[m]
    BY <2>3
  <2>5. turn.t \in Turn /\ turn.next \in Bubble /\ turn.pc = "bubble" /\ history \subseteq history'
    BY <1>3, <2>2
  <2> QED BY <2>4, <2>5 DEF RowsMove
<1>4. CASE /\ turn.t \in Turn /\ turn.pc = "generate"
           /\ \E n \in Bubble : PrepareBatch(<<turn.t, 1>>, {<<turn.t, i>> : i \in 2 .. n})
  BY <1>4 DEF RowsMove
<1> QED BY <1>0, <1>1, <1>2, <1>3, <1>4 DEF CallMove

\* A new batch in terms of the rows.
LEMMA NewRows ==
  ASSUME CallTypeOK, NEW u \in Turn, NEW n \in Bubble,
         PrepareBatch(<<u, 1>>, {<<u, i>> : i \in 2 .. n}),
         \A i \in Bubble : Row(u, i) = "NONE"
  PROVE  /\ \A t \in Turn \ {u}, i \in Bubble : Row(t, i)' = Row(t, i)
         /\ Row(u, 1)' = "PREPARED"
         /\ \A i \in 2 .. n : Row(u, i)' = "BLOCKED"
         /\ \A i \in Bubble : i > n => Row(u, i)' = "NONE"
         /\ history' = history /\ retries' = retries
<1>1. \A t \in Turn, i \in Bubble : <<t, i>> \in Message
  BY ReactiveAssumption
<1>2. n \in Nat /\ n >= 1 /\ 1 \in Bubble /\ 2 .. n \subseteq Bubble
  BY ReactiveAssumption DEF Bubble
<1> DEFINE rest == {<<u, i>> : i \in 2 .. n}
<1>3. \A m \in Message : attempt'[m] = IF attempt[m] # "NONE" THEN attempt[m]
                                       ELSE IF m = <<u, 1>> THEN "PREPARED"
                                       ELSE IF m \in rest THEN "BLOCKED" ELSE "NONE"
  BY DEF PrepareBatch
<1>4. \A t \in Turn, i \in Bubble : <<t, i>> \in rest <=> t = u /\ i \in 2 .. n
  BY <1>2
<1> HIDE DEF rest
<1>5. \A t \in Turn \ {u}, i \in Bubble : Row(t, i)' = Row(t, i)
  BY <1>1, <1>3, <1>4 DEF Row, CallTypeOK
<1>6. Row(u, 1)' = "PREPARED"
  BY <1>1, <1>2, <1>3 DEF Row
<1>7. \A i \in Bubble : i # 1 => Row(u, i)' = IF i \in 2 .. n THEN "BLOCKED" ELSE "NONE"
  BY <1>1, <1>3, <1>4 DEF Row
<1> QED BY <1>2, <1>5, <1>6, <1>7 DEF PrepareBatch, Bubble

LEMMA RowsNext ==
  Shape /\ CallInv /\ Order /\ [Next]_vars => Chained' /\ Gapless' /\ Untried'
<1> SUFFICES ASSUME Shape, CallInv, Order, [Next]_vars
             PROVE  Chained' /\ Gapless' /\ Untried'
  OBVIOUS
<1>0. RowsMove /\ CallTypeOK /\ \A m \in history : attempt[m] = "SENT"
  BY RowsMoves DEF Order, CallInv
<1>1. \A t \in Turn, i \in Bubble : <<t, i>> \in Message
  BY ReactiveAssumption
<1>2. CASE UNCHANGED <<attempt, history, retries>>
  BY <1>2 DEF Order, Chained, Gapless, Untried, Row
<1>3. CASE /\ turn.t \in Turn /\ turn.next \in Bubble /\ turn.pc \in {"bubble", "deliver"}
           /\ \A m \in Message \ {Current} :
                attempt'[m] = attempt[m] /\ retries'[m] = retries[m]
           /\ \/ attempt'[Current] \notin {"NONE", "BLOCKED"}
              \/ attempt'[Current] = attempt[Current] /\ retries'[Current] = retries[Current]
           /\ history \subseteq history'
  <2>1. \A i \in Bubble : i < turn.next => <<turn.t, i>> \in history
    BY <1>3 DEF Order, Delivering
  <2>2. \A t \in Turn, i \in Bubble : <<t, i>> = Current <=> t = turn.t /\ i = turn.next
    BY DEF Current
  <2>3. Chained'
    <3> SUFFICES ASSUME NEW t \in Turn, NEW i \in Bubble, NEW j \in Bubble, i < j,
                        attempt'[<<t, j>>] \notin {"NONE", "BLOCKED"}
                 PROVE  <<t, i>> \in history'
      BY DEF Chained, Row
    <3>1. CASE <<t, j>> = Current
      BY <1>3, <2>1, <2>2, <3>1
    <3>2. CASE <<t, j>> # Current
      BY <1>1, <1>3, <3>2 DEF Order, Chained, Row
    <3> QED BY <3>1, <3>2
  <2>4. Gapless'
    <3> SUFFICES ASSUME NEW t \in Turn, NEW i \in Bubble, NEW j \in Bubble, i < j,
                        attempt'[<<t, j>>] # "NONE"
                 PROVE  attempt'[<<t, i>>] # "NONE"
      BY DEF Gapless, Row
    <3>1. attempt[<<t, i>>] # "NONE"
      <4>1. CASE <<t, j>> = Current
        BY <1>0, <2>1, <2>2, <4>1
      <4>2. CASE <<t, j>> # Current
        BY <1>1, <1>3, <4>2 DEF Order, Gapless, Row
      <4> QED BY <4>1, <4>2
    <3> QED BY <1>1, <1>3, <3>1
  <2>5. Untried'
    BY <1>3 DEF Order, Untried
  <2> QED BY <2>3, <2>4, <2>5
<1>4. ASSUME turn.t \in Turn, turn.pc = "generate", NEW n \in Bubble,
             PrepareBatch(<<turn.t, 1>>, {<<turn.t, i>> : i \in 2 .. n})
      PROVE  Chained' /\ Gapless' /\ Untried'
  <2> PICK u \in Turn : u = turn.t
    BY <1>4
  <2>0. \A i \in Bubble : Row(u, i) = "NONE"
    BY <1>4 DEF Order, Delivering
  <2>1. /\ \A t \in Turn \ {u}, i \in Bubble : Row(t, i)' = Row(t, i)
        /\ Row(u, 1)' = "PREPARED"
        /\ \A i \in 2 .. n : Row(u, i)' = "BLOCKED"
        /\ \A i \in Bubble : i > n => Row(u, i)' = "NONE"
        /\ history' = history /\ retries' = retries
    BY <1>0, <1>4, <2>0, NewRows
  <2>2. \A i \in Bubble : i \in Nat /\ i >= 1 /\ (i = 1 \/ i \in 2 .. n \/ i > n)
    BY <1>4 DEF Bubble
  <2>3. Chained'
    <3> SUFFICES ASSUME NEW t \in Turn, NEW i \in Bubble, NEW j \in Bubble, i < j,
                        Row(t, j)' \notin {"NONE", "BLOCKED"}
                 PROVE  <<t, i>> \in history'
      BY DEF Chained
    <3>1. t # u
      BY <2>1, <2>2
    <3> QED BY <2>1, <3>1 DEF Order, Chained
  <2>4. Gapless'
    <3> SUFFICES ASSUME NEW t \in Turn, NEW i \in Bubble, NEW j \in Bubble, i < j,
                        Row(t, j)' # "NONE"
                 PROVE  Row(t, i)' # "NONE"
      BY DEF Gapless
    <3>1. CASE t = u
      <4>1. j <= n
        BY <2>1, <2>2, <3>1
      <4>2. i = 1 \/ i \in 2 .. n
        BY <2>2, <4>1
      <4> QED BY <2>1, <3>1, <4>2
    <3>2. CASE t # u
      BY <2>1, <3>2 DEF Order, Gapless
    <3> QED BY <3>1, <3>2
  <2>5. Untried'
    <3>1. \A m \in Message : attempt'[m] \in {"NONE", "BLOCKED"}
                               => attempt[m] \in {"NONE", "BLOCKED"}
      BY <1>4 DEF PrepareBatch
    <3> QED BY <2>1, <3>1 DEF Order, Untried
  <2> QED BY <2>3, <2>4, <2>5
<1> QED BY <1>0, <1>2, <1>3, <1>4 DEF RowsMove

(****************************************************************************)
(* Order: the numbers of the turns                                          *)
(****************************************************************************)

\* The next turn is the one behind the last.
LEMMA NextNumber ==
  ASSUME Counted
  PROVE  \E k \in 0 .. MaxTurn : {t \in Turn : Decided(t)} = 1 .. k /\ NextTurn = k + 1
<1>1. PICK k \in 0 .. MaxTurn : {t \in Turn : Decided(t)} = 1 .. k
  BY DEF Counted
<1>2. Cardinality(1 .. k) = k
  BY <1>1, FS_Interval, ReactiveAssumption
<1> QED BY <1>1, <1>2 DEF NextTurn, Decided

\* What a step may do to the decisions.
LEMMA Decisions ==
  ASSUME Shape, Counted, [Next]_vars
  PROVE  \/ /\ action' = action
            /\ owner' = owner
                 \/ \E m \in Inbound : owner[m] = Absent /\ owner' = [owner EXCEPT ![m] = Waiting]
         \/ /\ NextTurn \in Turn /\ ~Decided(NextTurn)
            /\ \A t \in Turn : Decided(t)' <=> Decided(t) \/ t = NextTurn
            /\ turn.pc = "decide"
            /\ \A m \in turn.pend : owner[m] = Waiting
            /\ owner' = [m \in Inbound |-> IF m \in turn.pend THEN NextTurn ELSE owner[m]]
            /\ UNCHANGED <<callVars, batches>>
<1>1. ASSUME NEW choice \in {"reply", "silence"}, SaveTurn(choice)
      PROVE  /\ NextTurn \in Turn /\ ~Decided(NextTurn)
             /\ \A t \in Turn : Decided(t)' <=> Decided(t) \/ t = NextTurn
             /\ turn.pc = "decide"
             /\ \A m \in turn.pend : owner[m] = Waiting
             /\ owner' = [m \in Inbound |-> IF m \in turn.pend THEN NextTurn ELSE owner[m]]
             /\ UNCHANGED <<callVars, batches>>
  <2>1. /\ NextTurn \in Turn /\ action' = [action EXCEPT ![NextTurn] = choice]
        /\ action \in [Turn -> {"none", "reply", "silence"}]
    BY <1>1 DEF SaveTurn, Shape, TypeOK
  <2>2. ~Decided(NextTurn)
    <3>1. PICK k \in 0 .. MaxTurn : {t \in Turn : Decided(t)} = 1 .. k /\ NextTurn = k + 1
      BY NextNumber
    <3>2. k + 1 \notin 1 .. k
      OBVIOUS
    <3> QED BY <2>1, <3>1, <3>2
  <2>3. \A t \in Turn : Decided(t)' <=> Decided(t) \/ t = NextTurn
    BY <2>1 DEF Decided
  <2> QED BY <1>1, <2>1, <2>2, <2>3 DEF SaveTurn, AtPc
<1>2. CASE TurnStep /\ ~\E choice \in {"reply", "silence"} : SaveTurn(choice)
  BY <1>2
     DEF TurnStep, Acquire, ListPending, TurnRaises, GenerateFails, AssemblyRaises,
         RetryStarts, AllSent, Blocked, OpenBubble, DeliverBubble, DeliverStep, chainVars,
         NextBubble, BubbleFailed, BatchEnds, Generate
<1>3. CASE ~TurnStep
  BY <1>3, AsideFrame
     DEF Next, StartStep, StartServices, StartTurns, RecoverBatch, Aside, Fire,
         Boot, Stop, Crash, vars, chainVars, AppendInbound, RetryReply, FinishMemory
<1> QED BY <1>1, <1>2, <1>3

\* What a step may do to the lists of turns.
LEMMA Lists ==
  ASSUME Shape, [Next]_vars
  PROVE  /\ \/ queue' = queue
            \/ queue # <<>> /\ queue' = Tail(queue)
            \/ queue' = Append(queue, NewTask)
            \/ queue' = Append(queue, ClearTask)
            \/ \E t \in Turn : /\ queue' = Append(queue, RetryTask(t)) /\ Decided(t)
            \/ \E t \in batches : queue' = Append(queue, RecoverTask(t))
            \/ queue' = <<>>
         /\ batches' \subseteq batches \/ batches' = Recoverable
         /\ \/ turn'.t \in {0, turn.t}
            \/ queue # <<>> /\ turn'.t = Head(queue).t
            \/ (\E choice \in {"reply", "silence"} : SaveTurn(choice)) /\ turn'.t = NextTurn
<1>0. /\ turn \in [pc : {"idle", "list", "decide", "generate", "retry", "bubble", "open",
                         "deliver", "clear"},
                   t : {0} \cup Turn, pend : SUBSET Inbound, next : 1 .. MaxBubble + 1]
      /\ turn.pc # "idle" => queue # <<>>
  BY DEF Shape, TypeOK, TurnShape
<1>1. ASSUME turn.pc # "idle", Release
      PROVE  queue # <<>> /\ queue' = Tail(queue) /\ turn'.t = 0
  BY <1>0, <1>1 DEF Release, Resting
<1>2. CASE Acquire
  <2>1. UNCHANGED <<queue, batches>> /\ queue # <<>> /\ turn'.t = Head(queue).t
    BY <1>2 DEF Acquire
  <2> QED BY <2>1
<1>3. CASE ListPending
  <2>1. batches' = batches
        /\ ((queue' = queue /\ turn'.t = turn.t)
             \/ (queue # <<>> /\ queue' = Tail(queue) /\ turn'.t = 0))
    BY <1>0, <1>1, <1>3 DEF ListPending, AtPc
  <2> QED BY <2>1
<1>4. ASSUME NEW choice \in {"reply", "silence"}, SaveTurn(choice)
      PROVE  /\ batches' = batches
             /\ \/ queue' = queue /\ turn'.t = NextTurn
                \/ queue # <<>> /\ queue' = Tail(queue) /\ turn'.t = 0
  BY <1>0, <1>1, <1>4 DEF SaveTurn, AtPc
<1>5. CASE \/ TurnRaises \/ GenerateFails \/ AssemblyRaises \/ RetryStarts \/ AllSent
           \/ Blocked \/ OpenBubble \/ DeliverBubble \/ DeliverStep \/ NextBubble
           \/ BubbleFailed \/ \E n \in Bubble : Generate(n)
  BY <1>0, <1>1, <1>5
     DEF TurnRaises, GenerateFails, AssemblyRaises, RetryStarts, AllSent, Blocked,
         OpenBubble, DeliverBubble, DeliverStep, chainVars, NextBubble, BubbleFailed,
         BatchEnds, Generate, AtPc, Become
<1>6. CASE Aside
  BY <1>0, <1>1, <1>6, AsideFrame
<1>7. CASE ~TurnStep /\ ~Aside
  BY <1>0, <1>1, <1>7
     DEF Next, StartStep, StartServices, StartTurns, RecoverBatch, Aside, Fire,
         Boot, Stop, Crash, vars, chainVars, AppendInbound, RetryReply, FinishMemory, Decided,
         Resting, AtPc
<1> QED BY <1>2, <1>3, <1>4, <1>5, <1>6, <1>7 DEF TurnStep

LEMMA NumberedNext ==
  Shape /\ CallInv /\ Order /\ [Next]_vars => Numbered'
<1> SUFFICES ASSUME Shape, CallInv, Order, [Next]_vars
             PROVE  Numbered'
  OBVIOUS
<1>0. /\ Counted /\ Empty /\ Owned /\ Known
      /\ action \in [Turn -> {"none", "reply", "silence"}]
      /\ owner \in [Inbound -> {Absent, Waiting} \cup Turn]
      /\ turn.pend \in SUBSET Inbound /\ turn.t \in {0} \cup Turn
      /\ queue \in Seq(Task)
  BY DEF Order, Numbered, Shape, TypeOK, Task
<1>1. \A t \in Turn : Decided(t) => Decided(t)'
  BY <1>0, Decisions DEF Decided
<1>2. Counted'
  <2>1. CASE action' = action
    BY <1>0, <2>1 DEF Counted, Decided
  <2>2. CASE /\ NextTurn \in Turn
             /\ \A t \in Turn : Decided(t)' <=> Decided(t) \/ t = NextTurn
    <3>1. PICK k \in 0 .. MaxTurn : {t \in Turn : Decided(t)} = 1 .. k /\ NextTurn = k + 1
      BY <1>0, NextNumber
    <3>2. k + 1 \in 0 .. MaxTurn /\ 1 .. k + 1 = (1 .. k) \cup {k + 1}
      BY <2>2, <3>1 DEF Turn
    <3>3. {t \in Turn : Decided(t)'} = {t \in Turn : Decided(t)} \cup {NextTurn}
      BY <2>2
    <3> QED BY <3>1, <3>2, <3>3 DEF Counted
  <2> QED BY <1>0, <2>1, <2>2, Decisions
<1>3. Empty'
  <2> SUFFICES ASSUME NEW t \in Turn, ~Decided(t), NEW i \in Bubble
               PROVE  Row(t, i)' = "NONE"
    BY <1>1 DEF Empty
  <2>1. Row(t, i) = "NONE" /\ <<t, i>> \in Message /\ t # turn.t
    BY <1>0, ReactiveAssumption DEF Empty, Known, Turn
  <2>2. RowsMove
    BY RowsMoves DEF Order
  <2>3. ASSUME turn.t \in Turn, turn.pc = "generate", NEW n \in Bubble,
               PrepareBatch(<<turn.t, 1>>, {<<turn.t, j>> : j \in 2 .. n})
        PROVE  Row(t, i)' = "NONE"
    BY <2>1, <2>3 DEF PrepareBatch, Row
  <2> QED BY <2>1, <2>2, <2>3 DEF RowsMove, Current, Row
<1>4. Owned'
  <2>1. CASE action' = action /\ owner' = owner
    BY <1>0, <2>1 DEF Owned, Decided
  <2>2. ASSUME action' = action, NEW m \in Inbound, owner[m] = Absent,
               owner' = [owner EXCEPT ![m] = Waiting]
        PROVE  Owned'
    BY <1>0, <2>2, ReactiveAssumption DEF Owned, Decided
  <2>3. CASE /\ NextTurn \in Turn /\ ~Decided(NextTurn)
             /\ \A t \in Turn : Decided(t)' <=> Decided(t) \/ t = NextTurn
             /\ turn.pc = "decide"
             /\ \A m \in turn.pend : owner[m] = Waiting
             /\ owner' = [m \in Inbound |-> IF m \in turn.pend THEN NextTurn ELSE owner[m]]
    <3> SUFFICES ASSUME NEW t \in Turn, Decided(t) \/ t = NextTurn
                 PROVE  \E m \in Inbound : owner'[m] = t
      BY <2>3 DEF Owned
    <3>1. CASE t = NextTurn
      BY <1>0, <2>3, <3>1 DEF Shape, TurnShape
    <3>2. CASE Decided(t)
      <4>1. PICK m \in Inbound : owner[m] = t
        BY <1>0, <3>2 DEF Owned
      <4>2. m \notin turn.pend
        BY <2>3, <4>1, ReactiveAssumption
      <4> QED BY <2>3, <4>1, <4>2
    <3> QED BY <3>1, <3>2
  <2> QED BY <1>0, <2>1, <2>2, <2>3, Decisions
<1>5. Known'
  <2>1. \A t \in batches' : Decided(t)'
    <3>1. \A t \in Recoverable : Decided(t) /\ t \in Turn
      BY <1>0 DEF Recoverable, BubblesOf, Empty, Row
    <3>2. batches \in SUBSET Turn
      BY DEF Shape, TypeOK
    <3> QED BY <1>0, <1>1, <3>1, <3>2, Lists DEF Known
  <2>2. \A j \in DOMAIN queue :
          queue[j].t # 0 => queue[j].t \in Turn /\ action'[queue[j].t] # "none"
    <3>1. \A j \in DOMAIN queue : queue[j] \in Task
      BY <1>0
    <3> QED BY <1>0, <1>1, <3>1 DEF Known, Task, Decided
  <2>3. \A j \in DOMAIN queue' : queue'[j].t # 0 => action'[queue'[j].t] # "none"
    <3>1. ASSUME NEW t \in {0} \cup Turn, t # 0 => Decided(t)', NEW kind,
                 queue' = Append(queue, [kind |-> kind, t |-> t])
          PROVE  \A j \in DOMAIN queue' : queue'[j].t # 0 => action'[queue'[j].t] # "none"
      BY <1>0, <2>2, <3>1 DEF Decided
    <3>2. CASE queue' = Append(queue, NewTask)
      BY <3>1, <3>2 DEF NewTask
    <3>8. CASE queue' = Append(queue, ClearTask)
      BY <3>1, <3>8 DEF ClearTask
    <3>3. CASE \E t \in Turn : queue' = Append(queue, RetryTask(t)) /\ Decided(t)
      BY <1>1, <3>1, <3>3 DEF RetryTask
    <3>4. CASE \E t \in batches : queue' = Append(queue, RecoverTask(t))
      <4>1. PICK t \in batches : queue' = Append(queue, RecoverTask(t))
        BY <3>4
      <4>2. t \in Turn /\ Decided(t)'
        BY <1>0, <1>1, <4>1 DEF Known, Shape, TypeOK
      <4> QED BY <3>1, <4>1, <4>2 DEF RecoverTask
    <3>5. CASE queue # <<>> /\ queue' = Tail(queue)
      <4>1. \A j \in DOMAIN queue' : j + 1 \in DOMAIN queue /\ queue'[j] = queue[j + 1]
        BY <1>0, <3>5, Released
      <4> QED BY <2>2, <4>1 DEF Decided
    <3>6. CASE queue' = queue
      BY <2>2, <3>6 DEF Decided
    <3>7. CASE queue' = <<>>
      BY <3>7
    <3> QED BY <3>2, <3>3, <3>4, <3>5, <3>6, <3>7, <3>8, Lists DEF Decided
  <2>4. turn'.t # 0 => action'[turn'.t] # "none"
    <3>1. CASE turn'.t \in {0, turn.t}
      BY <1>0, <1>1, <3>1 DEF Known, Decided
    <3>2. CASE queue # <<>> /\ turn'.t = Head(queue).t
      BY <1>0, <2>2, <3>2, HeadTask DEF Decided
    <3>3. CASE (\E choice \in {"reply", "silence"} : SaveTurn(choice)) /\ turn'.t = NextTurn
      BY <1>0, <3>3 DEF SaveTurn, Decided
    <3> QED BY <3>1, <3>2, <3>3, Lists
  <2> QED BY <2>1, <2>3, <2>4 DEF Known, Decided
<1> QED BY <1>2, <1>3, <1>4, <1>5 DEF Numbered

(****************************************************************************)
(* Order: the delivery of a batch                                           *)
(****************************************************************************)

\* Nobody is inside deliver(), and the bubbles behind the holder were sent.
LEMMA Between ==
  ASSUME ~InFlight(Holder)', turn'.pc \notin {"generate", "deliver"},
         turn'.pc \in {"bubble", "open"} =>
           \A i \in Bubble : i < turn'.next => <<turn'.t, i>> \in history'
  PROVE  Delivering'
  BY DEF Delivering

LEMMA DeliveringNext ==
  Shape /\ CallInv /\ Order /\ [Next]_vars => Delivering'
<1> SUFFICES ASSUME Shape, CallInv, Order, [Next]_vars
             PROVE  Delivering'
  OBVIOUS
<1>0. /\ Delivering /\ Holder \in Worker /\ CallTypeOK
      /\ turn \in [pc : {"idle", "list", "decide", "generate", "retry", "bubble", "open",
                         "deliver", "clear"},
                   t : {0} \cup Turn, pend : SUBSET Inbound, next : 1 .. MaxBubble + 1]
      /\ \A i \in Bubble : i \in Nat /\ ~(i < 1)
      /\ MaxBubble \in Nat
  BY ReactiveAssumption DEF Order, CallInv, Shape, TypeOK, Bubble
<1>1. turn.pc # "deliver" /\ UNCHANGED callVars => ~InFlight(Holder)'
  BY <1>0 DEF Delivering, callVars, InFlight
<1>2. Abandon(Holder) => ~InFlight(Holder)' /\ history' = history
  BY <1>0 DEF Abandon, CallTypeOK, Idle, InFlight
<1>3. ASSUME UNCHANGED <<turn, callVars>>
      PROVE  Delivering'
  BY <1>0, <1>3 DEF callVars, Delivering, InFlight, At, Current, Row
<1>4. ASSUME turn' = Resting, (turn.pc # "deliver" /\ UNCHANGED callVars) \/ Abandon(Holder)
      PROVE  Delivering'
  BY <1>1, <1>2, <1>4, Between DEF Resting
<1>5. CASE Acquire
  <2>1. Head(queue).kind \in {"new", "retry", "recover", "clear"}
    BY <1>5, HeadTask DEF Acquire, Shape, TypeOK, Task
  <2>2. turn'.pc \in {"list", "retry", "bubble", "clear"} /\ turn'.next = 1
    BY <1>5, <2>1 DEF Acquire
  <2> QED BY <1>0, <1>1, <1>5, <2>2, Between DEF Acquire, AtPc
<1>6. CASE ListPending
  <2>1. turn' = Resting \/ turn'.pc = "decide"
    BY <1>0, <1>6 DEF ListPending, Release
  <2> QED BY <1>1, <1>6, <2>1, Between DEF ListPending, AtPc, Resting
<1>7. ASSUME NEW choice \in {"reply", "silence"}, SaveTurn(choice)
      PROVE  Delivering'
  <2>1. CASE choice = "reply"
    <3>1. /\ NextTurn \in Turn /\ turn' = [turn EXCEPT !.pc = "generate", !.t = NextTurn]
          /\ UNCHANGED callVars /\ turn.pc = "decide"
      BY <1>7, <2>1 DEF SaveTurn, AtPc
    <3>2. ~Decided(NextTurn)
      <4>1. PICK k \in 0 .. MaxTurn : {t \in Turn : Decided(t)} = 1 .. k /\ NextTurn = k + 1
        BY NextNumber DEF Order, Numbered
      <4>2. k + 1 \notin 1 .. k
        OBVIOUS
      <4> QED BY <3>1, <4>1, <4>2
    <3>3. \A i \in Bubble : attempt'[<<NextTurn, i>>] = "NONE"
      BY <3>1, <3>2 DEF Order, Numbered, Empty, Row, callVars
    <3>4. turn'.pc = "generate" /\ turn'.t = NextTurn /\ ~InFlight(Holder)'
      BY <1>0, <1>1, <3>1
    <3> QED BY <3>3, <3>4 DEF Delivering, Row
  <2>2. CASE choice # "reply"
    BY <1>4, <1>7, <2>2 DEF SaveTurn, Release, AtPc
  <2> QED BY <2>1, <2>2
<1>8. CASE RetryStarts
  <2>1. turn.pc = "retry" /\ UNCHANGED callVars /\ turn.next = 1
    BY <1>8 DEF RetryStarts, AtPc, Shape, TurnShape
  <2>2. CASE turn' = Resting
    BY <1>4, <2>1, <2>2
  <2>3. CASE turn' = [turn EXCEPT !.pc = "generate"] /\ BubblesOf(turn.t) = {}
    <3>1. \A i \in Bubble : attempt'[<<turn'.t, i>>] = "NONE"
      BY <1>0, <2>1, <2>3 DEF BubblesOf, callVars
    <3>2. turn'.pc = "generate" /\ ~InFlight(Holder)'
      BY <1>0, <1>1, <2>1, <2>3
    <3> QED BY <3>1, <3>2 DEF Delivering, Row
  <2>4. CASE turn' = [turn EXCEPT !.pc = "bubble"]
    BY <1>0, <1>1, <2>1, <2>4, Between
  <2> QED BY <1>8, <2>2, <2>3, <2>4 DEF RetryStarts, Release, Become
<1>9. ASSUME NEW n \in Bubble, Generate(n)
      PROVE  Delivering'
  <2>1. turn'.pc = "bubble" /\ turn'.next = 1 /\ turn.pc = "generate" /\ UNCHANGED call
    BY <1>0, <1>9 DEF Generate, AtPc, Become, PrepareBatch, Shape, TurnShape
  <2>2. ~InFlight(Holder)'
    BY <1>0, <2>1 DEF Delivering, InFlight
  <2> QED BY <1>0, <2>1, <2>2, Between
<1>10. CASE OpenBubble
  <2>1. turn' = [turn EXCEPT !.pc = "open"] /\ UNCHANGED <<call, history>> /\ turn.pc = "bubble"
    BY <1>10 DEF OpenBubble, AtPc, Become, PromoteBlocked, RetryFailed
  <2>2. ~InFlight(Holder)'
    BY <1>0, <2>1 DEF Delivering, InFlight
  <2>3. \A i \in Bubble : i < turn'.next => <<turn'.t, i>> \in history'
    BY <1>0, <2>1 DEF Delivering
  <2> QED BY <1>0, <2>1, <2>2, <2>3, Between
<1>11. CASE DeliverBubble
  <2>1. /\ turn' = [turn EXCEPT !.pc = "deliver"] /\ UNCHANGED <<attempt, history>>
        /\ turn.pc \in {"bubble", "open"}
        /\ call' = [call EXCEPT ![Holder] = [pc |-> "look", msg |-> Current, receipt |-> "NONE"]]
    BY <1>11 DEF DeliverBubble, AtPc, Become, Begin
  <2>2. call'[Holder].pc = "look" /\ call'[Holder].msg = Current /\ Current' = Current
    BY <1>0, <2>1 DEF CallTypeOK, Current
  <2>3. \A i \in Bubble : i < turn'.next => <<turn'.t, i>> \in history'
    BY <1>0, <2>1 DEF Delivering
  <2>4. turn'.pc = "deliver"
    BY <1>0, <2>1
  <2> QED BY <2>2, <2>3, <2>4 DEF Delivering, At
<1>12. CASE DeliverStep
  <2>1. Step(Holder) /\ turn' = turn /\ turn.pc = "deliver"
    BY <1>12 DEF DeliverStep, chainVars, AtPc
  <2>2. call[Holder].msg = Current /\ Current' = Current
    BY <1>0, <2>1, StepBusy DEF Delivering, Current
  <2>3. /\ history \subseteq history'
        /\ InFlight(Holder)' => call'[Holder].msg = Current
        /\ ~InFlight(Holder)' =>
             /\ call'[Holder].pc = "done" /\ call'[Holder].receipt = attempt'[Current]
             /\ attempt'[Current] \notin {"NONE", "PREPARED", "DISPATCHING"}
             /\ attempt'[Current] = "SENT" => Current \in history'
    BY <1>0, <2>1, <2>2, StepEffect
  <2>4. \A i \in Bubble : i < turn'.next => <<turn'.t, i>> \in history'
    BY <1>0, <2>1, <2>3 DEF Delivering
  <2>5. At(Holder, "idle")' => ~InFlight(Holder)' /\ call'[Holder].pc # "done"
    BY DEF At, InFlight
  <2>6. At(Holder, "done")' => ~InFlight(Holder)'
    BY DEF At, InFlight
  <2> QED BY <2>1, <2>2, <2>3, <2>4, <2>5, <2>6 DEF Delivering
<1>13. CASE NextBubble
  <2>1. /\ turn' = [turn EXCEPT !.pc = "bubble", !.next = @ + 1] /\ Abandon(Holder)
        /\ turn.pc = "deliver" /\ Current \in history
    BY <1>0, <1>13 DEF NextBubble, AtPc, Delivering
  <2>2. turn'.pc = "bubble" /\ turn'.next = turn.next + 1 /\ turn'.t = turn.t
    BY <1>0, <2>1
  <2>3. ASSUME NEW i \in Bubble, i < turn'.next
        PROVE  <<turn'.t, i>> \in history'
    <3>1. i < turn.next \/ i = turn.next
      BY <1>0, <2>2, <2>3
    <3> QED BY <1>0, <1>2, <2>1, <2>2, <3>1 DEF Delivering, Current
  <2> QED BY <1>2, <2>1, <2>2, <2>3, Between
<1>14. CASE TurnRaises \/ GenerateFails \/ AssemblyRaises \/ AllSent \/ Blocked \/ BubbleFailed
            \/ Stop \/ Crash
  BY <1>4, <1>14
     DEF TurnRaises, GenerateFails, AssemblyRaises, AllSent, Blocked, BubbleFailed, BatchEnds,
         Stop, Crash, AtPc, Release
<1>15. CASE Aside
  <2>1. CASE turn' = turn
    BY <1>3, <1>15, <2>1, AsideFrame
  <2>2. CASE turn.pc = "clear" /\ Release
    BY <1>4, <1>15, <2>2, AsideFrame DEF Release
  <2> QED BY <1>15, <2>1, <2>2, AsideFrame
<1>16. CASE ~TurnStep /\ ~Stop /\ ~Crash /\ ~Aside
  BY <1>3, <1>16
     DEF Next, StartStep, StartServices, StartTurns, RecoverBatch, Aside, Fire, Boot,
         vars, chainVars, AppendInbound, RetryReply, FinishMemory
<1> QED
  BY <1>5, <1>6, <1>7, <1>8, <1>9, <1>10, <1>11, <1>12, <1>13, <1>14, <1>15, <1>16
     DEF TurnStep

LEMMA OrderInit == Init => Order
<1> SUFFICES ASSUME Init
             PROVE  Order
  OBVIOUS
<1>0. /\ \A m \in Message : attempt[m] = "NONE" /\ retries[m] = 0
      /\ \A t \in Turn : ~Decided(t)
      /\ \A t \in Turn, i \in Bubble : <<t, i>> \in Message
      /\ Holder \in Worker
  BY ReactiveAssumption DEF Init, CallInit, Decided
<1>1. Chained /\ Gapless /\ Untried
  BY <1>0 DEF Chained, Gapless, Untried, Row
<1>2. Counted
  <2>1. 0 \in 0 .. MaxTurn /\ 1 .. 0 = {} /\ {t \in Turn : Decided(t)} = {}
    BY <1>0, ReactiveAssumption
  <2> QED BY <2>1 DEF Counted
<1>3. Empty /\ Owned /\ Known
  BY <1>0 DEF Init, Empty, Owned, Known, Resting, Row
<1>4. Delivering
  BY <1>0 DEF Init, CallInit, Delivering, Resting, InFlight, Idle
<1> QED BY <1>1, <1>2, <1>3, <1>4 DEF Order, Numbered

LEMMA OrderNext == Shape /\ CallInv /\ Order /\ [Next]_vars => Order'
  BY RowsNext, NumberedNext, DeliveringNext DEF Order

(****************************************************************************)
(* Recovered: nothing half done without somebody who knows                  *)
(****************************************************************************)

\* Only the rows of the turn at hand change.
LEMMA OthersRest ==
  ASSUME Shape, CallInv, Order, [Next]_vars, NEW t \in Turn, t # turn.t, Complete(t)
  PROVE  Complete(t)'
<1>1. RowsMove
  BY RowsMoves DEF Order
<1>2. \A i \in Bubble : attempt'[<<t, i>>] = attempt[<<t, i>>]
  <2>1. ASSUME turn.t \in Turn, turn.pc = "generate", NEW n \in Bubble,
               PrepareBatch(<<turn.t, 1>>, {<<turn.t, j>> : j \in 2 .. n})
        PROVE  \A i \in Bubble : attempt'[<<t, i>>] = attempt[<<t, i>>]
    <3>1. CallTypeOK /\ \A i \in Bubble : Row(turn.t, i) = "NONE"
      BY <2>1 DEF CallInv, Order, Delivering
    <3> PICK u \in Turn : u = turn.t
      BY <2>1
    <3>2. \A v \in Turn \ {u}, i \in Bubble : Row(v, i)' = Row(v, i)
      BY <2>1, <3>1, NewRows
    <3> QED BY <3>2 DEF Row
  <2> QED BY <1>1, <2>1, ReactiveAssumption DEF RowsMove, Current
<1>3. \A i \in Bubble : <<t, i>> \in history => <<t, i>> \in history'
  BY <1>1 DEF RowsMove, PrepareBatch
<1> QED BY <1>2, <1>3 DEF Complete, Row

\* A batch that stops at a bubble which is not under way leaves nothing half done:
\* what is before it was sent, what is behind it was never opened.
LEMMA StopsComplete ==
  ASSUME CallInv, Order, turn.t \in Turn, turn.next \in 1 .. MaxBubble + 1,
         turn.pc \in {"bubble", "open", "deliver"},
         turn.next \in Bubble => Row(turn.t, turn.next) \notin {"PREPARED", "DISPATCHING", "SENT"}
  PROVE  Complete(turn.t)
<1> SUFFICES ASSUME NEW i \in Bubble
             PROVE  /\ Row(turn.t, i) \notin {"PREPARED", "DISPATCHING"}
                    /\ Row(turn.t, i) = "SENT" => <<turn.t, i>> \in history
  BY DEF Complete
<1>0. i \in Nat /\ i >= 1 /\ i <= MaxBubble /\ MaxBubble \in Nat
  BY ReactiveAssumption DEF Bubble
<1>1. CASE i < turn.next
  BY <1>1 DEF Order, Delivering, CallInv, Row
<1>2. CASE i = turn.next
  BY <1>2
<1>3. CASE i > turn.next
  <2>1. turn.next \in Bubble
    BY <1>0, <1>3 DEF Bubble
  <2>2. <<turn.t, turn.next>> \notin history
    BY <2>1 DEF CallInv, Row
  <2> QED BY <1>3, <2>1, <2>2 DEF Order, Chained
<1> QED BY <1>0, <1>1, <1>2, <1>3

\* However a turn ends by itself, it is complete, or was cut short before.
LEMMA EndsComplete ==
  ASSUME Shape, CallInv, Order, Recovered, TurnStep, turn.t # 0, turn'.t # turn.t
  PROVE  turn.t \in stopped \/ Complete(turn.t)
<1>0. /\ turn \in [pc : {"idle", "list", "decide", "generate", "retry", "bubble", "open",
                         "deliver", "clear"},
                   t : {0} \cup Turn, pend : SUBSET Inbound, next : 1 .. MaxBubble + 1]
      /\ turn.pc \notin {"idle", "list", "decide"}
      /\ CallTypeOK
  BY DEF Shape, TypeOK, TurnShape
<1>1. CASE GenerateFails \/ AssemblyRaises
  BY <1>1 DEF GenerateFails, AssemblyRaises, AtPc, Order, Delivering, Complete
<1>2. CASE RetryStarts
  BY <1>2 DEF RetryStarts, AtPc, Recovered
<1>3. CASE AllSent \/ Blocked \/ BubbleFailed
  <2>1. turn.pc \in {"bubble", "open", "deliver"}
    BY <1>3 DEF AllSent, Blocked, BubbleFailed, AtPc
  <2>2. ASSUME turn.next \in Bubble
        PROVE  Row(turn.t, turn.next) \notin {"PREPARED", "DISPATCHING", "SENT"}
    <3>1. CASE AllSent
      BY <2>2, <3>1 DEF AllSent, BubblesOf, Row
    <3>2. CASE Blocked
      BY <3>2 DEF Blocked, Current, Row
    <3>3. CASE BubbleFailed
      BY <3>3 DEF BubbleFailed, AtPc, At, Order, Delivering, Current, Row
    <3> QED BY <1>3, <3>1, <3>2, <3>3
  <2> QED BY <1>0, <2>1, <2>2, StopsComplete
<1>4. CASE OpenBubble \/ DeliverBubble \/ NextBubble \/ DeliverStep \/ \E n \in Bubble : Generate(n)
  <2>1. turn'.t = turn.t
    BY <1>0, <1>4 DEF OpenBubble, DeliverBubble, NextBubble, DeliverStep, Generate, Become,
       chainVars
  <2> QED BY <2>1
<1> QED BY <1>0, <1>1, <1>2, <1>3, <1>4 DEF TurnStep, Acquire, ListPending, TurnRaises, SaveTurn, AtPc

\* A batch that recovery has still to visit is not forgotten, nor is its task, until
\* that task holds the lock.
LEMMA StaysListed ==
  ASSUME Shape, [Next]_vars, ~Crash, ~StartServices, NEW t \in Turn,
         \/ t \in batches
         \/ \E j \in DOMAIN queue : queue[j].kind = "recover" /\ queue[j].t = t
  PROVE  \/ t \in batches' \/ t = turn.t
         \/ \E j \in DOMAIN queue' : queue'[j].kind = "recover" /\ queue'[j].t = t
<1>0. queue \in Seq(Task)
  BY DEF Shape, TypeOK, Task
<1>1. /\ \/ queue' = queue
         \/ turn.pc # "idle" /\ queue # <<>> /\ queue' = Tail(queue)
         \/ \E k \in Task : queue' = Append(queue, k)
      /\ batches' = batches \/ \E u \in Turn : RecoverBatch(u)
  <2>1. CASE TurnStep \/ Stop
    BY <2>1
       DEF TurnStep, Acquire, ListPending, TurnRaises, GenerateFails, AssemblyRaises,
           RetryStarts, AllSent, Blocked, OpenBubble, DeliverBubble, DeliverStep, chainVars,
           NextBubble, BubbleFailed, BatchEnds, Generate, SaveTurn, Stop, Release, AtPc, Shape,
           TurnShape
  <2>2. CASE Fire \/ \E u \in Turn : RetryReply(u) \/ RecoverBatch(u)
    BY <2>2 DEF Fire, RetryReply, RecoverBatch, NewTask, RetryTask, RecoverTask, Task
  <2>3. CASE Aside
    <3>1. ClearTask \in Task
      BY DEF ClearTask, Task
    <3> QED BY <2>3, <3>1, AsideFrame DEF Release, Shape, TurnShape
  <2>4. CASE /\ ~TurnStep /\ ~Stop /\ ~Fire /\ ~Aside
             /\ ~\E u \in Turn : RetryReply(u) \/ RecoverBatch(u)
    BY <2>4 DEF Next, StartStep, StartTurns, Aside, Boot, vars, chainVars, AppendInbound,
       FinishMemory
  <2> QED BY <2>1, <2>2, <2>3, <2>4
<1>2. ASSUME NEW u \in Turn, RecoverBatch(u), t \in batches
      PROVE  \/ t \in batches'
             \/ \E j \in DOMAIN queue' : queue'[j].kind = "recover" /\ queue'[j].t = t
  <2>1. CASE t = u
    <3>1. queue' = Append(queue, RecoverTask(t)) /\ RecoverTask(t) \in Task
      BY <1>2, <2>1 DEF RecoverBatch, RecoverTask, Task
    <3>2. Len(queue) + 1 \in DOMAIN queue' /\ queue'[Len(queue) + 1] = RecoverTask(t)
      BY <1>0, <3>1, Added
    <3> QED BY <3>2 DEF RecoverTask
  <2>2. CASE t # u
    BY <1>2, <2>2 DEF RecoverBatch
  <2> QED BY <2>1, <2>2
<1>3. ASSUME NEW j \in DOMAIN queue, queue[j].kind = "recover", queue[j].t = t
      PROVE  \/ t = turn.t
             \/ \E k \in DOMAIN queue' : queue'[k].kind = "recover" /\ queue'[k].t = t
  <2>1. CASE queue' = queue
    BY <1>3, <2>1
  <2>2. CASE \E k \in Task : queue' = Append(queue, k)
    <3>1. j \in DOMAIN queue' /\ queue'[j] = queue[j]
      BY <1>0, <2>2, Added
    <3> QED BY <1>3, <3>1
  <2>3. CASE turn.pc # "idle" /\ queue # <<>> /\ queue' = Tail(queue)
    <3>1. CASE j = 1
      <4>1. Head(queue) = queue[1]
        BY <1>0, <2>3, HeadTask
      <4> QED BY <1>3, <2>3, <3>1, <4>1 DEF Shape, TurnShape
    <3>2. CASE j # 1
      <4>1. j - 1 \in DOMAIN queue' /\ queue'[j - 1] = queue[j]
        <5>1. j > 1
          BY <1>0, <3>2
        <5> QED BY <1>0, <2>3, <5>1, Released
      <4> QED BY <1>3, <4>1
    <3> QED BY <3>1, <3>2
  <2> QED BY <1>1, <2>1, <2>2, <2>3
<1> QED BY <1>1, <1>2, <1>3

\* The process that recovers stays in recovery until it is over; "/stop" is remembered.
LEMMA Phases ==
  ASSUME Shape, [Next]_vars, ~Crash, ~StartServices
  PROVE  /\ up' \in {"recovering", "on"} => up \in {"recovering", "on"}
         /\ stopped \subseteq stopped'
         /\ turn'.t = turn.t \/ turn.t = 0 \/ turn.t \in stopped' \/ TurnStep
         /\ turn'.pc = "retry" => turn' = turn \/ Acquire
<1>0. turn \in [pc : {"idle", "list", "decide", "generate", "retry", "bubble", "open",
                      "deliver", "clear"},
                t : {0} \cup Turn, pend : SUBSET Inbound, next : 1 .. MaxBubble + 1]
  BY DEF Shape, TypeOK
<1>1. CASE TurnStep
  <2>1. UNCHANGED <<up, stopped>>
    BY <1>1
       DEF TurnStep, Acquire, ListPending, TurnRaises, GenerateFails, AssemblyRaises,
           RetryStarts, AllSent, Blocked, OpenBubble, DeliverBubble, DeliverStep, chainVars,
           NextBubble, BubbleFailed, BatchEnds, Generate, SaveTurn
  <2>2. ASSUME OpenBubble \/ DeliverBubble \/ NextBubble \/ DeliverStep
               \/ \E n \in Bubble : Generate(n)
        PROVE  turn'.pc # "retry" \/ turn' = turn
    BY <1>0, <2>2 DEF OpenBubble, DeliverBubble, NextBubble, DeliverStep, chainVars, Generate,
       Become
  <2>3. ASSUME RetryStarts
        PROVE  turn'.pc # "retry"
    <3>1. turn' = Resting \/ turn' = [turn EXCEPT !.pc = "generate"]
            \/ turn' = [turn EXCEPT !.pc = "bubble"]
      BY <2>3 DEF RetryStarts, Release, Become
    <3> QED BY <1>0, <3>1 DEF Resting
  <2>4. ASSUME (\E choice \in {"reply", "silence"} : SaveTurn(choice)) \/ ListPending
        PROVE  turn'.pc # "retry"
    <3>1. ASSUME NEW choice \in {"reply", "silence"}, SaveTurn(choice)
          PROVE  turn'.pc # "retry"
      <4>1. Release \/ turn' = [turn EXCEPT !.pc = "generate", !.t = NextTurn]
        BY <3>1 DEF SaveTurn
      <4>2. CASE Release
        BY <4>2 DEF Release, Resting
      <4>3. CASE turn' = [turn EXCEPT !.pc = "generate", !.t = NextTurn]
        BY <1>0, <4>3
      <4> QED BY <4>1, <4>2, <4>3
    <3>2. CASE ListPending
      <4>1. PICK late \in SUBSET (Pending \ turn.pend) :
              Release \/ turn' = [turn EXCEPT !.pc = "decide", !.pend = @ \cup late]
        BY <3>2 DEF ListPending
      <4>2. CASE Release
        BY <4>2 DEF Release, Resting
      <4>3. CASE turn' = [turn EXCEPT !.pc = "decide", !.pend = @ \cup late]
        BY <1>0, <4>3
      <4> QED BY <4>1, <4>2, <4>3
    <3> QED BY <2>4, <3>1, <3>2
  <2>5. ASSUME TurnRaises \/ GenerateFails \/ AssemblyRaises \/ AllSent \/ Blocked \/ BubbleFailed
        PROVE  turn'.pc # "retry"
    BY <2>5 DEF TurnRaises, GenerateFails, AssemblyRaises, AllSent, Blocked, BubbleFailed,
       BatchEnds, Release, Resting
  <2>6. turn'.pc = "retry" => turn' = turn \/ Acquire
    BY <1>1, <2>2, <2>3, <2>4, <2>5 DEF TurnStep
  <2> QED BY <1>1, <2>1, <2>6
<1>2. CASE Stop
  BY <1>0, <1>2 DEF Stop, Release, Resting
<1>3. CASE Aside
  BY <1>0, <1>3, AsideFrame DEF Release, Resting, Shape, TurnShape
<1>4. CASE ~TurnStep /\ ~Stop /\ ~Aside
  BY <1>4
     DEF Next, StartStep, StartTurns, RecoverBatch, Aside, Fire, Boot, vars, chainVars,
         AppendInbound, RetryReply, FinishMemory
<1> QED BY <1>1, <1>2, <1>3, <1>4

LEMMA RecoveredNext ==
  Shape /\ CallInv /\ Order /\ Recovered /\ [Next]_vars => Recovered'
<1> SUFFICES ASSUME Shape, CallInv, Order, Recovered, [Next]_vars
             PROVE  Recovered'
  OBVIOUS
<1>0. turn.t \in {0} \cup Turn /\ queue \in Seq(Task)
  BY DEF Shape, TypeOK, Task
<1>1. CASE Crash
  BY <1>1 DEF Crash, Recovered, Resting
<1>2. CASE StartServices
  <2>1. UNCHANGED <<attempt, history, turn, stopped>> /\ batches' = Recoverable
    BY <1>2 DEF StartServices, callVars
  <2>2. ASSUME NEW t \in Turn, t \notin batches'
        PROVE  Complete(t)'
    BY <2>1, <2>2 DEF Recoverable, Complete, BubblesOf, Committed, Row
  <2>3. turn'.pc = "retry" => turn'.t \in stopped' \/ Complete(turn.t)
    BY <2>1 DEF Recovered
  <2>4. Complete(turn.t) => \A i \in Bubble :
          /\ attempt'[<<turn'.t, i>>] \notin {"PREPARED", "DISPATCHING"}
          /\ attempt'[<<turn'.t, i>>] = "SENT" => <<turn'.t, i>> \in history'
    BY <2>1 DEF Complete, Row
  <2> QED BY <2>2, <2>3, <2>4 DEF Recovered, Recovering, Complete, Row
<1>3. CASE ~Crash /\ ~StartServices
  <2>0. /\ up' \in {"recovering", "on"} => up \in {"recovering", "on"}
        /\ stopped \subseteq stopped'
        /\ turn'.t = turn.t \/ turn.t = 0 \/ turn.t \in stopped' \/ TurnStep
        /\ turn'.pc = "retry" => turn' = turn \/ Acquire
    BY <1>3, Phases
  <2>1. ASSUME up' \in {"recovering", "on"}, NEW t \in Turn
        PROVE  Recovering(t)' \/ Complete(t)'
    <3>1. Recovering(t) \/ Complete(t)
      BY <2>0, <2>1 DEF Recovered
    <3>2. CASE t = turn.t
      <4>1. CASE turn'.t = turn.t
        BY <3>2, <4>1 DEF Recovering
      <4>2. CASE turn'.t # turn.t
        <5>1. turn.t # 0
          BY <3>2 DEF Turn
        <5>2. CASE turn.t \in stopped'
          BY <3>2, <5>2 DEF Recovering
        <5>3. CASE TurnStep /\ Complete(turn.t)
          <6>1. UNCHANGED <<attempt, history>>
            BY <1>0, <4>2, <5>1, <5>3
               DEF TurnStep, Acquire, ListPending, TurnRaises, GenerateFails, AssemblyRaises,
                   RetryStarts, AllSent, Blocked, OpenBubble, DeliverBubble, DeliverStep,
                   chainVars, NextBubble, BubbleFailed, Generate, SaveTurn, callVars, Abandon,
                   Become, Shape, TypeOK
          <6> QED BY <3>2, <5>3, <6>1 DEF Complete, Row
        <5> QED BY <2>0, <4>2, <5>1, <5>2, <5>3, EndsComplete
      <4> QED BY <4>1, <4>2
    <3>3. CASE t # turn.t /\ Complete(t)
      BY <3>3, OthersRest
    <3>4. CASE t # turn.t /\ Recovering(t)
      <4>1. CASE t \in stopped
        BY <2>0, <4>1 DEF Recovering
      <4>2. CASE \/ t \in batches
                 \/ \E j \in DOMAIN queue : queue[j].kind = "recover" /\ queue[j].t = t
        BY <1>3, <3>4, <4>2, StaysListed DEF Recovering
      <4> QED BY <3>4, <4>1, <4>2 DEF Recovering
    <3> QED BY <3>1, <3>2, <3>3, <3>4
  <2>2. ASSUME turn'.pc = "retry"
        PROVE  (turn.t \in stopped \/ Complete(turn.t))'
    <3>1. CASE turn' = turn
      <4>1. turn.t \in stopped \/ Complete(turn.t)
        BY <2>2, <3>1 DEF Recovered
      <4>2. UNCHANGED <<attempt, history>>
        BY <2>2, <3>1, RowsMoves DEF RowsMove, Order
      <4> QED BY <2>0, <3>1, <4>1, <4>2 DEF Complete, Row
    <3>2. CASE Acquire
      <4>1. /\ queue # <<>> /\ turn.pc = "idle" /\ turn'.t = Head(queue).t
            /\ UNCHANGED <<attempt, history, stopped>>
        BY <3>2 DEF Acquire, AtPc, callVars
      <4>2. Head(queue) = queue[1] /\ 1 \in DOMAIN queue /\ Head(queue) \in Task
        BY <1>0, <4>1, HeadTask
      <4>3. Head(queue).kind = "retry"
        BY <2>2, <3>2, <4>2 DEF Acquire, Task
      <4>4. /\ up = "on" /\ batches = {} /\ turn'.t \in Turn /\ turn.t = 0
            /\ \A j \in DOMAIN queue : queue[j].kind # "recover"
        BY <4>1, <4>2, <4>3 DEF Shape, QueueShape, TurnShape, Task
      <4>5. turn'.t \in stopped \/ Complete(Head(queue).t)
        BY <4>1, <4>4 DEF Recovered, Recovering, Turn
      <4> QED BY <4>1, <4>5 DEF Complete, Row
    <3> QED BY <2>0, <2>2, <3>1, <3>2
  <2> QED BY <2>1, <2>2 DEF Recovered
<1> QED BY <1>1, <1>2, <1>3

(****************************************************************************)
(* Every pending message is in somebody's hands                             *)
(****************************************************************************)

\* A message that a waiting turn will read stays in hand when the holder leaves.
LEMMA HandsRelease ==
  ASSUME Shape, turn.pc \notin {"idle", "clear"}, Release,
         UNCHANGED <<arriving, timer, quiet>>,
         excused \subseteq excused', NEW m \in Inbound, InHands(m),
         m \in turn.pend /\ turn.pc \in {"list", "decide"} => m \in excused'
  PROVE  InHands(m)'
<1>0. queue \in Seq(Task) /\ queue # <<>> /\ queue' = Tail(queue) /\ turn' = Resting
  BY DEF Shape, TypeOK, Task, TurnShape, Release
<1>1. CASE m = arriving \/ timer \/ m \in quiet \/ m \in excused
  BY <1>1 DEF InHands
<1>2. CASE turn.pc \in {"list", "decide"} /\ m \in turn.pend
  BY <1>2 DEF InHands
<1>3. ASSUME NEW j \in DOMAIN queue, queue[j].kind \in {"new", "clear"}, j > 1
      PROVE  InHands(m)'
  <2>1. j - 1 \in DOMAIN queue' /\ queue'[j - 1] = queue[j]
    BY <1>0, <1>3, Released
  <2> QED BY <1>0, <1>3, <2>1 DEF InHands, Resting
<1>4. ASSUME NEW j \in DOMAIN queue, queue[j].kind = "clear"
      PROVE  j > 1
  <2>1. j # 1
    BY <1>0, <1>4, HeadTask DEF Shape, TurnShape
  <2> QED BY <1>0, <2>1
<1> QED BY <1>1, <1>2, <1>3, <1>4 DEF InHands

LEMMA ForgottenNext == Shape /\ NobodyForgotten /\ [Next]_vars => NobodyForgotten'
<1> SUFFICES ASSUME Shape, NobodyForgotten, [Next]_vars, up' = "on", NEW m \in Inbound,
                    owner'[m] = Waiting, m \notin cleared'
             PROVE  InHands(m)'
  BY DEF NobodyForgotten, Pending
<1>0. /\ queue \in Seq(Task)
      /\ turn \in [pc : {"idle", "list", "decide", "generate", "retry", "bubble", "open",
                         "deliver", "clear"},
                   t : {0} \cup Turn, pend : SUBSET Inbound, next : 1 .. MaxBubble + 1]
      /\ owner \in [Inbound -> {Absent, Waiting} \cup Turn]
      /\ turn.pc # "idle" => queue # <<>>
      /\ turn.pc = "decide" => turn.pend # {}
      /\ turn.pc \in {"idle", "list", "decide", "clear"} <=> turn.t = 0
  BY DEF Shape, TypeOK, TurnShape, Task
<1>1. ASSUME UNCHANGED <<arriving, timer, quiet, excused, turn, queue, owner, cleared, up>>
      PROVE  InHands(m)'
  BY <1>1 DEF NobodyForgotten, Pending, InHands
<1>2. ASSUME up = "on", owner' = owner, cleared' = cleared
      PROVE  InHands(m)
  BY <1>2 DEF NobodyForgotten, Pending
<1>3. CASE Acquire
  <2>1. /\ up = "on" /\ owner' = owner /\ turn.pc = "idle" /\ queue # <<>>
        /\ UNCHANGED <<cleared, arriving, timer, quiet, excused, queue>>
        /\ turn'.pend = Pending
    BY <1>3 DEF Acquire, AtPc, clearVars
  <2>2. CASE Head(queue).kind = "new"
    BY <1>3, <2>1, <2>2 DEF Acquire, InHands, Pending
  <2>3. CASE Head(queue).kind # "new"
    BY <1>0, <1>2, <2>1, <2>3, HeadTask DEF InHands
  <2> QED BY <2>2, <2>3
<1>4. CASE ListPending
  <2>1. /\ up = "on" /\ UNCHANGED <<owner, cleared, arriving, timer, quiet, excused>>
        /\ turn.pc = "list"
    BY <1>4 DEF ListPending, AtPc, clearVars
  <2>2. PICK late \in SUBSET (Pending \ turn.pend) :
          IF turn.pend \cup late = {}
          THEN Release
          ELSE /\ turn' = [turn EXCEPT !.pc = "decide", !.pend = @ \cup late]
               /\ UNCHANGED queue
    BY <1>4 DEF ListPending
  <2>3. CASE turn.pend \cup late = {}
    <3>1. /\ Release /\ m \notin turn.pend /\ InHands(m)
          /\ turn.pc # "idle" /\ excused \subseteq excused'
      BY <1>2, <2>1, <2>2, <2>3
    <3> QED BY <2>1, <3>1, HandsRelease
  <2>4. CASE turn.pend \cup late # {}
    <3>1. /\ turn' = [turn EXCEPT !.pc = "decide", !.pend = @ \cup late]
          /\ UNCHANGED queue
      BY <2>2, <2>4
    <3>2. turn'.pc = "decide" /\ turn.pend \subseteq turn'.pend
      BY <1>0, <3>1
    <3>3. \/ m = arriving \/ timer \/ m \in quiet \/ m \in excused \/ m \in turn.pend
          \/ \E j \in DOMAIN queue : queue[j].kind = "new" /\ j > 1
          \/ \E j \in DOMAIN queue : queue[j].kind = "clear"
      BY <1>2, <2>1 DEF InHands
    <3> QED BY <2>1, <3>1, <3>2, <3>3 DEF InHands
  <2> QED BY <2>3, <2>4
<1>5. ASSUME NEW choice \in {"reply", "silence"}, SaveTurn(choice)
      PROVE  InHands(m)'
  <2>1. /\ up = "on" /\ UNCHANGED <<cleared, arriving, timer, quiet, excused>>
        /\ turn.pc = "decide" /\ NextTurn \in Turn
        /\ owner' = [n \in Inbound |-> IF n \in turn.pend THEN NextTurn ELSE owner[n]]
    BY <1>5 DEF SaveTurn, AtPc, clearVars
  <2>2. m \notin turn.pend /\ owner[m] = Waiting
    BY <2>1, ReactiveAssumption
  <2>3. InHands(m)
    BY <2>1, <2>2 DEF NobodyForgotten, Pending
  <2>4. CASE choice = "reply"
    BY <1>0, <1>5, <2>1, <2>2, <2>3, <2>4 DEF SaveTurn, InHands
  <2>5. CASE choice # "reply"
    BY <1>5, <2>1, <2>2, <2>3, <2>5, HandsRelease DEF SaveTurn
  <2> QED BY <2>4, <2>5
<1>6. CASE TurnRaises \/ GenerateFails \/ AssemblyRaises \/ AllSent \/ Blocked \/ BubbleFailed \/ Stop
  <2>1. /\ up = "on" /\ UNCHANGED <<owner, cleared, arriving, timer, quiet>>
        /\ excused \subseteq excused'
        /\ Release /\ turn.pc \notin {"idle", "clear"}
        /\ turn.pc \in {"list", "decide"} => turn.pend \subseteq excused'
    BY <1>0, <1>6
       DEF TurnRaises, GenerateFails, AssemblyRaises, AllSent, Blocked, BubbleFailed, BatchEnds,
           Stop, AtPc, clearVars, Shape, TurnShape
  <2> QED BY <1>2, <2>1, HandsRelease
<1>7. CASE RetryStarts
  <2>1. /\ up = "on" /\ UNCHANGED <<owner, cleared, arriving, timer, quiet, excused>>
        /\ turn.pc = "retry"
    BY <1>7 DEF RetryStarts, AtPc, clearVars
  <2>2. CASE RetryRefused(turn.t)
    BY <1>2, <1>7, <2>1, <2>2, HandsRelease DEF RetryStarts
  <2>3. CASE ~RetryRefused(turn.t)
    BY <1>2, <1>7, <2>1, <2>3 DEF RetryStarts, InHands, Become
  <2> QED BY <2>2, <2>3
<1>8. CASE OpenBubble \/ DeliverBubble \/ NextBubble \/ DeliverStep \/ \E n \in Bubble : Generate(n)
  <2>1. /\ up = "on" /\ UNCHANGED <<owner, cleared, arriving, timer, quiet, excused, queue>>
        /\ turn.pc \notin {"idle", "list", "decide"}
    BY <1>8 DEF OpenBubble, DeliverBubble, NextBubble, DeliverStep, chainVars, clearVars,
           Generate, AtPc
  <2> QED BY <1>2, <2>1 DEF InHands
<1>9. CASE Fire
  <2>1. /\ queue' = Append(queue, NewTask) /\ turn' = turn /\ NewTask \in Task
        /\ NewTask.kind = "new"
    BY <1>9 DEF Fire, NewTask, Task
  <2>2. /\ Len(queue) + 1 \in DOMAIN queue' /\ queue'[Len(queue) + 1] = NewTask
        /\ Len(queue) \in Nat
    BY <1>0, <2>1, Added
  <2>3. Len(queue) + 1 > 1 \/ turn.pc = "idle"
    BY <1>0, <2>2
  <2> QED BY <2>1, <2>2, <2>3 DEF InHands
<1>10. ASSUME NEW k \in Task, queue' = Append(queue, k), up = "on",
              UNCHANGED <<owner, cleared, arriving, timer, quiet, excused, turn>>
       PROVE  InHands(m)'
  <2>1. \A j \in DOMAIN queue : j \in DOMAIN queue' /\ queue'[j] = queue[j]
    BY <1>0, <1>10, Added
  <2> QED BY <1>2, <1>10, <2>1 DEF InHands
<1>11. CASE \E t \in Turn : RetryReply(t)
  <2>1. PICK t \in Turn : RetryReply(t)
    BY <1>11
  <2>2. RetryTask(t) \in Task
    BY DEF RetryTask, Task
  <2> QED BY <1>10, <2>1, <2>2 DEF RetryReply, clearVars
<1>12. CASE StartTurns
  BY <1>12 DEF StartTurns, InHands, Pending, clearVars
<1>13. ASSUME NEW n \in Inbound, AppendInbound(n)
       PROVE  InHands(m)'
  <2>1. /\ up = "on" /\ arriving = NoInbound /\ arriving' = n
        /\ owner' = [owner EXCEPT ![n] = Waiting] /\ cleared \subseteq cleared'
        /\ UNCHANGED <<timer, queue, turn, quiet, excused>>
    BY <1>13 DEF AppendInbound, LifecycleFree
  <2>2. CASE m = n
    BY <2>1, <2>2 DEF InHands
  <2>3. CASE m # n
    <3>1. owner[m] = Waiting /\ m # arriving
      BY <1>0, <2>1, <2>3, ReactiveAssumption
    <3> QED BY <2>1, <3>1 DEF NobodyForgotten, Pending, InHands
  <2> QED BY <2>2, <2>3
<1>14. CASE IngestStep \/ ClearBegin \/ \E n \in Inbound : Repeat(n)
  <2>1. CASE ScheduleTurn \/ \E n \in Inbound : Repeat(n)
    BY <2>1 DEF ScheduleTurn, Repeat, InHands
  <2>2. CASE KeepQuiet \/ IngestRaises
    BY <1>2, <2>2 DEF KeepQuiet, IngestRaises, InHands, clearVars
  <2>3. CASE ClearBegin
    <3>1. ClearTask \in Task /\ ClearTask.kind = "clear" /\ queue' = Append(queue, ClearTask)
      BY <2>3 DEF ClearBegin, ClearTask, Task
    <3>2. Len(queue) + 1 \in DOMAIN queue' /\ queue'[Len(queue) + 1] = ClearTask
      BY <1>0, <3>1, Added
    <3> QED BY <3>1, <3>2 DEF InHands
  <2> QED BY <1>14, <2>1, <2>2, <2>3 DEF IngestStep
<1>17. CASE ClearStep
  <2>1. owner[m] = Waiting /\ Absent # Waiting
    BY <1>17, ReactiveAssumption DEF ClearStep, ClearMemory, ClearFails
  <2>2. ~ClearMemory
    BY <2>1 DEF ClearMemory
  <2> QED BY <1>17, <2>1, <2>2 DEF ClearStep, ClearFails, Pending, InHands, clearVars
<1>15. CASE (\E t \in Turn : FinishMemory(t)) \/ UNCHANGED vars
  BY <1>1, <1>15 DEF FinishMemory, vars, chainVars, clearVars
<1>16. ~Boot /\ ~Crash /\ ~StartServices /\ ~\E t \in Turn : RecoverBatch(t)
  BY DEF Boot, Crash, StartServices, RecoverBatch
<1> QED
  BY <1>3, <1>4, <1>5, <1>6, <1>7, <1>8, <1>9, <1>11, <1>12, <1>13, <1>14, <1>15, <1>16, <1>17
     DEF Next, TurnStep, StartStep

(****************************************************************************)
(* The theorems                                                             *)
(****************************************************************************)

LEMMA InitInv == Init => IInv
<1>1. Init => Recovered /\ NobodyForgotten
  BY DEF Init, Recovered, NobodyForgotten, Resting
<1> QED BY <1>1, ShapeInit, OrderInit, CallInitInv DEF Init, IInv

LEMMA NextInv == IInv /\ [Next]_vars => IInv'
<1> SUFFICES ASSUME IInv, [Next]_vars
             PROVE  IInv'
  OBVIOUS
<1>1. Shape /\ CallInv /\ Order /\ Recovered /\ NobodyForgotten /\ Delivering
  BY DEF IInv, Order
<1>2. CallInv'
  BY <1>1, CallsNext
<1>3. Shape'
  BY <1>1, <1>2, ShapeNext DEF CallInv
<1> QED BY <1>1, <1>2, <1>3, OrderNext, RecoveredNext, ForgottenNext DEF IInv

\* The inductive invariant holds in every state the chain reaches.
THEOREM Invariant == Spec => []IInv
  BY InitInv, NextInv, PTL DEF Spec

\* The lock's queue, its holder, the timer and the rows have their types.
THEOREM TypeCorrect == Spec => []TypeOK
<1>1. IInv => TypeOK
  BY DEF IInv, Shape
<1> QED BY <1>1, Invariant, PTL

\* The recipient never reads a bubble without the ones before it, through manual
\* retries, "/stop", crashes and recovery (_deliver_reactive_batch).
THEOREM BubblesInOrder == Spec => []BubbleOrder
<1>1. IInv => BubbleOrder
  <2> SUFFICES ASSUME IInv, NEW t \in Turn, NEW i \in Bubble, NEW j \in Bubble, i < j,
                      sends[<<t, j>>] > 0
               PROVE  <<t, i>> \in history
    BY DEF BubbleOrder
  <2> PICK m \in Message : m = <<t, j>>
    BY ReactiveAssumption
  <2>1. RowMeans(m) /\ Untried
    BY DEF IInv, CallInv, Order
  <2>2. attempt[m] \notin {"NONE", "BLOCKED"}
    BY <2>1 DEF RowMeans, Untried
  <2> QED BY <2>2 DEF IInv, Order, Chained, Row
<1> QED BY <1>1, Invariant, PTL

\* A retry that the console offers is not refused by the turn that serves it.
THEOREM OffersHonoured == Spec => []OfferHonoured
<1>1. IInv => OfferHonoured
  <2> SUFFICES ASSUME IInv, NEW t \in Turn, Retryable(t)
               PROVE  ~RetryRefused(t)
    BY DEF OfferHonoured
  <2>1. \E m \in Inbound : owner[m] = t
    BY DEF IInv, Order, Numbered, Owned, Decided, Retryable
  <2> QED BY <2>1 DEF Retryable, RetryRefused
<1> QED BY <1>1, Invariant, PTL

\* No stored message is left without a timer, a queued turn or a turn that reads it,
\* whatever bursts, cancelled timers and crashes there were.
THEOREM NoMessageForgotten == Spec => []NobodyForgotten
<1>1. IInv => NobodyForgotten
  BY DEF IInv
<1> QED BY <1>1, Invariant, PTL

\* After start-up, a turn that ended and was not stopped has neither a send without
\* an outcome nor a sent bubble that is missing from the history.
THEOREM TurnsFinishTheirWork == Spec => []NothingHalfDone
<1>1. IInv => NothingHalfDone
  <2> SUFFICES ASSUME IInv, up = "on", NEW t \in Turn, t \notin stopped, t # turn.t
               PROVE  Complete(t)
    BY DEF NothingHalfDone, Complete, Row
  <2>1. batches = {} /\ \A j \in DOMAIN queue : queue[j].kind # "recover"
    BY DEF IInv, Shape, QueueShape
  <2> QED BY <2>1 DEF IInv, Recovered, Recovering
<1> QED BY <1>1, Invariant, PTL

\* The reply batches, with retries, "/stop" and recovery, deliver as Delivery promises.
THEOREM Refinement == Spec => ImplementsDelivery
<1>1. Init => D!DInit
  BY CallInitRefines DEF Init
<1>2. IInv /\ [Next]_vars => [D!DNext]_(D!dvars)
  BY CallsNext DEF IInv, Order
<1> QED BY <1>1, <1>2, Invariant, PTL DEF Spec, ImplementsDelivery, D!DSpec
=================================================================================
