----------------------------- MODULE MemoryProofs -----------------------------
(****************************************************************************)
(* Memory, for any messages, contents, runs and tasks and any number of      *)
(* retries, calls, lifecycle operations and faults: nothing comes back from   *)
(* what was erased, and what was taken back never counts again.              *)
(*                                                                          *)
(* Three writers save rows that they read earlier: a task of an archive run,  *)
(* the console, and a profile run (which reads and writes in one             *)
(* transaction).  The invariant says why the first two may: what they hold    *)
(* names messages that are still recallable (Sound) and would revive no row   *)
(* that was taken back (Spared), because whoever erases or takes back is      *)
(* either kept out by the write lock, has cancelled the task before (Drained, *)
(* Epochs), or is noticed (era).                                             *)
(****************************************************************************)
EXTENDS Memory, TLAPS, WellFoundedInduction

RunState == {"none", "pending", "running", "completed", "failed", "stale", "gone"}
Row == [st: {"none", "active", "conflicted", "superseded", "retracted"},
        c: Content \cup {None}, src: SUBSET Msg, refs: SUBSET Content]
Pay == [c: Content \cup {None}, sup: Mem \cup {None}, ret: Mem \cup {None}]
Chg == [upd: SUBSET (Mem \X Row), add: SUBSET Row]
TaskRow == [pc: {"off", "wait", "ask", "answered", "save", "end"}, pay: Pay, chg: Chg,
            out: {"none", "completed", "failed", "stale"}]
RunRow == [st: RunState, ep: Nat, src: SUBSET Msg]
FactRow == [st: {"none", "active", "conflicted"}, src: SUBSET Msg]

\* A task that ends has an outcome, and a profile's answer has a content.
Fits(t, row) ==
  /\ row.pc = "end" => row.out # "none"
  /\ row.pc = "answered" /\ t[1] \in Profile => row.pay.c \in Content

Types ==
  /\ sess \in [live: BOOLEAN, epoch: Nat \ {0}]
  /\ msg \in [Msg -> {"new", "kept", "shut", "gone"}]
  /\ run \in [Job -> RunRow]
  /\ task \in [Task -> TaskRow] /\ \A t \in Task : Fits(t, task[t])
  /\ mem \in [Mem -> Row]
  /\ fact \in [Content -> FactRow]
  /\ con \in [pc: {"idle", "lock", "save"}, ep: Nat, era: Nat, pay: Pay, chg: Chg]
  /\ life \in [pc: {"idle", "advanced", "drained"}, op: {"none", "memory", "chat", "delete"}]
  /\ left \in [life: Nat, retries: Nat, calls: Nat, faults: Nat]
  /\ era \in Nat /\ late \in BOOLEAN

\* Who is about to save rows holds the write lock.
Locking ==
  /\ lock = <<"console">> <=> con.pc = "save"
  /\ \A t \in Task : lock = t <=> task[t].pc = "save"

\* A run that is in force belongs to the session that lives, and a lifecycle
\* operation is ahead of it from its first step on.
InForce(j) == run[j].st \notin {"none", "gone"}
Epochs ==
  /\ life.pc # "idle" => sess.live
  /\ \A j \in Job : InForce(j) =>
       /\ sess.live /\ run[j].ep <= sess.epoch
       /\ life.pc # "idle" => run[j].ep # sess.epoch

\* A run has sources, which were stored; those of an erased run are out of reach.
Sources ==
  /\ \A j \in Job : run[j].st # "none" => run[j].src # {} /\ \A m \in run[j].src : msg[m] # "new"
  /\ \A j \in Job : run[j].st = "gone" => \A m \in run[j].src : msg[m] # "kept"
  /\ \A t \in Task : task[t].pc # "off" => run[t[1]].st # "none"

\* Once the tasks were cancelled, none gets as far as the lock again before the
\* erasing.
Drained == life.pc = "drained" => \A t \in Task : task[t].pc # "save"

KeptOnly(chg) ==
  /\ \A u \in chg.upd : u[2].src \subseteq Kept
  /\ \A r \in chg.add : r.src \subseteq Kept

\* What is stored, and what is about to be, comes from recallable messages.
Sound ==
  /\ con.era <= era
  /\ ~late =>
       /\ \A i \in Mem : mem[i].src \subseteq Kept
       /\ \A c \in Content : fact[c].src \subseteq Kept
       /\ \A t \in Task : task[t].pc = "save" => KeptOnly(task[t].chg)
       /\ con.pc = "save" /\ con.era = era => KeptOnly(con.chg)

\* What is about to be stored revives no row that was taken back.
Spares(chg) ==
  \A u \in chg.upd : Open(u[2].st) => mem[u[1]].st \notin {"retracted", "superseded"}
Spared ==
  /\ \A t \in Task : task[t].pc = "save" => Spares(task[t].chg)
  /\ con.pc = "save" => Spares(con.chg)

IInv == Types /\ Locking /\ Epochs /\ Sources /\ Drained /\ Sound /\ Spared /\ NoOrphans

-------------------------------------------------------------------------------
(* The rows: what is staged, and what a write does                           *)

LEMMA TaskPairs ==
  /\ \A t \in Task : t[1] \in Job /\ t[2] \in Slot /\ t = <<t[1], t[2]>>
  /\ \A j \in Job, k \in Slot : <<j, k>> \in Task
  /\ \A t \in Task : t # <<>> /\ t # <<"console">>
BY DEF Task

LEMMA EquivalentRows ==
  ASSUME NEW c, NEW eq \in Equivalent(c)
  PROVE  eq \subseteq Mem /\ \A i \in eq : mem[i].st = "active"
<1>1. eq = {} \/ \E i \in ActiveOf(c) : eq = {i}
  BY DEF Equivalent
<1> QED BY <1>1 DEF ActiveOf

LEMMA StagedTyped ==
  ASSUME mem \in [Mem -> Row], NEW pay \in Pay, NEW src \in SUBSET Msg,
         NEW eq \in Equivalent(pay.c)
  PROVE  Staged(pay, src, eq) \in Chg
<1>1. \A row \in Row, st \in {"active", "superseded", "retracted"}, s \in SUBSET Msg :
        With(row, st, s, {}) \in Row
  BY DEF With, Row
<1>2. (IF pay.sup = None THEN {} ELSE {<<pay.sup, With(mem[pay.sup], "superseded", {}, {})>>})
        \in SUBSET (Mem \X Row)
  BY <1>1 DEF Pay
<1>3. (IF pay.ret = None THEN {} ELSE {<<pay.ret, With(mem[pay.ret], "retracted", {}, {})>>})
        \in SUBSET (Mem \X Row)
  BY <1>1 DEF Pay
<1>4. {<<i, With(mem[i], "active", src, {})>> : i \in eq} \in SUBSET (Mem \X Row)
  BY <1>1, EquivalentRows
<1>5. (IF pay.c = None \/ eq # {} THEN {}
       ELSE {[st |-> "active", c |-> pay.c, src |-> src, refs |-> {}]}) \in SUBSET Row
  BY DEF Pay, Row
<1> QED BY <1>2, <1>3, <1>4, <1>5 DEF Staged, Chg

\* What is staged from rows and sources that are recallable names no others.
LEMMA StagedKept ==
  ASSUME mem \in [Mem -> Row], NEW pay \in Pay, NEW src \in SUBSET Msg,
         NEW eq \in Equivalent(pay.c),
         src \subseteq Kept, \A i \in Mem : mem[i].src \subseteq Kept
  PROVE  KeptOnly(Staged(pay, src, eq))
<1>1. ASSUME NEW i \in Mem, NEW st, NEW s, s \subseteq Kept
      PROVE  With(mem[i], st, s, {}).src \subseteq Kept
  BY <1>1 DEF With
<1>2. ASSUME NEW u \in Staged(pay, src, eq).upd PROVE u[2].src \subseteq Kept
  BY <1>1, <1>2, EquivalentRows DEF Staged, Pay
<1>3. ASSUME NEW r \in Staged(pay, src, eq).add PROVE r.src \subseteq Kept
  BY <1>3 DEF Staged
<1> QED BY <1>2, <1>3 DEF KeptOnly

\* Only a row that is active is staged to stay active.
LEMMA StagedSpares ==
  ASSUME mem \in [Mem -> Row], NEW pay \in Pay, NEW src, NEW eq \in Equivalent(pay.c)
  PROVE  Spares(Staged(pay, src, eq))
<1> SUFFICES ASSUME NEW u \in Staged(pay, src, eq).upd, Open(u[2].st)
             PROVE  mem[u[1]].st = "active"
  BY DEF Spares
<1>1. u[2].st = "active"
  BY DEF Staged, With, Open
<1> QED BY <1>1, EquivalentRows DEF Staged, With

\* A new row gets an id that is free.
LEMMA FreeRow ==
  ASSUME MemoryAssumption, \E i \in Mem : mem[i].st = "none"
  PROVE  FreeId \in Mem /\ mem[FreeId].st = "none"
<1> DEFINE Free == {i \in Mem : mem[i].st = "none"}
<1>1. Free \in SUBSET Nat /\ Free # {}
  BY DEF MemoryAssumption
<1>2. PICK i \in Free : \A k \in Free : ~(<<k, i>> \in OpToRel(<, Nat))
  BY <1>1, NatLessThanWellFounded, WFMin
<1>3. \A k \in Mem : k < i => mem[k].st # "none"
  BY <1>1, <1>2 DEF OpToRel, MemoryAssumption
<1>4. \E x \in Mem : mem[x].st = "none" /\ \A k \in Mem : k < x => mem[k].st # "none"
  BY <1>2, <1>3
<1> QED BY <1>4 DEF FreeId

\* What a write does to a row: nothing, what the change says, or a free row
\* becomes one that the change adds.
LEMMA Writing ==
  ASSUME MemoryAssumption, mem \in [Mem -> Row], NEW chg \in Chg, Write(chg)
  PROVE  /\ mem' \in [Mem -> Row]
         /\ \A i \in Mem : \/ mem'[i] = mem[i]
                           \/ \E u \in chg.upd : u[1] = i /\ mem'[i] = u[2]
                           \/ mem[i].st = "none" /\ mem'[i] \in chg.add
<1>1. mem' = [i \in Mem |->
        IF \E u \in chg.upd : u[1] = i THEN (CHOOSE u \in chg.upd : u[1] = i)[2]
        ELSE IF chg.add # {} /\ i = FreeId THEN CHOOSE r \in chg.add : TRUE
        ELSE mem[i]]
  BY DEF Write
<1>2. ASSUME NEW i \in Mem
      PROVE  \/ mem'[i] = mem[i]
             \/ \E u \in chg.upd : u[1] = i /\ mem'[i] = u[2]
             \/ mem[i].st = "none" /\ mem'[i] \in chg.add
  <2>1. CASE \E u \in chg.upd : u[1] = i
    <3>1. (CHOOSE u \in chg.upd : u[1] = i) \in chg.upd /\ (CHOOSE u \in chg.upd : u[1] = i)[1] = i
      BY <2>1
    <3>2. mem'[i] = (CHOOSE u \in chg.upd : u[1] = i)[2]
      BY <1>1, <2>1
    <3> QED BY <3>1, <3>2
  <2>2. CASE ~(\E u \in chg.upd : u[1] = i) /\ chg.add # {} /\ i = FreeId
    <3>1. mem[i].st = "none"
      BY <2>2, FreeRow DEF Write
    <3>2. mem'[i] = CHOOSE r \in chg.add : TRUE
      BY <1>1, <2>2
    <3> QED BY <2>2, <3>1, <3>2
  <2>3. CASE ~(\E u \in chg.upd : u[1] = i) /\ ~(chg.add # {} /\ i = FreeId)
    BY <1>1, <2>3
  <2> QED BY <2>1, <2>2, <2>3
<1>3. \A i \in Mem : mem'[i] \in Row
  BY <1>2 DEF Chg
<1> QED BY <1>1, <1>2, <1>3

\* What a profile run stores: each row stays, goes into conflict, or is active
\* and was active or free; and it names the sources of the fact and its own.
LEMMA ProfileWriting ==
  ASSUME MemoryAssumption, Types, NEW c \in Content, NEW src \in SUBSET Msg, ProfileMemory(c, src)
  PROVE  /\ mem' \in [Mem -> Row]
         /\ \A i \in Mem :
              \/ mem'[i] = mem[i]
              \/ Open(mem[i].st) /\ mem'[i].st = "conflicted" /\ mem'[i].src = mem[i].src
              \/ /\ mem[i].st \in {"active", "none"} /\ mem'[i].st = "active"
                 /\ mem'[i].src \subseteq mem[i].src \cup fact[c].src \cup src
<1>1. mem \in [Mem -> Row] /\ fact[c].src \in SUBSET Msg
  BY DEF Types, FactRow
<1>2. CASE Clash(c)
  <2> DEFINE bad == {d \in Content : ProfileFacts(c, src)[d].st = "conflicted"}
  <2>1. mem' = [i \in Mem |-> IF Open(mem[i].st) /\ mem[i].refs \cap bad # {}
                             THEN With(mem[i], "conflicted", {}, {}) ELSE mem[i]]
    BY <1>2 DEF ProfileMemory
  <2>2. \A i \in Mem : With(mem[i], "conflicted", {}, {}) \in Row
    BY <1>1 DEF With, Row
  <2>3. \A i \in Mem : /\ With(mem[i], "conflicted", {}, {}).st = "conflicted"
                       /\ With(mem[i], "conflicted", {}, {}).src = mem[i].src
    BY <1>1 DEF With, Row
  <2> HIDE DEF bad
  <2> QED BY <1>1, <2>1, <2>2, <2>3
<1>3. CASE ~Clash(c)
  <2> DEFINE all == fact[c].src \cup src
             chg == [upd |-> {<<i, With(mem[i], "active", all, {c})>> : i \in ActiveOf(c)},
                     add |-> IF ActiveOf(c) # {} THEN {}
                             ELSE {[st |-> "active", c |-> c, src |-> all, refs |-> {c}]}]
  <2>1. Write(chg)
    BY <1>3 DEF ProfileMemory
  <2>2. chg \in Chg
    <3>1. \A i \in Mem : With(mem[i], "active", all, {c}) \in Row
      BY <1>1 DEF With, Row
    <3>2. [st |-> "active", c |-> c, src |-> all, refs |-> {c}] \in Row
      <4>1. \A s \in SUBSET Msg, r \in SUBSET Content :
              [st |-> "active", c |-> c, src |-> s, refs |-> r] \in Row
        BY DEF Row
      <4>2. all \in SUBSET Msg /\ {c} \in SUBSET Content
        BY <1>1
      <4> QED BY <4>1, <4>2
    <3>3. {<<i, With(mem[i], "active", all, {c})>> : i \in ActiveOf(c)} \in SUBSET (Mem \X Row)
      <4> DEFINE new(i) == With(mem[i], "active", all, {c})
      <4>1. ActiveOf(c) \subseteq Mem /\ \A i \in Mem : new(i) \in Row
        BY <3>1 DEF ActiveOf
      <4> HIDE DEF new, all
      <4>2. ASSUME NEW u \in {<<i, new(i)>> : i \in ActiveOf(c)} PROVE u \in Mem \X Row
        <5>1. PICK i \in ActiveOf(c) : u = <<i, new(i)>>
          BY <4>2
        <5> QED BY <4>1, <5>1
      <4> QED BY <4>2 DEF new
    <3>4. (IF ActiveOf(c) # {} THEN {} ELSE {[st |-> "active", c |-> c, src |-> all, refs |-> {c}]})
            \in SUBSET Row
      BY <3>2
    <3> QED BY <3>3, <3>4 DEF Chg
  <2>3. \A u \in chg.upd : /\ mem[u[1]].st = "active" /\ u[2].st = "active"
                           /\ u[2].src = mem[u[1]].src \cup all
    BY DEF ActiveOf, With
  <2>4. \A r \in chg.add : r.st = "active" /\ r.src = all
    OBVIOUS
  <2> HIDE DEF chg
  <2> QED BY <1>1, <2>1, <2>2, <2>3, <2>4, Writing
<1> QED BY <1>2, <1>3

LEMMA FactsTyped ==
  ASSUME Types, NEW c \in Content, NEW src \in SUBSET Msg
  PROVE  /\ ProfileFacts(c, src) \in [Content -> FactRow]
         /\ \A d \in Content : ProfileFacts(c, src)[d].src \subseteq fact[d].src \cup src
BY DEF Types, ProfileFacts, FactRow

-------------------------------------------------------------------------------
(* What a step does to runs and to tasks                                     *)

Erasing == ClearMemory \/ ClearChat \/ DeleteSession
Calls == \E pay \in Pay : Call(pay)

LEMMA Actions ==
  ASSUME MemoryAssumption, Types, Next
  PROVE  \/ \E m \in Msg : Receive(m)
         \/ \E j \in Job, src \in SUBSET Msg : Enqueue(j, src)
         \/ \E j \in Job, k \in Slot : Start(j, k) \/ Retry(j, k)
         \/ \E t \in Task : \/ Begin(t) \/ Ask(t) \/ AskFails(t)
                            \/ Stage(t) \/ Save(t) \/ Commit(t) \/ End(t)
         \/ Calls \/ ConStage \/ ConSave
         \/ \E op \in {"memory", "chat", "delete"} : LifeBegin(op)
         \/ CancelTasks \/ Erasing \/ LifeFails \/ CreateSession \/ Restart
<1>1. \A c \in Content : Remember(c) => Calls
  BY DEF Remember, Calls, Pay
<1>2. \A i \in Mem : Forget(i) => Calls
  BY DEF Forget, Calls, Pay
<1>3. \A i \in Mem, c \in Content : Correct(i, c) => Calls
  BY DEF Correct, Calls, Pay
<1> QED BY <1>1, <1>2, <1>3 DEF Next, Step, Erasing

\* The books of the runs: a saved status changes neither the frozen epoch nor the
\* sources, and brings no run into being or back.
RunsKept ==
  \A j \in Job : /\ run'[j].ep = run[j].ep /\ run'[j].src = run[j].src
                 /\ run'[j].st = "none" <=> run[j].st = "none"
                 /\ run'[j].st = "gone" <=> run[j].st = "gone"

LEMMA SavingRun ==
  ASSUME Types, NEW j \in Job, NEW st \in RunState \ {"none", "gone"}, SaveRun(j, st)
  PROVE  run' \in [Job -> RunRow] /\ RunsKept
<1>1. run \in [Job -> RunRow]
  BY DEF Types
<1>2. CASE CanSave(j)
  <2>1. run' = [run EXCEPT ![j] = [st |-> st, ep |-> @.ep, src |-> @.src]]
    BY <1>2 DEF SaveRun
  <2> QED BY <1>1, <1>2, <2>1 DEF RunsKept, CanSave, RunRow, RunState
<1>3. CASE ~CanSave(j)
  BY <1>1, <1>3 DEF SaveRun, RunsKept
<1> QED BY <1>2, <1>3

LEMMA RunSteps ==
  ASSUME MemoryAssumption, Types, Next
  PROVE  /\ run' \in [Job -> RunRow]
         /\ \/ RunsKept
            \/ \E j \in Job, src \in SUBSET Msg : Enqueue(j, src)
            \/ Erasing /\ run' = Erased
<1>1. run \in [Job -> RunRow]
  BY DEF Types
<1>2. UNCHANGED run => run' \in [Job -> RunRow] /\ RunsKept
  BY <1>1 DEF RunsKept
<1>3. ASSUME NEW j \in Job, NEW src \in SUBSET Msg, Enqueue(j, src)
      PROVE  run' \in [Job -> RunRow]
  BY <1>1, <1>3 DEF Enqueue, RunRow, RunState, Types
<1>4. ASSUME NEW j \in Job, NEW k \in Slot, Start(j, k) \/ Retry(j, k)
      PROVE  run' \in [Job -> RunRow] /\ RunsKept
  BY <1>2, <1>4, SavingRun DEF Start, Retry, RunState
<1>5. ASSUME NEW t \in Task, Begin(t) PROVE run' \in [Job -> RunRow] /\ RunsKept
  BY <1>2, <1>5, SavingRun, TaskPairs DEF Begin, RunState
<1>6. ASSUME NEW t \in Task, End(t) PROVE run' \in [Job -> RunRow] /\ RunsKept
  <2>1. task[t].out \in RunState \ {"none", "gone"}
    BY <1>6 DEF End, Types, TaskRow, RunState, Fits
  <2> QED BY <1>6, <2>1, SavingRun, TaskPairs DEF End
<1>7. ASSUME NEW t \in Task, Commit(t) PROVE run' \in [Job -> RunRow] /\ RunsKept
  BY <1>2, <1>7, SavingRun, TaskPairs DEF Commit, RunState
<1>8. CASE Restart
  <2>1. run' = [j \in Job |-> IF TakenUp(j) /\ CanSave(j) THEN [run[j] EXCEPT !.st = "pending"]
                              ELSE run[j]]
    BY <1>8 DEF Restart
  <2> QED BY <1>1, <2>1 DEF RunsKept, CanSave, RunRow, RunState
<1>9. CASE Erasing
  <2>1. run' = Erased
    BY <1>9 DEF Erasing, ClearMemory, ClearChat, DeleteSession
  <2>2. Erased \in [Job -> RunRow]
    BY <1>1 DEF Erased, RunRow, RunState
  <2> QED BY <1>9, <2>1, <2>2
<1>10. ASSUME NEW t \in Task, Ask(t) \/ AskFails(t) \/ Stage(t) \/ Save(t) PROVE UNCHANGED run
  BY <1>10 DEF Ask, AskFails, Stage, Save
<1>11. ASSUME \/ \E m \in Msg : Receive(m)
              \/ Calls \/ ConStage \/ ConSave
              \/ \E op \in {"memory", "chat", "delete"} : LifeBegin(op)
              \/ CancelTasks \/ LifeFails \/ CreateSession
       PROVE  UNCHANGED run
  BY <1>11 DEF Receive, Calls, Call, ConStage, ConSave, LifeBegin, CancelTasks, LifeFails,
               CreateSession
<1> QED BY <1>2, <1>3, <1>4, <1>5, <1>6, <1>7, <1>8, <1>9, <1>10, <1>11, Actions

LEMMA AnswersTyped ==
  ASSUME NEW j \in Job
  PROVE  \A p \in Answers(j) : p \in Pay /\ (j \in Profile => p.c \in Content)
BY DEF Answers, Pay

LEMMA OffTyped ==
  /\ Off \in TaskRow /\ [Off EXCEPT !.pc = "wait"] \in TaskRow
  /\ NoPay \in Pay /\ NoChg \in Chg
BY DEF Off, NoPay, NoChg, TaskRow, Pay, Chg

\* The row that a step gives a task.
Waits(t) == task' = [task EXCEPT ![t] = [Off EXCEPT !.pc = "wait"]]

LEMMA TaskTyped ==
  ASSUME MemoryAssumption, Types, Next
  PROVE  task' \in [Task -> TaskRow] /\ \A t \in Task : Fits(t, task'[t])
<1>1. task \in [Task -> TaskRow] /\ \A t \in Task : Fits(t, task[t])
  BY DEF Types
<1> DEFINE Goal == task' \in [Task -> TaskRow] /\ \A t \in Task : Fits(t, task'[t])
<1> SUFFICES Goal
  OBVIOUS
<1>2. UNCHANGED task => Goal
  BY <1>1
<1>3. ASSUME NEW t \in Task, NEW row \in TaskRow, Fits(t, row),
             task' = [task EXCEPT ![t] = row]
      PROVE  Goal
  BY <1>1, <1>3
<1>4. ASSUME NEW t \in Task, NEW out \in {"completed", "failed", "stale"}, Leave(t, out) PROVE Goal
  <2>1. [pc |-> "end", pay |-> NoPay, chg |-> NoChg, out |-> out] \in TaskRow
    BY OffTyped DEF TaskRow
  <2>2. task' = [task EXCEPT ![t] = [pc |-> "end", pay |-> NoPay, chg |-> NoChg, out |-> out]]
    BY <1>4 DEF Leave
  <2> QED BY <1>3, <2>1, <2>2 DEF Fits
<1>5. \A t : Fits(t, Off) /\ Fits(t, [Off EXCEPT !.pc = "wait"])
  BY DEF Off, Fits
<1>6. ASSUME NEW t \in Task, Waits(t) \/ task' = [task EXCEPT ![t] = Off] PROVE Goal
  BY <1>3, <1>5, <1>6, OffTyped DEF Waits
<1> HIDE DEF Goal
<1>7. ASSUME NEW j \in Job, NEW src \in SUBSET Msg, Enqueue(j, src) PROVE Goal
  <2>1. UNCHANGED task \/ \E k \in Slot : Waits(<<j, k>>)
    BY <1>7 DEF Enqueue, Waits
  <2> QED BY <1>2, <1>6, <2>1, TaskPairs
<1>8. ASSUME NEW j \in Job, NEW k \in Slot, Start(j, k) \/ Retry(j, k) PROVE Goal
  <2>1. Waits(<<j, k>>)
    BY <1>8 DEF Start, Retry, Waits
  <2> QED BY <1>6, <2>1, TaskPairs
<1>9. ASSUME NEW t \in Task, Begin(t) PROVE Goal
  <2>1. CASE task' = [task EXCEPT ![t] = Off]
    BY <1>6, <2>1
  <2>2. CASE Goto(t, "ask")
    <3>1. [pc |-> "ask", pay |-> task[t].pay, chg |-> task[t].chg, out |-> task[t].out] \in TaskRow
      BY <1>1 DEF TaskRow
    <3>2. task' = [task EXCEPT ![t] = [pc |-> "ask", pay |-> task[t].pay, chg |-> task[t].chg,
                                       out |-> task[t].out]]
      BY <1>1, <2>2 DEF Goto
    <3> QED BY <1>3, <3>1, <3>2 DEF Fits
  <2> QED BY <1>9, <2>1, <2>2 DEF Begin
<1>10. ASSUME NEW t \in Task, Ask(t) PROVE Goal
  <2>1. CASE Verdict(t[1]) # "ok" /\ Leave(t, Verdict(t[1]))
    BY <1>4, <2>1 DEF Verdict
  <2>2. CASE \E p \in Answers(t[1]) :
               task' = [task EXCEPT ![t] = [pc |-> "answered", pay |-> p, chg |-> NoChg, out |-> "none"]]
    <3>1. PICK p \in Answers(t[1]) :
            task' = [task EXCEPT ![t] = [pc |-> "answered", pay |-> p, chg |-> NoChg, out |-> "none"]]
      BY <2>2
    <3>2. p \in Pay /\ (t[1] \in Profile => p.c \in Content)
      BY AnswersTyped, TaskPairs
    <3>3. [pc |-> "answered", pay |-> p, chg |-> NoChg, out |-> "none"] \in TaskRow
      BY <3>2, OffTyped DEF TaskRow
    <3> QED BY <1>3, <3>1, <3>2, <3>3 DEF Fits
  <2> QED BY <1>10, <2>1, <2>2 DEF Ask
<1>11. ASSUME NEW t \in Task, Stage(t) PROVE Goal
  <2>1. CASE \E out \in {"failed", "stale"} : Leave(t, out)
    BY <1>4, <2>1
  <2>2. CASE \E eq \in Equivalent(task[t].pay.c) : task' = [task EXCEPT ![t] =
               [pc |-> "save", pay |-> NoPay, chg |-> Staged(task[t].pay, run[t[1]].src, eq),
                out |-> "none"]]
    <3>1. PICK eq \in Equivalent(task[t].pay.c) : task' = [task EXCEPT ![t] =
            [pc |-> "save", pay |-> NoPay, chg |-> Staged(task[t].pay, run[t[1]].src, eq),
             out |-> "none"]]
      BY <2>2
    <3>2. Staged(task[t].pay, run[t[1]].src, eq) \in Chg
      BY <1>1, StagedTyped, TaskPairs DEF Types, TaskRow, RunRow
    <3>3. [pc |-> "save", pay |-> NoPay, chg |-> Staged(task[t].pay, run[t[1]].src, eq),
           out |-> "none"] \in TaskRow
      BY <3>2, OffTyped DEF TaskRow
    <3> QED BY <1>3, <3>1, <3>3 DEF Fits
  <2> QED BY <1>11, <2>1, <2>2 DEF Stage
<1>12. ASSUME NEW t \in Task, Save(t) \/ Commit(t) \/ AskFails(t) PROVE Goal
  <2>1. \E out \in {"completed", "failed", "stale"} : Leave(t, out)
    BY <1>12 DEF Save, Commit, AskFails
  <2> QED BY <1>4, <2>1
<1>13. ASSUME NEW t \in Task, End(t) PROVE Goal
  BY <1>6, <1>13 DEF End
<1>14. CASE CancelTasks
  BY <1>5, <1>14, OffTyped DEF CancelTasks, Goal
<1>15. CASE Restart
  <2>1. PICK k \in Slot : task' = [t \in Task |->
          IF t[2] = k /\ TakenUp(t[1]) THEN [Off EXCEPT !.pc = "wait"] ELSE Off]
    BY <1>15 DEF Restart
  <2> QED BY <1>5, <2>1, OffTyped DEF Goal
<1>16. ASSUME \/ \E m \in Msg : Receive(m)
              \/ Calls \/ ConStage \/ ConSave \/ Erasing
              \/ \E op \in {"memory", "chat", "delete"} : LifeBegin(op)
              \/ LifeFails \/ CreateSession
       PROVE  UNCHANGED task
  BY <1>16 DEF Receive, Calls, Call, ConStage, ConSave, LifeBegin, Erasing, ClearMemory, ClearChat,
               DeleteSession, LifeFails, CreateSession
<1> QED BY <1>2, <1>7, <1>8, <1>9, <1>10, <1>11, <1>12, <1>13, <1>14, <1>15, <1>16, Actions

-------------------------------------------------------------------------------
(* The invariant, conjunct by conjunct                                       *)

LEMMA RowsTyped ==
  ASSUME MemoryAssumption, Types, Next
  PROVE  mem' \in [Mem -> Row] /\ fact' \in [Content -> FactRow]
<1>1. mem \in [Mem -> Row] /\ fact \in [Content -> FactRow]
  BY DEF Types
<1>2. ASSUME NEW t \in Task, Save(t) PROVE mem' \in [Mem -> Row] /\ UNCHANGED fact
  <2>1. task[t].chg \in Chg
    BY DEF Types, TaskRow
  <2> QED BY <1>1, <1>2, <2>1, Writing DEF Save
<1>3. ASSUME NEW t \in Task, Commit(t) PROVE mem' \in [Mem -> Row] /\ fact' \in [Content -> FactRow]
  <2>1. CASE UNCHANGED <<mem, fact>>
    BY <1>1, <2>1
  <2>2. CASE /\ fact' = ProfileFacts(task[t].pay.c, run[t[1]].src)
             /\ ProfileMemory(task[t].pay.c, run[t[1]].src)
             /\ t[1] \in Profile /\ task[t].pc = "answered"
    <3>1. run[t[1]].src \in SUBSET Msg /\ task[t].pay.c \in Content
      BY <2>2, TaskPairs DEF Types, RunRow, Fits
    <3> QED BY <2>2, <3>1, ProfileWriting, FactsTyped
  <2> QED BY <1>3, <2>1, <2>2 DEF Commit
<1>4. CASE ConSave
  <2>1. con.chg \in Chg
    BY DEF Types
  <2> QED BY <1>1, <1>4, <2>1, Writing DEF ConSave
<1>5. CASE Erasing
  <2>1. NoRow \in Row /\ NoFact \in FactRow
    BY DEF NoRow, NoFact, Row, FactRow
  <2>2. CASE ClearChat
    <3>1. \A i \in Mem : [mem[i] EXCEPT !.src = {}, !.refs = {}] \in Row
      BY <1>1 DEF Row
    <3>2. \A c \in Content : [fact[c] EXCEPT !.src = {}] \in FactRow
      BY <1>1 DEF FactRow
    <3> QED BY <2>2, <3>1, <3>2 DEF ClearChat
  <2> QED BY <1>5, <2>1, <2>2 DEF Erasing, ClearMemory, DeleteSession
<1>6. ASSUME \/ \E m \in Msg : Receive(m)
             \/ \E j \in Job, src \in SUBSET Msg : Enqueue(j, src)
             \/ \E j \in Job, k \in Slot : Start(j, k) \/ Retry(j, k)
             \/ \E t \in Task : Begin(t) \/ Ask(t) \/ AskFails(t) \/ Stage(t) \/ End(t)
             \/ Calls \/ ConStage
             \/ \E op \in {"memory", "chat", "delete"} : LifeBegin(op)
             \/ CancelTasks \/ LifeFails \/ CreateSession \/ Restart
      PROVE  UNCHANGED <<mem, fact>>
  BY <1>6 DEF Receive, Enqueue, Start, Retry, Begin, Ask, AskFails, Stage, End, Calls, Call, ConStage,
              LifeBegin, CancelTasks, LifeFails, CreateSession, Restart
<1> QED BY <1>1, <1>2, <1>3, <1>4, <1>5, <1>6, Actions

ConRow == [pc: {"idle", "lock", "save"}, ep: Nat, era: Nat, pay: Pay, chg: Chg]
LeftRow == [life: Nat, retries: Nat, calls: Nat, faults: Nat]

SessRow == [live: BOOLEAN, epoch: Nat \ {0}]
LifeRow == [pc: {"idle", "advanced", "drained"}, op: {"none", "memory", "chat", "delete"}]

LEMMA SessTyped ==
  ASSUME MemoryAssumption, Types, Next
  PROVE  /\ sess' \in SessRow
         /\ msg' \in [Msg -> {"new", "kept", "shut", "gone"}]
         /\ life' \in LifeRow
<1>0. /\ sess \in SessRow /\ life \in LifeRow
      /\ msg \in [Msg -> {"new", "kept", "shut", "gone"}]
  BY DEF Types, SessRow, LifeRow
<1> USE <1>0 DEF SessRow, LifeRow
<1>1. CASE \E m \in Msg : Receive(m)
  BY <1>1 DEF Receive
<1>2. CASE \E op \in {"memory", "chat", "delete"} : LifeBegin(op)
  BY <1>2 DEF LifeBegin
<1>3. CASE Erasing
  <2>1. [pc |-> "idle", op |-> "none"] \in LifeRow /\ [sess EXCEPT !.live = FALSE] \in SessRow
    OBVIOUS
  <2>2. msg' \in [Msg -> {"new", "kept", "shut", "gone"}]
    BY <1>3 DEF Erasing, ClearMemory, ClearChat, DeleteSession
  <2> QED BY <1>3, <2>1, <2>2 DEF Erasing, ClearMemory, ClearChat, DeleteSession
<1>4. CASE CancelTasks
  BY <1>4 DEF CancelTasks
<1>6. CASE LifeFails \/ CreateSession \/ Restart
  <2>1. [pc |-> "idle", op |-> "none"] \in LifeRow /\ [live |-> TRUE, epoch |-> 1] \in SessRow
    OBVIOUS
  <2>2. UNCHANGED msg /\ (UNCHANGED sess \/ sess' = [live |-> TRUE, epoch |-> 1])
    BY <1>6 DEF LifeFails, CreateSession, Restart
  <2>3. UNCHANGED life \/ life' = [pc |-> "idle", op |-> "none"]
    BY <1>6 DEF LifeFails, CreateSession, Restart
  <2> QED BY <2>1, <2>2, <2>3
<1>5. ASSUME \/ \E j \in Job, src \in SUBSET Msg : Enqueue(j, src)
             \/ \E j \in Job, k \in Slot : Start(j, k) \/ Retry(j, k)
             \/ \E t \in Task : \/ Begin(t) \/ Ask(t) \/ AskFails(t)
                                \/ Stage(t) \/ Save(t) \/ Commit(t) \/ End(t)
             \/ Calls \/ ConStage \/ ConSave
      PROVE  UNCHANGED <<sess, msg, life>>
  BY <1>5 DEF Enqueue, Start, Retry, Begin, Ask, AskFails, Stage, Save, Commit, End, Calls, Call, ConStage,
              ConSave
<1> QED BY <1>1, <1>2, <1>3, <1>4, <1>5, <1>6, Actions

LEMMA ConTyped ==
  ASSUME MemoryAssumption, Types, Next
  PROVE  con' \in ConRow
<1> USE DEF ConRow
<1>1. con \in ConRow /\ Idle \in ConRow
  BY OffTyped DEF Types, Idle
<1>2. CASE Calls
  BY <1>2, OffTyped DEF Calls, Call, Types
<1>3. CASE ConStage
  <2>1. \A eq \in Equivalent(con.pay.c) : Staged(con.pay, {}, eq) \in Chg
    BY StagedTyped DEF Types
  <2>2. era \in Nat
    BY DEF Types
  <2> QED BY <1>1, <1>3, <2>1, <2>2, OffTyped DEF ConStage
<1>4. CASE ConSave \/ Restart
  BY <1>1, <1>4 DEF ConSave, Restart
<1>5. ASSUME \/ \E m \in Msg : Receive(m)
             \/ \E j \in Job, src \in SUBSET Msg : Enqueue(j, src)
             \/ \E j \in Job, k \in Slot : Start(j, k) \/ Retry(j, k)
             \/ \E t \in Task : \/ Begin(t) \/ Ask(t) \/ AskFails(t)
                                \/ Stage(t) \/ Save(t) \/ Commit(t) \/ End(t)
             \/ \E op \in {"memory", "chat", "delete"} : LifeBegin(op)
             \/ CancelTasks \/ Erasing \/ LifeFails \/ CreateSession
      PROVE  UNCHANGED con
  BY <1>5 DEF Receive, Enqueue, Start, Retry, Begin, Ask, AskFails, Stage, Save, Commit, End, LifeBegin,
              CancelTasks, Erasing, ClearMemory, ClearChat, DeleteSession, LifeFails, CreateSession
<1> QED BY <1>1, <1>2, <1>3, <1>4, <1>5, Actions

LEMMA LeftTyped ==
  ASSUME MemoryAssumption, Types, Next
  PROVE  left' \in LeftRow /\ era' \in Nat /\ late' \in BOOLEAN
<1>1. left \in LeftRow /\ era \in Nat /\ late \in BOOLEAN
  BY DEF Types, LeftRow
<1>2. ASSUME NEW k \in {"life", "retries", "calls", "faults"},
             left[k] > 0, left' = [left EXCEPT ![k] = @ - 1]
      PROVE  left' \in LeftRow
  BY <1>1, <1>2 DEF LeftRow
<1>3. CASE \/ \E j \in Job, k \in Slot : Retry(j, k)
           \/ \E t \in Task : AskFails(t)
           \/ Calls \/ LifeFails \/ Restart
           \/ \E op \in {"memory", "chat", "delete"} : LifeBegin(op)
  <2>1. \E k \in {"life", "retries", "calls", "faults"} :
          left[k] > 0 /\ left' = [left EXCEPT ![k] = @ - 1]
    BY <1>3 DEF Retry, AskFails, Calls, Call, LifeFails, Restart, LifeBegin
  <2>2. UNCHANGED <<era, late>>
    BY <1>3 DEF Retry, AskFails, Calls, Call, LifeFails, Restart, LifeBegin
  <2> QED BY <1>1, <1>2, <2>1, <2>2
<1>4. CASE Erasing
  <2>1. UNCHANGED <<left, late>> /\ era' = era + 1
    BY <1>4 DEF Erasing, ClearMemory, ClearChat, DeleteSession
  <2> QED BY <1>1, <2>1
<1>5. CASE ConSave
  <2>1. late' \in BOOLEAN
    BY <1>1, <1>5 DEF ConSave
  <2> QED BY <1>1, <1>5, <2>1 DEF ConSave
<1>9. ASSUME \/ \E m \in Msg : Receive(m)
             \/ \E j \in Job, src \in SUBSET Msg : Enqueue(j, src)
             \/ \E j \in Job, k \in Slot : Start(j, k)
             \/ \E t \in Task : Begin(t) \/ Ask(t) \/ Stage(t) \/ Save(t) \/ Commit(t) \/ End(t)
             \/ ConStage \/ CancelTasks \/ CreateSession
      PROVE  UNCHANGED <<left, era, late>>
  BY <1>9 DEF Receive, Enqueue, Start, Begin, Ask, Stage, Save, Commit, End, ConStage, CancelTasks,
              CreateSession
<1> QED BY <1>1, <1>3, <1>4, <1>5, <1>9, Actions

LEMMA TypesKept ==
  ASSUME MemoryAssumption, Types, Next
  PROVE  Types'
BY RunSteps, TaskTyped, RowsTyped, SessTyped, ConTyped, LeftTyped DEF Types, ConRow, LeftRow, SessRow, LifeRow

\* A step of one task that does not touch the write lock.
Moves ==
  /\ \E t \in Task, row \in TaskRow :
       /\ task[t].pc # "save" /\ row.pc # "save" /\ task' = [task EXCEPT ![t] = row]
       /\ row.pc # "off" => run'[t[1]].st # "none"
  /\ UNCHANGED <<sess, lock, con, life, era, late>>

\* A task takes the lock and stages what it will save.
TakesLock(t) ==
  /\ task[t].pc = "answered" /\ lock = <<>> /\ lock' = t
  /\ sess.live /\ sess.epoch = run[t[1]].ep /\ Recallable(run[t[1]].src)
  /\ \E eq \in Equivalent(task[t].pay.c) : task' = [task EXCEPT ![t] =
       [pc |-> "save", pay |-> NoPay, chg |-> Staged(task[t].pay, run[t[1]].src, eq), out |-> "none"]]
  /\ UNCHANGED <<sess, msg, run, mem, fact, con, life, left, era, late>>

LEMMA Moving ==
  ASSUME MemoryAssumption, Types, Sources, Next, NEW t \in Task, NEW row,
         task[t].pc # "save", row.pc # "save", task' = [task EXCEPT ![t] = row],
         row.pc # "off" => run'[t[1]].st # "none",
         UNCHANGED <<sess, lock, con, life, era, late>>
  PROVE  Moves
<1>1. row \in TaskRow
  BY TaskTyped DEF Types
<1> QED BY <1>1 DEF Moves

LEMMA TaskSteps ==
  ASSUME MemoryAssumption, Types, Sources, Next
  PROVE  \/ UNCHANGED task
         \/ Moves
         \/ \E t \in Task : TakesLock(t)
         \/ \E t \in Task : Save(t)
         \/ CancelTasks \/ Restart
<1>1. \A t \in Task : task[t].pc # "off" => run[t[1]].st # "none"
  BY DEF Sources
<1>2. Off.pc = "off" /\ [Off EXCEPT !.pc = "wait"].pc = "wait"
  BY DEF Off
<1>3. RunsKept => \A j \in Job : run'[j].st = "none" <=> run[j].st = "none"
  BY DEF RunsKept
<1>4. ASSUME NEW j \in Job, NEW src \in SUBSET Msg, Enqueue(j, src), ~UNCHANGED task PROVE Moves
  <2>1. PICK k \in Slot : task' = [task EXCEPT ![<<j, k>>] = [Off EXCEPT !.pc = "wait"]]
    BY <1>4 DEF Enqueue
  <2>2. <<j, k>> \in Task /\ <<j, k>>[1] = j
    BY TaskPairs
  <2>3. task[<<j, k>>].pc = "off"
    BY <1>1, <1>4, <2>2 DEF Enqueue
  <2>4. run'[j].st = "pending"
    BY <1>4 DEF Enqueue, Types
  <2>5. UNCHANGED <<sess, lock, con, life, era, late>>
    BY <1>4 DEF Enqueue
  <2> QED BY <1>2, <2>1, <2>2, <2>3, <2>4, <2>5, Moving
<1>5. ASSUME NEW j \in Job, NEW k \in Slot, Start(j, k) \/ Retry(j, k) PROVE Moves
  <2>1. <<j, k>> \in Task /\ <<j, k>>[1] = j
    BY TaskPairs
  <2>2. run'[j].st # "none"
    <3>1. CASE Start(j, k)
      BY <3>1 DEF Start
    <3>2. CASE Retry(j, k)
      BY <1>3, <3>2, SavingRun DEF Retry, RunState
    <3> QED BY <1>5, <3>1, <3>2
  <2>3. /\ task[<<j, k>>].pc = "off" /\ task' = [task EXCEPT ![<<j, k>>] = [Off EXCEPT !.pc = "wait"]]
        /\ UNCHANGED <<sess, lock, con, life, era, late>>
    BY <1>5 DEF Start, Retry
  <2> QED BY <1>2, <2>1, <2>2, <2>3, Moving
<1>6. ASSUME NEW t \in Task, Begin(t) \/ Ask(t) \/ AskFails(t) \/ Commit(t) \/ End(t) PROVE Moves
  <2>1. task[t].pc \notin {"save", "off"} /\ UNCHANGED <<sess, lock, con, life, era, late>>
    BY <1>6 DEF Begin, Ask, AskFails, Commit, End
  <2>2. t[1] \in Job /\ run[t[1]].st # "none"
    BY <1>1, <2>1, TaskPairs
  <2>3. RunsKept
    <3>1. UNCHANGED run => RunsKept
      BY DEF RunsKept
    <3>2. CASE Begin(t)
      BY <2>2, <3>1, <3>2, SavingRun DEF Begin, RunState
    <3>3. CASE Commit(t)
      BY <2>2, <3>1, <3>3, SavingRun DEF Commit, RunState
    <3>4. CASE End(t)
      <4>1. task[t].out \in RunState \ {"none", "gone"}
        BY <3>4 DEF End, Types, TaskRow, RunState, Fits
      <4> QED BY <2>2, <3>4, <4>1, SavingRun DEF End
    <3> QED BY <1>6, <3>1, <3>2, <3>3, <3>4 DEF Ask, AskFails
  <2>4. \E row : row.pc # "save" /\ task' = [task EXCEPT ![t] = row]
    <3>1. CASE Begin(t)
      BY <1>2, <3>1 DEF Begin, Goto
    <3>2. CASE Ask(t)
      BY <3>2 DEF Ask, Leave
    <3>3. CASE AskFails(t) \/ Commit(t)
      BY <3>3 DEF AskFails, Commit, Leave
    <3>4. CASE End(t)
      BY <1>2, <3>4 DEF End
    <3> QED BY <1>6, <3>1, <3>2, <3>3, <3>4
  <2> QED BY <1>3, <2>1, <2>2, <2>3, <2>4, Moving
<1>7. ASSUME NEW t \in Task, Stage(t) PROVE Moves \/ TakesLock(t)
  <2>1. task[t].pc = "answered" /\ UNCHANGED <<sess, run, con, life, era, late>>
    BY <1>7 DEF Stage
  <2>2. CASE UNCHANGED lock /\ \E out : Leave(t, out)
    <3>1. \E row : row.pc = "end" /\ task' = [task EXCEPT ![t] = row]
      BY <2>2 DEF Leave
    <3>2. run'[t[1]].st # "none"
      BY <1>1, <2>1
    <3> QED BY <2>1, <2>2, <3>1, <3>2, Moving
  <2>3. CASE ~(UNCHANGED lock /\ \E out : Leave(t, out))
    BY <1>7, <2>3 DEF Stage, TakesLock
  <2> QED BY <2>2, <2>3
<1>8. ASSUME \/ \E m \in Msg : Receive(m)
             \/ Calls \/ ConStage \/ ConSave \/ Erasing
             \/ \E op \in {"memory", "chat", "delete"} : LifeBegin(op)
             \/ LifeFails \/ CreateSession
       PROVE  UNCHANGED task
  BY <1>8 DEF Receive, Calls, Call, ConStage, ConSave, LifeBegin, Erasing, ClearMemory, ClearChat,
              DeleteSession, LifeFails, CreateSession
<1> QED BY <1>4, <1>5, <1>6, <1>7, <1>8, Actions

\* Who is at the point of saving was there before, unchanged, or has just staged.
LEMMA Savers ==
  ASSUME MemoryAssumption, Types, Sources, Next, NEW t \in Task, task'[t].pc = "save"
  PROVE  (task[t].pc = "save" /\ task'[t] = task[t]) \/ TakesLock(t)
<1>1. task \in [Task -> TaskRow]
  BY DEF Types
<1>2. Off.pc = "off" /\ [Off EXCEPT !.pc = "wait"].pc = "wait"
  BY DEF Off
<1>3. CASE Moves
  BY <1>1, <1>3 DEF Moves
<1>4. ASSUME NEW s \in Task, TakesLock(s) PROVE s = t \/ task'[t] = task[t]
  BY <1>1, <1>4 DEF TakesLock
<1>5. ASSUME NEW s \in Task, Save(s) PROVE task'[t] = task[t]
  <2>1. PICK row : row.pc = "end" /\ task' = [task EXCEPT ![s] = row]
    BY <1>5 DEF Save, Leave
  <2> QED BY <1>1, <2>1
<1>6. CASE CancelTasks \/ Restart
  BY <1>2, <1>6 DEF CancelTasks, Restart
<1> QED BY <1>3, <1>4, <1>5, <1>6, TaskSteps

LEMMA LockingKept ==
  ASSUME MemoryAssumption, Types, Locking, Sources, Next
  PROVE  Locking'
<1>1. task \in [Task -> TaskRow]
  BY DEF Types
<1> USE DEF Locking
<1>2. CASE Moves
  BY <1>1, <1>2 DEF Moves
<1>3. ASSUME NEW t \in Task, TakesLock(t) PROVE Locking'
  BY <1>1, <1>3, TaskPairs DEF TakesLock
<1>4. ASSUME NEW t \in Task, Save(t) PROVE Locking'
  <2>1. PICK row : row.pc = "end" /\ task' = [task EXCEPT ![t] = row]
    BY <1>4 DEF Save, Leave
  <2>2. lock = t /\ lock' = <<>> /\ UNCHANGED con
    BY <1>4 DEF Save
  <2> QED BY <1>1, <2>1, <2>2, TaskPairs
<1>5. CASE CancelTasks
  BY <1>1, <1>5, TaskPairs DEF CancelTasks, Off
<1>6. CASE Restart
  BY <1>6, TaskPairs DEF Restart, Off, Idle
<1>7. CASE UNCHANGED task
  <2>1. CASE UNCHANGED lock /\ (con'.pc = "save" <=> con.pc = "save")
    BY <1>7, <2>1
  <2>2. CASE ConStage
    <3>1. lock = <<>> /\ con.pc = "lock" /\ con' \in ConRow
      BY <2>2, ConTyped DEF ConStage
    <3>2. \/ con'.pc = "save" /\ lock' = <<"console">>
          \/ con'.pc = "idle" /\ UNCHANGED lock
      <4>1. CASE lock' = <<"console">>
        BY <2>2, <4>1 DEF ConStage, Types, Idle
      <4>2. CASE lock' # <<"console">>
        BY <2>2, <4>2 DEF ConStage, Idle
      <4> QED BY <4>1, <4>2
    <3>3. CASE con'.pc = "idle" /\ UNCHANGED lock
      BY <2>1, <3>1, <3>3
    <3>4. CASE con'.pc = "save" /\ lock' = <<"console">>
      BY <1>7, <3>1, <3>4, TaskPairs
    <3> QED BY <3>2, <3>3, <3>4
  <2>3. CASE ConSave
    BY <1>7, <2>3, TaskPairs DEF ConSave, Idle
  <2>4. CASE Calls
    BY <2>1, <2>4 DEF Calls, Call
  <2>5. CASE \/ \E m \in Msg : Receive(m)
             \/ \E j \in Job, src \in SUBSET Msg : Enqueue(j, src)
             \/ \E j \in Job, k \in Slot : Start(j, k) \/ Retry(j, k)
             \/ \E t \in Task : Begin(t) \/ Ask(t) \/ AskFails(t) \/ Commit(t) \/ End(t)
             \/ \E op \in {"memory", "chat", "delete"} : LifeBegin(op)
             \/ Erasing \/ LifeFails \/ CreateSession
    <3>1. UNCHANGED <<lock, con>>
      BY <2>5 DEF Receive, Enqueue, Start, Retry, Begin, Ask, AskFails, Commit, End, LifeBegin, Erasing,
                  ClearMemory, ClearChat, DeleteSession, LifeFails, CreateSession
    <3> QED BY <2>1, <3>1
  <2>6. ASSUME NEW t \in Task, Stage(t) PROVE Locking'
    <3>1. CASE UNCHANGED lock
      BY <2>1, <2>6, <3>1 DEF Stage
    <3>2. CASE ~UNCHANGED lock
      <4>1. task'[t].pc = "save" /\ task[t].pc = "answered"
        BY <1>1, <2>6, <3>2 DEF Stage
      <4> QED BY <1>7, <4>1
    <3> QED BY <3>1, <3>2
  <2> QED BY <1>4, <1>5, <1>6, <2>2, <2>3, <2>4, <2>5, <2>6, Actions
<1> QED BY <1>2, <1>3, <1>4, <1>5, <1>6, <1>7, TaskSteps

\* What the erasing transactions have in common.
LEMMA ErasingDoes ==
  ASSUME Types, Erasing
  PROVE  /\ life.pc = "drained" /\ life'.pc = "idle" /\ era' = era + 1
         /\ UNCHANGED <<task, lock, con, late>>
         /\ \A m \in Msg : msg'[m] # "kept" /\ (msg[m] # "new" => msg'[m] # "new")
         /\ \A i \in Mem : mem'[i].src = {} /\ mem'[i].st \in {mem[i].st, "none"}
         /\ \A c \in Content : fact'[c].src = {}
         /\ \A j \in Job : /\ run'[j].src = run[j].src /\ run'[j].st \in {"none", "gone"}
                           /\ run'[j].st = "none" <=> run[j].st = "none"
<1>1. /\ msg \in [Msg -> {"new", "kept", "shut", "gone"}]
      /\ run \in [Job -> RunRow] /\ mem \in [Mem -> Row] /\ fact \in [Content -> FactRow]
  BY DEF Types
<1>2. /\ life.pc = "drained" /\ life' = [pc |-> "idle", op |-> "none"] /\ era' = era + 1
      /\ run' = Erased /\ UNCHANGED <<task, lock, con, late>>
  BY DEF Erasing, ClearMemory, ClearChat, DeleteSession
<1>3. \A m \in Msg : msg'[m] # "kept" /\ (msg[m] # "new" => msg'[m] # "new")
  <2>1. CASE ClearMemory
    BY <1>1, <2>1 DEF ClearMemory
  <2>2. CASE ClearChat \/ DeleteSession
    BY <1>1, <2>2 DEF ClearChat, DeleteSession
  <2> QED BY <2>1, <2>2 DEF Erasing
<1>4. /\ \A i \in Mem : mem'[i].src = {} /\ mem'[i].st \in {mem[i].st, "none"}
      /\ \A c \in Content : fact'[c].src = {}
  <2>1. CASE ClearMemory \/ DeleteSession
    BY <2>1 DEF ClearMemory, DeleteSession, NoRow, NoFact
  <2>2. CASE ClearChat
    BY <1>1, <2>2 DEF ClearChat, Row, FactRow
  <2> QED BY <2>1, <2>2 DEF Erasing
<1>5. \A j \in Job : /\ run'[j].src = run[j].src /\ run'[j].st \in {"none", "gone"}
                     /\ run'[j].st = "none" <=> run[j].st = "none"
  BY <1>1, <1>2 DEF Erased, RunRow
<1> QED BY <1>2, <1>3, <1>4, <1>5

LEMMA EpochsKept ==
  ASSUME MemoryAssumption, Types, Epochs, Next
  PROVE  Epochs'
<1>1. /\ run \in [Job -> RunRow] /\ sess \in SessRow /\ life \in LifeRow
  BY DEF Types, SessRow, LifeRow
<1> USE DEF Epochs, InForce, SessRow, LifeRow, RunRow
<1>2. CASE Erasing
  BY <1>2, ErasingDoes
<1>3. CASE \E j \in Job, src \in SUBSET Msg : Enqueue(j, src)
  <2>1. PICK j \in Job, src \in SUBSET Msg : Enqueue(j, src)
    BY <1>3
  <2>2. /\ run' = [run EXCEPT ![j] = [st |-> "pending", ep |-> sess.epoch, src |-> src]]
        /\ sess.live /\ life.pc = "idle" /\ UNCHANGED <<sess, life>>
    BY <2>1 DEF Enqueue, Recallable
  <2> QED BY <1>1, <2>2
<1>4. CASE RunsKept
  <2>1. \A j \in Job : /\ run'[j].ep = run[j].ep
                       /\ InForce(j)' => InForce(j)
    BY <1>4 DEF RunsKept
  <2>2. CASE UNCHANGED <<sess, life>>
    BY <2>1, <2>2
  <2>3. CASE \E op \in {"memory", "chat", "delete"} : LifeBegin(op)
    <3>1. sess'.epoch = sess.epoch + 1 /\ sess'.live /\ sess.live
      BY <1>1, <2>3 DEF LifeBegin
    <3> QED BY <1>1, <2>1, <3>1
  <2>4. CASE CancelTasks
    BY <1>1, <2>1, <2>4 DEF CancelTasks
  <2>5. CASE LifeFails \/ Restart
    BY <1>1, <2>1, <2>5 DEF LifeFails, Restart
  <2>6. CASE CreateSession
    BY <1>1, <2>1, <2>6 DEF CreateSession
  <2>7. ASSUME \/ \E m \in Msg : Receive(m)
               \/ \E j \in Job, src \in SUBSET Msg : Enqueue(j, src)
               \/ \E j \in Job, k \in Slot : Start(j, k) \/ Retry(j, k)
               \/ \E t \in Task : \/ Begin(t) \/ Ask(t) \/ AskFails(t)
                                  \/ Stage(t) \/ Save(t) \/ Commit(t) \/ End(t)
               \/ Calls \/ ConStage \/ ConSave
        PROVE  UNCHANGED <<sess, life>>
    BY <2>7 DEF Receive, Enqueue, Start, Retry, Begin, Ask, AskFails, Stage, Save, Commit, End, Calls, Call,
                ConStage, ConSave
  <2> QED BY <1>2, <2>2, <2>3, <2>4, <2>5, <2>6, <2>7, Actions
<1> QED BY <1>2, <1>3, <1>4, RunSteps

\* Messages only come in; the erasing transactions alone put any out of reach.
LEMMA MsgSteps ==
  ASSUME MemoryAssumption, Types, Next
  PROVE  /\ \A m \in Msg : msg[m] # "new" => msg'[m] # "new"
         /\ \/ Erasing
            \/ /\ Kept \subseteq Kept' /\ \A m \in Msg : msg'[m] = "kept" => msg[m] \in {"new", "kept"}
<1>1. msg \in [Msg -> {"new", "kept", "shut", "gone"}]
  BY DEF Types
<1>2. CASE Erasing
  <2>1. \A m \in Msg : msg[m] # "new" => msg'[m] # "new"
    BY <1>1, <1>2 DEF Erasing, ClearMemory, ClearChat, DeleteSession
  <2> QED BY <1>2, <2>1
<1>3. CASE UNCHANGED msg
  BY <1>3 DEF Kept
<1>4. CASE \E m \in Msg : Receive(m)
  BY <1>1, <1>4 DEF Receive, Kept
<1>5. ASSUME \/ \E j \in Job, src \in SUBSET Msg : Enqueue(j, src)
             \/ \E j \in Job, k \in Slot : Start(j, k) \/ Retry(j, k)
             \/ \E t \in Task : \/ Begin(t) \/ Ask(t) \/ AskFails(t)
                                \/ Stage(t) \/ Save(t) \/ Commit(t) \/ End(t)
             \/ Calls \/ ConStage \/ ConSave
             \/ \E op \in {"memory", "chat", "delete"} : LifeBegin(op)
             \/ CancelTasks \/ LifeFails \/ CreateSession \/ Restart
      PROVE  UNCHANGED msg
  BY <1>5 DEF Enqueue, Start, Retry, Begin, Ask, AskFails, Stage, Save, Commit, End, Calls, Call, ConStage,
              ConSave, LifeBegin, CancelTasks, LifeFails, CreateSession, Restart
<1> QED BY <1>2, <1>3, <1>4, <1>5, Actions

LEMMA SourcesKept ==
  ASSUME MemoryAssumption, Types, Sources, Next
  PROVE  Sources'
<1>1. run \in [Job -> RunRow] /\ task \in [Task -> TaskRow]
  BY DEF Types
<1>2. \A m \in Msg : msg[m] # "new" => msg'[m] # "new"
  BY MsgSteps
<1>3. \A j \in Job : run[j].src \subseteq Msg
  BY <1>1 DEF RunRow
<1>4. \A j \in Job : run'[j].st # "none" => run'[j].src # {} /\ \A m \in run'[j].src : msg'[m] # "new"
  <2>1. CASE RunsKept
    BY <1>2, <1>3, <2>1 DEF RunsKept, Sources
  <2>2. CASE \E j \in Job, src \in SUBSET Msg : Enqueue(j, src)
    <3>1. PICK j \in Job, src \in SUBSET Msg : Enqueue(j, src)
      BY <2>2
    <3>2. /\ run' = [run EXCEPT ![j] = [st |-> "pending", ep |-> sess.epoch, src |-> src]]
          /\ src # {} /\ src \subseteq Kept /\ UNCHANGED msg
      BY <3>1 DEF Enqueue, Recallable
    <3> QED BY <1>1, <3>2 DEF Sources, Kept
  <2>3. CASE run' = Erased
    <3>1. \A j \in Job : run'[j].src = run[j].src /\ (run'[j].st # "none" => run[j].st # "none")
      BY <1>1, <2>3 DEF Erased, RunRow
    <3> QED BY <1>2, <1>3, <3>1 DEF Sources
  <2> QED BY <2>1, <2>2, <2>3, RunSteps
<1>5. \A j \in Job : run'[j].st = "gone" => \A m \in run'[j].src : msg'[m] # "kept"
  <2>1. CASE Erasing
    <3>1. \A m \in Msg : msg'[m] # "kept"
      BY <2>1, ErasingDoes
    <3>2. \A j \in Job : run'[j].src = run[j].src
      BY <2>1, ErasingDoes
    <3> QED BY <1>3, <3>1, <3>2
  <2>2. CASE ~Erasing
    <3>1. \A m \in Msg : msg'[m] = "kept" => msg[m] \in {"new", "kept"}
      BY <2>2, MsgSteps
    <3>2. \A j \in Job : run'[j].st = "gone" => run[j].st = "gone" /\ run'[j].src = run[j].src
      <4>1. CASE RunsKept
        BY <4>1 DEF RunsKept
      <4>2. CASE \E j \in Job, src \in SUBSET Msg : Enqueue(j, src)
        BY <1>1, <4>2 DEF Enqueue
      <4> QED BY <2>2, <4>1, <4>2, RunSteps
    <3> QED BY <1>3, <3>1, <3>2 DEF Sources
  <2> QED BY <2>1, <2>2
<1>6. \A t \in Task : task'[t].pc # "off" => run'[t[1]].st # "none"
  <2>1. \A j \in Job : run[j].st # "none" => run'[j].st # "none"
    <3>1. CASE RunsKept
      BY <3>1 DEF RunsKept
    <3>2. CASE \E j \in Job, src \in SUBSET Msg : Enqueue(j, src)
      BY <1>1, <3>2 DEF Enqueue
    <3>3. CASE run' = Erased
      BY <1>1, <3>3 DEF Erased, RunRow
    <3> QED BY <3>1, <3>2, <3>3, RunSteps
  <2>2. \A t \in Task : task[t].pc # "off" => run'[t[1]].st # "none"
    BY <2>1, TaskPairs DEF Sources
  <2>3. CASE Moves
    BY <1>1, <2>2, <2>3 DEF Moves
  <2>4. ASSUME NEW t \in Task, TakesLock(t) \/ Save(t)
        PROVE  task[t].pc # "off" /\ \E row : task' = [task EXCEPT ![t] = row]
    BY <2>4 DEF TakesLock, Save, Leave
  <2>5. CASE \E t \in Task : TakesLock(t) \/ Save(t)
    BY <1>1, <2>2, <2>4, <2>5
  <2>6. CASE CancelTasks
    BY <2>6 DEF CancelTasks, Off
  <2>7. CASE Restart
    <3>1. PICK k \in Slot : task' = [t \in Task |->
            IF t[2] = k /\ TakenUp(t[1]) THEN [Off EXCEPT !.pc = "wait"] ELSE Off]
      BY <2>7 DEF Restart
    <3>2. ASSUME NEW t \in Task, task'[t].pc # "off" PROVE run[t[1]].st # "none"
      BY <3>1, <3>2 DEF Off, TakenUp, Recoverable
    <3> QED BY <2>1, <3>2, TaskPairs
  <2> QED BY <2>2, <2>3, <2>5, <2>6, <2>7, TaskSteps
<1> QED BY <1>4, <1>5, <1>6 DEF Sources

\* A lifecycle operation that has cancelled the tasks meets none that stages.
LEMMA NoneStages ==
  ASSUME Types, Epochs, Sources, NEW t \in Task, TakesLock(t)
  PROVE  life.pc = "idle"
<1>1. t[1] \in Job /\ run[t[1]].st # "none"
  BY TaskPairs DEF Sources, TakesLock
<1>2. run[t[1]].src # {} /\ run[t[1]].src \subseteq Kept /\ run[t[1]].ep = sess.epoch
  BY <1>1 DEF Sources, TakesLock, Recallable
<1>3. run[t[1]].st # "gone"
  BY <1>1, <1>2 DEF Sources, Kept
<1> QED BY <1>1, <1>2, <1>3 DEF Epochs, InForce

LEMMA DrainedKept ==
  ASSUME MemoryAssumption, Types, Epochs, Sources, Drained, Next
  PROVE  Drained'
<1> SUFFICES ASSUME life'.pc = "drained", NEW t \in Task, task'[t].pc = "save" PROVE FALSE
  BY DEF Drained
<1>1. CASE CancelTasks
  BY <1>1 DEF CancelTasks, Off
<1>2. CASE UNCHANGED life
  <2>1. ~TakesLock(t)
    BY <1>2, NoneStages
  <2> QED BY <1>2, <2>1, Savers DEF Drained
<1>3. CASE \/ \E op \in {"memory", "chat", "delete"} : LifeBegin(op)
           \/ Erasing \/ LifeFails \/ Restart
  <2>1. life'.pc # "drained"
    BY <1>3, ErasingDoes DEF LifeBegin, LifeFails, Restart
  <2> QED BY <2>1
<1>4. ASSUME \/ \E m \in Msg : Receive(m)
             \/ \E j \in Job, src \in SUBSET Msg : Enqueue(j, src)
             \/ \E j \in Job, k \in Slot : Start(j, k) \/ Retry(j, k)
             \/ \E s \in Task : \/ Begin(s) \/ Ask(s) \/ AskFails(s)
                                \/ Stage(s) \/ Save(s) \/ Commit(s) \/ End(s)
             \/ Calls \/ ConStage \/ ConSave \/ CreateSession
      PROVE  UNCHANGED life
  BY <1>4 DEF Receive, Enqueue, Start, Retry, Begin, Ask, AskFails, Stage, Save, Commit, End, Calls, Call,
              ConStage, ConSave, CreateSession
<1> QED BY <1>1, <1>2, <1>3, <1>4, Actions

\* Who writes rows: who has the lock saves what it staged, a profile run reads and
\* writes at once, or everything is erased.
LEMMA MemSteps ==
  ASSUME MemoryAssumption, Types, Next
  PROVE  \/ UNCHANGED <<mem, fact>>
         \/ \E t \in Task : /\ Save(t) /\ Write(task[t].chg) /\ sess.live
                            /\ UNCHANGED <<fact, msg, era, late, con>>
         \/ /\ ConSave /\ Write(con.chg) /\ sess.live
            /\ late' = (late \/ con.era # era) /\ UNCHANGED <<fact, msg, era>>
         \/ \E j \in Job, c \in Content :
              /\ run[j].src \subseteq Kept /\ sess.live
              /\ fact' = ProfileFacts(c, run[j].src) /\ ProfileMemory(c, run[j].src)
              /\ UNCHANGED <<msg, era, late, con, lock>>
         \/ Erasing
<1>1. ASSUME NEW t \in Task, Save(t)
      PROVE  \/ UNCHANGED <<mem, fact>>
             \/ Write(task[t].chg) /\ sess.live /\ UNCHANGED <<fact, msg, era, late, con>>
  BY <1>1 DEF Save, Current
<1>2. CASE ConSave
  BY <1>2 DEF ConSave, Current
<1>3. ASSUME NEW t \in Task, Commit(t), ~UNCHANGED <<mem, fact>>
      PROVE  \E j \in Job, c \in Content :
               /\ run[j].src \subseteq Kept /\ sess.live
               /\ fact' = ProfileFacts(c, run[j].src) /\ ProfileMemory(c, run[j].src)
               /\ UNCHANGED <<msg, era, late, con, lock>>
  <2>1. t[1] \in Job /\ t[1] \in Profile /\ task[t].pc = "answered"
    BY <1>3, TaskPairs DEF Commit
  <2>2. task[t].pay.c \in Content
    BY <2>1 DEF Types, Fits
  <2>3. /\ run[t[1]].src \subseteq Kept /\ sess.live
        /\ fact' = ProfileFacts(task[t].pay.c, run[t[1]].src)
        /\ ProfileMemory(task[t].pay.c, run[t[1]].src)
        /\ UNCHANGED <<msg, era, late, con, lock>>
    BY <1>3 DEF Commit, Recallable
  <2> QED BY <2>1, <2>2, <2>3
<1>4. ASSUME \/ \E m \in Msg : Receive(m)
             \/ \E j \in Job, src \in SUBSET Msg : Enqueue(j, src)
             \/ \E j \in Job, k \in Slot : Start(j, k) \/ Retry(j, k)
             \/ \E t \in Task : Begin(t) \/ Ask(t) \/ AskFails(t) \/ Stage(t) \/ End(t)
             \/ Calls \/ ConStage
             \/ \E op \in {"memory", "chat", "delete"} : LifeBegin(op)
             \/ CancelTasks \/ LifeFails \/ CreateSession \/ Restart
      PROVE  UNCHANGED <<mem, fact>>
  BY <1>4 DEF Receive, Enqueue, Start, Retry, Begin, Ask, AskFails, Stage, End, Calls, Call, ConStage,
              LifeBegin, CancelTasks, LifeFails, CreateSession, Restart
<1> QED BY <1>1, <1>2, <1>3, <1>4, Actions

\* The console is at the point of saving because it was, or has just staged.
LEMMA ConSaves ==
  ASSUME MemoryAssumption, Types, Next, con'.pc = "save"
  PROVE  \/ UNCHANGED con
         \/ /\ \E eq \in Equivalent(con.pay.c) : con'.chg = Staged(con.pay, {}, eq)
            /\ con'.era = era /\ lock = <<>>
            /\ UNCHANGED <<mem, fact, msg, era, late, task>>
<1>1. CASE ConStage
  <2>1. Idle.pc # "save"
    BY DEF Idle
  <2>2. PICK eq \in Equivalent(con.pay.c) :
          con' = [con EXCEPT !.pc = "save", !.pay = NoPay, !.chg = Staged(con.pay, {}, eq), !.era = era]
    BY <1>1, <2>1 DEF ConStage
  <2>3. con'.chg = Staged(con.pay, {}, eq) /\ con'.era = era
    BY <2>2 DEF Types
  <2> QED BY <1>1, <2>3 DEF ConStage
<1>2. CASE Calls \/ ConSave \/ Restart
  BY <1>2 DEF Calls, Call, ConSave, Restart, Idle
<1>3. CASE Erasing
  BY <1>3, ErasingDoes
<1>4. ASSUME \/ \E m \in Msg : Receive(m)
             \/ \E j \in Job, src \in SUBSET Msg : Enqueue(j, src)
             \/ \E j \in Job, k \in Slot : Start(j, k) \/ Retry(j, k)
             \/ \E t \in Task : \/ Begin(t) \/ Ask(t) \/ AskFails(t)
                                \/ Stage(t) \/ Save(t) \/ Commit(t) \/ End(t)
             \/ \E op \in {"memory", "chat", "delete"} : LifeBegin(op)
             \/ CancelTasks \/ LifeFails \/ CreateSession
      PROVE  UNCHANGED con
  BY <1>4 DEF Receive, Enqueue, Start, Retry, Begin, Ask, AskFails, Stage, Save, Commit, End, LifeBegin,
              CancelTasks, LifeFails, CreateSession
<1> QED BY <1>1, <1>2, <1>3, <1>4, Actions

LEMMA EraSteps ==
  ASSUME MemoryAssumption, Types, Sound, Next
  PROVE  /\ con'.era <= era' /\ era <= era'
         /\ ~late' => ~late
         /\ ~Erasing => era' = era
<1>1. con \in ConRow /\ era \in Nat /\ con.era <= era /\ late \in BOOLEAN
  BY DEF Types, ConRow, Sound
<1>2. CASE Erasing
  BY <1>1, <1>2, ErasingDoes DEF ConRow
<1>3. CASE Calls
  BY <1>1, <1>3 DEF Calls, Call
<1>4. CASE ConStage
  <2>1. con' = Idle \/ con'.era = era
    BY <1>1, <1>4 DEF ConStage, ConRow
  <2>2. UNCHANGED <<era, late>>
    BY <1>4 DEF ConStage
  <2> QED BY <1>1, <2>1, <2>2 DEF Idle
<1>5. CASE ConSave
  <2>1. con' = Idle /\ UNCHANGED era /\ (~late' => ~late)
    BY <1>5 DEF ConSave
  <2> QED BY <1>1, <2>1 DEF Idle
<1>6. CASE Restart
  BY <1>1, <1>6 DEF Restart, Idle
<1>7. ASSUME \/ \E m \in Msg : Receive(m)
             \/ \E j \in Job, src \in SUBSET Msg : Enqueue(j, src)
             \/ \E j \in Job, k \in Slot : Start(j, k) \/ Retry(j, k)
             \/ \E t \in Task : \/ Begin(t) \/ Ask(t) \/ AskFails(t)
                                \/ Stage(t) \/ Save(t) \/ Commit(t) \/ End(t)
             \/ \E op \in {"memory", "chat", "delete"} : LifeBegin(op)
             \/ CancelTasks \/ LifeFails \/ CreateSession
      PROVE  UNCHANGED <<con, era, late>>
  BY <1>7 DEF Receive, Enqueue, Start, Retry, Begin, Ask, AskFails, Stage, Save, Commit, End, LifeBegin,
              CancelTasks, LifeFails, CreateSession
<1> QED BY <1>1, <1>2, <1>3, <1>4, <1>5, <1>6, <1>7, Actions DEF ConRow

LEMMA SoundKept ==
  ASSUME MemoryAssumption, Types, Locking, Epochs, Sources, Drained, Sound, Next
  PROVE  Sound'
<1>1. con'.era <= era'
  BY EraSteps
<1> SUFFICES ASSUME ~late'
             PROVE  /\ \A i \in Mem : mem'[i].src \subseteq Kept'
                    /\ \A c \in Content : fact'[c].src \subseteq Kept'
                    /\ \A t \in Task : task'[t].pc = "save" => KeptOnly(task[t].chg)'
                    /\ con'.pc = "save" /\ con'.era = era' => KeptOnly(con.chg)'
  BY <1>1 DEF Sound
<1>2. /\ ~late
      /\ \A i \in Mem : mem[i].src \subseteq Kept
      /\ \A c \in Content : fact[c].src \subseteq Kept
      /\ \A t \in Task : task[t].pc = "save" => KeptOnly(task[t].chg)
      /\ con.pc = "save" /\ con.era = era => KeptOnly(con.chg)
  BY EraSteps DEF Sound
<1>3. /\ mem \in [Mem -> Row] /\ task \in [Task -> TaskRow] /\ con \in ConRow
      /\ run \in [Job -> RunRow] /\ era \in Nat
  BY DEF Types, ConRow
<1>4. CASE Erasing
  <2>1. \A t \in Task : task'[t].pc # "save"
    BY <1>4, ErasingDoes DEF Drained
  <2>2. con'.era # era'
    BY <1>3, <1>4, ErasingDoes DEF Sound, ConRow
  <2> QED BY <1>4, <2>1, <2>2, ErasingDoes
<1>5. CASE ~Erasing
  <2>1. Kept \subseteq Kept' /\ era' = era
    BY <1>5, MsgSteps, EraSteps
  <2>2. \A t \in Task : task'[t].pc = "save" => KeptOnly(task[t].chg)'
    <3> SUFFICES ASSUME NEW t \in Task, task'[t].pc = "save" PROVE KeptOnly(task[t].chg)'
      OBVIOUS
    <3>1. CASE task[t].pc = "save" /\ task'[t] = task[t]
      <4>1. KeptOnly(task[t].chg) /\ task'[t].chg = task[t].chg
        BY <1>2, <3>1
      <4> QED BY <2>1, <4>1 DEF KeptOnly
    <3>2. CASE TakesLock(t)
      <4>1. PICK eq \in Equivalent(task[t].pay.c) :
              task'[t].chg = Staged(task[t].pay, run[t[1]].src, eq)
        BY <1>3, <3>2 DEF TakesLock
      <4>2. task[t].pay \in Pay /\ run[t[1]].src \in SUBSET Msg /\ run[t[1]].src \subseteq Kept
        BY <1>3, <3>2, TaskPairs DEF TakesLock, Recallable, TaskRow, RunRow
      <4>3. KeptOnly(Staged(task[t].pay, run[t[1]].src, eq))
        BY <1>2, <1>3, <4>2, StagedKept
      <4> QED BY <2>1, <4>1, <4>3 DEF KeptOnly
    <3> QED BY <3>1, <3>2, Savers
  <2>3. con'.pc = "save" /\ con'.era = era' => KeptOnly(con.chg)'
    <3> SUFFICES ASSUME con'.pc = "save", con'.era = era' PROVE KeptOnly(con.chg)'
      OBVIOUS
    <3>1. CASE UNCHANGED con
      <4>1. KeptOnly(con.chg) /\ con'.chg = con.chg
        BY <1>2, <2>1, <3>1
      <4> QED BY <2>1, <4>1 DEF KeptOnly
    <3>2. CASE \E eq \in Equivalent(con.pay.c) : con'.chg = Staged(con.pay, {}, eq)
      <4>1. \A eq \in Equivalent(con.pay.c) : KeptOnly(Staged(con.pay, {}, eq))
        BY <1>2, <1>3, StagedKept DEF ConRow
      <4> QED BY <2>1, <3>2, <4>1 DEF KeptOnly
    <3> QED BY <3>1, <3>2, ConSaves
  <2>4. /\ \A i \in Mem : mem'[i].src \subseteq Kept'
        /\ \A c \in Content : fact'[c].src \subseteq Kept'
    <3>1. ASSUME NEW chg \in Chg, KeptOnly(chg), Write(chg), UNCHANGED fact
          PROVE  /\ \A i \in Mem : mem'[i].src \subseteq Kept'
                 /\ \A c \in Content : fact'[c].src \subseteq Kept'
      <4>1. \A i \in Mem : mem'[i].src \subseteq Kept
        BY <1>2, <1>3, <3>1, Writing DEF KeptOnly
      <4> QED BY <1>2, <2>1, <3>1, <4>1
    <3>2. ASSUME NEW t \in Task, Save(t), Write(task[t].chg), UNCHANGED fact
          PROVE  /\ \A i \in Mem : mem'[i].src \subseteq Kept'
                 /\ \A c \in Content : fact'[c].src \subseteq Kept'
      <4>1. task[t].chg \in Chg /\ KeptOnly(task[t].chg)
        BY <1>2, <1>3, <3>2 DEF Save, TaskRow
      <4> QED BY <3>1, <3>2, <4>1
    <3>3. ASSUME ConSave, Write(con.chg), late' = (late \/ con.era # era), UNCHANGED fact
          PROVE  /\ \A i \in Mem : mem'[i].src \subseteq Kept'
                 /\ \A c \in Content : fact'[c].src \subseteq Kept'
      <4>1. con.chg \in Chg /\ con.pc = "save" /\ con.era = era
        BY <1>3, <3>3 DEF ConSave, ConRow
      <4> QED BY <1>2, <3>1, <3>3, <4>1
    <3>4. ASSUME NEW j \in Job, NEW c \in Content, run[j].src \subseteq Kept,
                 fact' = ProfileFacts(c, run[j].src), ProfileMemory(c, run[j].src)
          PROVE  /\ \A i \in Mem : mem'[i].src \subseteq Kept'
                 /\ \A d \in Content : fact'[d].src \subseteq Kept'
      <4>1. run[j].src \in SUBSET Msg
        BY <1>3 DEF RunRow
      <4>2. \A i \in Mem : mem'[i].src \subseteq Kept
        BY <1>2, <3>4, <4>1, ProfileWriting
      <4>3. \A d \in Content : fact'[d].src \subseteq Kept
        BY <1>2, <3>4, <4>1, FactsTyped
      <4> QED BY <2>1, <4>2, <4>3
    <3>5. CASE UNCHANGED <<mem, fact>>
      BY <1>2, <2>1, <3>5
    <3> QED BY <1>5, <3>2, <3>3, <3>4, <3>5, MemSteps
  <2> QED BY <2>2, <2>3, <2>4
<1> QED BY <1>4, <1>5

TakenBack == {"retracted", "superseded"}

\* Only who holds the lock takes a row back.
LEMMA OnlyHolders ==
  ASSUME MemoryAssumption, Types, Next,
         ~ConSave, \A t \in Task : ~Save(t), NEW i \in Mem, mem'[i].st \in TakenBack
  PROVE  mem[i].st \in TakenBack
<1>1. ASSUME NEW j \in Job, NEW c \in Content, ProfileMemory(c, run[j].src)
      PROVE  mem[i].st \in TakenBack
  <2>1. run[j].src \in SUBSET Msg
    BY DEF Types, RunRow
  <2> QED BY <1>1, <2>1, ProfileWriting DEF TakenBack
<1>2. CASE Erasing
  BY <1>2, ErasingDoes DEF TakenBack
<1> QED BY <1>1, <1>2, MemSteps

LEMMA StillSpares ==
  ASSUME NEW chg \in Chg, Spares(chg),
         \A i \in Mem : mem'[i].st \in TakenBack => mem[i].st \in TakenBack
  PROVE  \A u \in chg.upd : Open(u[2].st) => mem'[u[1]].st \notin TakenBack
<1> SUFFICES ASSUME NEW u \in chg.upd, Open(u[2].st) PROVE mem'[u[1]].st \notin TakenBack
  OBVIOUS
<1>1. u \in Mem \X Row
  BY DEF Chg
<1>2. u[1] \in Mem /\ mem[u[1]].st \notin TakenBack
  BY <1>1 DEF Spares, TakenBack
<1> QED BY <1>2

LEMMA SparedKept ==
  ASSUME MemoryAssumption, Types, Locking, Sources, Spared, Next
  PROVE  Spared'
<1>1. mem \in [Mem -> Row] /\ task \in [Task -> TaskRow] /\ con \in ConRow /\ Locking'
  BY LockingKept DEF Types, ConRow
<1>2. CASE ConSave \/ \E t \in Task : Save(t)
  <2>1. lock' = <<>>
    BY <1>2 DEF ConSave, Save
  <2> QED BY <1>1, <2>1, TaskPairs DEF Spared, Locking
<1>3. CASE ~ConSave /\ \A t \in Task : ~Save(t)
  <2>1. \A i \in Mem : mem'[i].st \in TakenBack => mem[i].st \in TakenBack
    BY <1>3, OnlyHolders
  <2>2. ASSUME NEW t \in Task, task'[t].pc = "save" PROVE Spares(task[t].chg)'
    <3>1. CASE task[t].pc = "save" /\ task'[t] = task[t]
      <4>1. Spares(task[t].chg) /\ task'[t].chg = task[t].chg /\ task[t].chg \in Chg
        BY <1>1, <3>1 DEF Spared, TaskRow
      <4> QED BY <2>1, <4>1, StillSpares DEF Spares, TakenBack
    <3>2. CASE TakesLock(t)
      <4>1. PICK eq \in Equivalent(task[t].pay.c) :
              task'[t].chg = Staged(task[t].pay, run[t[1]].src, eq) /\ UNCHANGED mem
        BY <1>1, <3>2 DEF TakesLock
      <4>2. Spares(Staged(task[t].pay, run[t[1]].src, eq))
        BY <1>1, StagedSpares DEF TaskRow
      <4> QED BY <4>1, <4>2 DEF Spares
    <3> QED BY <2>2, <3>1, <3>2, Savers
  <2>3. ASSUME con'.pc = "save" PROVE Spares(con.chg)'
    <3>1. CASE UNCHANGED con
      <4>1. Spares(con.chg) /\ con'.chg = con.chg /\ con.chg \in Chg
        BY <1>1, <2>3, <3>1 DEF Spared, ConRow
      <4> QED BY <2>1, <4>1, StillSpares DEF Spares, TakenBack
    <3>2. CASE UNCHANGED mem /\ \E eq \in Equivalent(con.pay.c) : con'.chg = Staged(con.pay, {}, eq)
      <4>1. \A eq \in Equivalent(con.pay.c) : Spares(Staged(con.pay, {}, eq))
        BY <1>1, StagedSpares DEF ConRow
      <4> QED BY <3>2, <4>1 DEF Spares
    <3> QED BY <2>3, <3>1, <3>2, ConSaves
  <2> QED BY <2>2, <2>3 DEF Spared
<1> QED BY <1>2, <1>3

LEMMA OrphansKept ==
  ASSUME MemoryAssumption, Types, NoOrphans, Next
  PROVE  NoOrphans'
<1> SUFFICES ASSUME ~sess'.live
             PROVE  /\ \A i \in Mem : mem'[i].st = "none"
                    /\ \A c \in Content : fact'[c].st = "none"
                    /\ \A j \in Job : run'[j].st \in {"none", "gone"}
  BY DEF NoOrphans
<1>1. CASE DeleteSession
  <2>1. \A j \in Job : run'[j].st \in {"none", "gone"}
    BY <1>1, ErasingDoes DEF Erasing
  <2> QED BY <1>1, <2>1 DEF DeleteSession, NoRow, NoFact
<1>2. CASE ~DeleteSession
  <2>1. ~sess.live
    <3>1. CASE \E op \in {"memory", "chat", "delete"} : LifeBegin(op)
      BY <3>1 DEF LifeBegin, Types
    <3>2. CASE CreateSession
      BY <3>2 DEF CreateSession
    <3>3. ASSUME \/ \E m \in Msg : Receive(m)
                 \/ \E j \in Job, src \in SUBSET Msg : Enqueue(j, src)
                 \/ \E j \in Job, k \in Slot : Start(j, k) \/ Retry(j, k)
                 \/ \E t \in Task : \/ Begin(t) \/ Ask(t) \/ AskFails(t)
                                    \/ Stage(t) \/ Save(t) \/ Commit(t) \/ End(t)
                 \/ Calls \/ ConStage \/ ConSave
                 \/ CancelTasks \/ ClearMemory \/ ClearChat \/ LifeFails \/ Restart
          PROVE  UNCHANGED sess
      BY <3>3 DEF Receive, Enqueue, Start, Retry, Begin, Ask, AskFails, Stage, Save, Commit, End, Calls, Call,
                  ConStage, ConSave, CancelTasks, ClearMemory, ClearChat, LifeFails, Restart
    <3> QED BY <1>2, <3>1, <3>2, <3>3, Actions DEF Erasing
  <2>2. /\ \A i \in Mem : mem[i].st = "none"
        /\ \A c \in Content : fact[c].st = "none"
        /\ \A j \in Job : run[j].st \in {"none", "gone"}
    BY <2>1 DEF NoOrphans
  <2>3. CASE Erasing
    <3>1. /\ \A i \in Mem : mem'[i].st = "none"
          /\ \A j \in Job : run'[j].st \in {"none", "gone"}
      BY <2>2, <2>3, ErasingDoes
    <3>2. \A c \in Content : fact'[c].st = "none"
      <4>1. CASE ClearMemory \/ DeleteSession
        BY <4>1 DEF ClearMemory, DeleteSession, NoFact
      <4>2. CASE ClearChat
        BY <2>2, <4>2 DEF ClearChat, Types, FactRow
      <4> QED BY <2>3, <4>1, <4>2 DEF Erasing
    <3> QED BY <3>1, <3>2
  <2>4. CASE ~Erasing
    <3>1. UNCHANGED <<mem, fact>>
      BY <2>1, <2>4, MemSteps
    <3>2. \A j \in Job, src \in SUBSET Msg : ~Enqueue(j, src)
      BY <2>1 DEF Enqueue, Recallable
    <3>3. RunsKept
      BY <2>4, <3>2, RunSteps
    <3> QED BY <2>2, <3>1, <3>3 DEF RunsKept
  <2> QED BY <2>3, <2>4
<1> QED BY <1>1, <1>2

-------------------------------------------------------------------------------
(* The results                                                               *)

LEMMA Beginning ==
  ASSUME MemoryAssumption, Init
  PROVE  IInv
<1> USE DEF Init
<1>1. Types
  <2>1. /\ [st |-> "none", ep |-> 0, src |-> {}] \in RunRow /\ NoRow \in Row /\ NoFact \in FactRow
        /\ Idle \in ConRow
    BY OffTyped DEF RunRow, RunState, NoRow, Row, NoFact, FactRow, Idle, ConRow
  <2>2. left \in [life: Nat, retries: Nat, calls: Nat, faults: Nat]
    BY DEF MemoryAssumption
  <2>3. \A t : Fits(t, Off)
    BY DEF Fits, Off
  <2>4. run \in [Job -> RunRow] /\ mem \in [Mem -> Row] /\ fact \in [Content -> FactRow]
    BY <2>1
  <2>5. task \in [Task -> TaskRow] /\ \A t \in Task : Fits(t, task[t])
    BY <2>3, OffTyped
  <2>6. /\ sess \in [live: BOOLEAN, epoch: Nat \ {0}]
        /\ life \in [pc: {"idle", "advanced", "drained"}, op: {"none", "memory", "chat", "delete"}]
    OBVIOUS
  <2>7. msg \in [Msg -> {"new", "kept", "shut", "gone"}] /\ era \in Nat /\ late \in BOOLEAN
    OBVIOUS
  <2>8. con \in ConRow
    BY <2>1
  <2> QED BY <2>2, <2>4, <2>5, <2>6, <2>7, <2>8 DEF Types, ConRow
<1>2. Locking
  BY TaskPairs DEF Locking, Idle, Off
<1>3. Epochs /\ Drained /\ NoOrphans
  BY DEF Epochs, InForce, Drained, NoOrphans
<1>4. Sources
  BY TaskPairs DEF Sources, Off
<1>5. Sound /\ Spared
  BY DEF Sound, Spared, NoRow, NoFact, Idle, Off
<1> QED BY <1>1, <1>2, <1>3, <1>4, <1>5 DEF IInv

LEMMA Stuttering ==
  ASSUME IInv, UNCHANGED vars
  PROVE  IInv'
BY DEF IInv, vars, Types, Fits, Locking, Epochs, InForce, Sources, Drained, Sound, KeptOnly, Kept,
       Spared, Spares, NoOrphans

\* The invariant holds in every state that the memory reaches.
THEOREM Invariant == Spec => []IInv
<1>1. Init => IInv
  BY MemoryAssumption, Beginning
<1>2. IInv /\ [Next]_vars => IInv'
  <2> SUFFICES ASSUME IInv, [Next]_vars PROVE IInv'
    OBVIOUS
  <2>1. CASE UNCHANGED vars
    BY <2>1, Stuttering
  <2>2. CASE Next
    BY <2>2, MemoryAssumption, TypesKept, LockingKept, EpochsKept, SourcesKept, DrainedKept,
       SoundKept, SparedKept, OrphansKept DEF IInv
  <2> QED BY <2>1, <2>2
<1> QED BY <1>1, <1>2, PTL DEF Spec

\* The type invariant, with the write lock in the hands of whoever is to save.
THEOREM TypeCorrect == Spec => []TypeOK
<1>1. IInv => TypeOK
  BY DEF IInv, Types, Locking, TypeOK, RunRow, RunState, Row
<1> QED BY <1>1, Invariant, PTL

\* However long a model takes, and whatever is cleared, deleted, made anew or
\* restarted meanwhile: no memory and no fact comes from a message that was put
\* behind the recall boundary or deleted, unless the console saved rows it had
\* read before an erasing (_require_current_data_epoch, messages_are_recallable).
THEOREM NothingResurrected == Spec => []NoResurrection
<1>1. IInv => NoResurrection
  BY DEF IInv, Sound, NoResurrection
<1> QED BY <1>1, Invariant, PTL

\* A deleted session leaves no memory, fact or open run behind, and none is
\* written after it (delete_session).
THEOREM NothingOrphaned == Spec => []NoOrphans
<1>1. IInv => NoOrphans
  BY DEF IInv
<1> QED BY <1>1, Invariant, PTL

\* A memory that was taken back or replaced never counts again, whatever was
\* reading or writing it at the time: a profile run, which takes no lock, revives
\* none, and the other writers hold the lock from their reading to their saving.
THEOREM ForgottenForGood == Spec => ForgottenStays
<1> DEFINE Stays == \A i \in Mem : mem[i].st \in TakenBack => ~Open(mem'[i].st)
<1>1. ASSUME IInv, [Next]_vars PROVE Stays
  <2> SUFFICES ASSUME NEW i \in Mem, mem[i].st \in TakenBack PROVE ~Open(mem'[i].st)
    OBVIOUS
  <2>1. mem \in [Mem -> Row] /\ task \in [Task -> TaskRow] /\ con \in ConRow /\ run \in [Job -> RunRow]
    BY <1>1 DEF IInv, Types, ConRow
  <2>2. ASSUME UNCHANGED mem PROVE ~Open(mem'[i].st)
    BY <2>2 DEF Open, TakenBack
  <2>3. ASSUME NEW chg \in Chg, Spares(chg), Write(chg) PROVE ~Open(mem'[i].st)
    <3>1. CASE mem'[i] = mem[i]
      BY <3>1 DEF Open, TakenBack
    <3>2. CASE \E u \in chg.upd : u[1] = i /\ mem'[i] = u[2]
      BY <2>3, <3>2 DEF Spares, TakenBack
    <3> QED BY <2>1, <2>3, <3>1, <3>2, MemoryAssumption, Writing DEF TakenBack
  <2>4. ASSUME NEW t \in Task, Save(t), Write(task[t].chg) PROVE ~Open(mem'[i].st)
    <3>1. Spares(task[t].chg) /\ task[t].chg \in Chg
      BY <1>1, <2>1, <2>4 DEF IInv, Spared, Save, TaskRow
    <3> QED BY <2>3, <2>4, <3>1
  <2>5. ASSUME ConSave, Write(con.chg) PROVE ~Open(mem'[i].st)
    <3>1. Spares(con.chg) /\ con.chg \in Chg
      BY <1>1, <2>1, <2>5 DEF IInv, Spared, ConSave, ConRow
    <3> QED BY <2>3, <2>5, <3>1
  <2>6. ASSUME NEW j \in Job, NEW c \in Content, ProfileMemory(c, run[j].src)
        PROVE  ~Open(mem'[i].st)
    <3>1. run[j].src \in SUBSET Msg
      BY <2>1 DEF RunRow
    <3> QED BY <1>1, <2>6, <3>1, MemoryAssumption, ProfileWriting DEF IInv, Open, TakenBack
  <2>7. CASE Erasing
    BY <1>1, <2>7, ErasingDoes DEF IInv, Open, TakenBack
  <2>8. CASE UNCHANGED vars
    BY <2>2, <2>8 DEF vars
  <2>9. CASE Next
    BY <1>1, <2>2, <2>4, <2>5, <2>6, <2>7, <2>9, MemoryAssumption, MemSteps DEF IInv
  <2> QED BY <1>1, <2>8, <2>9
<1>2. IInv /\ [Next]_vars => [Stays]_vars
  BY <1>1
<1>3. Spec => [][Stays]_vars
  BY <1>2, Invariant, PTL DEF Spec
<1> QED BY <1>3 DEF ForgottenStays, TakenBack
===============================================================================
