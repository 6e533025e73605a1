-------------------------------- MODULE Memory --------------------------------
(****************************************************************************)
(* The long-term memory of one session and the operations that erase it:    *)
(* archive runs (MemoryService) and profile extractions (ChatService), which *)
(* read messages, ask a model and write much later; the console's remember,  *)
(* forget and correct; clear_memory, clear_chat and delete_session, which    *)
(* advance the session's data epoch, cancel the background tasks and only    *)
(* then erase; crashes, and the restart that takes unfinished runs up again. *)
(*                                                                          *)
(* A database transaction is one step, and so is what runs between two       *)
(* awaits that can disturb each other.  Contents are compared by identity    *)
(* (one subject and one kind).  Messages are ordered by the recall boundary  *)
(* only: before it ("shut") or behind it ("kept").                           *)
(****************************************************************************)
EXTENDS Naturals, FiniteSets

CONSTANTS Msg, Content,
          Archive, Profile,       \* ids of the runs of either kind
          Slot,                   \* tasks that may exist for one run
          Mem,                    \* ids of memory rows
          MaxLife, MaxRetries, MaxCalls, MaxFaults   \* bounds

None == 0
Job == Archive \cup Profile
Task == Job \X Slot

ASSUME MemoryAssumption ==
  /\ None \notin Mem /\ None \notin Content /\ Archive \cap Profile = {}
  /\ {MaxLife, MaxRetries, MaxCalls, MaxFaults} \subseteq Nat /\ Mem \subseteq Nat

VARIABLES
  sess,   \* the session's row: live, epoch
  msg,    \* messages: "new" (not sent), "kept", "shut" or "gone"
  run,    \* rows of runs: st, ep (frozen epoch), src (source messages)
  task,   \* tasks of this process: pc, pay (the model's answer), chg, out
  mem,    \* memory rows: st, c, src, refs (facts it came from)
  fact,   \* profile facts by content: st, src
  lock,   \* holder of the scope's write lock; <<>>: free
  con,    \* the console's call on the memory
  life,   \* the operation that holds the lifecycle and the session lock
  left,   \* what the bounds leave
  era,    \* how many erasing transactions there were (a ghost)
  late    \* a console call has saved rows it read before an erasing (a ghost)

vars == <<sess, msg, run, task, mem, fact, lock, con, life, left, era, late>>

NoRow == [st |-> "none", c |-> None, src |-> {}, refs |-> {}]
NoFact == [st |-> "none", src |-> {}]
NoPay == [c |-> None, sup |-> None, ret |-> None]
NoChg == [upd |-> {}, add |-> {}]
Off == [pc |-> "off", pay |-> NoPay, chg |-> NoChg, out |-> "none"]
Idle == [pc |-> "idle", ep |-> 0, era |-> 0, pay |-> NoPay, chg |-> NoChg]

Init ==
  /\ sess = [live |-> TRUE, epoch |-> 1]
  /\ msg = [m \in Msg |-> "new"]
  /\ run = [j \in Job |-> [st |-> "none", ep |-> 0, src |-> {}]]
  /\ task = [t \in Task |-> Off]
  /\ mem = [i \in Mem |-> NoRow] /\ fact = [c \in Content |-> NoFact]
  /\ lock = <<>> /\ con = Idle /\ life = [pc |-> "idle", op |-> "none"]
  /\ left = [life |-> MaxLife, retries |-> MaxRetries, calls |-> MaxCalls, faults |-> MaxFaults]
  /\ era = 0 /\ late = FALSE

Kept == {m \in Msg : msg[m] = "kept"}
\* messages_are_recallable, and a mutant for NoResurrection: the boundary is not looked at.
StoredOnly(src) == sess.live /\ \A m \in src : msg[m] \in {"kept", "shut"}
Recallable(src) == sess.live /\ src \subseteq Kept
Open(st) == st \in {"active", "conflicted"}
Recoverable(j) == run[j].st \in {"pending", "running"}

\* _require_current_data_epoch.
Current(ep) == sess.live /\ sess.epoch = ep

\* A run's row is saved only under its frozen epoch, and never inserted again.
CanSave(j) == run[j].st # "none" /\ run[j].st # "gone" /\ Current(run[j].ep)
SaveRun(j, st) ==
  run' = IF CanSave(j) THEN [run EXCEPT ![j] = [st |-> st, ep |-> @.ep, src |-> @.src]] ELSE run

Goto(t, pc) == task' = [task EXCEPT ![t] = [pc |-> pc, pay |-> @.pay, chg |-> @.chg, out |-> @.out]]
Leave(t, out) == task' = [task EXCEPT ![t] = [pc |-> "end", pay |-> NoPay, chg |-> NoChg, out |-> out]]

(*************************** messages and turns *****************************)
\* ingest: under the lifecycle lock.
Receive(m) ==
  /\ life.pc = "idle" /\ sess.live /\ msg[m] = "new"
  /\ msg' = [msg EXCEPT ![m] = "kept"]
  /\ UNCHANGED <<sess, run, task, mem, fact, lock, con, life, left, era, late>>

\* A turn, under the session lock, creates the runs for messages it has consumed:
\* an archive run in the turn's transaction, a profile's right after it, with its task.
Enqueue(j, src) ==
  /\ life.pc = "idle" /\ run[j].st = "none"
  /\ src # {} /\ Recallable(src)
  /\ run' = [run EXCEPT ![j] = [st |-> "pending", ep |-> sess.epoch, src |-> src]]
  /\ IF j \in Archive THEN UNCHANGED task
     ELSE \E k \in Slot : task' = [task EXCEPT ![<<j, k>>] = [Off EXCEPT !.pc = "wait"]]
  /\ UNCHANGED <<sess, msg, mem, fact, lock, con, life, left, era, late>>

\* Only at its end does the turn, or the manual retry of it, start the archive run.
\* It need not get there: an exception or a cancellation in between leaves the run.
Start(j, k) ==
  /\ life.pc = "idle"
  /\ j \in Archive /\ run[j].st = "pending" /\ task[j, k].pc = "off"
  /\ task' = [task EXCEPT ![<<j, k>>] = [Off EXCEPT !.pc = "wait"]]
  /\ UNCHANGED <<sess, msg, run, mem, fact, lock, con, life, left, era, late>>

\* retry_consolidation, retry_extraction: no lock at all; a save that is
\* refused does not keep the task from being made.
Retry(j, k) ==
  /\ run[j].st \in {"failed", "pending"} /\ task[j, k].pc = "off"
  /\ left.retries > 0 /\ left' = [left EXCEPT !.retries = @ - 1]
  /\ SaveRun(j, "pending")
  /\ task' = [task EXCEPT ![<<j, k>>] = [Off EXCEPT !.pc = "wait"]]
  /\ UNCHANGED <<sess, msg, mem, fact, lock, con, life, era, late>>

(******************************** both runs *********************************)
\* The tasks of an archive run take a lock per run; those of a profile do not.
Begin(t) ==
  LET j == t[1] IN
  /\ task[t].pc = "wait"
  /\ j \in Archive => \A k \in Slot : task[j, k].pc \in {"off", "wait"}
  /\ IF j \in Archive /\ run[j].st \in {"completed", "gone"}
     THEN task' = [task EXCEPT ![t] = Off] /\ UNCHANGED run
     ELSE SaveRun(j, "running") /\ Goto(t, "ask")
  /\ UNCHANGED <<sess, msg, mem, fact, lock, con, life, left, era, late>>

\* What the checks in front of the model call find; "ok": the model is asked.
Verdict(j) ==
  IF ~sess.live THEN "failed"
  ELSE IF j \in Archive /\ sess.epoch # run[j].ep THEN "stale"
  ELSE IF ~Recallable(run[j].src) THEN "completed"
  ELSE "ok"

\* The model's answers that pass validation: a candidate, one that replaces a
\* memory it was shown, the retraction of one; a profile has one fact.
Answers(j) ==
  LET shown == {i \in Mem : mem[i].st = "active"} IN
  {[c |-> c, sup |-> None, ret |-> None] : c \in Content}
  \cup IF j \in Profile THEN {}
       ELSE {[c |-> c, sup |-> i, ret |-> None] : c \in Content, i \in shown}
            \cup {[c |-> None, sup |-> None, ret |-> i] : i \in shown}

Ask(t) ==
  LET j == t[1] IN
  /\ task[t].pc = "ask"
  /\ \/ Verdict(j) # "ok" /\ Leave(t, Verdict(j))
     \/ /\ Verdict(j) = "ok"
        /\ \E p \in Answers(j) :
             task' = [task EXCEPT ![t] = [pc |-> "answered", pay |-> p, chg |-> NoChg, out |-> "none"]]
  /\ UNCHANGED <<sess, msg, run, mem, fact, lock, con, life, left, era, late>>

\* The model fails, or its answer does not pass.
AskFails(t) ==
  /\ task[t].pc = "ask" /\ Verdict(t[1]) = "ok"
  /\ left.faults > 0 /\ left' = [left EXCEPT !.faults = @ - 1]
  /\ Leave(t, "failed")
  /\ UNCHANGED <<sess, msg, run, mem, fact, lock, con, life, era, late>>

\* finally: the status is saved if the epoch still allows it.
End(t) ==
  /\ task[t].pc = "end"
  /\ SaveRun(t[1], task[t].out)
  /\ task' = [task EXCEPT ![t] = Off]
  /\ UNCHANGED <<sess, msg, mem, fact, lock, con, life, left, era, late>>

(**************************** the write owner *******************************)
ActiveOf(c) == {i \in Mem : mem[i].st = "active" /\ mem[i].c = c}
With(row, st, src, refs) == [st |-> st, c |-> row.c, src |-> row.src \cup src, refs |-> row.refs \cup refs]

\* The equivalent memory that is found: one of them, if there is any.
Equivalent(c) == IF ActiveOf(c) = {} THEN {{}} ELSE {{i} : i \in ActiveOf(c)}

\* Reinforce the equivalent memory eq or add one, replace, retract: the rows as they
\* are to be saved, whole.  Also _remember_unlocked and forget.
Staged(pay, src, eq) ==
  LET gone == IF pay.sup = None THEN {} ELSE {<<pay.sup, With(mem[pay.sup], "superseded", {}, {})>>}
      cut == IF pay.ret = None THEN {} ELSE {<<pay.ret, With(mem[pay.ret], "retracted", {}, {})>>}
  IN [upd |-> gone \cup cut \cup {<<i, With(mem[i], "active", src, {})>> : i \in eq},
      add |-> IF pay.c = None \/ eq # {} THEN {}
              ELSE {[st |-> "active", c |-> pay.c, src |-> src, refs |-> {}]}]

\* The checks under the lock: what is to go is still there, and nothing is to be
\* replaced by itself.
Stageable(pay, eq) ==
  /\ pay.sup # None => Open(mem[pay.sup].st) /\ pay.sup \notin eq
  /\ pay.ret # None => Open(mem[pay.ret].st)

\* The batch is written in one transaction; a row that is not there is inserted.
FreeId == CHOOSE i \in Mem : mem[i].st = "none" /\ \A k \in Mem : k < i => mem[k].st # "none"
Write(chg) ==
  /\ chg.add # {} => \E i \in Mem : mem[i].st = "none"     \* bound: ids
  /\ mem' = [i \in Mem |->
       IF \E u \in chg.upd : u[1] = i THEN (CHOOSE u \in chg.upd : u[1] = i)[2]
       ELSE IF chg.add # {} /\ i = FreeId THEN CHOOSE r \in chg.add : TRUE
       ELSE mem[i]]

Stage(t) ==
  LET j == t[1]  pay == task[t].pay IN
  /\ j \in Archive /\ task[t].pc = "answered"
  /\ IF ~sess.live \/ sess.epoch # run[j].ep THEN Leave(t, "stale") /\ UNCHANGED lock
     ELSE /\ lock = <<>>
          /\ \E eq \in Equivalent(pay.c) :
               IF Recallable(run[j].src) /\ Stageable(pay, eq)
               THEN /\ lock' = t
                    /\ task' = [task EXCEPT ![t] =
                         [pc |-> "save", pay |-> NoPay, chg |-> Staged(pay, run[j].src, eq),
                          out |-> "none"]]
               ELSE Leave(t, "failed") /\ UNCHANGED lock
  /\ UNCHANGED <<sess, msg, run, mem, fact, con, life, left, era, late>>

Save(t) ==
  /\ task[t].pc = "save" /\ lock' = <<>>
  /\ IF Current(run[t[1]].ep) THEN Write(task[t].chg) /\ Leave(t, "completed")
     ELSE Leave(t, IF sess.live THEN "stale" ELSE "failed") /\ UNCHANGED mem
  /\ UNCHANGED <<sess, msg, run, fact, con, life, left, era, late>>

(******************************* the profile ********************************)
\* commit_profile_extraction: one transaction, and no write lock.  A fact with
\* another content of its category makes both conflicted, and with them the
\* memories that came from them; else the memory of the fact is reinforced or made.
OtherFacts(c) == {d \in Content \ {c} : fact[d].st # "none"}
Clash(c) == fact[c].st = "conflicted" \/ (fact[c].st = "none" /\ OtherFacts(c) # {})

ProfileFacts(c, src) ==
  [d \in Content |->
     IF d = c THEN [st |-> IF Clash(c) THEN "conflicted" ELSE "active", src |-> fact[c].src \cup src]
     ELSE IF fact[c].st = "none" /\ d \in OtherFacts(c) THEN [st |-> "conflicted", src |-> fact[d].src]
     ELSE fact[d]]

ProfileMemory(c, src) ==
  IF Clash(c)
  THEN LET bad == {d \in Content : ProfileFacts(c, src)[d].st = "conflicted"} IN
       mem' = [i \in Mem |-> IF Open(mem[i].st) /\ mem[i].refs \cap bad # {}
                             THEN With(mem[i], "conflicted", {}, {}) ELSE mem[i]]
  ELSE Write([upd |-> {<<i, With(mem[i], "active", fact[c].src \cup src, {c})>> : i \in ActiveOf(c)},
              add |-> IF ActiveOf(c) # {} THEN {}
                      ELSE {[st |-> "active", c |-> c, src |-> fact[c].src \cup src, refs |-> {c}]}])

Commit(t) ==
  LET j == t[1]  c == task[t].pay.c  src == run[j].src IN
  /\ j \in Profile /\ task[t].pc = "answered"
  /\ IF ~CanSave(j) THEN Leave(t, IF sess.live THEN "stale" ELSE "failed") /\ UNCHANGED <<run, mem, fact>>
     ELSE IF ~Recallable(src) THEN Leave(t, "stale") /\ UNCHANGED <<run, mem, fact>>
     ELSE IF ~Clash(c) /\ Cardinality(ActiveOf(c)) > 1 THEN Leave(t, "failed") /\ UNCHANGED <<run, mem, fact>>
     ELSE /\ fact' = ProfileFacts(c, src) /\ ProfileMemory(c, src)
          /\ SaveRun(j, "completed") /\ Leave(t, "completed")
  /\ UNCHANGED <<sess, msg, lock, con, life, left, era, late>>

(******************************* the console ********************************)
\* The endpoints and the tools: a snapshot of the session, then the write lock.
Call(pay) ==
  /\ sess.live /\ con.pc = "idle"
  /\ left.calls > 0 /\ left' = [left EXCEPT !.calls = @ - 1]
  /\ con' = [pc |-> "lock", ep |-> sess.epoch, era |-> 0, pay |-> pay, chg |-> NoChg]
  /\ UNCHANGED <<sess, msg, run, task, mem, fact, lock, life, era, late>>

Remember(c) == Call([c |-> c, sup |-> None, ret |-> None])
Forget(i) == mem[i].st # "none" /\ Call([c |-> None, sup |-> None, ret |-> i])
Correct(i, c) == mem[i].st # "none" /\ mem[i].c # c /\ Call([c |-> c, sup |-> i, ret |-> None])

\* A mutant for ForgottenStays: the call does not wait for the lock.
ConStageAnyway ==
  /\ con.pc = "lock"
  /\ \E eq \in Equivalent(con.pay.c) :
       IF Current(con.ep) /\ Stageable(con.pay, eq)
       THEN con' = [con EXCEPT !.pc = "save", !.pay = NoPay, !.chg = Staged(con.pay, {}, eq),
                               !.era = era]
       ELSE con' = Idle
  /\ UNCHANGED <<sess, msg, run, task, mem, fact, lock, life, left, era, late>>

ConStage ==
  /\ con.pc = "lock" /\ lock = <<>>
  /\ \E eq \in Equivalent(con.pay.c) :
       IF Current(con.ep) /\ Stageable(con.pay, eq)
       THEN /\ con' = [con EXCEPT !.pc = "save", !.pay = NoPay, !.chg = Staged(con.pay, {}, eq),
                                  !.era = era]
            /\ lock' = <<"console">>
       ELSE con' = Idle /\ UNCHANGED lock
  /\ UNCHANGED <<sess, msg, run, task, mem, fact, life, left, era, late>>

ConSave ==
  /\ con.pc = "save" /\ con' = Idle /\ lock' = <<>>
  /\ IF Current(con.ep)
     THEN Write(con.chg) /\ late' = (late \/ con.era # era)
     ELSE UNCHANGED <<mem, late>>
  /\ UNCHANGED <<sess, msg, run, task, fact, life, left, era>>

(******************************* the lifecycle ******************************)
\* With the lifecycle and the session lock: the epoch moves on, by itself.
LifeBegin(op) ==
  /\ life.pc = "idle" /\ sess.live
  /\ left.life > 0 /\ left' = [left EXCEPT !.life = @ - 1]
  /\ life' = [pc |-> "advanced", op |-> op]
  /\ sess' = [sess EXCEPT !.epoch = @ + 1]
  /\ UNCHANGED <<msg, run, task, mem, fact, lock, con, era, late>>

\* Cancel the tasks and wait for them.  What their finalizers save is refused,
\* the epoch having moved on: a cancelled task just ends.
CancelTasks ==
  /\ life.pc = "advanced" /\ life' = [life EXCEPT !.pc = "drained"]
  /\ task' = [t \in Task |-> Off]
  /\ lock' = IF lock \in Task THEN <<>> ELSE lock
  /\ UNCHANGED <<sess, msg, run, mem, fact, con, left, era, late>>

\* The erasing transactions.  clear_memory alone waits for the write lock.
Erased == [j \in Job |-> [run[j] EXCEPT !.st = IF @ = "none" THEN @ ELSE "gone"]]

ClearMemory ==
  /\ life.pc = "drained" /\ life.op = "memory" /\ lock = <<>>
  /\ msg' = [m \in Msg |-> IF msg[m] = "kept" THEN "shut" ELSE msg[m]]
  /\ run' = Erased
  /\ mem' = [i \in Mem |-> NoRow] /\ fact' = [c \in Content |-> NoFact]
  /\ life' = [pc |-> "idle", op |-> "none"]
  /\ era' = era + 1
  /\ UNCHANGED <<sess, task, lock, con, left, late>>

ClearChat ==
  /\ life.pc = "drained" /\ life.op = "chat"
  /\ msg' = [m \in Msg |-> IF msg[m] = "new" THEN "new" ELSE "gone"]
  /\ run' = Erased
  /\ mem' = [i \in Mem |-> [mem[i] EXCEPT !.src = {}, !.refs = {}]]
  /\ fact' = [c \in Content |-> [fact[c] EXCEPT !.src = {}]]
  /\ life' = [pc |-> "idle", op |-> "none"]
  /\ era' = era + 1
  /\ UNCHANGED <<sess, task, lock, con, left, late>>

DeleteSession ==
  /\ life.pc = "drained" /\ life.op = "delete"
  /\ sess' = [sess EXCEPT !.live = FALSE]
  /\ msg' = [m \in Msg |-> IF msg[m] = "new" THEN "new" ELSE "gone"]
  /\ run' = Erased
  /\ mem' = [i \in Mem |-> NoRow] /\ fact' = [c \in Content |-> NoFact]
  /\ life' = [pc |-> "idle", op |-> "none"]
  /\ era' = era + 1
  /\ UNCHANGED <<task, lock, con, left, late>>

\* An exception between the advance and the erasing: nothing is erased.
LifeFails ==
  /\ life.pc \in {"advanced", "drained"}
  /\ left.faults > 0 /\ left' = [left EXCEPT !.faults = @ - 1]
  /\ life' = [pc |-> "idle", op |-> "none"]
  /\ UNCHANGED <<sess, msg, run, task, mem, fact, lock, con, era, late>>

\* The id of a session is a hash of its route: the same chat gets it again, and
\* its epochs begin at 1 again.
CreateSession ==
  /\ life.pc = "idle" /\ ~sess.live
  /\ sess' = [live |-> TRUE, epoch |-> 1]
  /\ UNCHANGED <<msg, run, task, mem, fact, lock, con, life, left, era, late>>

(****************************** crash and start *****************************)
\* A mutant for RunsEnd: runs that were RUNNING are not taken up.
PendingOnly(j) == run[j].st = "pending"

\* Everything in memory is lost; start() makes the unfinished runs pending,
\* where the epoch allows it, and gives each a task.
TakenUp(j) == Recoverable(j)
Restart ==
  /\ left.faults > 0 /\ left' = [left EXCEPT !.faults = @ - 1]
  /\ lock' = <<>> /\ con' = Idle /\ life' = [pc |-> "idle", op |-> "none"]
  /\ run' = [j \in Job |-> IF TakenUp(j) /\ CanSave(j) THEN [run[j] EXCEPT !.st = "pending"] ELSE run[j]]
  /\ \E k \in Slot : task' = [t \in Task |->
       IF t[2] = k /\ TakenUp(t[1]) THEN [Off EXCEPT !.pc = "wait"] ELSE Off]
  /\ UNCHANGED <<sess, msg, mem, fact, era, late>>

Step(t) == Begin(t) \/ Ask(t) \/ Stage(t) \/ Save(t) \/ Commit(t) \/ End(t)

Next ==
  \/ \E m \in Msg : Receive(m)
  \/ \E j \in Job, src \in SUBSET Msg : Enqueue(j, src)
  \/ \E j \in Job, k \in Slot : Start(j, k) \/ Retry(j, k)
  \/ \E t \in Task : Step(t) \/ AskFails(t)
  \/ \E c \in Content : Remember(c)
  \/ \E i \in Mem : Forget(i) \/ \E c \in Content : Correct(i, c)
  \/ ConStage \/ ConSave
  \/ \E op \in {"memory", "chat", "delete"} : LifeBegin(op)
  \/ CancelTasks \/ ClearMemory \/ ClearChat \/ DeleteSession \/ LifeFails
  \/ CreateSession \/ Restart

\* The event loop runs what is ready and models answer; nobody has to call, no turn
\* has to reach the start of its archive run, and a lifecycle operation that has
\* begun may fail.  The write lock is FIFO.
Spec == Init /\ [][Next]_vars
FairSpec == Spec /\ (\A t \in Task : SF_vars(Step(t))) /\ WF_vars(ConSave)

(********************************* properties *******************************)
TypeOK ==
  /\ sess \in [live: BOOLEAN, epoch: Nat \ {0}]
  /\ msg \in [Msg -> {"new", "kept", "shut", "gone"}]
  /\ \A j \in Job : run[j].st \in {"none", "pending", "running", "completed", "failed", "stale", "gone"}
  /\ \A i \in Mem : mem[i].st \in {"none", "active", "conflicted", "superseded", "retracted"}
  /\ lock = <<"console">> <=> con.pc = "save"
  /\ \A t \in Task : lock = t <=> task[t].pc = "save"

\* However long a model takes and whatever is cleared, deleted, re-created or
\* restarted meanwhile, no memory and no fact comes from a message that the
\* user has put behind the recall boundary or deleted.  (A console call that saves
\* what it read before an erasing is another matter: see ScrubbedStays.)
NoResurrection ==
  ~late => /\ \A i \in Mem : mem[i].src \subseteq Kept
          /\ \A c \in Content : fact[c].src \subseteq Kept

\* Nothing of a deleted session stays behind or is written after it.
NoOrphans ==
  ~sess.live => /\ \A i \in Mem : mem[i].st = "none"
                /\ \A c \in Content : fact[c].st = "none"
                /\ \A j \in Job : run[j].st \in {"none", "gone"}

\* A memory that the user or a run took back or replaced never counts again,
\* whatever was reading or writing it at the time.
ForgottenStays ==
  [][\A i \in Mem : mem[i].st \in {"retracted", "superseded"} => ~Open(mem'[i].st)]_vars

\* A run that was started, by its turn, by a retry or by the start of the process,
\* and is not overtaken by a lifecycle operation comes to an end, through crashes,
\* retries and failures of the model.  (A run that its turn left unstarted waits for
\* one of these.)
Live(j) == Recoverable(j) /\ Current(run[j].ep)
Begun(j) == run[j].st = "running" \/ \E k \in Slot : task[j, k].pc # "off"
RunsEnd == \A j \in Job : Live(j) /\ Begun(j) ~> ~Live(j)

\* "同一可见域串行写入，使“查重→增强/替代→保存”成为单一状态转换" (memory.py:842): two
\* active memories never have the same identity.
OneActive == \A c \in Content : Cardinality(ActiveOf(c)) <= 1

\* "等待用户通过可审计纠正确定新版本" (memory.py:708): a memory in conflict does not
\* become active by itself.
ConflictStands ==
  [][\A i \in Mem : mem[i].st = "conflicted" => mem'[i].st # "active"]_vars

\* "拒绝 clear/delete 前冻结的 Session 快照继续产生长期记忆副作用" (memory.py:1427),
\* and "移除消息 ID、Run ID 等来源引用" (lifecycle.py:165): no memory names a message
\* that is gone.
ScrubbedStays == \A i \in Mem : mem[i].src \subseteq Kept
===============================================================================
