--------------------------- MODULE SocialLearning ---------------------------
(****************************************************************************)
(* What a session teaches: learning runs that read messages, ask a model and *)
(* commit jargon, expressions and behaviours; the behaviours a turn selects, *)
(* the feedback a later message gives on them; the maintenance that lets     *)
(* unused knowledge decay; and the lifecycle operations that hold all those  *)
(* writers off while they erase.                                             *)
(*                                                                          *)
(* A transaction is one step; so is what runs between two awaits.  A score   *)
(* or confidence is a level, inactivity a number of decay periods.           *)
(****************************************************************************)
EXTENDS Naturals, FiniteSets

CONSTANTS Msg,
          Jargon, Expression, Behavior,  \* the items there are to learn
          Run,                           \* ids of learning runs
          Turn,                          \* numbers of turns: Turn \subseteq Nat
          Task,                          \* feedback tasks
          Limit,                         \* selections one evaluation looks at
          MaxAttempts,                   \* feedback_max_attempts
          MaxLevel, Enough,              \* levels; minimum_confidence
          MaxDays, MaxLife, MaxFaults, MaxAsks    \* bounds

Item == Jargon \cup Expression \cup Behavior

VARIABLES
  sess,   \* live, epoch
  msg,    \* "new", "kept" or "gone" (deleted, or behind the recall boundary)
  run,    \* rows of runs: st, ep, src
  job,    \* their tasks: pc, and what the models answered
  row,    \* rows of items: st, ev, level, decay (periods charged), age, infer
  sel,    \* a turn's selection: st, of, re (replied), fu (followed up), tries
  fb,     \* feedback tasks: pc, of (what was listed), say (what was judged), bad
  mt,     \* a maintenance: pc, by, snap (the page it has read)
  turn,   \* the turn that holds the session lock: pc, id
  life,   \* the operation that holds the session lock: pc
  lock,   \* holders of the maintenance, the run and the feedback lock
  left,   \* what the bounds leave
  asked   \* how often a model was asked about a selection (a ghost)

vars == <<sess, msg, run, job, row, sel, fb, mt, turn, life, lock, left, asked>>

Free == "free"
NoRow == [st |-> "none", ev |-> {}, level |-> 0, decay |-> 0, age |-> 0, infer |-> 0]
NoSel == [st |-> "none", of |-> "none", re |-> FALSE, fu |-> FALSE, tries |-> 0]
NoJob == [pc |-> "off", ev |-> [i \in Item |-> {}], up |-> [i \in Item |-> 0]]
NoFb == [pc |-> "off", of |-> {}, say |-> {}, bad |-> FALSE]
NoMt == [pc |-> "off", by |-> "none", snap |-> [i \in Item |-> NoRow], todo |-> {}]

Init ==
  /\ sess = [live |-> TRUE, epoch |-> 1] /\ msg = [m \in Msg |-> "new"]
  /\ run = [r \in Run |-> [st |-> "none", ep |-> 0, src |-> {}]]
  /\ job = [r \in Run |-> NoJob] /\ row = [i \in Item |-> NoRow]
  /\ sel = [t \in Turn |-> NoSel] /\ fb = [f \in Task |-> NoFb] /\ mt = NoMt
  /\ turn = [pc |-> "idle", id |-> 0] /\ life = "idle"
  /\ lock = [maint |-> Free, run |-> Free, fb |-> Free]
  /\ left = [days |-> MaxDays, life |-> MaxLife, faults |-> MaxFaults, asks |-> MaxAsks]
  /\ asked = [t \in Turn |-> 0]

\* A mutant for LearnedFromKept: messages behind the boundary are read as well.
Stored == {m \in Msg : msg[m] \in {"kept", "gone"}}
Kept == {m \in Msg : msg[m] = "kept"}
Clamp(n) == IF n > MaxLevel THEN MaxLevel ELSE n
Less(n, k) == IF n > k THEN n - k ELSE 0

(***************************** learning runs ********************************)
Handled == UNION {run[r].src : r \in {x \in Run : run[x].st \in {"pending", "running", "completed"}}}

CanSave(r) == run[r].st \notin {"none", "gone"} /\ sess.live /\ sess.epoch = run[r].ep
Saved(r, st) == IF CanSave(r) THEN [run EXCEPT ![r].st = st] ELSE run

\* maybe_enqueue, in a turn: what no run has handled is a batch.  (One new
\* message is enough here, minimum_new_user_messages in the code.)
Enqueued(r) ==
  LET src == Kept \ Handled IN
  /\ src # {} /\ run[r].st = "none"
  /\ run' = [run EXCEPT ![r] = [st |-> "pending", ep |-> sess.epoch, src |-> src]]
  /\ job' = [job EXCEPT ![r] = [NoJob EXCEPT !.pc = "wait"]]

Retry(r) ==
  /\ left.asks > 0 /\ left' = [left EXCEPT !.asks = @ - 1]
  /\ run[r].st = "failed" /\ job[r].pc = "off" /\ run[r].src \subseteq Kept
  /\ run' = Saved(r, "pending") /\ job' = [job EXCEPT ![r].pc = "wait"]
  /\ UNCHANGED <<sess, msg, row, sel, fb, mt, turn, life, lock, asked>>

\* _execute_run takes the run lock of the session for as long as it works.
Begin(r) ==
  /\ job[r].pc = "wait" /\ lock.run = Free
  /\ IF CanSave(r) THEN lock' = [lock EXCEPT !.run = r] /\ job' = [job EXCEPT ![r].pc = "ask"]
                   ELSE job' = [job EXCEPT ![r] = NoJob] /\ UNCHANGED lock
  /\ run' = Saved(r, "running")
  /\ UNCHANGED <<sess, msg, row, sel, fb, mt, turn, life, left, asked>>

Leave(r, st) ==
  /\ run' = Saved(r, st) /\ job' = [job EXCEPT ![r] = NoJob]
  /\ lock' = [lock EXCEPT !.run = Free]

\* An inference is due when there is more evidence than at the last one.
Due(i, ev) == Cardinality(row[i].ev \cup ev) > row[i].infer

\* The lessons of the models, from the messages they were shown.  Jargon: found
\* in a message, and a verdict only for what is due.  Patterns: their evidence
\* (of a behaviour two messages; the assistant's is not counted here) and a level.
JargonLesson(i, ev, up) == (ev = {} \/ ~Due(i, ev)) => up = 0
PatternLesson(ev, up) == ev = {} => up = 0

Context == Kept
Lessons(ctx) ==
  {p \in [ev : [Item -> SUBSET ctx], up : [Item -> {0, Enough}]] :
     \A i \in Item : IF i \in Jargon THEN JargonLesson(i, p.ev[i], p.up[i])
                                     ELSE PatternLesson(p.ev[i], p.up[i])}

Ask(r) ==
  /\ job[r].pc = "ask"
  /\ IF ~sess.live THEN Leave(r, "failed")
     ELSE IF sess.epoch # run[r].ep THEN Leave(r, "stale")
     ELSE IF ~(run[r].src \subseteq Kept) THEN Leave(r, "completed")
     ELSE /\ \E p \in Lessons(Context) :
               job' = [job EXCEPT ![r] = [pc |-> "commit", ev |-> p.ev, up |-> p.up]]
          /\ UNCHANGED <<run, lock>>
  /\ UNCHANGED <<sess, msg, row, sel, fb, mt, turn, life, left, asked>>

AskFails(r) ==
  /\ job[r].pc = "ask" /\ left.faults > 0 /\ left' = [left EXCEPT !.faults = @ - 1]
  /\ Leave(r, "failed")
  /\ UNCHANGED <<sess, msg, row, sel, fb, mt, turn, life, asked>>

\* _save_jargon_candidate and _inference, _save_group_expression and
\* _save_behavior_pattern _in_transaction.  Only new evidence counts as activity.
JargonRow(i, ev, up) ==
  LET all == row[i].ev \cup ev
      new == all # row[i].ev
      inferred == Due(i, ev) IN
  [st |-> IF inferred THEN IF up >= Enough THEN "active" ELSE "candidate"
          ELSE IF row[i].st = "none" THEN "candidate" ELSE row[i].st,
   ev |-> all, level |-> IF inferred THEN up ELSE row[i].level,
   decay |-> IF new \/ inferred THEN 0 ELSE row[i].decay,
   age |-> IF new THEN 0 ELSE row[i].age,
   infer |-> IF inferred THEN Cardinality(all) ELSE row[i].infer]

Merged(i, ev, up, level) ==
  LET new == ~(ev \subseteq row[i].ev) IN
  [st |-> IF new THEN IF up >= Enough THEN "active" ELSE "candidate" ELSE row[i].st,
   ev |-> row[i].ev \cup ev, level |-> level, infer |-> 0,
   decay |-> IF new THEN 0 ELSE row[i].decay, age |-> IF new THEN 0 ELSE row[i].age]

\* An expression has the confidence of the best lesson; a behaviour its own score,
\* and new evidence does not bring one back that has failed down to the bottom.
ExpressionRow(i, ev, up) == Merged(i, ev, up, IF row[i].level > up THEN row[i].level ELSE up)
BehaviorRow(i, ev, up) ==
  LET new == Merged(i, ev, up, IF row[i].st = "none" THEN Enough ELSE row[i].level) IN
  IF row[i].st # "none" /\ row[i].level = 0 THEN [new EXCEPT !.st = row[i].st] ELSE new

Learn(i, ev, up) ==
  IF ev = {} THEN row[i]
  ELSE IF i \in Jargon THEN JargonRow(i, ev, up)
  ELSE IF i \in Expression THEN ExpressionRow(i, ev, up) ELSE BehaviorRow(i, ev, up)

Commit(r) ==
  /\ job[r].pc = "commit"
  /\ IF CanSave(r) /\ run[r].src \subseteq Kept
     THEN /\ row' = [i \in Item |-> Learn(i, job[r].ev[i], job[r].up[i])]
          /\ Leave(r, "completed")
     ELSE Leave(r, "stale") /\ UNCHANGED row
  /\ UNCHANGED <<sess, msg, sel, fb, mt, turn, life, left, asked>>

(******************************* feedback ***********************************)
Pending == {t \in Turn : sel[t].st = "pending"}
\* list_pending_behavior_selections: the oldest, whether or not replied to.
Oldest == {t \in Pending : Cardinality({u \in Pending : u < t}) < Limit}
Eligible == {t \in Oldest : sel[t].re /\ sel[t].fu /\ row[sel[t].of].st # "none"}

Evaluate(f) ==
  /\ fb[f].pc = "wait" /\ lock.fb = Free
  /\ IF Eligible = {} THEN fb' = [fb EXCEPT ![f] = NoFb] /\ UNCHANGED lock
     ELSE /\ fb' = [fb EXCEPT ![f] = [pc |-> "ask", of |-> Eligible, say |-> {}, bad |-> FALSE]]
          /\ lock' = [lock EXCEPT !.fb = f]
  /\ UNCHANGED <<sess, msg, run, job, row, sel, mt, turn, life, left, asked>>

Release(f) == fb' = [fb EXCEPT ![f] = NoFb] /\ lock' = [lock EXCEPT !.fb = Free]

\* The model answers some of the selections, perhaps with something invalid
\* behind them: what precedes it has been saved by then.  Or it does not answer.
AskFeedback(f) ==
  /\ fb[f].pc = "ask"
  /\ asked' = [t \in Turn |-> IF t \in fb[f].of THEN asked[t] + 1 ELSE asked[t]]
  /\ \/ /\ left.faults > 0 /\ left' = [left EXCEPT !.faults = @ - 1]
        /\ Release(f)
     \/ \E say \in SUBSET fb[f].of, bad \in BOOLEAN :
          /\ bad => left.faults > 0
          /\ left' = [left EXCEPT !.faults = IF bad THEN @ - 1 ELSE @]
          /\ fb' = [fb EXCEPT ![f] = [pc |-> "save", of |-> @.of \ say, say |-> say, bad |-> bad]]
          /\ UNCHANGED lock
  /\ UNCHANGED <<sess, msg, run, job, row, sel, mt, turn, life>>

\* save_behavior_feedback: one transaction for each; an adopted behaviour with
\* a judgement other than neutral moves, and counts as active.
SaveFeedback(f, t) ==
  /\ fb[f].pc = "save" /\ t \in fb[f].say
  /\ fb' = [fb EXCEPT ![f].say = @ \ {t}]
  /\ IF sel[t].st = "pending"
     THEN /\ sel' = [sel EXCEPT ![t].st = "evaluated", ![t].tries = @ + 1]
          /\ \E level \in {Clamp(row[sel[t].of].level + 1), row[sel[t].of].level,
                           Less(row[sel[t].of].level, 1)} :
               row' = IF level = row[sel[t].of].level THEN row
                      ELSE [row EXCEPT ![sel[t].of] = [@ EXCEPT !.level = level, !.decay = 0, !.age = 0]]
     ELSE UNCHANGED <<sel, row>>
  /\ UNCHANGED <<sess, msg, run, job, mt, turn, life, lock, left, asked>>

Missed(t) ==
  IF sel[t].st # "pending" THEN sel[t]
  ELSE [sel[t] EXCEPT !.tries = @ + 1, !.st = IF sel[t].tries + 1 >= MaxAttempts THEN "expired" ELSE @]

\* record_behavior_feedback_miss for the rest; after an invalid answer for none.
Miss(f) ==
  /\ fb[f].pc = "save" /\ fb[f].say = {}
  /\ sel' = IF fb[f].bad THEN sel ELSE [t \in Turn |-> IF t \in fb[f].of THEN Missed(t) ELSE sel[t]]
  /\ Release(f)
  /\ UNCHANGED <<sess, msg, run, job, row, mt, turn, life, left, asked>>

(****************************** maintenance *********************************)
\* The days that pass; every period one level.
Day ==
  /\ left.days > 0 /\ left' = [left EXCEPT !.days = @ - 1]
  /\ row' = [i \in Item |-> IF row[i].st = "none" THEN row[i] ELSE [row[i] EXCEPT !.age = @ + 1]]
  /\ UNCHANGED <<sess, msg, run, job, sel, fb, mt, turn, life, lock, asked>>

\* A scan by the scheduled task or by the turn: the locks in their order.
StartScan(by) ==
  /\ mt.pc = "off" /\ lock.maint = Free
  /\ mt' = [NoMt EXCEPT !.pc = "run", !.by = by]
  /\ lock' = [lock EXCEPT !.maint = "mt"]

Scheduled ==
  /\ StartScan("task") /\ left.asks > 0 /\ left' = [left EXCEPT !.asks = @ - 1]
  /\ UNCHANGED <<sess, msg, run, job, row, sel, fb, turn, life, asked>>

ScanRun ==
  /\ mt.pc = "run" /\ lock.run = Free
  /\ mt' = [mt EXCEPT !.pc = "fb"] /\ lock' = [lock EXCEPT !.run = "mt"]
  /\ UNCHANGED <<sess, msg, run, job, row, sel, fb, turn, life, left, asked>>

\* A mutant for ReadStillTrue: the feedback lock is not waited for.
ScanAnyway ==
  /\ mt.pc = "fb"
  /\ mt' = [mt EXCEPT !.pc = "page", !.todo = Item]
  /\ UNCHANGED <<sess, msg, run, job, row, sel, fb, turn, life, lock, left, asked>>

ScanFeedback ==
  /\ mt.pc = "fb" /\ lock.fb = Free
  /\ mt' = [mt EXCEPT !.pc = "page", !.todo = Item] /\ lock' = [lock EXCEPT !.fb = "mt"]
  /\ UNCHANGED <<sess, msg, run, job, row, sel, fb, turn, life, left, asked>>

Kind(i) == IF i \in Jargon THEN Jargon ELSE IF i \in Expression THEN Expression ELSE Behavior
PageOf(k) == {i \in k : row[i].st # "none"}

\* One page of one kind is read; the last kind gives the locks back.
ReadPage ==
  /\ mt.pc = "page"
  /\ IF mt.todo = {}
     THEN mt' = NoMt /\ lock' = [maint |-> Free, run |-> Free, fb |-> IF lock.fb = "mt" THEN Free ELSE lock.fb]
     ELSE /\ LET k == CHOOSE k \in {Kind(i) : i \in mt.todo} : TRUE IN
               mt' = [mt EXCEPT !.pc = IF PageOf(k) = {} THEN "page" ELSE "apply",
                                !.snap = [i \in Item |-> IF i \in PageOf(k) THEN row[i] ELSE NoRow],
                                !.todo = @ \ k]
          /\ UNCHANGED lock
  /\ UNCHANGED <<sess, msg, run, job, row, sel, fb, turn, life, left, asked>>

\* _maintain_jargon, _maintain_group_expression, _maintain_behavior.
Target(s) == s.age
Decayed(i, s) ==
  LET level == Less(s.level, Less(Target(s), s.decay))
      weak == IF i \notin Behavior /\ s.st = "active" /\ level < Enough THEN "candidate" ELSE s.st IN
  [st |-> IF level = 0 /\ s.age >= MaxDays THEN "disabled" ELSE weak,
   level |-> level, decay |-> IF s.decay > Target(s) THEN s.decay ELSE Target(s)]

\* apply_social_learning_maintenance: these fields as computed from the page.
Apply ==
  /\ mt.pc = "apply"
  /\ row' = [i \in Item |->
       IF mt.snap[i].st = "none" \/ row[i].st = "none" THEN row[i]
       ELSE LET d == Decayed(i, mt.snap[i]) IN
            [row[i] EXCEPT !.st = d.st, !.level = d.level, !.decay = d.decay]]
  /\ mt' = [mt EXCEPT !.pc = "page", !.snap = NoMt.snap]
  /\ UNCHANGED <<sess, msg, run, job, sel, fb, turn, life, lock, left, asked>>

(********************************* turns ************************************)
\* A turn after the user's message: feedback is scheduled, a batch enqueued,
\* and the context of the reply prepared, maintenance first when it is due.
Next1(t) == t \in Turn /\ sel[t].st = "none" /\ \A u \in Turn : u < t => sel[u].st # "none"

\* A message follows up the last turn that was replied to.
Answered == {t \in Turn : sel[t].re /\ \A u \in Turn : sel[u].re => u <= t}
Receive(m) ==
  /\ turn.pc = "idle" /\ life = "idle" /\ sess.live /\ msg[m] = "new"
  /\ msg' = [msg EXCEPT ![m] = "kept"]
  /\ sel' = [t \in Turn |-> IF t \in Answered THEN [sel[t] EXCEPT !.fu = TRUE] ELSE sel[t]]
  /\ \E t \in Turn : Next1(t) /\ turn' = [pc |-> "begin", id |-> t]
  /\ UNCHANGED <<sess, run, job, row, fb, mt, life, lock, left, asked>>

TurnBegin ==
  /\ turn.pc = "begin" /\ turn' = [turn EXCEPT !.pc = "maintain"]
  /\ IF \E f \in Task : fb[f].pc = "off"
     THEN \E f \in Task : fb[f].pc = "off" /\ fb' = [fb EXCEPT ![f].pc = "wait"]
     ELSE UNCHANGED fb
  /\ IF Kept \subseteq Handled \/ \A r \in Run : run[r].st # "none" THEN UNCHANGED <<run, job>>
     ELSE \E r \in Run : Enqueued(r)
  /\ UNCHANGED <<sess, msg, row, sel, mt, life, lock, left, asked>>

\* run_maintenance of the turn: not due, or a scan that the turn waits for.
TurnMaintain ==
  /\ turn.pc = "maintain" /\ lock.maint = Free
  /\ \/ turn' = [turn EXCEPT !.pc = "select"] /\ UNCHANGED <<mt, lock>>
     \/ turn' = [turn EXCEPT !.pc = "scan"] /\ StartScan("turn")
  /\ UNCHANGED <<sess, msg, run, job, row, sel, fb, life, left, asked>>

TurnScanned ==
  /\ turn.pc = "scan" /\ mt.by # "turn" /\ turn' = [turn EXCEPT !.pc = "select"]
  /\ UNCHANGED <<sess, msg, run, job, row, sel, fb, mt, life, lock, left, asked>>

\* create_behavior_selections, which takes none of the locks.
Selected(t, i) ==
  /\ sel' = [sel EXCEPT ![t] = [NoSel EXCEPT !.st = "pending", !.of = i]]
  /\ row' = [row EXCEPT ![i] = [@ EXCEPT !.decay = 0, !.age = 0]]

\* The rest of prepare_reply_context: a behaviour that fits, or none.
Select ==
  /\ turn.pc = "select" /\ turn' = [turn EXCEPT !.pc = "reply"]
  /\ \/ \E i \in Behavior : row[i].st = "active" /\ Selected(turn.id, i)
     \/ sel' = [sel EXCEPT ![turn.id].st = "nothing"] /\ UNCHANGED row
  /\ UNCHANGED <<sess, msg, run, job, fb, mt, life, lock, left, asked>>

\* record_reply_delivery once the message is committed; or a turn that failed.
Reply ==
  /\ turn.pc = "reply" /\ turn' = [pc |-> "idle", id |-> 0]
  /\ \/ sel' = [sel EXCEPT ![turn.id].re = TRUE]
     \/ left.faults > 0 /\ UNCHANGED sel
  /\ UNCHANGED <<sess, msg, run, job, row, fb, mt, life, lock, left, asked>>

(****************************** the lifecycle *******************************)
LifeBegin ==
  /\ life = "idle" /\ turn.pc = "idle" /\ sess.live
  /\ left.life > 0 /\ left' = [left EXCEPT !.life = @ - 1]
  /\ life' = "advanced" /\ sess' = [sess EXCEPT !.epoch = @ + 1]
  /\ UNCHANGED <<msg, run, job, row, sel, fb, mt, turn, lock, asked>>

Freed == [maint |-> lock.maint, run |-> IF lock.run \in Run THEN Free ELSE lock.run,
          fb |-> IF lock.fb \in Task THEN Free ELSE lock.fb]

\* cancel_session_tasks: a scan belongs to no session.
CancelTasks ==
  /\ life = "advanced" /\ life' = "maint"
  /\ job' = [r \in Run |-> NoJob] /\ fb' = [f \in Task |-> NoFb] /\ lock' = Freed
  /\ UNCHANGED <<sess, msg, run, row, sel, mt, turn, left, asked>>

\* A mutant for Unstuck: the run lock is taken ahead of the maintenance lock.
HoldBackwards ==
  \/ /\ life = "maint" /\ lock.run = Free
     /\ life' = "run" /\ lock' = [lock EXCEPT !.run = "life"]
     /\ UNCHANGED <<sess, msg, run, job, row, sel, fb, mt, turn, left, asked>>
  \/ /\ life = "run" /\ lock.maint = Free
     /\ life' = "fb" /\ lock' = [lock EXCEPT !.maint = "life"]
     /\ UNCHANGED <<sess, msg, run, job, row, sel, fb, mt, turn, left, asked>>
  \/ /\ life = "fb" /\ lock.fb = Free
     /\ life' = "erase" /\ lock' = [lock EXCEPT !.fb = "life"]
     /\ UNCHANGED <<sess, msg, run, job, row, sel, fb, mt, turn, left, asked>>

\* hold_writes.
Hold ==
  /\ \/ life = "maint" /\ lock.maint = Free /\ life' = "run" /\ lock' = [lock EXCEPT !.maint = "life"]
     \/ life = "run" /\ lock.run = Free /\ life' = "fb" /\ lock' = [lock EXCEPT !.run = "life"]
     \/ life = "fb" /\ lock.fb = Free /\ life' = "erase" /\ lock' = [lock EXCEPT !.fb = "life"]
  /\ UNCHANGED <<sess, msg, run, job, row, sel, fb, mt, turn, left, asked>>

\* What clearing the memory, clearing the chat and deleting the session leave.
Erase(op) ==
  /\ life = "erase" /\ life' = "idle"
  /\ msg' = [m \in Msg |-> IF msg[m] = "kept" THEN "gone" ELSE msg[m]]
  /\ run' = [r \in Run |-> [run[r] EXCEPT !.st = IF @ = "none" THEN @ ELSE "gone"]]
  /\ row' = IF op = "chat" THEN [i \in Item |-> [row[i] EXCEPT !.ev = {}]] ELSE [i \in Item |-> NoRow]
  /\ sel' = [t \in Turn |-> IF sel[t].st = "none" THEN NoSel ELSE [NoSel EXCEPT !.st = "gone"]]
  /\ sess' = IF op = "delete" THEN [sess EXCEPT !.live = FALSE] ELSE sess
  /\ lock' = [maint |-> Free, run |-> Free, fb |-> Free]
  /\ UNCHANGED <<job, fb, mt, turn, left, asked>>

\* start() of the next process: a scan, and the unfinished runs again.
Restart ==
  /\ life = "idle" /\ left.faults > 0 /\ left' = [left EXCEPT !.faults = @ - 1]
  /\ turn' = [pc |-> "idle", id |-> 0] /\ fb' = [f \in Task |-> NoFb]
  /\ sel' = IF turn.pc \in {"begin", "maintain", "scan", "select"}
            THEN [sel EXCEPT ![turn.id].st = "nothing"] ELSE sel
  /\ mt' = [NoMt EXCEPT !.pc = "run", !.by = "task"]
  /\ lock' = [maint |-> "mt", run |-> Free, fb |-> Free]
  /\ run' = [r \in Run |-> IF run[r].st \in {"pending", "running"} /\ CanSave(r)
                           THEN [run[r] EXCEPT !.st = "pending"] ELSE run[r]]
  /\ job' = [r \in Run |-> IF run[r].st \in {"pending", "running"}
                           THEN [NoJob EXCEPT !.pc = "wait"] ELSE NoJob]
  /\ UNCHANGED <<sess, msg, row, life, asked>>

Work(r) == Begin(r) \/ Ask(r) \/ Commit(r)
Judge(f) == Evaluate(f) \/ AskFeedback(f) \/ (\E t \in Turn : SaveFeedback(f, t)) \/ Miss(f)
Scan == ScanRun \/ ScanFeedback \/ ReadPage \/ Apply
TurnStep == TurnBegin \/ TurnMaintain \/ TurnScanned \/ Select \/ Reply

Next ==
  \/ \E m \in Msg : Receive(m)
  \/ \E r \in Run : Work(r) \/ AskFails(r) \/ Retry(r)
  \/ \E f \in Task : Judge(f)
  \/ Scheduled \/ Scan \/ Day \/ TurnStep
  \/ LifeBegin \/ CancelTasks \/ Hold \/ \E op \in {"memory", "chat", "delete"} : Erase(op)
  \/ Restart

Spec == Init /\ [][Next]_vars

\* The loop runs what is ready, models answer, and asyncio's locks are FIFO.
FairSpec ==
  /\ Spec /\ WF_vars(Scan) /\ SF_vars(TurnStep) /\ SF_vars(Hold)
  /\ WF_vars(CancelTasks) /\ WF_vars(\E op \in {"memory", "chat", "delete"} : Erase(op))
  /\ \A r \in Run : SF_vars(Work(r))
  /\ \A f \in Task : SF_vars(Judge(f))

(********************************* properties *******************************)
TypeOK ==
  /\ sess \in [live: BOOLEAN, epoch: Nat \ {0}] /\ msg \in [Msg -> {"new", "kept", "gone"}]
  /\ \A i \in Item : /\ row[i].st \in {"none", "candidate", "active", "disabled"}
                      /\ row[i].level \in 0..MaxLevel /\ row[i].ev \subseteq Msg
  /\ \A r \in Run : lock.run = r <=> job[r].pc \in {"ask", "commit"}
  /\ \A f \in Task : lock.fb = f <=> fb[f].pc \in {"ask", "save"}

\* What maintenance writes over a row it has read before: nobody has learned,
\* judged, disabled or erased anything in between.  The fields of the decay are
\* left out: a turn that selects resets them and takes none of the locks, so that
\* a page read before writes its old decay back (see DecayOwed).
ReadStillTrue ==
  mt.pc = "apply" => \A i \in Item : mt.snap[i].st # "none" =>
    /\ row[i].st = mt.snap[i].st /\ row[i].level = mt.snap[i].level
    /\ row[i].ev = mt.snap[i].ev /\ row[i].infer = mt.snap[i].infer

\* After a clearing nothing is known from what lies behind it, whatever models
\* were thinking at the time; and no selection is left of something unknown.
LearnedFromKept ==
  /\ \A i \in Item : row[i].ev \subseteq Kept
  /\ \A t \in Pending : row[sel[t].of].st # "none"

\* A selection is given up only after a model was asked about its reply, and
\* about the message that followed it, as often as the settings say.
ExpiredHeard ==
  \A t \in Turn : sel[t].st = "expired" => sel[t].fu /\ asked[t] >= MaxAttempts

\* The locks of learning, feedback and maintenance are taken in an order in
\* which nobody waits in a circle: while a lifecycle operation or a turn is
\* under way, something of what they wait for can go on.
Unstuck ==
  (life # "idle" \/ turn.pc # "idle") =>
    \/ ENABLED TurnStep \/ ENABLED CancelTasks \/ ENABLED Hold \/ life = "erase"
    \/ ENABLED Scan
    \/ \E r \in Run : lock.run = r /\ ENABLED Work(r)
    \/ \E f \in Task : lock.fb = f /\ ENABLED Judge(f)

\* And so, with the fairness of the loop and its locks, neither waits for ever.
WaitsEnd ==
  /\ life # "idle" ~> life = "idle"
  /\ turn.pc # "idle" ~> turn.pc = "idle"

\* "保留 pending 选择供下一轮有限重试" (social_learning.py:1508): a model is asked
\* about a selection a limited number of times.
FeedbackBounded == \A t \in Turn : asked[t] <= MaxAttempts

\* "衰减周期仍按最后强化时间幂等计算" (api/app.py:568): no more periods are charged
\* than have passed since the last activity.
DecayOwed == \A i \in Item : row[i].decay <= row[i].age

\* Selections that can never be judged do not fill the window of those looked at.
WindowMoves ==
  \A t \in Pending \ Oldest : sel[t].re => \E u \in Oldest : sel[u].re \/ u = turn.id
=============================================================================
