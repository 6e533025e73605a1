--------------------------- MODULE BackgroundProofs ---------------------------
(***************************************************************************)
(* What the parts composed in MCBackground keep, for any messages, runs,    *)
(* sessions, feeds, patterns, expressions, delays and bounds.  Each part    *)
(* has an inductive invariant of its own; the end composes them.            *)
(***************************************************************************)
EXTENDS MCBackground, TLAPS, FiniteSetTheorems, SequenceTheorems

(****************************************************************************)
(* SocialLearning: what the locks of a session keep apart                   *)
(****************************************************************************)

\* The values of the variables: a row of what is learned, a selection, a run, an
\* evaluation, a scan of maintenance, a turn, and who holds the locks.
Lesson == [st : {"none", "candidate", "active", "disabled"}, ev : SUBSET Msg, level : Nat, decay : Nat,
           age : Nat, infer : Nat]
Choice == [st : {"none", "nothing", "pending", "evaluated", "expired", "gone"}, of : Behavior \cup {"none"},
           re : BOOLEAN, fu : BOOLEAN, tries : Nat]
Job == [pc : {"off", "wait", "ask", "commit"}, ev : [Social!Item -> SUBSET Msg], up : [Social!Item -> Nat]]
Judging == [pc : {"off", "wait", "ask", "save"}, of : SUBSET Turn, say : SUBSET Turn, bad : BOOLEAN]
Scanning == [pc : {"off", "run", "fb", "page", "apply"}, by : {"none", "task", "turn"},
             snap : [Social!Item -> Lesson], todo : SUBSET Social!Item]
Turning == [pc : {"idle", "begin", "maintain", "scan", "select", "reply"}, id : Turn \cup {0}]
Locks == [maint : {"free", "mt", "life"}, run : {"free", "mt", "life"} \cup Run,
          fb : {"free", "mt", "life"} \cup Task]

\* The types of the state.
SocialTypes ==
  /\ row \in [Social!Item -> Lesson] /\ sel \in [Turn -> Choice] /\ job \in [Run -> Job]
  /\ fb \in [Task -> Judging] /\ mt \in Scanning /\ turn \in Turning /\ lock \in Locks
  /\ msg \in [Msg -> {"new", "kept", "gone"}] /\ asked \in [Turn -> Nat]
  /\ life \in {"idle", "advanced", "maint", "run", "fb", "erase"}

\* Whoever works holds the locks of the work, and with them all that come
\* before; no operation is under way while a turn is.
LocksHeld ==
  /\ mt.pc # "off" => lock.maint = "mt"
  /\ mt.pc \in {"fb", "page", "apply"} => lock.run = "mt"
  /\ mt.pc \in {"page", "apply"} => lock.fb = "mt"
  /\ life \in {"run", "fb", "erase"} => lock.maint = "life"
  /\ life \in {"fb", "erase"} => lock.run = "life"
  /\ life = "erase" => lock.fb = "life"
  /\ \A r \in Run : job[r].pc \in {"ask", "commit"} => lock.run = r
  /\ \A f \in Task : fb[f].pc \in {"ask", "save"} => lock.fb = f
  /\ life # "idle" => turn.pc = "idle"

\* What was learned, and what a run is about to write, is from messages that
\* are kept; what was selected is a behaviour that is known.
FromKept ==
  /\ \A i \in Social!Item : row[i].ev \subseteq Social!Kept
  /\ \A r \in Run : job[r].pc = "commit" => \A i \in Social!Item : job[r].ev[i] \subseteq Social!Kept
  /\ \A t \in Turn : sel[t].st = "pending" => sel[t].of \in Behavior /\ row[sel[t].of].st # "none"

\* A selection was asked about as often as it was tried, and once more while
\* an answer is being saved; only one that was followed up is asked about.
HeardOf ==
  /\ \A t \in Turn : /\ sel[t].st = "pending" => asked[t] >= sel[t].tries
                     /\ sel[t].st = "expired" => sel[t].fu /\ asked[t] >= MaxAttempts
  /\ \A f \in Task : fb[f].pc \in {"ask", "save"} => \A t \in fb[f].of \cup fb[f].say :
       /\ sel[t].st # "none"
       /\ sel[t].st = "pending" => sel[t].fu
       /\ fb[f].pc = "save" /\ sel[t].st = "pending" => asked[t] >= sel[t].tries + 1
  /\ turn.pc \in {"begin", "maintain", "scan", "select"} => turn.id \in Turn /\ sel[turn.id].st = "none"

\* The inductive invariant of social learning.
SocialInv == SocialTypes /\ LocksHeld /\ Social!ReadStillTrue /\ FromKept /\ HeardOf

\* The records of nothing are of their types.
LEMMA BlankTypes ==
  /\ Social!NoRow \in Lesson /\ Social!NoSel \in Choice /\ Social!NoJob \in Job /\ Social!NoFb \in Judging
  /\ Social!NoMt \in Scanning
  /\ \A p \in {"run", "fb", "page"}, b \in {"task", "turn"} : [Social!NoMt EXCEPT !.pc = p, !.by = b] \in Scanning
BY DEF Social!NoRow, Social!NoSel, Social!NoJob, Social!NoFb, Social!NoMt, Lesson, Choice, Job, Judging, Scanning

\* No message came, and no lock is held, at first.
LEMMA SocialInit == Social!Init => SocialInv
<1> SUFFICES ASSUME Social!Init PROVE SocialInv
  OBVIOUS
<1>1. SocialTypes
  BY BlankTypes DEF Social!Init, SocialTypes, Turning, Locks, Social!Free
<1>2. LocksHeld
  BY DEF Social!Init, LocksHeld, Social!NoJob, Social!NoFb, Social!NoMt
<1>3. Social!ReadStillTrue
  BY DEF Social!Init, Social!ReadStillTrue, Social!NoMt
<1>4. FromKept
  BY DEF Social!Init, FromKept, Social!NoRow, Social!NoJob, Social!NoSel
<1>5. HeardOf
  BY DEF Social!Init, HeardOf, Social!NoSel, Social!NoFb
<1> QED BY <1>1, <1>2, <1>3, <1>4, <1>5 DEF SocialInv

(***************************** learning runs ********************************)

\* One task goes on with its run; the run lock is with it or free after it.
LEMMA JobGoesOn ==
  ASSUME SocialInv, NEW r \in Run, NEW j \in Job, job' = [job EXCEPT ![r] = j],
         lock' \in {lock, [lock EXCEPT !.run = r], [lock EXCEPT !.run = "free"]},
         lock' # lock => lock.run \in {"free", r},
         j.pc \in {"ask", "commit"} => lock'.run = r,
         j.pc = "commit" => \A i \in Social!Item : j.ev[i] \subseteq Social!Kept,
         UNCHANGED <<msg, row, sel, fb, mt, turn, life, asked>>
  PROVE  SocialInv'
<1>1. SocialTypes /\ LocksHeld /\ job \in [Run -> Job] /\ lock \in Locks
  BY DEF SocialInv, SocialTypes
<1>2. job' \in [Run -> Job] /\ job'[r] = j /\ \A q \in Run \ {r} : job'[q] = job[q]
  BY <1>1
<1>3. lock' \in Locks /\ lock'.maint = lock.maint /\ lock'.fb = lock.fb /\ lock'.run \in {lock.run, r, "free"}
  BY <1>1 DEF Locks
<1>4. lock'.run # lock.run => lock.run \in {"free", r}
  OBVIOUS
<1>5. "mt" \notin Run /\ "life" \notin Run /\ "free" \notin Run
  BY BackgroundAssumption
<1>6. SocialTypes'
  BY <1>1, <1>2, <1>3 DEF SocialTypes
<1>7. LocksHeld'
  BY <1>1, <1>2, <1>3, <1>4, <1>5 DEF LocksHeld
<1>8. Social!ReadStillTrue' /\ HeardOf'
  BY DEF SocialInv, Social!ReadStillTrue, HeardOf
<1>9. FromKept'
  BY <1>2 DEF SocialInv, FromKept, Social!Kept
<1> QED BY <1>6, <1>7, <1>8, <1>9 DEF SocialInv

\* A run that ends gives its lock back.
LEMMA LeaveKeeps ==
  ASSUME SocialInv, NEW r \in Run, job[r].pc \in {"ask", "commit"}, NEW s, Social!Leave(r, s),
         UNCHANGED <<msg, row, sel, fb, mt, turn, life, asked>>
  PROVE  SocialInv'
<1>1. lock.run = r
  BY DEF SocialInv, LocksHeld
<1>2. job' = [job EXCEPT ![r] = Social!NoJob] /\ lock' = [lock EXCEPT !.run = "free"]
  BY DEF Social!Leave, Social!Free
<1>3. Social!NoJob.pc = "off" /\ Social!NoJob \in Job
  BY BlankTypes DEF Social!NoJob
<1> QED BY <1>1, <1>2, <1>3, JobGoesOn

\* A learning run takes its lock, and asks the model about messages that are kept.
LEMMA RunKeeps ==
  ASSUME SocialInv, NEW r \in Run, Social!Begin(r) \/ Social!Ask(r) \/ Social!AskFails(r) \/ Social!Retry(r)
  PROVE  SocialInv'
<1>0. job[r] \in Job
  BY DEF SocialInv, SocialTypes
<1>1. CASE Social!Begin(r)
  <2>1. [job[r] EXCEPT !.pc = "ask"] \in Job /\ [job[r] EXCEPT !.pc = "ask"].pc = "ask"
    BY <1>0 DEF Job
  <2>2. lock.run = "free" /\ UNCHANGED <<msg, row, sel, fb, mt, turn, life, asked>>
    BY <1>1 DEF Social!Begin, Social!Free
  <2>3. CASE Social!CanSave(r)
    <3>1. lock' = [lock EXCEPT !.run = r] /\ job' = [job EXCEPT ![r] = [job[r] EXCEPT !.pc = "ask"]]
      BY <1>1, <2>3 DEF Social!Begin
    <3>2. lock'.run = r
      BY <3>1 DEF SocialInv, SocialTypes, Locks
    <3> QED BY <2>1, <2>2, <3>1, <3>2, JobGoesOn
  <2>4. CASE ~Social!CanSave(r)
    <3>1. lock' = lock /\ job' = [job EXCEPT ![r] = Social!NoJob]
      BY <1>1, <2>4 DEF Social!Begin
    <3>2. Social!NoJob.pc = "off" /\ Social!NoJob \in Job
      BY BlankTypes DEF Social!NoJob
    <3> QED BY <2>2, <3>1, <3>2, JobGoesOn
  <2> QED BY <2>3, <2>4
<1>2. CASE Social!Ask(r)
  <2>1. job[r].pc = "ask" /\ UNCHANGED <<msg, row, sel, fb, mt, turn, life, asked>>
    BY <1>2 DEF Social!Ask
  <2>2. ASSUME NEW p \in Social!Lessons(Social!Context), lock' = lock,
               job' = [job EXCEPT ![r] = [pc |-> "commit", ev |-> p.ev, up |-> p.up]]
        PROVE  SocialInv'
    <3>1. /\ p.ev \in [Social!Item -> SUBSET Social!Kept] /\ p.up \in [Social!Item -> {0, Enough}]
          /\ Social!Kept \subseteq Msg
      BY DEF Social!Lessons, Social!Context, Social!Kept
    <3> DEFINE j == [pc |-> "commit", ev |-> p.ev, up |-> p.up]
    <3>2. j \in Job /\ j.pc = "commit" /\ \A i \in Social!Item : j.ev[i] \subseteq Social!Kept
      BY <3>1, BackgroundAssumption DEF Job
    <3>3. lock'.run = r
      BY <2>1, <2>2 DEF SocialInv, LocksHeld
    <3> HIDE DEF j
    <3>4. job' = [job EXCEPT ![r] = j]
      BY <2>2 DEF j
    <3> QED BY <2>1, <2>2, <3>2, <3>3, <3>4, JobGoesOn
  <2>3. \/ \E s : Social!Leave(r, s)
        \/ lock' = lock /\ \E p \in Social!Lessons(Social!Context) :
             job' = [job EXCEPT ![r] = [pc |-> "commit", ev |-> p.ev, up |-> p.up]]
    BY <1>2 DEF Social!Ask
  <2> QED BY <2>1, <2>2, <2>3, LeaveKeeps
<1>3. CASE Social!AskFails(r)
  BY <1>3, LeaveKeeps DEF Social!AskFails
<1>4. CASE Social!Retry(r)
  <2>1. [job[r] EXCEPT !.pc = "wait"] \in Job /\ [job[r] EXCEPT !.pc = "wait"].pc = "wait"
    BY <1>0 DEF Job
  <2>2. /\ job' = [job EXCEPT ![r] = [job[r] EXCEPT !.pc = "wait"]]
        /\ UNCHANGED <<msg, row, sel, fb, mt, turn, life, asked, lock>>
    BY <1>4 DEF Social!Retry
  <2> QED BY <2>1, <2>2, JobGoesOn
<1> QED BY <1>1, <1>2, <1>3, <1>4

\* What is learned of an item is a row; known items stay known.
LEMMA Learnt ==
  ASSUME SocialInv, NEW i \in Social!Item, NEW ev \in SUBSET Msg, NEW more \in Nat
  PROVE  /\ Social!Learn(i, ev, more) \in Lesson
         /\ Social!Learn(i, ev, more).ev \subseteq row[i].ev \cup ev
         /\ row[i].st # "none" => Social!Learn(i, ev, more).st # "none"
<1>1. row[i] \in Lesson /\ row[i].ev \subseteq Msg
  BY DEF SocialInv, SocialTypes, Lesson
<1>2. Enough \in Nat /\ Cardinality(row[i].ev \cup ev) \in Nat /\ Social!Cardinality(row[i].ev \cup ev) \in Nat
  <2>1. IsFiniteSet(row[i].ev \cup ev)
    BY <1>1, BackgroundAssumption, FS_Subset
  <2>2. Cardinality(row[i].ev \cup ev) \in Nat
    BY <2>1, FS_CardinalityType
  <2>3. Social!Cardinality(row[i].ev \cup ev) = Cardinality(row[i].ev \cup ev)
    BY DEF Cardinality, Social!Cardinality
  <2> QED BY <2>2, <2>3, BackgroundAssumption
<1>3. /\ Social!JargonRow(i, ev, more) \in Lesson
      /\ Social!JargonRow(i, ev, more).ev = row[i].ev \cup ev /\ Social!JargonRow(i, ev, more).st # "none"
  BY <1>1, <1>2 DEF Social!JargonRow, Lesson
<1>4. ASSUME NEW level \in Nat
      PROVE  /\ Social!Merged(i, ev, more, level) \in Lesson
             /\ Social!Merged(i, ev, more, level).ev = row[i].ev \cup ev
             /\ row[i].st # "none" => Social!Merged(i, ev, more, level).st # "none"
  BY <1>1, <1>2 DEF Social!Merged, Lesson
<1>5. /\ Social!ExpressionRow(i, ev, more) \in Lesson
      /\ Social!ExpressionRow(i, ev, more).ev = row[i].ev \cup ev
      /\ row[i].st # "none" => Social!ExpressionRow(i, ev, more).st # "none"
  <2>1. (IF row[i].level > more THEN row[i].level ELSE more) \in Nat
    BY <1>1 DEF Lesson
  <2> QED BY <1>4, <2>1 DEF Social!ExpressionRow
<1>6. /\ Social!BehaviorRow(i, ev, more) \in Lesson
      /\ Social!BehaviorRow(i, ev, more).ev = row[i].ev \cup ev
      /\ row[i].st # "none" => Social!BehaviorRow(i, ev, more).st # "none"
  <2> DEFINE new == Social!Merged(i, ev, more, IF row[i].st = "none" THEN Enough ELSE row[i].level)
  <2>1. (IF row[i].st = "none" THEN Enough ELSE row[i].level) \in Nat
    BY <1>1, <1>2 DEF Lesson
  <2>2. new \in Lesson /\ new.ev = row[i].ev \cup ev /\ (row[i].st # "none" => new.st # "none")
    BY <1>4, <2>1
  <2>3. Social!BehaviorRow(i, ev, more) =
          IF row[i].st # "none" /\ row[i].level = 0 THEN [new EXCEPT !.st = row[i].st] ELSE new
    BY DEF Social!BehaviorRow
  <2> HIDE DEF new
  <2> QED BY <1>1, <2>2, <2>3 DEF Lesson
<1> QED BY <1>1, <1>3, <1>5, <1>6 DEF Social!Learn

\* A run commits only what is from messages that are kept.
LEMMA CommitKeeps == ASSUME SocialInv, NEW r \in Run, Social!Commit(r) PROVE SocialInv'
<1>0. /\ job[r].pc = "commit" /\ job[r] \in Job /\ row \in [Social!Item -> Lesson]
      /\ lock.run = r /\ r \notin {"mt", "life", "free"}
      /\ UNCHANGED <<msg, sel, fb, mt, turn, life, asked>>
  BY BackgroundAssumption DEF SocialInv, SocialTypes, LocksHeld, Social!Commit
<1>1. CASE UNCHANGED row
  BY <1>0, <1>1, LeaveKeeps DEF Social!Commit
<1>2. CASE ~UNCHANGED row
  <2>1. /\ row' = [i \in Social!Item |-> Social!Learn(i, job[r].ev[i], job[r].up[i])]
        /\ job' = [job EXCEPT ![r] = Social!NoJob] /\ lock' = [lock EXCEPT !.run = "free"]
    BY <1>2 DEF Social!Commit, Social!Leave, Social!Free
  <2>2. ASSUME NEW i \in Social!Item
        PROVE  /\ row'[i] \in Lesson /\ row'[i].ev \subseteq row[i].ev \cup job[r].ev[i]
               /\ row[i].st # "none" => row'[i].st # "none"
    <3>1. job[r].ev[i] \in SUBSET Msg /\ job[r].up[i] \in Nat
      BY <1>0 DEF Job
    <3> QED BY <2>1, <3>1, Learnt
  <2>3. Social!NoJob \in Job /\ Social!NoJob.pc = "off"
    BY BlankTypes DEF Social!NoJob
  <2>4. job' \in [Run -> Job] /\ \A q \in Run : job'[q].pc \in {"ask", "commit"} => q # r /\ job'[q] = job[q]
    BY <2>1, <2>3 DEF SocialInv, SocialTypes
  <2>5. lock' \in Locks /\ lock'.run = "free" /\ lock'.maint = lock.maint /\ lock'.fb = lock.fb
    BY <2>1 DEF SocialInv, SocialTypes, Locks
  <2>6. SocialTypes'
    <3>1. row' \in [Social!Item -> Lesson]
      BY <2>1, <2>2
    <3> QED BY <1>0, <2>4, <2>5, <3>1 DEF SocialInv, SocialTypes
  <2>7. mt.pc \notin {"fb", "page", "apply"} /\ life \notin {"fb", "erase"}
    BY <1>0 DEF SocialInv, LocksHeld
  <2>8. LocksHeld'
    BY <1>0, <2>4, <2>5, <2>7 DEF SocialInv, LocksHeld
  <2>9. Social!ReadStillTrue'
    BY <1>0, <2>7 DEF Social!ReadStillTrue
  <2>10. FromKept'
    <3>1. \A i \in Social!Item : row[i].ev \subseteq Social!Kept /\ job[r].ev[i] \subseteq Social!Kept
      BY <1>0 DEF SocialInv, FromKept
    <3>2. Social!Kept' = Social!Kept
      BY <1>0 DEF Social!Kept
    <3>3. \A i \in Social!Item : row'[i].ev \subseteq Social!Kept
      BY <2>2, <3>1
    <3>4. Behavior \subseteq Social!Item
      BY DEF Social!Item
    <3> QED BY <1>0, <2>2, <2>4, <3>2, <3>3, <3>4 DEF SocialInv, FromKept
  <2>11. HeardOf'
    BY <1>0 DEF SocialInv, HeardOf
  <2> QED BY <2>6, <2>8, <2>9, <2>10, <2>11 DEF SocialInv
<1> QED BY <1>1, <1>2

(******************************* feedback ***********************************)

\* Nobody else judges while a task does.
LEMMA OneJudge ==
  ASSUME SocialInv, NEW f \in Task, fb[f].pc \in {"ask", "save"}
  PROVE  /\ lock.fb = f /\ mt.pc \notin {"page", "apply"} /\ life # "erase"
         /\ \A g \in Task \ {f} : fb[g].pc \notin {"ask", "save"}
BY BackgroundAssumption DEF SocialInv, LocksHeld

\* A step of one task that leaves the rows alone.
LEMMA JudgeGoesOn ==
  ASSUME SocialInv, NEW f \in Task, NEW j \in Judging, fb' = [fb EXCEPT ![f] = j],
         lock' \in {lock, [lock EXCEPT !.fb = f], [lock EXCEPT !.fb = "free"]},
         lock' # lock => lock.fb \in {"free", f},
         j.pc \in {"ask", "save"} => lock'.fb = f,
         UNCHANGED <<msg, row, job, mt, turn, life>>,
         sel' \in [Turn -> Choice], asked' \in [Turn -> Nat],
         \A t \in Turn : sel'[t].st = "pending" => sel[t].st = "pending" /\ sel'[t].of = sel[t].of,
         HeardOf'
  PROVE  SocialInv'
<1>1. SocialTypes /\ LocksHeld /\ fb \in [Task -> Judging] /\ lock \in Locks
  BY DEF SocialInv, SocialTypes
<1>2. fb' \in [Task -> Judging] /\ fb'[f] = j /\ \A g \in Task \ {f} : fb'[g] = fb[g]
  BY <1>1
<1>3. lock' \in Locks /\ lock'.maint = lock.maint /\ lock'.run = lock.run /\ lock'.fb \in {lock.fb, f, "free"}
  BY <1>1 DEF Locks
<1>4. lock'.fb # lock.fb => lock.fb \in {"free", f}
  OBVIOUS
<1>5. "mt" \notin Task /\ "life" \notin Task /\ "free" \notin Task
  BY BackgroundAssumption
<1>6. SocialTypes'
  BY <1>1, <1>2, <1>3 DEF SocialTypes
<1>7. LocksHeld'
  BY <1>1, <1>2, <1>3, <1>4, <1>5 DEF LocksHeld
<1>8. Social!ReadStillTrue'
  BY DEF SocialInv, Social!ReadStillTrue
<1>9. FromKept'
  BY DEF SocialInv, FromKept, Social!Kept
<1> QED BY <1>6, <1>7, <1>8, <1>9 DEF SocialInv

\* A task that begins to evaluate asks only about selections somebody followed up.
LEMMA EvaluateKeeps == ASSUME SocialInv, NEW f \in Task, Social!Evaluate(f) PROVE SocialInv'
<1>0. /\ sel \in [Turn -> Choice] /\ asked \in [Turn -> Nat] /\ lock \in Locks /\ fb \in [Task -> Judging]
      /\ lock.fb = "free"
  BY DEF SocialInv, SocialTypes, Social!Evaluate, Social!Free
<1>1. UNCHANGED <<sel, asked, msg, row, job, mt, turn, life>>
  BY DEF Social!Evaluate
<1>2. CASE Social!Eligible = {}
  <2>1. fb' = [fb EXCEPT ![f] = Social!NoFb] /\ lock' = lock
    BY <1>2 DEF Social!Evaluate
  <2>2. Social!NoFb \in Judging /\ Social!NoFb.pc = "off"
    BY BlankTypes DEF Social!NoFb
  <2>3. HeardOf'
    BY <1>0, <1>1, <2>1, <2>2 DEF SocialInv, HeardOf
  <2> QED BY <1>0, <1>1, <2>1, <2>2, <2>3, JudgeGoesOn
<1>3. CASE Social!Eligible # {}
  <2> DEFINE j == [pc |-> "ask", of |-> Social!Eligible, say |-> {}, bad |-> FALSE]
  <2>1. Social!Eligible \subseteq Turn /\ \A t \in Social!Eligible : sel[t].st = "pending" /\ sel[t].fu
    BY DEF Social!Eligible, Social!Oldest, Social!Pending
  <2>2. j \in Judging /\ j.pc = "ask" /\ j.of = Social!Eligible /\ j.say = {}
    BY <2>1 DEF Judging
  <2>3. fb' = [fb EXCEPT ![f] = j] /\ lock' = [lock EXCEPT !.fb = f]
    BY <1>3 DEF Social!Evaluate
  <2> HIDE DEF j
  <2>4. lock'.fb = f
    BY <1>0, <2>3 DEF Locks
  <2>5. HeardOf'
    BY <1>0, <1>1, <2>1, <2>2, <2>3 DEF SocialInv, HeardOf
  <2> QED BY <1>0, <1>1, <2>2, <2>3, <2>4, <2>5, JudgeGoesOn
<1> QED BY <1>2, <1>3

\* A task asks the model about selections that are still pending.
LEMMA AskFeedbackKeeps == ASSUME SocialInv, NEW f \in Task, Social!AskFeedback(f) PROVE SocialInv'
<1>0. /\ sel \in [Turn -> Choice] /\ asked \in [Turn -> Nat] /\ lock \in Locks /\ fb \in [Task -> Judging]
      /\ fb[f] \in Judging /\ fb[f].pc = "ask" /\ lock.fb = f
      /\ \A g \in Task \ {f} : fb[g].pc \notin {"ask", "save"}
  BY OneJudge DEF SocialInv, SocialTypes, Social!AskFeedback
<1>1. /\ UNCHANGED <<sel, msg, row, job, mt, turn, life>>
      /\ asked' = [t \in Turn |-> IF t \in fb[f].of THEN asked[t] + 1 ELSE asked[t]]
  BY DEF Social!AskFeedback
<1>2. asked' \in [Turn -> Nat] /\ \A t \in Turn : asked'[t] >= asked[t]
  BY <1>0, <1>1
<1>3. ASSUME NEW j \in Judging, fb' = [fb EXCEPT ![f] = j], j.pc \in {"off", "save"}, j.of \cup j.say \subseteq fb[f].of
      PROVE  HeardOf'
  <2>1. fb'[f] = j /\ \A g \in Task \ {f} : fb'[g] = fb[g]
    BY <1>0, <1>3
  <2>2. \A t \in Turn : sel[t].tries \in Nat /\ asked[t] \in Nat
    BY <1>0 DEF Choice
  <2>3. ASSUME NEW t \in j.of \cup j.say
        PROVE  sel[t].st # "none" /\ (sel[t].st = "pending" => sel[t].fu /\ asked'[t] >= sel[t].tries + 1)
    <3>1. t \in fb[f].of /\ t \in Turn
      BY <1>0, <1>3, <2>3 DEF Judging
    <3>2. asked'[t] = asked[t] + 1
      BY <1>1, <3>1
    <3> QED BY <1>0, <2>2, <3>1, <3>2 DEF SocialInv, HeardOf
  <2>4. \A t \in Turn : /\ sel[t].st = "pending" => asked'[t] >= sel[t].tries
                        /\ sel[t].st = "expired" => sel[t].fu /\ asked'[t] >= MaxAttempts
    BY <1>2, <2>2, BackgroundAssumption DEF SocialInv, HeardOf
  <2>5. turn.pc \in {"begin", "maintain", "scan", "select"} => turn.id \in Turn /\ sel[turn.id].st = "none"
    BY DEF SocialInv, HeardOf
  <2> QED BY <1>0, <1>1, <1>3, <2>1, <2>3, <2>4, <2>5 DEF HeardOf
<1>4. CASE Social!Release(f)
  <2>1. fb' = [fb EXCEPT ![f] = Social!NoFb] /\ lock' = [lock EXCEPT !.fb = "free"]
    BY <1>4 DEF Social!Release, Social!Free
  <2>2. Social!NoFb \in Judging /\ Social!NoFb.pc = "off" /\ Social!NoFb.of \cup Social!NoFb.say = {}
    BY BlankTypes DEF Social!NoFb
  <2>3. HeardOf'
    BY <1>3, <2>1, <2>2
  <2> QED BY <1>0, <1>1, <1>2, <2>1, <2>2, <2>3, JudgeGoesOn
<1>5. ASSUME NEW say \in SUBSET fb[f].of, NEW bad \in BOOLEAN, lock' = lock,
             fb' = [fb EXCEPT ![f] = [pc |-> "save", of |-> fb[f].of \ say, say |-> say, bad |-> bad]]
      PROVE  SocialInv'
  <2> DEFINE j == [pc |-> "save", of |-> fb[f].of \ say, say |-> say, bad |-> bad]
  <2>1. j \in Judging /\ j.pc = "save" /\ j.of \cup j.say \subseteq fb[f].of
    BY <1>0 DEF Judging
  <2> HIDE DEF j
  <2>2. fb' = [fb EXCEPT ![f] = j]
    BY <1>5 DEF j
  <2>3. HeardOf'
    BY <1>3, <2>1, <2>2
  <2> QED BY <1>0, <1>1, <1>2, <1>5, <2>1, <2>2, <2>3, JudgeGoesOn
<1>6. \/ Social!Release(f)
      \/ lock' = lock /\ \E say \in SUBSET fb[f].of, bad \in BOOLEAN :
           fb' = [fb EXCEPT ![f] = [pc |-> "save", of |-> fb[f].of \ say, say |-> say, bad |-> bad]]
  BY DEF Social!AskFeedback
<1> QED BY <1>4, <1>5, <1>6

\* An answer that says nothing of a selection is counted, and the last one expires it.
LEMMA MissKeeps == ASSUME SocialInv, NEW f \in Task, Social!Miss(f) PROVE SocialInv'
<1>0. /\ sel \in [Turn -> Choice] /\ asked \in [Turn -> Nat] /\ lock \in Locks /\ fb \in [Task -> Judging]
      /\ fb[f] \in Judging /\ fb[f].pc = "save" /\ lock.fb = f
      /\ \A g \in Task \ {f} : fb[g].pc \notin {"ask", "save"}
  BY OneJudge DEF SocialInv, SocialTypes, Social!Miss
<1>1. /\ UNCHANGED <<asked, msg, row, job, mt, turn, life>>
      /\ sel' = IF fb[f].bad THEN sel ELSE [t \in Turn |-> IF t \in fb[f].of THEN Social!Missed(t) ELSE sel[t]]
      /\ fb' = [fb EXCEPT ![f] = Social!NoFb] /\ lock' = [lock EXCEPT !.fb = "free"]
  BY DEF Social!Miss, Social!Release, Social!Free
<1>2. Social!NoFb \in Judging /\ Social!NoFb.pc = "off"
  BY BlankTypes DEF Social!NoFb
<1>3. ASSUME NEW t \in Turn
      PROVE  /\ sel'[t] \in Choice /\ (sel[t].st = "none" <=> sel'[t].st = "none")
             /\ sel'[t].st = "pending" => sel[t].st = "pending" /\ sel'[t].of = sel[t].of /\ asked[t] >= sel'[t].tries
             /\ sel'[t].st = "expired" => sel'[t].fu /\ asked[t] >= MaxAttempts
  <2>1. sel[t] \in Choice /\ asked[t] \in Nat
    BY <1>0
  <2>2. CASE sel'[t] = sel[t]
    BY <2>1, <2>2 DEF SocialInv, HeardOf
  <2>3. CASE t \in fb[f].of /\ sel'[t] = Social!Missed(t) /\ sel[t].st = "pending"
    <3>1. sel[t].fu /\ asked[t] >= sel[t].tries + 1
      BY <1>0, <2>3 DEF SocialInv, HeardOf
    <3>2. sel'[t] = [sel[t] EXCEPT !.tries = sel[t].tries + 1,
                                   !.st = IF sel[t].tries + 1 >= MaxAttempts THEN "expired" ELSE sel[t].st]
      BY <2>3 DEF Social!Missed
    <3>3. sel[t].tries \in Nat /\ sel[t].tries + 1 \in Nat
      BY <2>1 DEF Choice
    <3>4. CASE sel[t].tries + 1 >= MaxAttempts
      <4>1. sel'[t] = [sel[t] EXCEPT !.tries = sel[t].tries + 1, !.st = "expired"]
        BY <3>2, <3>4
      <4>2. sel'[t] \in Choice /\ sel'[t].st = "expired" /\ sel'[t].fu = sel[t].fu
        BY <2>1, <3>3, <4>1 DEF Choice
      <4>3. asked[t] >= MaxAttempts
        BY <2>1, <3>1, <3>3, <3>4, BackgroundAssumption
      <4> QED BY <2>3, <3>1, <4>2, <4>3
    <3>5. CASE ~(sel[t].tries + 1 >= MaxAttempts)
      <4>1. sel'[t] = [sel[t] EXCEPT !.tries = sel[t].tries + 1, !.st = "pending"]
        BY <2>3, <3>2, <3>5
      <4>2. /\ sel'[t] \in Choice /\ sel'[t].st = "pending" /\ sel'[t].of = sel[t].of
            /\ sel'[t].tries = sel[t].tries + 1
        BY <2>1, <3>3, <4>1 DEF Choice
      <4> QED BY <2>3, <3>1, <4>2
    <3> QED BY <3>4, <3>5
  <2>4. sel'[t] = sel[t] \/ (t \in fb[f].of /\ sel'[t] = Social!Missed(t) /\ sel[t].st = "pending")
    BY <1>1 DEF Social!Missed
  <2> QED BY <2>2, <2>3, <2>4
<1>4. sel' \in [Turn -> Choice]
  BY <1>0, <1>1, <1>3
<1>5. HeardOf'
  <2>1. \A g \in Task : fb'[g].pc \notin {"ask", "save"}
    BY <1>0, <1>1, <1>2
  <2> QED BY <1>1, <1>3, <2>1 DEF SocialInv, HeardOf
<1> QED BY <1>0, <1>1, <1>2, <1>3, <1>4, <1>5, JudgeGoesOn

\* What an answer says is saved on the selections it was asked about.
LEMMA SaveFeedbackKeeps ==
  ASSUME SocialInv, NEW f \in Task, NEW t \in Turn, Social!SaveFeedback(f, t) PROVE SocialInv'
<1>0. /\ sel \in [Turn -> Choice] /\ asked \in [Turn -> Nat] /\ fb \in [Task -> Judging]
      /\ row \in [Social!Item -> Lesson]
      /\ fb[f] \in Judging /\ fb[f].pc = "save" /\ lock.fb = f /\ t \in fb[f].say
      /\ \A g \in Task \ {f} : fb[g].pc \notin {"ask", "save"}
      /\ mt.pc \notin {"page", "apply"}
      /\ UNCHANGED <<msg, run, job, mt, turn, life, lock, left, asked>>
  BY OneJudge DEF SocialInv, SocialTypes, Social!SaveFeedback
<1> DEFINE j == [fb[f] EXCEPT !.say = fb[f].say \ {t}]
<1>1. j \in Judging /\ j.pc = "save" /\ j.of \cup j.say \subseteq fb[f].of \cup fb[f].say
  BY <1>0 DEF Judging
<1>2. fb' = [fb EXCEPT ![f] = j]
  BY DEF Social!SaveFeedback
<1> HIDE DEF j
<1>3. fb' \in [Task -> Judging] /\ fb'[f] = j /\ \A g \in Task \ {f} : fb'[g] = fb[g]
  BY <1>0, <1>1, <1>2
<1>4. /\ sel' \in [Turn -> Choice]
      /\ \A u \in Turn : /\ sel'[u].st = "none" <=> sel[u].st = "none"
                         /\ sel'[u].st \in {"pending", "expired"} => sel'[u] = sel[u]
  <2>1. CASE sel[t].st = "pending"
    <3> DEFINE c == [sel[t] EXCEPT !.st = "evaluated", !.tries = sel[t].tries + 1]
    <3>1. c \in Choice /\ c.st = "evaluated"
      <4>1. sel[t] \in Choice
        BY <1>0
      <4>2. sel[t].tries + 1 \in Nat
        BY <4>1 DEF Choice
      <4> QED BY <4>1, <4>2 DEF Choice
    <3>2. sel' = [sel EXCEPT ![t] = c]
      BY <2>1 DEF Social!SaveFeedback
    <3> HIDE DEF c
    <3> QED BY <1>0, <2>1, <3>1, <3>2
  <2>2. CASE sel[t].st # "pending"
    BY <1>0, <2>2 DEF Social!SaveFeedback
  <2> QED BY <2>1, <2>2
<1>5. /\ row' \in [Social!Item -> Lesson]
      /\ \A i \in Social!Item : row'[i].st = row[i].st /\ row'[i].ev = row[i].ev
  <2>1. CASE UNCHANGED row
    BY <1>0, <2>1
  <2>2. CASE ~UNCHANGED row
    <3> DEFINE b == sel[t].of
    <3>1. sel[t].st = "pending"
      BY <2>2 DEF Social!SaveFeedback
    <3>2. b \in Social!Item /\ row[b] \in Lesson /\ row[b].level \in Nat
      BY <1>0, <3>1 DEF SocialInv, FromKept, Social!Item, Lesson
    <3>3. PICK level \in {Social!Clamp(row[b].level + 1), row[b].level, Social!Less(row[b].level, 1)} :
             row' = IF level = row[b].level THEN row
                    ELSE [row EXCEPT ![b] = [row[b] EXCEPT !.level = level, !.decay = 0, !.age = 0]]
      BY <3>1 DEF Social!SaveFeedback
    <3>4. level \in Nat
      BY <3>2, BackgroundAssumption DEF Social!Clamp, Social!Less
    <3>5. row' = [row EXCEPT ![b] = [row[b] EXCEPT !.level = level, !.decay = 0, !.age = 0]]
      BY <2>2, <3>3
    <3> DEFINE n == [row[b] EXCEPT !.level = level, !.decay = 0, !.age = 0]
    <3>6. n \in Lesson /\ n.st = row[b].st /\ n.ev = row[b].ev
      BY <3>2, <3>4 DEF Lesson
    <3>7. row' = [row EXCEPT ![b] = n]
      BY <3>5
    <3> HIDE DEF n, b
    <3> QED BY <1>0, <3>2, <3>6, <3>7
  <2> QED BY <2>1, <2>2
<1>6. SocialTypes'
  BY <1>0, <1>3, <1>4, <1>5 DEF SocialInv, SocialTypes
<1>7. LocksHeld'
  BY <1>0, <1>1, <1>3 DEF SocialInv, LocksHeld
<1>8. Social!ReadStillTrue'
  BY <1>0 DEF Social!ReadStillTrue
<1>9. FromKept'
  <2>1. Behavior \subseteq Social!Item /\ Social!Kept' = Social!Kept
    BY <1>0 DEF Social!Item, Social!Kept
  <2> QED BY <1>0, <1>4, <1>5, <2>1 DEF SocialInv, FromKept
<1>10. HeardOf'
  <2>1. ASSUME NEW u \in j.of \cup j.say
        PROVE  /\ sel'[u].st # "none"
               /\ sel'[u].st = "pending" => sel'[u].fu /\ asked[u] >= sel'[u].tries + 1
    <3>1. u \in fb[f].of \cup fb[f].say /\ u \in Turn
      BY <1>0, <1>1, <2>1 DEF Judging
    <3> QED BY <1>0, <1>4, <3>1 DEF SocialInv, HeardOf
  <2>2. \A u \in Turn : /\ sel'[u].st = "pending" => asked[u] >= sel'[u].tries
                        /\ sel'[u].st = "expired" => sel'[u].fu /\ asked[u] >= MaxAttempts
    BY <1>4 DEF SocialInv, HeardOf
  <2>3. turn.pc \in {"begin", "maintain", "scan", "select"} => turn.id \in Turn /\ sel'[turn.id].st = "none"
    BY <1>4 DEF SocialInv, HeardOf
  <2> QED BY <1>0, <1>3, <2>1, <2>2, <2>3 DEF HeardOf
<1> QED BY <1>6, <1>7, <1>8, <1>9, <1>10 DEF SocialInv

(****************************** maintenance *********************************)

\* A step of a scan, or of a turn, that writes neither rows nor selections.
LEMMA ScanGoesOn ==
  ASSUME SocialInv, mt' \in Scanning, lock' \in Locks, LocksHeld', Social!ReadStillTrue',
         turn' \in Turning,
         turn'.pc \in {"begin", "maintain", "scan", "select"} =>
           turn'.id = turn.id /\ turn.pc \in {"begin", "maintain", "scan", "select"},
         UNCHANGED <<msg, row, sel, fb, job, life, asked>>
  PROVE  SocialInv'
<1>1. SocialTypes'
  BY DEF SocialInv, SocialTypes
<1>2. FromKept'
  BY DEF SocialInv, FromKept, Social!Kept
<1>3. HeardOf'
  BY DEF SocialInv, HeardOf
<1> QED BY <1>1, <1>2, <1>3 DEF SocialInv

\* A maintenance begins under its lock.
LEMMA ScanStarts ==
  ASSUME SocialInv, NEW by \in {"task", "turn"}, Social!StartScan(by),
         turn' \in Turning, turn'.pc # "idle" => turn.pc # "idle",
         turn'.pc \in {"begin", "maintain", "scan", "select"} =>
           turn'.id = turn.id /\ turn.pc \in {"begin", "maintain", "scan", "select"},
         UNCHANGED <<msg, row, sel, fb, job, life, asked>>
  PROVE  SocialInv'
<1>1. /\ mt' = [Social!NoMt EXCEPT !.pc = "run", !.by = by] /\ lock.maint = "free" /\ lock \in Locks
      /\ lock' = [lock EXCEPT !.maint = "mt"]
  BY DEF Social!StartScan, Social!Free, SocialInv, SocialTypes
<1>2. mt' \in Scanning /\ mt'.pc = "run"
  BY <1>1, BlankTypes DEF Social!NoMt
<1>3. lock' \in Locks /\ lock'.maint = "mt" /\ lock'.run = lock.run /\ lock'.fb = lock.fb
  BY <1>1 DEF Locks
<1>4. LocksHeld'
  BY <1>1, <1>2, <1>3 DEF SocialInv, LocksHeld
<1>5. Social!ReadStillTrue'
  BY <1>2 DEF Social!ReadStillTrue
<1> QED BY <1>2, <1>3, <1>4, <1>5, ScanGoesOn

\* Maintenance takes its locks one after the other, and reads rows under all of them.
LEMMA ScanKeeps ==
  ASSUME SocialInv, Social!Scheduled \/ Social!ScanRun \/ Social!ScanFeedback \/ Social!ReadPage PROVE SocialInv'
<1>0. /\ mt \in Scanning /\ lock \in Locks /\ turn \in Turning /\ LocksHeld /\ row \in [Social!Item -> Lesson]
  BY DEF SocialInv, SocialTypes
<1>1. CASE Social!Scheduled
  BY <1>0, <1>1, ScanStarts DEF Social!Scheduled
<1>2. CASE Social!ScanRun
  <2>1. /\ mt.pc = "run" /\ lock.run = "free" /\ mt' = [mt EXCEPT !.pc = "fb"] /\ lock' = [lock EXCEPT !.run = "mt"]
        /\ UNCHANGED <<msg, row, sel, fb, job, life, asked, turn>>
    BY <1>2 DEF Social!ScanRun, Social!Free
  <2>2. mt' \in Scanning /\ mt'.pc = "fb" /\ lock' \in Locks
        /\ lock'.maint = lock.maint /\ lock'.run = "mt" /\ lock'.fb = lock.fb
    BY <1>0, <2>1 DEF Scanning, Locks
  <2>3. "free" \notin Run
    BY BackgroundAssumption
  <2>4. LocksHeld'
    BY <1>0, <2>1, <2>2, <2>3 DEF LocksHeld
  <2>5. Social!ReadStillTrue'
    BY <2>2 DEF Social!ReadStillTrue
  <2> QED BY <1>0, <2>1, <2>2, <2>4, <2>5, ScanGoesOn
<1>3. CASE Social!ScanFeedback
  <2>1. /\ mt.pc = "fb" /\ lock.fb = "free" /\ mt' = [mt EXCEPT !.pc = "page", !.todo = Social!Item]
        /\ lock' = [lock EXCEPT !.fb = "mt"]
        /\ UNCHANGED <<msg, row, sel, fb, job, life, asked, turn>>
    BY <1>3 DEF Social!ScanFeedback, Social!Free
  <2>2. mt' \in Scanning /\ mt'.pc = "page" /\ lock' \in Locks
        /\ lock'.maint = lock.maint /\ lock'.run = lock.run /\ lock'.fb = "mt"
    BY <1>0, <2>1 DEF Scanning, Locks
  <2>3. "free" \notin Task
    BY BackgroundAssumption
  <2>4. LocksHeld'
    BY <1>0, <2>1, <2>2, <2>3 DEF LocksHeld
  <2>5. Social!ReadStillTrue'
    BY <2>2 DEF Social!ReadStillTrue
  <2> QED BY <1>0, <2>1, <2>2, <2>4, <2>5, ScanGoesOn
<1>4. CASE Social!ReadPage
  <2>1. mt.pc = "page" /\ UNCHANGED <<msg, row, sel, fb, job, life, asked, turn>>
    BY <1>4 DEF Social!ReadPage
  <2>2. lock.maint = "mt" /\ lock.run = "mt" /\ lock.fb = "mt"
    BY <1>0, <2>1 DEF LocksHeld
  <2>3. CASE mt.todo = {}
    <3>1. mt' = Social!NoMt /\ lock' = [maint |-> "free", run |-> "free", fb |-> "free"]
      BY <1>4, <2>2, <2>3 DEF Social!ReadPage, Social!Free
    <3>2. mt' \in Scanning /\ mt'.pc = "off" /\ lock' \in Locks
      BY <3>1, BlankTypes DEF Social!NoMt, Locks
    <3>3. \A r \in Run : job[r].pc \notin {"ask", "commit"}
      BY <1>0, <2>2, BackgroundAssumption DEF LocksHeld
    <3>4. \A f \in Task : fb[f].pc \notin {"ask", "save"}
      BY <1>0, <2>2, BackgroundAssumption DEF LocksHeld
    <3>5. life \notin {"run", "fb", "erase"}
      BY <1>0, <2>2 DEF LocksHeld
    <3>6. LocksHeld'
      BY <1>0, <2>1, <3>2, <3>3, <3>4, <3>5 DEF LocksHeld
    <3>7. Social!ReadStillTrue'
      BY <3>2 DEF Social!ReadStillTrue
    <3> QED BY <1>0, <2>1, <3>2, <3>6, <3>7, ScanGoesOn
  <2>4. CASE mt.todo # {}
    <3>1. PICK k : /\ mt' = [mt EXCEPT !.pc = IF Social!PageOf(k) = {} THEN "page" ELSE "apply",
                                      !.snap = [i \in Social!Item |-> IF i \in Social!PageOf(k) THEN row[i] ELSE Social!NoRow],
                                      !.todo = mt.todo \ k]
                   /\ lock' = lock
      BY <1>4, <2>4 DEF Social!ReadPage
    <3> DEFINE snap == [i \in Social!Item |-> IF i \in Social!PageOf(k) THEN row[i] ELSE Social!NoRow]
    <3>2. snap \in [Social!Item -> Lesson]
      BY <1>0, BlankTypes
    <3>3. mt' = [mt EXCEPT !.pc = IF Social!PageOf(k) = {} THEN "page" ELSE "apply", !.snap = snap, !.todo = mt.todo \ k]
      BY <3>1
    <3>4. \A i \in Social!Item : snap[i].st # "none" => snap[i] = row[i]
      BY DEF Social!NoRow
    <3> HIDE DEF snap
    <3>5. mt' \in Scanning /\ mt'.pc \in {"page", "apply"} /\ mt'.snap = snap
      BY <1>0, <3>2, <3>3 DEF Scanning
    <3>6. LocksHeld'
      BY <1>0, <2>1, <2>2, <3>1, <3>5 DEF LocksHeld
    <3>7. Social!ReadStillTrue'
      BY <2>1, <3>4, <3>5 DEF Social!ReadStillTrue
    <3> QED BY <1>0, <2>1, <3>1, <3>5, <3>6, <3>7, ScanGoesOn
  <2> QED BY <2>3, <2>4
<1> QED BY <1>1, <1>2, <1>3, <1>4

\* Rows that keep what they are known for.
LEMMA RowsStay ==
  ASSUME SocialInv, row' \in [Social!Item -> Lesson],
         \A i \in Social!Item : row'[i].ev = row[i].ev /\ (row[i].st # "none" => row'[i].st # "none"),
         mt' \in Scanning, LocksHeld', Social!ReadStillTrue',
         UNCHANGED <<msg, sel, fb, job, turn, life, lock, asked>>
  PROVE  SocialInv'
<1>1. SocialTypes'
  BY DEF SocialInv, SocialTypes
<1>2. Behavior \subseteq Social!Item /\ Social!Kept' = Social!Kept
  BY DEF Social!Item, Social!Kept
<1>3. FromKept'
  BY <1>2 DEF SocialInv, FromKept
<1>4. HeardOf'
  BY DEF SocialInv, HeardOf
<1> QED BY <1>1, <1>3, <1>4 DEF SocialInv

\* A day that passes changes no evidence.
LEMMA DayKeeps == ASSUME SocialInv, Social!Day PROVE SocialInv'
<1>1. row \in [Social!Item -> Lesson] /\ UNCHANGED <<msg, sel, fb, job, mt, turn, life, lock, asked>>
  BY DEF SocialInv, SocialTypes, Social!Day
<1>2. ASSUME NEW i \in Social!Item
      PROVE  /\ row'[i] \in Lesson /\ row'[i].ev = row[i].ev /\ row'[i].st = row[i].st
             /\ row'[i].level = row[i].level /\ row'[i].infer = row[i].infer
  <2>1. row[i] \in Lesson
    BY <1>1
  <2>2. row[i].age + 1 \in Nat
    BY <2>1 DEF Lesson
  <2>3. row'[i] = IF row[i].st = "none" THEN row[i] ELSE [row[i] EXCEPT !.age = row[i].age + 1]
    BY DEF Social!Day
  <2> QED BY <2>1, <2>2, <2>3 DEF Lesson
<1>3. row' = [i \in Social!Item |-> row'[i]]
  BY DEF Social!Day
<1>4. row' \in [Social!Item -> Lesson]
  BY <1>2, <1>3
<1>5. LocksHeld' /\ mt' \in Scanning
  BY <1>1 DEF SocialInv, LocksHeld, SocialTypes
<1>6. Social!ReadStillTrue'
  BY <1>1, <1>2 DEF SocialInv, Social!ReadStillTrue
<1> QED BY <1>1, <1>2, <1>4, <1>5, <1>6, RowsStay

\* Maintenance writes the rows it has read.
LEMMA ApplyKeeps == ASSUME SocialInv, Social!Apply PROVE SocialInv'
<1>1. /\ row \in [Social!Item -> Lesson] /\ mt \in Scanning /\ mt.pc = "apply" /\ mt.snap \in [Social!Item -> Lesson]
      /\ UNCHANGED <<msg, sel, fb, job, turn, life, lock, asked>>
  BY DEF SocialInv, SocialTypes, Social!Apply, Scanning
<1>2. ASSUME NEW i \in Social!Item, NEW s \in Lesson, s.st # "none"
      PROVE  LET d == Social!Decayed(i, s)
             IN  d.st \in {"candidate", "active", "disabled"} /\ d.level \in Nat /\ d.decay \in Nat
  <2>1. /\ s.st \in {"candidate", "active", "disabled"} /\ s.level \in Nat /\ s.decay \in Nat /\ s.age \in Nat
    BY <1>2 DEF Lesson
  <2>2. \A n, k \in Nat : Social!Less(n, k) \in Nat
    BY DEF Social!Less
  <2>3. Social!Less(s.level, Social!Less(Social!Target(s), s.decay)) \in Nat
    BY <2>1, <2>2 DEF Social!Target
  <2> QED BY <2>1, <2>3 DEF Social!Decayed, Social!Target
<1>3. ASSUME NEW i \in Social!Item
      PROVE  row'[i] \in Lesson /\ row'[i].ev = row[i].ev /\ (row[i].st # "none" => row'[i].st # "none")
  <2>1. row[i] \in Lesson /\ mt.snap[i] \in Lesson
    BY <1>1
  <2>2. CASE mt.snap[i].st = "none" \/ row[i].st = "none"
    BY <2>1, <2>2 DEF Social!Apply
  <2>3. CASE ~(mt.snap[i].st = "none" \/ row[i].st = "none")
    <3> DEFINE d == Social!Decayed(i, mt.snap[i])
    <3>1. d.st \in {"candidate", "active", "disabled"} /\ d.level \in Nat /\ d.decay \in Nat
      BY <1>2, <2>1, <2>3
    <3>2. row'[i] = [row[i] EXCEPT !.st = d.st, !.level = d.level, !.decay = d.decay]
      BY <2>3 DEF Social!Apply
    <3> HIDE DEF d
    <3> QED BY <2>1, <3>1, <3>2 DEF Lesson
  <2> QED BY <2>2, <2>3
<1>4. row' \in [Social!Item -> Lesson]
  <2>1. row' = [i \in Social!Item |-> row'[i]]
    BY DEF Social!Apply
  <2> QED BY <1>3, <2>1
<1>5. mt' \in Scanning /\ mt'.pc = "page"
  <2>1. mt' = [mt EXCEPT !.pc = "page", !.snap = Social!NoMt.snap] /\ Social!NoMt.snap \in [Social!Item -> Lesson]
    BY BlankTypes DEF Social!Apply, Scanning
  <2> QED BY <1>1, <2>1 DEF Scanning
<1>6. LocksHeld'
  BY <1>1, <1>5 DEF SocialInv, LocksHeld
<1>7. Social!ReadStillTrue'
  BY <1>5 DEF Social!ReadStillTrue
<1> QED BY <1>1, <1>3, <1>4, <1>5, <1>6, <1>7, RowsStay

(********************************* turns ************************************)

\* A message follows up the selections that were answered, and begins a turn.
LEMMA ReceiveKeeps == ASSUME SocialInv, NEW m \in Msg, Social!Receive(m) PROVE SocialInv'
<1>1. /\ turn.pc = "idle" /\ life = "idle" /\ sel \in [Turn -> Choice] /\ msg \in [Msg -> {"new", "kept", "gone"}]
      /\ msg' = [msg EXCEPT ![m] = "kept"] /\ msg[m] = "new"
      /\ UNCHANGED <<job, row, fb, mt, life, lock, asked>>
  BY DEF SocialInv, SocialTypes, Social!Receive
<1>2. PICK t \in Turn : Social!Next1(t) /\ turn' = [pc |-> "begin", id |-> t]
  BY DEF Social!Receive
<1>3. ASSUME NEW u \in Turn
      PROVE  /\ sel'[u] \in Choice /\ sel'[u].st = sel[u].st /\ sel'[u].of = sel[u].of /\ sel'[u].tries = sel[u].tries
             /\ sel[u].fu => sel'[u].fu
  <2>1. sel[u] \in Choice /\ sel'[u] = IF u \in Social!Answered THEN [sel[u] EXCEPT !.fu = TRUE] ELSE sel[u]
    BY <1>1 DEF Social!Receive
  <2> QED BY <2>1 DEF Choice
<1>4. sel' \in [Turn -> Choice]
  <2>1. sel' = [u \in Turn |-> sel'[u]]
    BY DEF Social!Receive
  <2> QED BY <1>3, <2>1
<1>5. SocialTypes'
  BY <1>1, <1>2, <1>4 DEF SocialInv, SocialTypes, Turning
<1>6. LocksHeld' /\ Social!ReadStillTrue'
  BY <1>1 DEF SocialInv, LocksHeld, Social!ReadStillTrue
<1>7. FromKept'
  <2>1. Social!Kept \subseteq Social!Kept'
    BY <1>1 DEF Social!Kept
  <2> QED BY <1>1, <1>3, <2>1 DEF SocialInv, FromKept
<1>8. HeardOf'
  <2>1. sel[t].st = "none" /\ turn'.id = t
    BY <1>2 DEF Social!Next1
  <2>2. \A f \in Task : fb[f].of \cup fb[f].say \subseteq Turn
    BY DEF SocialInv, SocialTypes, Judging
  <2> QED BY <1>1, <1>3, <2>1, <2>2 DEF SocialInv, HeardOf
<1> QED BY <1>5, <1>6, <1>7, <1>8 DEF SocialInv

\* A turn enqueues its run of learning and a task of feedback.
LEMMA TurnBeginKeeps == ASSUME SocialInv, Social!TurnBegin PROVE SocialInv'
<1>1. /\ turn.pc = "begin" /\ turn \in Turning /\ fb \in [Task -> Judging] /\ job \in [Run -> Job]
      /\ turn' = [turn EXCEPT !.pc = "maintain"] /\ UNCHANGED <<msg, row, sel, mt, life, lock, asked>>
  BY DEF SocialInv, SocialTypes, Social!TurnBegin
<1>2. turn' \in Turning /\ turn'.pc = "maintain" /\ turn'.id = turn.id
  BY <1>1 DEF Turning
<1>3. /\ fb' \in [Task -> Judging]
      /\ \A f \in Task : fb'[f].pc \in {"ask", "save"} => fb'[f] = fb[f]
  <2>1. CASE UNCHANGED fb
    BY <1>1, <2>1
  <2>2. ASSUME NEW f \in Task, fb' = [fb EXCEPT ![f].pc = "wait"] PROVE <1>3!:
    <3>1. [fb[f] EXCEPT !.pc = "wait"] \in Judging /\ [fb[f] EXCEPT !.pc = "wait"].pc = "wait"
      BY <1>1 DEF Judging
    <3> QED BY <1>1, <2>2, <3>1
  <2> QED BY <2>1, <2>2 DEF Social!TurnBegin
<1>4. /\ job' \in [Run -> Job]
      /\ \A r \in Run : job'[r].pc \in {"ask", "commit"} => job'[r] = job[r]
  <2>1. CASE UNCHANGED job
    BY <1>1, <2>1
  <2>2. ASSUME NEW r \in Run, Social!Enqueued(r) PROVE <1>4!:
    <3>1. [Social!NoJob EXCEPT !.pc = "wait"] \in Job /\ [Social!NoJob EXCEPT !.pc = "wait"].pc = "wait"
      BY BlankTypes DEF Job
    <3> QED BY <1>1, <2>2, <3>1 DEF Social!Enqueued
  <2> QED BY <2>1, <2>2 DEF Social!TurnBegin
<1>5. SocialTypes'
  BY <1>1, <1>2, <1>3, <1>4 DEF SocialInv, SocialTypes
<1>6. LocksHeld'
  BY <1>1, <1>2, <1>3, <1>4 DEF SocialInv, LocksHeld
<1>7. Social!ReadStillTrue'
  BY <1>1 DEF SocialInv, Social!ReadStillTrue
<1>8. FromKept'
  BY <1>1, <1>4 DEF SocialInv, FromKept, Social!Kept
<1>9. HeardOf'
  BY <1>1, <1>2, <1>3 DEF SocialInv, HeardOf
<1> QED BY <1>5, <1>6, <1>7, <1>8, <1>9 DEF SocialInv

\* A turn asks for maintenance and goes on when it is done.
LEMMA TurnMaintains == ASSUME SocialInv, Social!TurnMaintain \/ Social!TurnScanned PROVE SocialInv'
<1>0. mt \in Scanning /\ lock \in Locks /\ turn \in Turning
  BY DEF SocialInv, SocialTypes
<1>1. ASSUME turn.pc \in {"maintain", "scan"}, turn' = [turn EXCEPT !.pc = "select"],
             UNCHANGED <<msg, row, sel, fb, job, life, asked, mt, lock>>
      PROVE  SocialInv'
  <2>1. turn' \in Turning /\ turn'.pc = "select" /\ turn'.id = turn.id
    BY <1>0, <1>1 DEF Turning
  <2>2. LocksHeld' /\ Social!ReadStillTrue'
    BY <1>1, <2>1 DEF SocialInv, LocksHeld, Social!ReadStillTrue
  <2> QED BY <1>0, <1>1, <2>1, <2>2, ScanGoesOn
<1>2. ASSUME turn.pc = "maintain", turn' = [turn EXCEPT !.pc = "scan"], Social!StartScan("turn"),
             UNCHANGED <<msg, row, sel, fb, job, life, asked>>
      PROVE  SocialInv'
  <2>1. turn' \in Turning /\ turn'.pc = "scan" /\ turn'.id = turn.id
    BY <1>0, <1>2 DEF Turning
  <2> QED BY <1>2, <2>1, ScanStarts
<1> QED BY <1>1, <1>2 DEF Social!TurnMaintain, Social!TurnScanned

\* A turn selects behaviours that are known.
LEMMA SelectKeeps == ASSUME SocialInv, Social!Select PROVE SocialInv'
<1>1. /\ turn.pc = "select" /\ turn \in Turning /\ sel \in [Turn -> Choice] /\ row \in [Social!Item -> Lesson]
      /\ turn' = [turn EXCEPT !.pc = "reply"] /\ UNCHANGED <<msg, job, fb, mt, life, lock, asked>>
      /\ turn.id \in Turn /\ sel[turn.id].st = "none"
  BY DEF SocialInv, SocialTypes, HeardOf, Social!Select
<1>2. turn' \in Turning /\ turn'.pc = "reply"
  BY <1>1 DEF Turning
<1>3. ASSUME NEW c \in Choice, c.st \in {"pending", "nothing"}, c.st = "pending" => c.tries = 0 /\ c.of \in Behavior /\ row[c.of].st # "none",
             sel' = [sel EXCEPT ![turn.id] = c],
             row' \in [Social!Item -> Lesson],
             \A i \in Social!Item : /\ row'[i].ev = row[i].ev /\ row'[i].st = row[i].st
                                    /\ row'[i].level = row[i].level /\ row'[i].infer = row[i].infer
      PROVE  SocialInv'
  <2>1. sel' \in [Turn -> Choice] /\ sel'[turn.id] = c /\ \A t \in Turn \ {turn.id} : sel'[t] = sel[t]
    BY <1>1, <1>3
  <2>2. SocialTypes'
    BY <1>1, <1>2, <1>3, <2>1 DEF SocialInv, SocialTypes
  <2>3. LocksHeld' /\ Social!ReadStillTrue'
    BY <1>1, <1>2, <1>3 DEF SocialInv, LocksHeld, Social!ReadStillTrue
  <2>4. Behavior \subseteq Social!Item /\ Social!Kept' = Social!Kept
    BY <1>1 DEF Social!Item, Social!Kept
  <2>5. FromKept'
    BY <1>1, <1>3, <2>1, <2>4 DEF SocialInv, FromKept
  <2>6. asked[turn.id] \in Nat
    BY <1>1 DEF SocialInv, SocialTypes
  <2>7. \A t \in Turn : /\ sel'[t].st = "pending" => asked[t] >= sel'[t].tries
                        /\ sel'[t].st = "expired" => sel'[t].fu /\ asked[t] >= MaxAttempts
    BY <1>3, <2>1, <2>6 DEF SocialInv, HeardOf
  <2>8. ASSUME NEW f \in Task, fb[f].pc \in {"ask", "save"}, NEW t \in fb[f].of \cup fb[f].say
        PROVE  sel'[t] = sel[t]
    <3>1. t \in Turn /\ sel[t].st # "none"
      BY <2>8 DEF SocialInv, SocialTypes, HeardOf, Judging
    <3> QED BY <1>1, <2>1, <3>1
  <2>9. HeardOf'
    BY <1>1, <1>2, <2>7, <2>8 DEF SocialInv, HeardOf
  <2> QED BY <2>2, <2>3, <2>5, <2>9 DEF SocialInv
<1>4. ASSUME NEW i \in Behavior, row[i].st = "active", Social!Selected(turn.id, i) PROVE SocialInv'
  <2> DEFINE c == [Social!NoSel EXCEPT !.st = "pending", !.of = i]
             n == [row[i] EXCEPT !.decay = 0, !.age = 0]
  <2>1. c \in Choice /\ c.st = "pending" /\ c.of = i /\ c.tries = 0
    BY DEF Social!NoSel, Choice
  <2>2. i \in Social!Item /\ row[i] \in Lesson
    BY <1>1 DEF Social!Item
  <2>3. n \in Lesson /\ n.ev = row[i].ev /\ n.st = row[i].st /\ n.level = row[i].level /\ n.infer = row[i].infer
    BY <2>2 DEF Lesson
  <2>4. sel' = [sel EXCEPT ![turn.id] = c] /\ row' = [row EXCEPT ![i] = n]
    BY <1>4 DEF Social!Selected
  <2> HIDE DEF c, n
  <2>5. /\ row' \in [Social!Item -> Lesson]
        /\ \A k \in Social!Item : /\ row'[k].ev = row[k].ev /\ row'[k].st = row[k].st
                                  /\ row'[k].level = row[k].level /\ row'[k].infer = row[k].infer
    BY <1>1, <2>2, <2>3, <2>4
  <2> QED BY <1>3, <1>4, <2>1, <2>4, <2>5
<1>5. ASSUME sel' = [sel EXCEPT ![turn.id].st = "nothing"], UNCHANGED row PROVE SocialInv'
  <2> DEFINE c == [sel[turn.id] EXCEPT !.st = "nothing"]
  <2>1. c \in Choice /\ c.st = "nothing"
    BY <1>1 DEF Choice
  <2>2. sel' = [sel EXCEPT ![turn.id] = c]
    BY <1>5
  <2> HIDE DEF c
  <2> QED BY <1>1, <1>3, <1>5, <2>1, <2>2
<1> QED BY <1>4, <1>5 DEF Social!Select

\* Selections that keep what they are judged by.
LEMMA ReplyKeeps == ASSUME SocialInv, Social!Reply PROVE SocialInv'
<1>1. /\ turn' = [pc |-> "idle", id |-> 0] /\ sel \in [Turn -> Choice] /\ fb \in [Task -> Judging]
      /\ UNCHANGED <<msg, row, job, fb, mt, life, lock, asked>>
      /\ sel' = sel \/ sel' = [sel EXCEPT ![turn.id].re = TRUE]
  BY DEF SocialInv, SocialTypes, Social!Reply
<1>2. ASSUME NEW t \in Turn
      PROVE  /\ sel'[t] \in Choice /\ sel'[t].st = sel[t].st /\ sel'[t].of = sel[t].of /\ sel'[t].fu = sel[t].fu
             /\ sel'[t].tries = sel[t].tries
  <2>1. sel[t] \in Choice /\ (sel'[t] = sel[t] \/ sel'[t] = [sel[t] EXCEPT !.re = TRUE])
    BY <1>1
  <2> QED BY <2>1 DEF Choice
<1>3. sel' \in [Turn -> Choice]
  BY <1>1, <1>2
<1>4. turn' \in Turning /\ turn'.pc = "idle"
  BY <1>1 DEF Turning
<1>5. SocialTypes'
  BY <1>1, <1>3, <1>4 DEF SocialInv, SocialTypes
<1>6. LocksHeld' /\ Social!ReadStillTrue'
  BY <1>1, <1>4 DEF SocialInv, LocksHeld, Social!ReadStillTrue
<1>7. FromKept'
  BY <1>1, <1>2 DEF SocialInv, FromKept, Social!Kept
<1>8. HeardOf'
  <2>1. \A f \in Task : fb[f].of \cup fb[f].say \subseteq Turn
    BY <1>1 DEF Judging
  <2> QED BY <1>1, <1>2, <1>4, <2>1 DEF SocialInv, HeardOf
<1> QED BY <1>5, <1>6, <1>7, <1>8 DEF SocialInv

(****************************** the lifecycle *******************************)

\* An operation on the data of a session begins while no turn is under way.
LEMMA LifeBeginKeeps == ASSUME SocialInv, Social!LifeBegin PROVE SocialInv'
<1>1. /\ life' = "advanced" /\ turn.pc = "idle" /\ UNCHANGED <<msg, row, sel, fb, job, mt, turn, lock, asked>>
  BY DEF Social!LifeBegin
<1>2. SocialTypes'
  BY <1>1 DEF SocialInv, SocialTypes
<1>3. LocksHeld' /\ Social!ReadStillTrue'
  BY <1>1 DEF SocialInv, LocksHeld, Social!ReadStillTrue
<1>4. FromKept' /\ HeardOf'
  BY <1>1 DEF SocialInv, FromKept, HeardOf, Social!Kept
<1> QED BY <1>2, <1>3, <1>4 DEF SocialInv

\* Cancelled tasks give their locks back.
LEMMA CancelKeeps == ASSUME SocialInv, Social!CancelTasks PROVE SocialInv'
<1>1. /\ life = "advanced" /\ life' = "maint" /\ job' = [r \in Run |-> Social!NoJob]
      /\ fb' = [f \in Task |-> Social!NoFb] /\ lock' = Social!Freed /\ lock \in Locks
      /\ UNCHANGED <<msg, row, sel, mt, turn, asked>>
  BY DEF SocialInv, SocialTypes, Social!CancelTasks
<1>2. Social!NoJob.pc = "off" /\ Social!NoFb.pc = "off"
  BY DEF Social!NoJob, Social!NoFb
<1>3. /\ lock' \in Locks /\ lock'.maint = lock.maint
      /\ lock.run = "mt" => lock'.run = "mt"
      /\ lock.fb = "mt" => lock'.fb = "mt"
  BY <1>1, BackgroundAssumption DEF Locks, Social!Freed, Social!Free
<1>4. SocialTypes'
  BY <1>1, <1>3, BlankTypes DEF SocialInv, SocialTypes
<1>5. LocksHeld'
  BY <1>1, <1>2, <1>3 DEF SocialInv, LocksHeld
<1>6. Social!ReadStillTrue'
  BY <1>1 DEF SocialInv, Social!ReadStillTrue
<1>7. FromKept'
  BY <1>1, <1>2 DEF SocialInv, FromKept, Social!Kept
<1>8. HeardOf'
  BY <1>1, <1>2 DEF SocialInv, HeardOf
<1> QED BY <1>4, <1>5, <1>6, <1>7, <1>8 DEF SocialInv

\* An operation takes the locks of the session in their order.
LEMMA HoldKeeps == ASSUME SocialInv, Social!Hold PROVE SocialInv'
<1>1. UNCHANGED <<msg, row, sel, fb, job, mt, turn, asked>> /\ lock \in Locks
  BY DEF SocialInv, SocialTypes, Social!Hold
<1>2. ASSUME life' \in {"run", "fb", "erase"}, lock' \in Locks, LocksHeld' PROVE SocialInv'
  <2>1. SocialTypes'
    BY <1>1, <1>2 DEF SocialInv, SocialTypes
  <2>2. Social!ReadStillTrue' /\ FromKept' /\ HeardOf'
    BY <1>1 DEF SocialInv, Social!ReadStillTrue, FromKept, HeardOf, Social!Kept
  <2> QED BY <1>2, <2>1, <2>2 DEF SocialInv
<1>3. "free" \notin Run /\ "free" \notin Task
  BY BackgroundAssumption
<1>4. CASE life = "maint" /\ lock.maint = "free" /\ life' = "run" /\ lock' = [lock EXCEPT !.maint = "life"]
  <2>1. lock' \in Locks /\ lock'.maint = "life" /\ lock'.run = lock.run /\ lock'.fb = lock.fb
    BY <1>1, <1>4 DEF Locks
  <2>2. LocksHeld'
    BY <1>1, <1>4, <2>1 DEF SocialInv, LocksHeld
  <2> QED BY <1>2, <1>4, <2>1, <2>2
<1>5. CASE life = "run" /\ lock.run = "free" /\ life' = "fb" /\ lock' = [lock EXCEPT !.run = "life"]
  <2>1. lock' \in Locks /\ lock'.run = "life" /\ lock'.maint = lock.maint /\ lock'.fb = lock.fb
    BY <1>1, <1>5 DEF Locks
  <2>2. LocksHeld'
    BY <1>1, <1>3, <1>5, <2>1 DEF SocialInv, LocksHeld
  <2> QED BY <1>2, <1>5, <2>1, <2>2
<1>6. CASE life = "fb" /\ lock.fb = "free" /\ life' = "erase" /\ lock' = [lock EXCEPT !.fb = "life"]
  <2>1. lock' \in Locks /\ lock'.fb = "life" /\ lock'.maint = lock.maint /\ lock'.run = lock.run
    BY <1>1, <1>6 DEF Locks
  <2>2. LocksHeld'
    BY <1>1, <1>3, <1>6, <2>1 DEF SocialInv, LocksHeld
  <2> QED BY <1>2, <1>6, <2>1, <2>2
<1> QED BY <1>4, <1>5, <1>6 DEF Social!Hold, Social!Free

\* Erasing takes with the messages what was learned from them.
LEMMA EraseKeeps == ASSUME SocialInv, NEW op, Social!Erase(op) PROVE SocialInv'
<1>1. /\ life = "erase" /\ life' = "idle" /\ lock' = [maint |-> "free", run |-> "free", fb |-> "free"]
      /\ UNCHANGED <<job, fb, mt, turn, asked>>
      /\ row \in [Social!Item -> Lesson] /\ sel \in [Turn -> Choice] /\ msg \in [Msg -> {"new", "kept", "gone"}]
  BY DEF SocialInv, SocialTypes, Social!Erase, Social!Free
<1>2. /\ turn.pc = "idle" /\ mt.pc = "off" /\ \A r \in Run : job[r].pc \notin {"ask", "commit"}
      /\ \A f \in Task : fb[f].pc \notin {"ask", "save"}
  BY <1>1, BackgroundAssumption DEF SocialInv, LocksHeld, SocialTypes, Scanning
<1>3. ASSUME NEW i \in Social!Item PROVE row'[i] \in Lesson /\ row'[i].ev = {}
  <2>1. row[i] \in Lesson
    BY <1>1
  <2>2. row'[i] = Social!NoRow \/ row'[i] = [row[i] EXCEPT !.ev = {}]
    BY DEF Social!Erase
  <2> QED BY <2>1, <2>2, BlankTypes DEF Lesson, Social!NoRow
<1>4. row' \in [Social!Item -> Lesson]
  <2>1. row' = [i \in Social!Item |-> row'[i]]
    BY DEF Social!Erase
  <2> QED BY <1>3, <2>1
<1>5. ASSUME NEW t \in Turn PROVE sel'[t] \in Choice /\ sel'[t].st \in {"none", "gone"}
  <2>1. sel'[t] = Social!NoSel \/ sel'[t] = [Social!NoSel EXCEPT !.st = "gone"]
    BY DEF Social!Erase
  <2> QED BY <2>1, BlankTypes DEF Choice, Social!NoSel
<1>6. sel' \in [Turn -> Choice]
  <2>1. sel' = [t \in Turn |-> sel'[t]]
    BY DEF Social!Erase
  <2> QED BY <1>5, <2>1
<1>7. msg' \in [Msg -> {"new", "kept", "gone"}]
  BY <1>1 DEF Social!Erase
<1>8. SocialTypes'
  BY <1>1, <1>4, <1>6, <1>7 DEF SocialInv, SocialTypes, Locks
<1>9. LocksHeld' /\ Social!ReadStillTrue'
  BY <1>1, <1>2 DEF LocksHeld, Social!ReadStillTrue
<1>10. FromKept' /\ HeardOf'
  BY <1>1, <1>2, <1>3, <1>5 DEF FromKept, HeardOf
<1> QED BY <1>8, <1>9, <1>10 DEF SocialInv

\* A restart drops the locks, and the work they were for.
LEMMA RestartKeeps == ASSUME SocialInv, Social!Restart PROVE SocialInv'
<1>1. /\ life = "idle" /\ turn' = [pc |-> "idle", id |-> 0] /\ fb' = [f \in Task |-> Social!NoFb]
      /\ mt' = [Social!NoMt EXCEPT !.pc = "run", !.by = "task"]
      /\ lock' = [maint |-> "mt", run |-> "free", fb |-> "free"]
      /\ job' = [r \in Run |-> IF run[r].st \in {"pending", "running"}
                               THEN [Social!NoJob EXCEPT !.pc = "wait"] ELSE Social!NoJob]
      /\ UNCHANGED <<msg, row, life, asked>> /\ sel \in [Turn -> Choice]
  BY DEF SocialInv, SocialTypes, Social!Restart, Social!Free
<1>2. mt' \in Scanning /\ mt'.pc = "run" /\ turn' \in Turning /\ lock' \in Locks /\ lock'.maint = "mt"
  BY <1>1, BlankTypes DEF Social!NoMt, Turning, Locks
<1>3. fb' \in [Task -> Judging] /\ \A f \in Task : fb'[f].pc = "off"
  BY <1>1, BlankTypes DEF Social!NoFb
<1>4. job' \in [Run -> Job] /\ \A r \in Run : job'[r].pc \in {"off", "wait"}
  <2>1. [Social!NoJob EXCEPT !.pc = "wait"] \in Job /\ [Social!NoJob EXCEPT !.pc = "wait"].pc = "wait"
        /\ Social!NoJob.pc = "off"
    BY BlankTypes DEF Job, Social!NoJob
  <2> QED BY <1>1, <2>1, BlankTypes
<1>5. /\ sel' \in [Turn -> Choice]
      /\ \A t \in Turn : sel'[t].st \in {"pending", "expired"} => sel'[t] = sel[t]
  <2>1. CASE UNCHANGED sel
    BY <1>1, <2>1
  <2>2. ASSUME turn.pc \in {"begin", "maintain", "scan", "select"}, sel' = [sel EXCEPT ![turn.id].st = "nothing"]
        PROVE  <1>5!:
    <3> DEFINE c == [sel[turn.id] EXCEPT !.st = "nothing"]
    <3>1. turn.id \in Turn
      BY <2>2 DEF SocialInv, HeardOf
    <3>2. c \in Choice /\ c.st = "nothing"
      BY <1>1, <3>1 DEF Choice
    <3>3. sel' = [sel EXCEPT ![turn.id] = c]
      BY <2>2
    <3> HIDE DEF c
    <3> QED BY <1>1, <3>1, <3>2, <3>3
  <2> QED BY <2>1, <2>2 DEF Social!Restart
<1>6. SocialTypes'
  BY <1>1, <1>2, <1>3, <1>4, <1>5 DEF SocialInv, SocialTypes
<1>7. LocksHeld' /\ Social!ReadStillTrue'
  BY <1>1, <1>2, <1>3, <1>4 DEF LocksHeld, Social!ReadStillTrue
<1>8. FromKept'
  BY <1>1, <1>4, <1>5 DEF SocialInv, FromKept, Social!Kept
<1>9. HeardOf'
  BY <1>1, <1>3, <1>5 DEF SocialInv, HeardOf
<1> QED BY <1>6, <1>7, <1>8, <1>9 DEF SocialInv

\* Every step of social learning keeps the invariant.
LEMMA SocialStep == SocialInv /\ [Social!Next]_social => SocialInv'
<1> SUFFICES ASSUME SocialInv, [Social!Next]_social PROVE SocialInv'
  OBVIOUS
<1>1. CASE UNCHANGED social
  <2>1. UNCHANGED <<row, sel, job, fb, mt, turn, lock, msg, asked, life>>
    BY <1>1 DEF social
  <2>2. SocialTypes' /\ LocksHeld' /\ Social!ReadStillTrue'
    BY <2>1 DEF SocialInv, SocialTypes, LocksHeld, Social!ReadStillTrue
  <2>3. FromKept' /\ HeardOf'
    BY <2>1 DEF SocialInv, FromKept, HeardOf, Social!Kept
  <2> QED BY <2>2, <2>3 DEF SocialInv
<1>2. CASE \E r \in Run : Social!Work(r) \/ Social!AskFails(r) \/ Social!Retry(r)
  BY <1>2, RunKeeps, CommitKeeps DEF Social!Work
<1>3. CASE \E f \in Task : Social!Judge(f)
  BY <1>3, EvaluateKeeps, AskFeedbackKeeps, SaveFeedbackKeeps, MissKeeps DEF Social!Judge
<1>4. CASE Social!Scheduled \/ Social!Scan \/ Social!Day
  BY <1>4, ScanKeeps, ApplyKeeps, DayKeeps DEF Social!Scan
<1>5. CASE Social!TurnStep \/ \E m \in Msg : Social!Receive(m)
  BY <1>5, ReceiveKeeps, TurnBeginKeeps, TurnMaintains, SelectKeeps, ReplyKeeps DEF Social!TurnStep
<1>6. CASE Social!LifeBegin \/ Social!CancelTasks \/ Social!Hold \/ Social!Restart
           \/ \E op \in {"memory", "chat", "delete"} : Social!Erase(op)
  BY <1>6, LifeBeginKeeps, CancelKeeps, HoldKeeps, RestartKeeps, EraseKeeps
<1> QED BY <1>1, <1>2, <1>3, <1>4, <1>5, <1>6 DEF Social!Next

\* The invariant says what is to hold of the rows, the evidence and the selections.
LEMMA SocialSafe == SocialInv => Social!ReadStillTrue /\ Social!LearnedFromKept /\ Social!ExpiredHeard
BY DEF SocialInv, FromKept, HeardOf, Social!LearnedFromKept, Social!ExpiredHeard, Social!Pending

\* A lock is held by nobody but who is at work under it; a scan that a turn waits
\* for is under way.
LocksOwned ==
  /\ lock.maint = "mt" => mt.pc # "off"
  /\ lock.run = "mt" => mt.pc \in {"fb", "page", "apply"}
  /\ lock.fb = "mt" => mt.pc \in {"page", "apply"}
  /\ lock.maint = "life" => life \in {"run", "fb", "erase"}
  /\ lock.run = "life" => life \in {"fb", "erase"}
  /\ lock.fb = "life" => life = "erase"
  /\ lock.run \in Run => job[lock.run].pc \in {"ask", "commit"}
  /\ lock.fb \in Task => fb[lock.fb].pc \in {"ask", "save"}
  /\ mt.by = "turn" => mt.pc # "off"

\* Nobody works at a run that was not enqueued.
RunsKnown ==
  /\ sess \in [live : BOOLEAN, epoch : Nat]
  /\ run \in [Run -> [st : {"none", "pending", "running", "completed", "failed", "stale", "gone"}, ep : Nat,
                      src : SUBSET Msg]]
  /\ \A r \in Run : run[r].st = "none" => job[r].pc = "off"

\* Unstuck with the conditions of the steps in place of ENABLED: while an
\* operation or a turn is under way, one of those that hold a lock, or one that
\* waits for a free one, can go on.
SomebodyGoesOn ==
  (life # "idle" \/ turn.pc # "idle") =>
    \/ turn.pc \in {"begin", "select", "reply"}
    \/ turn.pc = "maintain" /\ lock.maint = "free"
    \/ turn.pc = "scan" /\ mt.by # "turn"
    \/ life \in {"advanced", "erase"}
    \/ life = "maint" /\ lock.maint = "free"
    \/ life = "run" /\ lock.run = "free"
    \/ life = "fb" /\ lock.fb = "free"
    \/ mt.pc = "run" /\ lock.run = "free"
    \/ mt.pc = "fb" /\ lock.fb = "free"
    \/ mt.pc \in {"page", "apply"}
    \/ \E r \in Run : lock.run = r /\ job[r].pc \in {"ask", "commit"}
    \/ \E f \in Task : lock.fb = f /\ fb[f].pc \in {"ask", "save"}

\* Nothing is held at first.
LEMMA OwnedInit == Social!Init => LocksOwned
BY BackgroundAssumption DEF Social!Init, Social!NoMt, Social!Free, LocksOwned

\* A run is enqueued before anybody works at it.
LEMMA RunsInit == Social!Init => RunsKnown
BY DEF Social!Init, Social!NoJob, RunsKnown

\* Only a batch that was never handled is enqueued, and a run that was erased or
\* ended keeps that.
LEMMA RunsStep == SocialInv /\ RunsKnown /\ [Social!Next]_social => RunsKnown'
<1> SUFFICES ASSUME SocialInv, RunsKnown, [Social!Next]_social PROVE RunsKnown'
  OBVIOUS
<1>0. job \in [Run -> Job]
  BY DEF SocialInv, SocialTypes
<1>1. CASE UNCHANGED <<sess, run, job>>
  BY <1>1 DEF RunsKnown
<1>2. ASSUME NEW r \in Run, NEW s \in {"pending", "running", "completed", "failed", "stale"},
             run' = Social!Saved(r, s), run[r].st # "none" \/ job'[r].pc = "off",
             \A q \in Run : q # r => job'[q] = job[q], UNCHANGED sess
      PROVE  RunsKnown'
  <2>1. run' \in [Run -> [st : {"none", "pending", "running", "completed", "failed", "stale", "gone"}, ep : Nat,
                          src : SUBSET Msg]]
    BY <1>2 DEF RunsKnown, Social!Saved
  <2>2. \A q \in Run : run'[q].st = "none" => run[q].st = "none"
    BY <1>2 DEF RunsKnown, Social!Saved, Social!CanSave
  <2> QED BY <1>2, <2>1, <2>2 DEF RunsKnown
<1>3. ASSUME NEW r \in Run, Social!Work(r) \/ Social!AskFails(r) \/ Social!Retry(r) PROVE RunsKnown'
  <2>1. CASE Social!Begin(r)
    <3>1. /\ run' = Social!Saved(r, "running") /\ UNCHANGED sess /\ job[r].pc = "wait"
          /\ \A q \in Run : q # r => job'[q] = job[q]
      BY <1>0, <2>1 DEF Social!Begin
    <3> QED BY <1>2, <3>1 DEF RunsKnown
  <2>2. ASSUME NEW s \in {"completed", "failed", "stale"}, Social!Leave(r, s), UNCHANGED sess PROVE RunsKnown'
    BY <1>0, <1>2, <2>2 DEF Social!Leave, Social!NoJob
  <2>3. CASE Social!Ask(r)
    <3>1. CASE UNCHANGED <<run, lock>> /\ job' = [job EXCEPT ![r] = job'[r]]
      BY <1>0, <2>3, <3>1 DEF Social!Ask, RunsKnown
    <3>2. CASE \E s \in {"completed", "failed", "stale"} : Social!Leave(r, s)
      BY <2>2, <2>3, <3>2 DEF Social!Ask
    <3> QED BY <1>0, <2>3, <3>1, <3>2 DEF Social!Ask
  <2>4. CASE Social!Commit(r)
    BY <2>2, <2>4 DEF Social!Commit
  <2>5. CASE Social!AskFails(r)
    BY <2>2, <2>5 DEF Social!AskFails
  <2>6. CASE Social!Retry(r)
    <3>1. /\ run' = Social!Saved(r, "pending") /\ UNCHANGED sess /\ run[r].st = "failed"
          /\ \A q \in Run : q # r => job'[q] = job[q]
      BY <1>0, <2>6 DEF Social!Retry
    <3> QED BY <1>2, <3>1
  <2> QED BY <1>3, <2>1, <2>3, <2>4, <2>5, <2>6 DEF Social!Work
<1>4. ASSUME NEW r \in Run, Social!Enqueued(r), UNCHANGED sess PROVE RunsKnown'
  <2>1. Social!Kept \ Social!Handled \in SUBSET Msg
    BY DEF Social!Kept
  <2>2. \A q \in Run : q # r => job'[q] = job[q]
    BY <1>0, <1>4 DEF Social!Enqueued
  <2> QED BY <1>4, <2>1, <2>2 DEF Social!Enqueued, RunsKnown
<1>5. CASE Social!TurnBegin
  BY <1>1, <1>4, <1>5 DEF Social!TurnBegin
<1>6. CASE Social!LifeBegin
  BY <1>6 DEF Social!LifeBegin, RunsKnown
<1>7. CASE Social!CancelTasks
  BY <1>7 DEF Social!CancelTasks, Social!NoJob, RunsKnown
<1>8. ASSUME NEW op, Social!Erase(op) PROVE RunsKnown'
  BY <1>8 DEF Social!Erase, RunsKnown
<1>9. CASE Social!Restart
  BY <1>9 DEF Social!Restart, Social!NoJob, RunsKnown
<1>10. ASSUME Social!Next, ~Social!TurnBegin, ~Social!LifeBegin, ~Social!CancelTasks, ~Social!Restart,
              \A op : ~Social!Erase(op),
              \A r \in Run : ~(Social!Work(r) \/ Social!AskFails(r) \/ Social!Retry(r))
       PROVE  UNCHANGED <<sess, run, job>>
  BY <1>10 DEF Social!Next, Social!Receive, Social!Judge, Social!Evaluate, Social!AskFeedback, Social!SaveFeedback,
     Social!Miss, Social!Scheduled, Social!Scan, Social!ScanRun, Social!ScanFeedback, Social!ReadPage, Social!Apply,
     Social!Day, Social!TurnStep, Social!TurnMaintain, Social!TurnScanned, Social!Select, Social!Reply, Social!Hold
<1> QED BY <1>1, <1>3, <1>5, <1>6, <1>7, <1>8, <1>9, <1>10 DEF social

\* Who takes a lock is at work, and who stops working gives it back.
LEMMA OwnedStep == SocialInv /\ RunsKnown /\ LocksOwned /\ [Social!Next]_social => LocksOwned'
<1> SUFFICES ASSUME SocialInv, RunsKnown, LocksOwned, [Social!Next]_social PROVE LocksOwned'
  OBVIOUS
<1> USE BackgroundAssumption DEF Social!Free
<1>0. /\ lock \in Locks /\ mt \in Scanning /\ turn \in Turning /\ LocksHeld
      /\ job \in [Run -> Job] /\ fb \in [Task -> Judging]
  BY DEF SocialInv, SocialTypes
<1>1. CASE UNCHANGED social
  BY <1>1 DEF social, LocksOwned
<1>2. ASSUME NEW m \in Msg, Social!Receive(m) PROVE LocksOwned'
  BY <1>2 DEF Social!Receive, LocksOwned
<1>3. ASSUME NEW r \in Run, Social!Begin(r) PROVE LocksOwned'
  BY <1>0, <1>3 DEF Social!Begin, LocksOwned, Locks, Job, LocksHeld
<1>4. ASSUME NEW r \in Run, job[r].pc \in {"ask", "commit"}, NEW s, Social!Leave(r, s),
             UNCHANGED <<fb, mt, life>>
      PROVE  LocksOwned'
  BY <1>0, <1>4 DEF Social!Leave, Social!NoJob, LocksOwned, Locks, Job, LocksHeld
<1>5. ASSUME NEW r \in Run, Social!Ask(r) PROVE LocksOwned'
  <2>1. CASE UNCHANGED lock /\ job' = [job EXCEPT ![r] = [pc |-> "commit", ev |-> job'[r].ev, up |-> job'[r].up]]
    BY <1>0, <1>5, <2>1 DEF Social!Ask, LocksOwned, Locks, Job, LocksHeld
  <2>2. CASE \E s \in {"failed", "stale", "completed"} : Social!Leave(r, s)
    BY <1>4, <1>5, <2>2 DEF Social!Ask
  <2> QED BY <1>0, <1>5, <2>1, <2>2 DEF Social!Ask
<1>6. ASSUME NEW r \in Run, Social!AskFails(r) PROVE LocksOwned'
  BY <1>4, <1>6 DEF Social!AskFails
<1>7. ASSUME NEW r \in Run, Social!Commit(r) PROVE LocksOwned'
  BY <1>4, <1>7 DEF Social!Commit
<1>8. ASSUME NEW r \in Run, Social!Retry(r) PROVE LocksOwned'
  BY <1>0, <1>8 DEF Social!Retry, LocksOwned, Locks, Job
<1>9. ASSUME NEW f \in Task, Social!Evaluate(f) PROVE LocksOwned'
  BY <1>0, <1>9 DEF Social!Evaluate, Social!NoFb, LocksOwned, Locks, Judging, LocksHeld
<1>10. ASSUME NEW f \in Task, fb[f].pc \in {"ask", "save"}, Social!Release(f), UNCHANGED <<job, mt, life>>
       PROVE  LocksOwned'
  BY <1>0, <1>10 DEF Social!Release, Social!NoFb, LocksOwned, Locks, Judging, LocksHeld
<1>11. ASSUME NEW f \in Task, Social!AskFeedback(f) PROVE LocksOwned'
  <2>1. CASE Social!Release(f)
    BY <1>10, <1>11, <2>1 DEF Social!AskFeedback
  <2>2. CASE UNCHANGED lock /\ fb'[f].pc = "save" /\ fb' = [fb EXCEPT ![f] = fb'[f]]
    BY <1>0, <1>11, <2>2 DEF Social!AskFeedback, LocksOwned, Locks, Judging
  <2> QED BY <1>0, <1>11, <2>1, <2>2 DEF Social!AskFeedback
<1>12. ASSUME NEW f \in Task, NEW t \in Turn, Social!SaveFeedback(f, t) PROVE LocksOwned'
  BY <1>0, <1>12 DEF Social!SaveFeedback, LocksOwned, Locks, Judging
<1>13. ASSUME NEW f \in Task, Social!Miss(f) PROVE LocksOwned'
  BY <1>10, <1>13 DEF Social!Miss
<1>14. ASSUME NEW by \in {"task", "turn"}, Social!StartScan(by), UNCHANGED <<job, fb, life>> PROVE LocksOwned'
  BY <1>0, <1>14 DEF Social!StartScan, Social!NoMt, LocksOwned, Locks, LocksHeld
<1>15. CASE Social!Scheduled
  BY <1>14, <1>15 DEF Social!Scheduled
<1>16. CASE Social!ScanRun
  BY <1>0, <1>16 DEF Social!ScanRun, LocksOwned, Locks, LocksHeld, Scanning
<1>17. CASE Social!ScanFeedback
  BY <1>0, <1>17 DEF Social!ScanFeedback, LocksOwned, Locks, LocksHeld, Scanning
<1>18. CASE Social!ReadPage
  <2>1. CASE mt.todo = {}
    BY <1>0, <1>18, <2>1 DEF Social!ReadPage, Social!NoMt, LocksOwned, Locks, LocksHeld
  <2>2. CASE mt.todo # {}
    <3>1. mt'.pc \in {"page", "apply"} /\ UNCHANGED <<lock, job, fb, life>>
      BY <1>0, <1>18, <2>2 DEF Social!ReadPage, Scanning
    <3> QED BY <3>1 DEF LocksOwned
  <2> QED BY <2>1, <2>2
<1>19. CASE Social!Apply
  BY <1>0, <1>19 DEF Social!Apply, LocksOwned, Scanning
<1>20. CASE Social!Day
  BY <1>20 DEF Social!Day, LocksOwned
<1>21. CASE Social!TurnBegin
  <2>1. UNCHANGED <<mt, life, lock>>
    BY <1>21 DEF Social!TurnBegin
  <2>2. \A f \in Task : fb[f].pc # "off" => fb'[f] = fb[f]
    BY <1>0, <1>21 DEF Social!TurnBegin
  <2>3. \A r \in Run : job[r].pc \in {"ask", "commit"} => job'[r].pc \in {"ask", "commit"}
    BY <1>0, <1>21 DEF Social!TurnBegin, Social!Enqueued, RunsKnown
  <2> QED BY <2>1, <2>2, <2>3 DEF LocksOwned
<1>22. CASE Social!TurnMaintain
  BY <1>14, <1>22 DEF Social!TurnMaintain, LocksOwned
<1>23. CASE Social!TurnScanned \/ Social!Select \/ Social!Reply
  BY <1>23 DEF Social!TurnScanned, Social!Select, Social!Reply, LocksOwned
<1>24. CASE Social!LifeBegin
  BY <1>24 DEF Social!LifeBegin, LocksOwned
<1>25. CASE Social!CancelTasks
  BY <1>0, <1>25 DEF Social!CancelTasks, Social!Freed, LocksOwned, Locks
<1>26. CASE Social!Hold
  BY <1>0, <1>26 DEF Social!Hold, LocksOwned, Locks, LocksHeld
<1>27. ASSUME NEW op, Social!Erase(op) PROVE LocksOwned'
  BY <1>0, <1>27 DEF Social!Erase, LocksOwned, LocksHeld
<1>28. CASE Social!Restart
  BY <1>0, <1>28 DEF Social!Restart, Social!NoMt, LocksOwned
<1> QED BY <1>1, <1>2, <1>3, <1>5, <1>6, <1>7, <1>8, <1>9, <1>11, <1>12, <1>13, <1>15, <1>16, <1>17, <1>18, <1>19,
          <1>20, <1>21, <1>22, <1>23, <1>24, <1>25, <1>26, <1>27, <1>28
          DEF Social!Next, Social!Work, Social!Judge, Social!Scan, Social!TurnStep

\* From the holder of the last lock somebody waits for, one can go on.
LEMMA OwnedSafe == SocialInv /\ LocksOwned => SomebodyGoesOn
BY BackgroundAssumption DEF SocialInv, SocialTypes, LocksHeld, LocksOwned, SomebodyGoesOn, Locks, Turning, Scanning

(****************************************************************************)
(* Drift: runs continue by themselves as often as the settings say          *)
(****************************************************************************)

\* A run, or the coroutine's copy of one.
RunRow == [status : {"none", "running", "paused", "gated", "completed"},
           stage : {"none", "selecting", "executing", "committing", "finished"},
           activity : {"none", "candidate_aggregation", "conversation_topic_preparation"},
           snap : Nat, count : 0..MaxResumes, refs : SUBSET (Nat \cup Fact)]

\* The newest run, while there is one.
Newest == runs[Len(runs)]

\* What was continued by itself is in the count of the newest run; a pause
\* counts one more, until nothing is left.  The coroutine works on that run.
DriftInv ==
  /\ messages \in Nat /\ last \in Nat /\ auto \in 0..MaxResumes
  /\ runs \in Seq(RunRow) /\ me \in RunRow
  /\ pc # "idle" => /\ Len(runs) > 0 /\ up = TRUE /\ me.status = "running"
                    /\ Newest.status = "running" /\ Newest.count = me.count
  /\ Len(runs) > 0 =>
       /\ Newest.status = "running" => auto <= Newest.count
       /\ Newest.status = "paused" => auto < Newest.count \/ Newest.count = MaxResumes

\* No run is there at first.
LEMMA DriftInit == Research!Init => DriftInv
  BY BackgroundAssumption DEF Research!Init, DriftInv, Research!NoRow, RunRow

\* What the newest run says decides, when a step changes no other.
LEMMA RowSaved ==
  ASSUME DriftInv, Len(runs) > 0, NEW saved \in RunRow, saved.count \in 0..MaxResumes, auto' = auto,
         messages' = messages, last' = last,
         me' = saved, runs' = [runs EXCEPT ![Len(runs)] = saved],
         pc' = "idle" \/ (pc' # "idle" /\ pc # "idle" /\ up' = TRUE /\ saved.status = "running" /\ saved.count = me.count),
         saved.status = "paused" => auto < saved.count \/ saved.count = MaxResumes,
         saved.status = "running" => auto <= saved.count
  PROVE  DriftInv'
<1>1. Len(runs) \in 1..Len(runs) /\ runs \in Seq(RunRow)
  BY DEF DriftInv
<1>2. runs' \in Seq(RunRow) /\ Len(runs') = Len(runs) /\ runs'[Len(runs)] = saved
  BY <1>1
<1> QED BY <1>2 DEF DriftInv, Newest

\* The coroutine that writes its copy works on the newest run.
LEMMA Working == DriftInv /\ pc # "idle" => Len(runs) > 0 /\ auto <= me.count /\ me.count \in 0..MaxResumes
  BY BackgroundAssumption DEF DriftInv, Newest, RunRow

\* A new run starts with what the paused one before it has used up.
LEMMA BeginKeeps == ASSUME DriftInv, NEW force \in BOOLEAN, Research!Begin(force) PROVE DriftInv'
<1> USE BackgroundAssumption
<1> DEFINE c == Research!Count(force)
<1>1. runs \in Seq(RunRow) /\ last \in Nat /\ auto \in 0..MaxResumes /\ Len(runs) \in Nat
  BY DEF DriftInv
<1>2. Research!Latest \in RunRow
  <2>1. Research!NoRow \in RunRow
    BY DEF Research!NoRow, RunRow
  <2>2. ASSUME runs # <<>> PROVE runs[Len(runs)] \in RunRow
    <3>1. Len(runs) \in 1..Len(runs)
      BY <1>1, <2>2, EmptySeq
    <3> QED BY <1>1, <3>1, ElementOfSeq
  <2> QED BY <2>1, <2>2 DEF Research!Latest
<1>3. c \in 0..MaxResumes
  BY <1>2 DEF Research!Count, RunRow
<1>4. auto' \in 0..MaxResumes /\ auto' <= c
  <2>1. CASE ~force /\ Research!Latest.status = "paused"
    <3>1. runs # <<>> /\ Research!Latest = Newest
      BY <2>1 DEF Research!Latest, Research!NoRow, Newest
    <3>2. Newest.count < MaxResumes /\ Newest.count \in 0..MaxResumes
      BY <2>1, <3>1, <1>2 DEF Research!Begin, Research!Allowed, RunRow
    <3>3. auto < Newest.count
      BY <1>1, <2>1, <3>1, <3>2, EmptySeq DEF DriftInv
    <3>4. c = Newest.count /\ auto' = auto + 1
      BY <2>1, <3>1 DEF Research!Count, Research!Begin
    <3> QED BY <1>1, <3>2, <3>3, <3>4
  <2>2. CASE ~(~force /\ Research!Latest.status = "paused")
    BY <2>2, <1>3 DEF Research!Begin
  <2> QED BY <2>1, <2>2
<1>5. Research!Resumed \in {"none", "candidate_aggregation", "conversation_topic_preparation"}
  BY <1>2 DEF Research!Resumed, Research!Aggregation, Research!Topic
<1> HIDE DEF c
<1>6. me' \in RunRow /\ me'.status = "running" /\ me'.count = c
  BY <1>1, <1>3, <1>5 DEF Research!Begin, RunRow, c
<1>7. runs' = Append(runs, me') /\ pc' = "select" /\ up' = up /\ up /\ messages' = messages /\ last' = last
  BY DEF Research!Begin, Research!chat
<1>8. runs' \in Seq(RunRow) /\ Len(runs') > 0 /\ runs'[Len(runs')] = me'
  BY <1>1, <1>6, <1>7
<1> QED BY <1>3, <1>4, <1>6, <1>7, <1>8 DEF DriftInv, Newest

\* What the coroutine writes.
LEMMA SavedKeeps ==
  ASSUME DriftInv,
         \/ Research!SelectIdle \/ (\E a \in {Research!Aggregation, Research!Topic} : Research!Select(a))
         \/ (\E c \in Research!Candidates : Research!Make(c)) \/ Research!Gate \/ Research!Complete \/ Research!Pause
  PROVE  DriftInv'
<1> USE BackgroundAssumption
<1>1. me \in RunRow /\ (pc # "idle" => up = TRUE /\ me.status = "running")
  BY DEF DriftInv
<1>0. Research!Candidates \subseteq [kind : {me.activity}, refs : SUBSET (Nat \cup Fact), parents : SUBSET seen]
  BY <1>1 DEF Research!Candidates, RunRow
<1>2. CASE Research!SelectIdle
  <2>1. pc # "idle" /\ [me EXCEPT !.status = "completed", !.stage = "finished"] \in RunRow
    BY <1>1, <1>2 DEF Research!SelectIdle, RunRow
  <2> QED BY <1>1, <1>2, <2>1, RowSaved, Working DEF Research!SelectIdle, Research!Saved, Research!Ends, Research!chat, RunRow
<1>3. ASSUME NEW a \in {Research!Aggregation, Research!Topic}, Research!Select(a) PROVE DriftInv'
  <2>1. pc # "idle" /\ [me EXCEPT !.activity = a, !.stage = "executing"] \in RunRow
    BY <1>1, <1>3 DEF Research!Select, RunRow, Research!Aggregation, Research!Topic
  <2> QED BY <1>1, <1>3, <2>1, RowSaved, Working DEF Research!Select, Research!Saved, Research!chat, RunRow
<1>4. ASSUME NEW c \in Research!Candidates, Research!Make(c) PROVE DriftInv'
  <2>1. c.refs \subseteq Nat \cup Fact
    BY <1>0
  <2>2. pc # "idle" /\ [me EXCEPT !.stage = "committing", !.refs = c.refs] \in RunRow
    BY <1>1, <1>4, <2>1 DEF Research!Make, RunRow
  <2> QED BY <1>1, <1>4, <2>2, RowSaved, Working DEF Research!Make, Research!Saved, Research!chat, RunRow
<1>5. CASE Research!Gate
  <2>1. pc # "idle" /\ [me EXCEPT !.status = "gated", !.stage = "finished"] \in RunRow
    BY <1>1, <1>5 DEF Research!Gate, RunRow
  <2> QED BY <1>1, <1>5, <2>1, RowSaved, Working DEF Research!Gate, Research!Saved, Research!Ends, Research!chat, RunRow
<1>6. CASE Research!Complete
  <2>1. pc # "idle" /\ [me EXCEPT !.status = "completed", !.stage = "finished"] \in RunRow
    BY <1>1, <1>6 DEF Research!Complete, RunRow
  <2> QED BY <1>1, <1>6, <2>1, RowSaved, Working DEF Research!Complete, Research!Saved, Research!Ends, Research!chat, RunRow
<1>7. CASE Research!Pause
  <2> DEFINE r == [me EXCEPT !.status = "paused", !.count = Research!More(me.count)]
  <2>1. pc # "idle" /\ me.count \in 0..MaxResumes /\ auto <= me.count /\ Len(runs) > 0 /\ auto \in 0..MaxResumes
    BY <1>7, Working DEF Research!Pause, DriftInv
  <2>2. Research!More(me.count) \in 0..MaxResumes
        /\ (auto < Research!More(me.count) \/ Research!More(me.count) = MaxResumes)
    BY <2>1 DEF Research!More
  <2>3. r \in RunRow /\ r.status = "paused" /\ r.count = Research!More(me.count)
    BY <1>1, <2>2 DEF RunRow
  <2>4. me' = r /\ runs' = [runs EXCEPT ![Len(runs)] = r] /\ pc' = "idle" /\ auto' = auto
        /\ messages' = messages /\ last' = last
    BY <1>7 DEF Research!Pause, Research!Saved, Research!Ends, Research!chat
  <2> HIDE DEF r
  <2> QED BY <2>1, <2>2, <2>3, <2>4, RowSaved
<1> QED BY <1>2, <1>3, <1>4, <1>5, <1>6, <1>7

\* A start counts the runs that were cut off.
LEMMA RecoverKeeps == ASSUME DriftInv, Research!Recover PROVE DriftInv'
<1> USE BackgroundAssumption
<1>1. runs \in Seq(RunRow) /\ auto \in 0..MaxResumes /\ me' = me /\ auto' = auto /\ pc' = pc /\ pc = "idle"
      /\ messages' = messages /\ last' = last
  BY DEF DriftInv, Research!Recover, Research!work, Research!chat
<1>2. ASSUME NEW r \in DOMAIN runs
      PROVE  /\ runs[r] \in RunRow /\ runs'[r] \in RunRow
             /\ runs[r].status = "running" => /\ runs'[r].status = "paused"
                                              /\ runs'[r].count = Research!More(runs[r].count)
             /\ runs[r].status # "running" => runs'[r] = runs[r]
  <2>1. runs[r] \in RunRow
    BY <1>1, <1>2
  <2>2. Research!More(runs[r].count) \in 0..MaxResumes
    BY <2>1 DEF Research!More, RunRow
  <2>3. runs'[r] = IF runs[r].status = "running" THEN Research!Interrupted(runs[r]) ELSE runs[r]
    BY <1>2 DEF Research!Recover
  <2> QED BY <2>1, <2>2, <2>3 DEF Research!Interrupted, RunRow
<1>3. runs' \in Seq(RunRow) /\ Len(runs') = Len(runs)
  <2>1. DOMAIN runs' = 1..Len(runs) /\ DOMAIN runs = 1..Len(runs) /\ Len(runs) \in Nat
    BY <1>1 DEF Research!Recover
  <2>2. runs' \in [1..Len(runs) -> RunRow]
    BY <1>2, <2>1 DEF Research!Recover
  <2> QED BY <2>1, <2>2, IsASeq, LenProperties
<1>4. ASSUME Len(runs) > 0
      PROVE  /\ Newest'.status = "running" => auto <= Newest'.count
             /\ Newest'.status = "paused" => auto < Newest'.count \/ Newest'.count = MaxResumes
  <2>1. Len(runs) \in DOMAIN runs
    BY <1>1, <1>4
  <2>2. Newest' = runs'[Len(runs)] /\ Newest \in RunRow
    BY <1>2, <1>3, <2>1 DEF Newest
  <2>3. CASE Newest.status = "running"
    <3>1. auto <= Newest.count /\ Newest.count \in 0..MaxResumes
      BY <1>4, <2>2, <2>3 DEF DriftInv, RunRow
    <3> QED BY <1>1, <1>2, <2>1, <2>2, <2>3, <3>1 DEF Newest, Research!More
  <2>4. CASE Newest.status # "running"
    BY <1>2, <1>4, <2>1, <2>2, <2>4 DEF Newest, DriftInv
  <2> QED BY <2>3, <2>4
<1> QED BY <1>1, <1>3, <1>4 DEF DriftInv

\* Clearing takes the message out of every run.
LEMMA ClearKeeps == ASSUME DriftInv, Research!ClearChat PROVE DriftInv'
<1>1. runs \in Seq(RunRow) /\ DOMAIN runs = 1..Len(runs) /\ Len(runs) \in Nat
  BY DEF DriftInv
<1>2. runs' = [r \in DOMAIN runs |-> [runs[r] EXCEPT !.snap = 0]]
  BY DEF Research!ClearChat
<1>3. \A r \in DOMAIN runs : /\ runs'[r] \in RunRow /\ runs'[r].status = runs[r].status
                             /\ runs'[r].count = runs[r].count
  <2> TAKE r \in DOMAIN runs
  <2>1. runs[r] \in RunRow /\ 0 \in Nat
    BY <1>1
  <2>2. runs'[r] = [runs[r] EXCEPT !.snap = 0]
    BY <1>2
  <2> QED BY <2>1, <2>2 DEF RunRow
<1>4. runs' \in [1..Len(runs) -> RunRow]
  BY <1>1, <1>2, <1>3
<1>5. runs' \in Seq(RunRow) /\ Len(runs') = Len(runs)
  BY <1>1, <1>4, IsASeq, LenProperties
<1>6. Len(runs) > 0 => Newest'.status = Newest.status /\ Newest'.count = Newest.count
  BY <1>1, <1>3, <1>5 DEF Newest
<1> QED BY <1>5, <1>6 DEF DriftInv, Research!ClearChat, Research!work

\* A message, a run or a crash keeps what the newest run is to count.
LEMMA DriftStep == DriftInv /\ [Research!Next]_drift => DriftInv'
<1> SUFFICES ASSUME DriftInv, [Research!Next]_drift PROVE DriftInv'
  OBVIOUS
<1> USE BackgroundAssumption
<1>1. CASE Research!Ingest
  BY <1>1 DEF Research!Ingest, DriftInv, Newest, Research!work
<1>2. CASE \/ Research!Answered \/ Research!Hours \/ Research!UpdatePolicy
           \/ \E i \in Research!Item : Research!Polled(i) \/ Research!Judged(i)
  BY <1>2 DEF Research!Answered, Research!Hours, Research!UpdatePolicy, Research!Polled, Research!Judged, DriftInv,
     Newest, Research!work, Research!chat
<1>3. CASE Research!Checked
  BY <1>3 DEF Research!Checked, DriftInv, Newest, Research!chat
<1>4. CASE Research!Crash
  BY <1>4 DEF Research!Crash, DriftInv, Newest, Research!chat, Research!Ends, Research!NoRow, RunRow
<1>5. CASE UNCHANGED drift
  BY <1>5 DEF drift, DriftInv, Newest
<1> QED BY <1>1, <1>2, <1>3, <1>4, <1>5, BeginKeeps, SavedKeeps, RecoverKeeps, ClearKeeps DEF Research!Next

\* What was continued by itself is bounded.
LEMMA DriftSafe == DriftInv => Research!BudgetKept
BY BackgroundAssumption DEF DriftInv, Research!BudgetKept

(****************************************************************************)
(* Feeds: a validator is saved only with everything it vouches for          *)
(****************************************************************************)

\* A row, or a copy of one; a deleted one has no validator.
Source == {r \in [url : Url \cup {0, -1}, etag : 0..MaxVersions, enabled : BOOLEAN, due : BOOLEAN] :
             r.url \notin Url => r.etag = 0 /\ ~r.enabled}

\* The stories there are in the pool.
Pooled == {s \in Sources!Story : stories[s] # {}}
Vouched(r, set) == Sources!Stories(r.url, r.etag) \subseteq set

PollState == [at : {"none", "fetch", "store", "merge"}, feed : Feed \cup {0}, copy : Source,
              got : 0..MaxVersions, todo : SUBSET Sources!Story, refs : SUBSET (Feed \cup {0}),
              story : Sources!Story \cup {0}]

\* What a poll has read of the document is in the pool or still to do; it
\* merges into a story that is there.
PollKept(q, set) ==
  /\ q \in PollState /\ Vouched(q.copy, set)
  /\ q.at # "none" => q.copy.url \in Url
  /\ q.at \in {"store", "merge"} => Sources!Stories(q.copy.url, q.got) \subseteq set \cup q.todo
  /\ q.at = "merge" => q.story \in set

\* The inductive invariant of the feeds: no row, and no copy a poll or an edit
\* holds, vouches for a story that is not in the pool.
FeedsInv ==
  /\ version \in [Url -> 1..MaxVersions]
  /\ feed \in [Feed -> Source] /\ \A f \in Feed : Vouched(feed[f], Pooled)
  /\ stories \in [Sources!Story -> SUBSET (Feed \cup {0})]
  /\ DOMAIN poll = Poll /\ poll = [p \in Poll |-> poll[p]] /\ \A p \in Poll : PollKept(poll[p], Pooled)
  /\ edit.copy \in Source /\ Vouched(edit.copy, Pooled)

\* The stories a validator stands for are stories.
LEMMA StoriesIn ==
  ASSUME NEW u \in Url \cup {0, -1}, NEW v \in 0..MaxVersions, u \notin Url => v = 0
  PROVE  Sources!Stories(u, v) \subseteq Sources!Story
<1> USE BackgroundAssumption
<1>0. Sources!Stories(u, v) \subseteq Sources!Entries(u, v)
  BY DEF Sources!Stories, Sources!First
<1>1. CASE v = 0
  BY <1>0, <1>1 DEF Sources!Entries
<1>2. CASE v # 0
  <2>1. u \in Url /\ v \in 1..MaxVersions
    BY <1>2
  <2>2. \A k \in 1..v : k \in 1..MaxVersions
    BY <2>1
  <2>3. Sources!Entries(u, v) \subseteq Sources!Entries(u, MaxVersions)
    BY <2>1, <2>2 DEF Sources!Entries
  <2> QED BY <1>0, <2>1, <2>3 DEF Sources!Story
<1> QED BY <1>1, <1>2

\* Without a validator nothing is vouched for.
LEMMA NothingVouched == \A u : Sources!Stories(u, 0) = {}
BY DEF Sources!Stories, Sources!First, Sources!Entries

\* A deleted row vouches for nothing.
LEMMA GoneVouched == Sources!Gone \in Source /\ Sources!Deleted \in Source /\ Vouched(Sources!Gone, Pooled) /\ Vouched(Sources!Deleted, Pooled)
<1> USE BackgroundAssumption
<1>1. 0 \notin Url /\ -1 \notin Url /\ 0 \in 0..MaxVersions
  OBVIOUS
<1> QED BY <1>1, NothingVouched DEF Sources!Gone, Sources!Deleted, Source, Vouched

\* A coroutine that polls nothing vouches for nothing.
LEMMA NoPollKept == PollKept(Sources!NoPoll, Pooled)
<1> USE BackgroundAssumption
<1>1. 0 \in 0..MaxVersions
  OBVIOUS
<1> QED BY <1>1, GoneVouched DEF PollKept, PollState, Sources!NoPoll

\* No feed was fetched at first.
LEMMA FeedsInit == Sources!Init => FeedsInv
<1> SUFFICES ASSUME Sources!Init PROVE FeedsInv
  OBVIOUS
<1>1. 1 \in 1..MaxVersions
  BY BackgroundAssumption
<1>2. version \in [Url -> 1..MaxVersions]
  BY <1>1 DEF Sources!Init
<1>3. feed \in [Feed -> Source] /\ \A f \in Feed : Vouched(feed[f], Pooled)
  BY GoneVouched DEF Sources!Init
<1>4. edit.copy \in Source /\ Vouched(edit.copy, Pooled)
  BY GoneVouched DEF Sources!Init, Sources!NoEdit
<1>5. \A p \in Poll : PollKept(poll[p], Pooled)
  BY NoPollKept DEF Sources!Init
<1> QED BY <1>2, <1>3, <1>4, <1>5 DEF FeedsInv, Sources!Init

\* What is in the pool stays there, and with it what the copies vouch for.
LEMMA PoolGrows ==
  ASSUME stories' \in [Sources!Story -> SUBSET (Feed \cup {0})],
         \A s \in Sources!Story : stories[s] # {} => stories'[s] # {}
  PROVE  /\ Pooled \subseteq Pooled'
         /\ \A r : Vouched(r, Pooled) => Vouched(r, Pooled')
         /\ \A q : PollKept(q, Pooled) => PollKept(q, Pooled')
<1>1. Pooled \subseteq Pooled'
  BY DEF Pooled
<1> QED BY <1>1 DEF Vouched, PollKept

\* A step of one poll.
LEMMA PollSteps ==
  ASSUME FeedsInv, NEW p \in Poll, NEW q, PollKept(q, Pooled'), poll' = [poll EXCEPT ![p] = q],
         stories' \in [Sources!Story -> SUBSET (Feed \cup {0})],
         \A s \in Sources!Story : stories[s] # {} => stories'[s] # {},
         UNCHANGED <<version, feed, edit>>
  PROVE  FeedsInv'
<1>1. /\ \A r : Vouched(r, Pooled) => Vouched(r, Pooled')
      /\ \A b : PollKept(b, Pooled) => PollKept(b, Pooled')
  BY PoolGrows
<1>2. \A b \in Poll : PollKept(poll'[b], Pooled')
  BY <1>1 DEF FeedsInv
<1>3. poll' = [b \in Poll |-> poll'[b]] /\ DOMAIN poll' = Poll
  BY DEF FeedsInv
<1> QED BY <1>1, <1>2, <1>3 DEF FeedsInv

\* A step of one row, with the pool as it is.
LEMMA RowSteps ==
  ASSUME FeedsInv, NEW f, NEW r \in Source, Vouched(r, Pooled), feed' \in {feed, [feed EXCEPT ![f] = r]},
         UNCHANGED <<version, stories>>, edit'.copy \in Source, Vouched(edit'.copy, Pooled),
         poll' = poll \/ \E p \in Poll : poll' = [poll EXCEPT ![p] = Sources!NoPoll]
  PROVE  FeedsInv'
<1>1. feed' \in [Feed -> Source] /\ \A g \in Feed : Vouched(feed'[g], Pooled)
  BY DEF FeedsInv
<1>2. (\A b : Vouched(b, Pooled) <=> Vouched(b, Pooled')) /\ (\A b : PollKept(b, Pooled) <=> PollKept(b, Pooled'))
  BY DEF Vouched, PollKept, Pooled
<1>3. \A b \in Poll : PollKept(poll'[b], Pooled)
  BY NoPollKept DEF FeedsInv
<1>4. poll' = [b \in Poll |-> poll'[b]] /\ DOMAIN poll' = Poll
  BY DEF FeedsInv
<1> QED BY <1>1, <1>2, <1>3, <1>4 DEF FeedsInv

\* The user's edits.
LEMMA EditKeeps ==
  ASSUME FeedsInv,
         \/ \E f \in Feed : \/ Sources!Later(f) \/ Sources!BeginUpdate(f) \/ Sources!Delete(f)
                            \/ \E u \in Url : Sources!Create(f, u)
         \/ \E u \in Url, on \in BOOLEAN : Sources!Update(u, on)
  PROVE  FeedsInv'
<1> USE BackgroundAssumption
<1>0. edit.copy \in Source /\ Vouched(edit.copy, Pooled)
  BY DEF FeedsInv
<1>1. ASSUME NEW f \in Feed, Sources!Later(f) PROVE FeedsInv'
  <2>1. feed[f] \in Source /\ Vouched(feed[f], Pooled)
    BY DEF FeedsInv
  <2>2. [feed[f] EXCEPT !.due = TRUE] \in Source /\ Vouched([feed[f] EXCEPT !.due = TRUE], Pooled)
    BY <2>1 DEF Source, Vouched
  <2>3. feed' = [feed EXCEPT ![f] = [feed[f] EXCEPT !.due = TRUE]]
    BY <1>1 DEF Sources!Later
  <2> QED BY <1>0, <1>1, <2>2, <2>3, RowSteps DEF Sources!Later
<1>2. ASSUME NEW f \in Feed, Sources!BeginUpdate(f) PROVE FeedsInv'
  <2>1. feed[f] \in Source /\ Vouched(feed[f], Pooled)
    BY DEF FeedsInv
  <2>2. edit'.copy = feed[f]
    BY <1>2 DEF Sources!BeginUpdate
  <2> QED BY <1>2, <2>1, <2>2, RowSteps DEF Sources!BeginUpdate
<1>3. ASSUME NEW f \in Feed, Sources!Delete(f) PROVE FeedsInv'
  BY <1>0, <1>3, GoneVouched, RowSteps DEF Sources!Delete
<1>4. ASSUME NEW f \in Feed, NEW u \in Url, Sources!Create(f, u) PROVE FeedsInv'
  <2> DEFINE r == [url |-> u, etag |-> 0, enabled |-> TRUE, due |-> TRUE]
  <2>1. r \in Source /\ Vouched(r, Pooled)
    BY NothingVouched DEF Source, Vouched
  <2>2. feed' = [feed EXCEPT ![f] = r]
    BY <1>4 DEF Sources!Create
  <2> HIDE DEF r
  <2> QED BY <1>0, <1>4, <2>1, <2>2, RowSteps DEF Sources!Create
<1>5. ASSUME NEW u \in Url, NEW on \in BOOLEAN, Sources!Update(u, on) PROVE FeedsInv'
  <2> DEFINE r == Sources!Revised(edit.copy, u, on)
  <2>1. r \in Source /\ Vouched(r, Pooled)
    <3>1. CASE u = edit.copy.url
      BY <1>0, <3>1 DEF Source, Vouched, Sources!Revised
    <3>2. CASE u # edit.copy.url
      BY <1>0, <3>2, NothingVouched DEF Source, Vouched, Sources!Revised
    <3> QED BY <3>1, <3>2
  <2>2. feed' \in {feed, [feed EXCEPT ![edit.feed] = r]} /\ edit' = Sources!NoEdit /\ UNCHANGED <<version, stories, poll>>
    BY <1>5 DEF Sources!Update
  <2>3. edit'.copy \in Source /\ Vouched(edit'.copy, Pooled)
    BY <2>2, GoneVouched DEF Sources!NoEdit
  <2> HIDE DEF r
  <2> QED BY <2>1, <2>2, <2>3, RowSteps
<1> QED BY <1>1, <1>2, <1>3, <1>4, <1>5

\* A poll takes its copy, and learns what the server has.
LEMMA FetchKeeps ==
  ASSUME FeedsInv, NEW p \in Poll,
         \/ \E f \in Feed : Sources!Due(p, f) \/ Sources!Refresh(p, f)
         \/ Sources!NotModified(p) \/ \E v \in 0..MaxVersions : Sources!Fetched(p, v)
  PROVE  FeedsInv'
<1> USE BackgroundAssumption
<1>0. /\ PollKept(poll[p], Pooled) /\ poll[p] \in PollState /\ poll[p].copy \in Source
      /\ stories \in [Sources!Story -> SUBSET (Feed \cup {0})]
  BY DEF FeedsInv, PollKept, PollState
<1>1. ASSUME NEW f \in Feed, Sources!Due(p, f) \/ Sources!Refresh(p, f) PROVE FeedsInv'
  <2> DEFINE q == [Sources!NoPoll EXCEPT !.at = "fetch", !.feed = f, !.copy = feed[f]]
  <2>1. feed[f] \in Source /\ Vouched(feed[f], Pooled) /\ feed[f].url \in Url
    BY <1>1 DEF FeedsInv, Sources!Due, Sources!Refresh, Sources!Live, Source
  <2>2. q \in PollState
    BY <2>1, NoPollKept DEF PollKept, PollState, Sources!NoPoll
  <2>5. q.at = "fetch" /\ q.copy = feed[f]
    BY DEF Sources!NoPoll
  <2>3. PollKept(q, Pooled)
    BY <2>1, <2>2, <2>5 DEF PollKept
  <2>4. poll' = [poll EXCEPT ![p] = q] /\ UNCHANGED <<version, feed, stories, edit>>
    BY <1>1 DEF Sources!Due, Sources!Refresh, Sources!Started
  <2> HIDE DEF q
  <2>6. PollKept(q, Pooled')
    BY <2>3, <2>4, PoolGrows, <1>0
  <2> QED BY <1>0, <2>4, <2>6, PollSteps
<1>2. CASE Sources!NotModified(p)
  <2> DEFINE q == [poll[p] EXCEPT !.at = "store", !.got = poll[p].copy.etag]
  <2>1. poll[p].at = "fetch" /\ poll[p].copy.etag \in 0..MaxVersions /\ poll[p].copy.url \in Url /\ Vouched(poll[p].copy, Pooled)
    BY <1>0, <1>2 DEF Sources!NotModified, PollKept, PollState, Source
  <2>2. PollKept(q, Pooled)
    BY <1>0, <2>1 DEF PollKept, PollState, Vouched
  <2>3. poll' = [poll EXCEPT ![p] = q] /\ UNCHANGED <<version, feed, stories, edit>>
    BY <1>2 DEF Sources!NotModified
  <2> HIDE DEF q
  <2>4. PollKept(q, Pooled')
    BY <2>2, <2>3, PoolGrows, <1>0
  <2> QED BY <1>0, <2>3, <2>4, PollSteps
<1>3. ASSUME NEW v \in 0..MaxVersions, Sources!Fetched(p, v) PROVE FeedsInv'
  <2> DEFINE u == poll[p].copy.url
             q == [poll[p] EXCEPT !.at = "store", !.got = v, !.todo = Sources!Stories(u, version[u])]
  <2>0. poll[p].at = "fetch" /\ u \in Url /\ v \in {0, version[u]}
    BY <1>0, <1>3 DEF Sources!Fetched, PollKept
  <2>1. version[u] \in 0..MaxVersions
    BY <2>0 DEF FeedsInv
  <2>2. Sources!Stories(u, version[u]) \subseteq Sources!Story
    BY <2>0, <2>1, StoriesIn
  <2>3. Sources!Stories(u, v) \subseteq Sources!Stories(u, version[u])
    BY <2>0, NothingVouched
  <2>a. q \in PollState
    BY <1>0, <2>0, <2>1, <2>2 DEF PollState
  <2>b. /\ q.at = "store" /\ q.got = v /\ q.todo = Sources!Stories(u, version[u])
        /\ q.copy = poll[p].copy /\ q.refs = poll[p].refs /\ q.feed = poll[p].feed /\ q.story = poll[p].story
    BY <1>0 DEF PollState
  <2>4. PollKept(q, Pooled)
    BY <1>0, <2>0, <2>2, <2>3, <2>a, <2>b DEF PollKept, Vouched
  <2>c. DOMAIN poll = Poll
    BY DEF FeedsInv
  <2> DEFINE new == Sources!Stories(u, version[u])
  <2>d. /\ poll' = [poll EXCEPT ![p].at = "store", ![p].got = v, ![p].todo = new]
        /\ UNCHANGED <<version, feed, stories, edit>>
    BY <1>3, Zenon DEF Sources!Fetched
  <2> HIDE DEF new
  <2>e. poll' = [poll EXCEPT ![p] = [poll[p] EXCEPT !.at = "store", !.got = v, !.todo = new]]
    BY <2>c, <2>d
  <2>5. poll' = [poll EXCEPT ![p] = q] /\ UNCHANGED <<version, feed, stories, edit>>
    BY <2>d, <2>e DEF new
  <2> HIDE DEF q
  <2>6. PollKept(q, Pooled')
    BY <2>4, <2>5, PoolGrows, <1>0
  <2> QED BY <1>0, <2>5, <2>6, PollSteps
<1> QED BY <1>1, <1>2, <1>3

\* The stories of the document reach the pool one by one.
LEMMA StoryKeeps ==
  ASSUME FeedsInv, NEW p \in Poll, Sources!Merge(p) \/ \E s \in Sources!Story : Sources!Insert(p, s)
  PROVE  FeedsInv'
<1> USE BackgroundAssumption
<1>0. /\ PollKept(poll[p], Pooled) /\ poll[p] \in PollState
      /\ stories \in [Sources!Story -> SUBSET (Feed \cup {0})] /\ poll[p].feed \in Feed \cup {0}
  BY DEF FeedsInv, PollKept, PollState
<1>1. CASE Sources!Merge(p)
  <2> DEFINE s == poll[p].story
             q == [poll[p] EXCEPT !.at = "store", !.todo = poll[p].todo \ {s}, !.refs = {}, !.story = 0]
  <2>1. poll[p].at = "merge" /\ s \in Pooled /\ poll[p].refs \subseteq Feed \cup {0}
    BY <1>0, <1>1 DEF Sources!Merge, PollKept, PollState
  <2>2. /\ stories' \in [Sources!Story -> SUBSET (Feed \cup {0})]
        /\ \A b \in Sources!Story : stories[b] # {} => stories'[b] # {}
    BY <1>0, <1>1, <2>1 DEF Sources!Merge, Pooled
  <2>3. Pooled \subseteq Pooled' /\ Vouched(poll[p].copy, Pooled')
    BY <1>0, <2>2, PoolGrows DEF PollKept
  <2>4. s \in Pooled'
    BY <2>1, <2>3
  <2>5. q \in PollState
    BY <1>0 DEF PollState
  <2>6. q.at = "store" /\ q.copy = poll[p].copy /\ q.got = poll[p].got /\ q.todo = poll[p].todo \ {s}
    BY <1>0 DEF PollState
  <2>7. poll[p].copy.url \in Url /\ Sources!Stories(poll[p].copy.url, poll[p].got) \subseteq Pooled \cup poll[p].todo
    BY <1>0, <2>1 DEF PollKept
  <2>8. poll' = [poll EXCEPT ![p] = q] /\ UNCHANGED <<version, feed, edit>>
    BY <1>1 DEF Sources!Merge
  <2> HIDE DEF q, s
  <2>9. PollKept(q, Pooled')
    BY <2>3, <2>4, <2>5, <2>6, <2>7 DEF PollKept
  <2> QED BY <2>2, <2>8, <2>9, PollSteps
<1>2. ASSUME NEW s \in Sources!Story, Sources!Insert(p, s), stories[s] = {} PROVE FeedsInv'
  <2> DEFINE q == [poll[p] EXCEPT !.todo = poll[p].todo \ {s}]
  <2>0. stories' = [stories EXCEPT ![s] = {poll[p].feed}]
    BY <1>2 DEF Sources!Insert
  <2>1. /\ stories' \in [Sources!Story -> SUBSET (Feed \cup {0})] /\ stories'[s] # {}
        /\ \A b \in Sources!Story : stories[b] # {} => stories'[b] # {}
    BY <1>0, <2>0
  <2>2. Pooled \subseteq Pooled' /\ Vouched(poll[p].copy, Pooled') /\ s \in Pooled'
    BY <1>0, <2>1, PoolGrows DEF PollKept, Pooled
  <2>3. poll[p].at = "store"
    BY <1>2 DEF Sources!Insert
  <2>4. poll[p].copy.url \in Url /\ Sources!Stories(poll[p].copy.url, poll[p].got) \subseteq Pooled \cup poll[p].todo
    BY <1>0, <2>3 DEF PollKept
  <2>5. q \in PollState /\ q.at = "store" /\ q.copy = poll[p].copy /\ q.got = poll[p].got /\ q.todo = poll[p].todo \ {s}
    BY <1>0, <2>3 DEF PollState
  <2>6. poll' = [poll EXCEPT ![p] = q] /\ UNCHANGED <<version, feed, edit>>
    BY <1>2 DEF Sources!Insert
  <2> HIDE DEF q
  <2>7. PollKept(q, Pooled')
    BY <2>2, <2>4, <2>5 DEF PollKept
  <2> QED BY <2>1, <2>6, <2>7, PollSteps
<1>3. ASSUME NEW s \in Sources!Story, Sources!Insert(p, s), stories[s] # {} PROVE FeedsInv'
  <2> DEFINE q == [poll[p] EXCEPT !.at = "merge", !.refs = stories[s], !.story = s]
  <2>1. poll[p].at = "store" /\ s \in Pooled /\ stories[s] \subseteq Feed \cup {0}
    BY <1>0, <1>3 DEF Sources!Insert, Pooled
  <2>2. q \in PollState
    BY <1>0, <2>1 DEF PollState
  <2>3. PollKept(q, Pooled)
    BY <1>0, <2>1, <2>2 DEF PollKept, PollState
  <2>4. poll' = [poll EXCEPT ![p] = q] /\ UNCHANGED <<version, feed, stories, edit>>
    BY <1>3 DEF Sources!Insert
  <2> HIDE DEF q
  <2>5. PollKept(q, Pooled')
    BY <2>3, <2>4, PoolGrows, <1>0
  <2> QED BY <1>0, <2>4, <2>5, PollSteps
<1> QED BY <1>1, <1>2, <1>3

\* The copy becomes the row.
LEMMA EndKeeps ==
  ASSUME FeedsInv, NEW p \in Poll, Sources!Save(p) \/ Sources!Fail(p) PROVE FeedsInv'
<1> USE BackgroundAssumption
<1>0. /\ PollKept(poll[p], Pooled) /\ poll[p] \in PollState /\ poll[p].copy \in Source
      /\ edit.copy \in Source /\ Vouched(edit.copy, Pooled) /\ Vouched(poll[p].copy, Pooled)
  BY DEF FeedsInv, PollKept, PollState
<1>1. CASE Sources!Save(p)
  <2> DEFINE r == [poll[p].copy EXCEPT !.etag = poll[p].got, !.due = FALSE]
  <2>1. poll[p].at = "store" /\ poll[p].todo = {} /\ poll[p].copy.url \in Url /\ poll[p].got \in 0..MaxVersions
    BY <1>0, <1>1 DEF Sources!Save, Sources!Stored, PollKept, PollState
  <2>2. Sources!Stories(poll[p].copy.url, poll[p].got) \subseteq Pooled
    BY <1>0, <2>1 DEF PollKept
  <2>3. r \in Source /\ r.url = poll[p].copy.url /\ r.etag = poll[p].got
    BY <1>0, <2>1 DEF Source
  <2>4. /\ feed' \in {feed, [feed EXCEPT ![poll[p].feed] = r]} /\ poll' = [poll EXCEPT ![p] = Sources!NoPoll]
        /\ UNCHANGED <<version, stories, edit>>
    BY <1>1 DEF Sources!Save, Sources!Ended
  <2> HIDE DEF r
  <2>5. Vouched(r, Pooled)
    BY <2>2, <2>3 DEF Vouched
  <2> QED BY <1>0, <2>3, <2>4, <2>5, RowSteps
<1>2. CASE Sources!Fail(p)
  <2> DEFINE r == [poll[p].copy EXCEPT !.due = FALSE]
  <2>1. r \in Source /\ Vouched(r, Pooled)
    BY <1>0 DEF Source, Vouched
  <2>2. /\ feed' \in {feed, [feed EXCEPT ![poll[p].feed] = r]} /\ poll' = [poll EXCEPT ![p] = Sources!NoPoll]
        /\ UNCHANGED <<version, stories, edit>>
    BY <1>2 DEF Sources!Fail, Sources!Ended
  <2> HIDE DEF r
  <2> QED BY <1>0, <2>1, <2>2, RowSteps
<1> QED BY <1>1, <1>2

\* An edit, a fetch or the end of a poll keeps what the validators vouch for.
LEMMA FeedsStep == FeedsInv /\ [Sources!Next]_feeds => FeedsInv'
<1> SUFFICES ASSUME FeedsInv, [Sources!Next]_feeds PROVE FeedsInv'
  OBVIOUS
<1> USE BackgroundAssumption
<1>1. ASSUME NEW u \in Url, Sources!Publish(u) PROVE FeedsInv'
  <2>1. version' \in [Url -> 1..MaxVersions]
    BY <1>1 DEF Sources!Publish, FeedsInv
  <2>2. (\A b : Vouched(b, Pooled) <=> Vouched(b, Pooled')) /\ (\A b : PollKept(b, Pooled) <=> PollKept(b, Pooled'))
    BY <1>1 DEF Sources!Publish, Vouched, PollKept, Pooled
  <2> QED BY <1>1, <2>1, <2>2 DEF Sources!Publish, FeedsInv
<1>2. CASE Sources!Crash
  <2>1. (\A b : Vouched(b, Pooled) <=> Vouched(b, Pooled')) /\ (\A b : PollKept(b, Pooled) <=> PollKept(b, Pooled'))
    BY <1>2 DEF Sources!Crash, Vouched, PollKept, Pooled
  <2>2. poll' = [p \in Poll |-> Sources!NoPoll] /\ edit'.copy = Sources!Gone
    BY <1>2 DEF Sources!Crash, Sources!NoEdit
  <2> QED BY <1>2, <2>1, <2>2, NoPollKept, GoneVouched DEF Sources!Crash, FeedsInv
<1>3. CASE UNCHANGED feeds
  <2>1. (\A b : Vouched(b, Pooled) <=> Vouched(b, Pooled')) /\ (\A b : PollKept(b, Pooled) <=> PollKept(b, Pooled'))
    BY <1>3 DEF feeds, Vouched, PollKept, Pooled
  <2> QED BY <1>3, <2>1 DEF feeds, FeedsInv
<1> QED BY <1>1, <1>2, <1>3, EditKeeps, FetchKeeps, StoryKeeps, EndKeeps DEF Sources!Next

\* What the rows vouch for is in the pool.
LEMMA FeedsSafe == FeedsInv => Sources!NothingMissed
BY DEF FeedsInv, Vouched, Pooled, Sources!NothingMissed

(****************************************************************************)
(* Induction, for what a recursive function computes                        *)
(****************************************************************************)

\* A set of numbers that is not empty has a least one.
LEMMA Least == ASSUME NEW T \in SUBSET Nat, T # {} PROVE \E n \in T : \A k \in T : n <= k
<1>1. PICK n \in T : \A k \in T : ~(<<k, n>> \in OpToRel(<, Nat))
  BY NatLessThanWellFounded, WFMin
<1>2. \A k \in T : ~(k < n)
  BY <1>1 DEF OpToRel
<1> QED BY <1>2

\* A set that holds zero, and with a number the next, holds them all.
LEMMA Induct ==
  ASSUME NEW T, 0 \in T, \A n \in Nat : n \in T => n + 1 \in T
  PROVE  Nat \subseteq T
<1> SUFFICES ASSUME Nat \ T # {} PROVE FALSE
  OBVIOUS
<1>1. PICK n \in Nat \ T : \A k \in Nat \ T : n <= k
  BY Least
<1>2. n - 1 \in Nat /\ n - 1 \notin Nat \ T
  BY <1>1
<1>3. (n - 1) + 1 \in T /\ (n - 1) + 1 = n
  BY <1>2
<1> QED BY <1>1, <1>3

\* What holds at the first place, and at each place if at the one before it.
LEMMA Along ==
  ASSUME NEW n \in Nat, NEW S, NEW F, F[0] \in S[0],
         \A i \in 1..n : F[i - 1] \in S[i - 1] => F[i] \in S[i]
  PROVE  \A i \in 0..n : F[i] \in S[i]
<1> DEFINE T == {i \in Nat : i <= n => F[i] \in S[i]}
<1>1. 0 \in T
  OBVIOUS
<1>2. ASSUME NEW i \in Nat, i \in T PROVE i + 1 \in T
  <2> SUFFICES ASSUME i + 1 <= n PROVE F[i + 1] \in S[i + 1]
    OBVIOUS
  <2>1. i + 1 \in 1..n /\ (i + 1) - 1 = i /\ i <= n
    OBVIOUS
  <2>2. F[i] \in S[i]
    BY <1>2, <2>1
  <2> QED BY <2>1, <2>2
<1> HIDE DEF T
<1>3. Nat \subseteq T
  BY <1>1, <1>2, Induct
<1> QED BY <1>3 DEF T

Repeats(F, n, c, Step) == F = [i \in 0..n |-> IF i = 0 THEN c ELSE Step[i][F[i - 1]]]

\* Repeating a step as often as one likes is a function.
LEMMA Iterated == ASSUME NEW n \in Nat, NEW c, NEW Step PROVE \E F : Repeats(F, n, c, Step)
<1> DEFINE Eq(F, m) == F = [i \in 0..m |-> IF i = 0 THEN c ELSE Step[i][F[i - 1]]]
           T == {m \in Nat : \E F : Eq(F, m)}
<1>1. 0 \in T
  <2> DEFINE F == [i \in 0..0 |-> c]
  <2>1. Eq(F, 0)
    OBVIOUS
  <2> QED BY <2>1
<1>2. ASSUME NEW m \in Nat, m \in T PROVE m + 1 \in T
  <2>1. PICK F : Eq(F, m)
    BY <1>2
  <2> DEFINE G == [i \in 0..(m + 1) |-> IF i = m + 1 THEN Step[m + 1][F[m]] ELSE F[i]]
  <2>2. ASSUME NEW i \in 0..(m + 1) PROVE G[i] = IF i = 0 THEN c ELSE Step[i][G[i - 1]]
    <3>1. CASE i = 0
      BY <2>1, <3>1
    <3>2. CASE i = m + 1
      <4>1. i # 0 /\ i - 1 = m /\ m \in 0..(m + 1) /\ m # m + 1
        BY <3>2
      <4>2. G[i] = Step[i][F[m]] /\ G[m] = F[m]
        BY <3>2, <4>1
      <4> QED BY <4>1, <4>2
    <3>3. CASE i # 0 /\ i # m + 1
      <4>1. i \in 0..m /\ i - 1 \in 0..(m + 1) /\ i - 1 # m + 1
        BY <3>3
      <4>2. G[i] = F[i] /\ G[i - 1] = F[i - 1]
        BY <3>3, <4>1
      <4>3. F[i] = Step[i][F[i - 1]]
        BY <2>1, <3>3, <4>1
      <4> QED BY <3>3, <4>2, <4>3
    <3> QED BY <3>1, <3>2, <3>3
  <2>3. G = [i \in 0..(m + 1) |-> G[i]]
    OBVIOUS
  <2> HIDE DEF G
  <2>4. Eq(G, m + 1)
    BY <2>2, <2>3
  <2> QED BY <2>4
<1> HIDE DEF T
<1>3. n \in T
  BY <1>1, <1>2, Induct
<1> QED BY <1>3 DEF T, Repeats

(****************************************************************************)
(* BehaviorGraph: a pattern is found by the domains it has                  *)
(****************************************************************************)

\* The graph, and the row of a pattern.
GraphOf == [alias : [Behaviour!Tag -> Key \cup {Null}], scene : [Scene -> SUBSET Key],
            path : [Pattern -> SUBSET Key]]
PatternRow == [groups : Seq(SUBSET Behaviour!Tag), flat : SUBSET Domain, cluster : Scene \cup {Null},
               active : BOOLEAN]

\* A tag is an alias of a key of the scene.
Held(g, t, c) == g.alias[t] \in Key /\ g.alias[t] \in g.scene[c]

\* The scene of a pattern has a key of each domain it was described with.
Described(r, g) == r.cluster # Null => \A t \in Domain \cap Behaviour!Tags(r.groups) : Held(g, t, r.cluster)

\* The inductive invariant of the graph.
GraphInv == /\ graph \in GraphOf /\ pattern \in [Pattern -> PatternRow]
            /\ \A p \in Pattern : Described(pattern[p], graph)

\* No pattern was saved at first.
LEMMA GraphInit == Behaviour!Init => GraphInv
<1> SUFFICES ASSUME Behaviour!Init PROVE GraphInv
  OBVIOUS
<1>1. Behaviour!Empty \in GraphOf
  BY DEF Behaviour!Empty, GraphOf
<1>2. Behaviour!NoRow \in PatternRow
  BY DEF Behaviour!NoRow, PatternRow
<1> QED BY <1>1, <1>2 DEF Behaviour!Init, GraphInv, Described, Behaviour!NoRow

\* The keys of some tags are keys, and hold that of each.
LEMMA KeysOf ==
  ASSUME NEW g \in GraphOf, NEW tags \in SUBSET Behaviour!Tag
  PROVE  Behaviour!Keys(g, tags) \subseteq Key /\ \A t \in tags : g.alias[t] \in Key => g.alias[t] \in Behaviour!Keys(g, tags)
BY BackgroundAssumption DEF Behaviour!Keys, GraphOf

\* A group of tags becomes an alias of one key, and whatever had a key has
\* the key it was merged into.
LEMMA AbsorbKeeps ==
  ASSUME NEW g \in GraphOf, NEW tags \in SUBSET Behaviour!Tag, NEW fresh \in Key
  PROVE  LET h == Behaviour!Absorb(g, tags, fresh)
         IN  /\ h \in GraphOf
             /\ \A t \in tags : h.alias[t] \in Key
             /\ \A t \in Behaviour!Tag : g.alias[t] \in Key => h.alias[t] \in Key
             /\ \A t \in Behaviour!Tag, c \in Scene : Held(g, t, c) => Held(h, t, c)
<1> DEFINE found == Behaviour!Keys(g, tags)
           least == CHOOSE k \in found : \A other \in found : k <= other
           key == IF found = {} THEN fresh ELSE least
           old == found \ {key}
           h == Behaviour!Absorb(g, tags, fresh)
<1>1. found \in SUBSET Key /\ found \in SUBSET Nat
  BY BackgroundAssumption, KeysOf
<1>2. found # {} => least \in found
  BY <1>1, Least
<1>3. key \in Key /\ (found # {} => key \in found)
  BY <1>1, <1>2
<1>4. h = [alias |-> [t \in Behaviour!Tag |-> IF t \in tags \/ g.alias[t] \in old THEN key ELSE g.alias[t]],
           scene |-> [c \in Scene |-> Behaviour!Rewritten(g.scene[c], old, key)],
           path |-> [p \in Pattern |-> Behaviour!Rewritten(g.path[p], old, key)]]
  BY DEF Behaviour!Absorb
<1> HIDE DEF key, h, found
<1>5. \A s \in SUBSET Key : Behaviour!Rewritten(s, old, key) \in SUBSET Key
  BY <1>3 DEF Behaviour!Rewritten
<1>6. h \in GraphOf
  BY <1>3, <1>4, <1>5 DEF GraphOf
<1>7. \A t \in tags : h.alias[t] \in Key
  BY <1>3, <1>4
<1>8. \A t \in Behaviour!Tag : g.alias[t] \in Key => h.alias[t] \in Key
  BY <1>3, <1>4
<1>9. ASSUME NEW t \in Behaviour!Tag, NEW c \in Scene, Held(g, t, c) PROVE Held(h, t, c)
  <2>1. g.alias[t] \in Key /\ g.alias[t] \in g.scene[c] /\ h.alias[t] \in Key
    BY <1>8, <1>9 DEF Held
  <2>2. h.scene[c] = Behaviour!Rewritten(g.scene[c], old, key)
    BY <1>4
  <2>3. CASE g.alias[t] \in old
    BY <1>4, <2>1, <2>2, <2>3 DEF Held, Behaviour!Rewritten
  <2>4. CASE g.alias[t] \notin old
    <3>1. t \in tags => g.alias[t] = key
      BY <2>1, <2>4, KeysOf DEF found
    <3>2. h.alias[t] = g.alias[t]
      BY <1>4, <2>4, <3>1
    <3> QED BY <2>1, <2>2, <2>4, <3>2 DEF Held, Behaviour!Rewritten
  <2> QED BY <2>3, <2>4
<1> QED BY <1>6, <1>7, <1>8, <1>9 DEF h

\* Group by group.
LEMMA AbsorbAllKeeps ==
  ASSUME NEW g \in GraphOf, NEW groups \in Seq(SUBSET Behaviour!Tag), NEW fresh \in [DOMAIN groups -> Key]
  PROVE  LET h == Behaviour!AbsorbAll(g, groups, fresh)
         IN  /\ h \in GraphOf
             /\ \A t \in Behaviour!Tags(groups) : h.alias[t] \in Key
             /\ \A t \in Behaviour!Tag, c \in Scene : Held(g, t, c) => Held(h, t, c)
<1> DEFINE n == Len(groups)
           Step == [i \in 1..n |-> [x \in GraphOf |-> Behaviour!Absorb(x, groups[i], fresh[i])]]
           Ok(x, i) == /\ \A j \in 1..i : \A t \in groups[j] : x.alias[t] \in Key
                       /\ \A t \in Behaviour!Tag, c \in Scene : Held(g, t, c) => Held(x, t, c)
           S == [i \in 0..n |-> {x \in GraphOf : Ok(x, i)}]
           IsAfter(F) == F = [i \in 0..n |-> IF i = 0 THEN g ELSE Behaviour!Absorb(F[i - 1], groups[i], fresh[i])]
           After == CHOOSE F : IsAfter(F)
<1>1. n \in Nat /\ DOMAIN groups = 1..n /\ \A i \in 1..n : groups[i] \in SUBSET Behaviour!Tag /\ fresh[i] \in Key
  OBVIOUS
<1>2. g \in S[0]
  BY <1>1
<1>3. ASSUME NEW i \in 1..n, NEW x \in S[i - 1] PROVE Behaviour!Absorb(x, groups[i], fresh[i]) \in S[i]
  <2> DEFINE y == Behaviour!Absorb(x, groups[i], fresh[i])
  <2>1. i - 1 \in 0..n /\ i \in 0..n
    BY <1>1
  <2>2. x \in GraphOf /\ Ok(x, i - 1)
    BY <2>1
  <2>3. /\ y \in GraphOf /\ \A t \in groups[i] : y.alias[t] \in Key
        /\ \A t \in Behaviour!Tag : x.alias[t] \in Key => y.alias[t] \in Key
        /\ \A t \in Behaviour!Tag, c \in Scene : Held(x, t, c) => Held(y, t, c)
    BY <1>1, <2>2, AbsorbKeeps
  <2> HIDE DEF y
  <2>4. \A j \in 1..i : \A t \in groups[j] : y.alias[t] \in Key
    <3> TAKE j \in 1..i
    <3>1. groups[j] \in SUBSET Behaviour!Tag
      BY <1>1
    <3>2. j = i \/ j \in 1..(i - 1)
      BY <1>1
    <3> QED BY <2>2, <2>3, <3>1, <3>2
  <2>5. Ok(y, i)
    BY <2>2, <2>3, <2>4
  <2> HIDE DEF Ok
  <2>6. y \in S[i]
    BY <2>1, <2>3, <2>5
  <2> QED BY <2>6 DEF y
<1> HIDE DEF Ok
<1>a. \A i \in 0..n : S[i] \subseteq GraphOf
  OBVIOUS
<1> HIDE DEF S
<1>4. \E F : IsAfter(F)
  <2>0. n \in Nat
    BY <1>1
  <2> HIDE DEF Step, n
  <2>a. PICK F : Repeats(F, n, g, Step)
    BY <2>0, Iterated
  <2>1. F = [i \in 0..n |-> IF i = 0 THEN g ELSE Step[i][F[i - 1]]]
    BY <2>a DEF Repeats
  <2> USE DEF Step, n
  <2>2. F[0] \in S[0]
    BY <1>1, <1>2, <2>1
  <2>3. ASSUME NEW i \in 1..n, F[i - 1] \in S[i - 1] PROVE F[i] \in S[i] /\ F[i] = Behaviour!Absorb(F[i - 1], groups[i], fresh[i])
    <3>1. i \in 0..n /\ i # 0 /\ i - 1 \in 0..n
      BY <1>1
    <3>2. F[i] = Step[i][F[i - 1]] /\ F[i - 1] \in GraphOf
      BY <1>a, <2>1, <2>3, <3>1
    <3> QED BY <1>3, <2>3, <3>2
  <2>4. \A i \in 0..n : F[i] \in S[i]
    BY <1>1, <2>2, <2>3, Along
  <2>5. \A i \in 1..n : i - 1 \in 0..n
    BY <1>1
  <2>6. \A i \in 0..n : F[i] = IF i = 0 THEN g ELSE Behaviour!Absorb(F[i - 1], groups[i], fresh[i])
    <3> TAKE i \in 0..n
    <3>1. CASE i = 0
      BY <2>1, <3>1
    <3>2. CASE i # 0
      BY <1>1, <2>3, <2>4, <2>5, <3>2
    <3> QED BY <3>1, <3>2
  <2>7. F = [i \in 0..n |-> F[i]]
    BY <2>1
  <2>8. IsAfter(F)
    BY <2>6, <2>7
  <2> QED BY <2>8
<1>5. IsAfter(After)
  BY <1>4
<1>6. Behaviour!AbsorbAll(g, groups, fresh) = After[n]
  BY DEF Behaviour!AbsorbAll
<1> HIDE DEF After
<1>7. After[n] \in S[n]
  <2>1. After[0] \in S[0]
    BY <1>1, <1>2, <1>5
  <2>2. ASSUME NEW i \in 1..n, After[i - 1] \in S[i - 1] PROVE After[i] \in S[i]
    <3>1. i \in 0..n /\ i # 0
      BY <1>1
    <3>2. After[i] = Behaviour!Absorb(After[i - 1], groups[i], fresh[i])
      BY <1>5, <3>1
    <3> QED BY <1>3, <2>2, <3>2
  <2>3. \A i \in 0..n : After[i] \in S[i]
    BY <1>1, <2>1, <2>2, Along
  <2> QED BY <1>1, <2>3
<1>8. After[n] \in GraphOf /\ Ok(After[n], n)
  BY <1>1, <1>7 DEF S
<1> QED BY <1>1, <1>6, <1>8 DEF Ok, Behaviour!Tags

\* Evidence of a pattern: its scene gets the keys of its domains.
LEMMA UpsertKeeps ==
  ASSUME GraphInv, NEW p \in Pattern, NEW r \in PatternRow, Behaviour!Upsert(p, r)
  PROVE  GraphInv'
<1>0. graph \in GraphOf /\ pattern \in [Pattern -> PatternRow] /\ r.groups \in Seq(SUBSET Behaviour!Tag)
  BY DEF GraphInv, PatternRow
<1>1. PICK f \in Behaviour!Fresh(graph, r.groups) :
        LET g == Behaviour!AbsorbAll(graph, r.groups, f)
            domain == Behaviour!Keys(g, Behaviour!Tags(r.groups) \cap Domain)
            placed == [g EXCEPT !.path[p] = Behaviour!Keys(g, Behaviour!Tags(r.groups))]
        IN IF domain = {}
           THEN graph' = placed /\ pattern' = [pattern EXCEPT ![p] = [r EXCEPT !.cluster = Null]]
           ELSE \E c \in Behaviour!Scenes(g, domain) :
                  /\ graph' = [placed EXCEPT !.scene[c] = @ \cup domain]
                  /\ pattern' = [pattern EXCEPT ![p] = [r EXCEPT !.cluster = c]]
  BY DEF Behaviour!Upsert
<1>2. f \in [DOMAIN r.groups -> Key]
  BY DEF Behaviour!Fresh, Behaviour!Unused
<1> DEFINE g == Behaviour!AbsorbAll(graph, r.groups, f)
           tags == Behaviour!Tags(r.groups)
           domain == Behaviour!Keys(g, tags \cap Domain)
           placed == [g EXCEPT !.path[p] = Behaviour!Keys(g, tags)]
<1>3. /\ g \in GraphOf /\ \A t \in tags : g.alias[t] \in Key
      /\ \A t \in Behaviour!Tag, c \in Scene : Held(graph, t, c) => Held(g, t, c)
  BY <1>0, <1>2, AbsorbAllKeeps
<1>4. \/ domain = {} /\ graph' = placed /\ pattern' = [pattern EXCEPT ![p] = [r EXCEPT !.cluster = Null]]
      \/ domain # {} /\ \E c \in Behaviour!Scenes(g, domain) :
                          /\ graph' = [placed EXCEPT !.scene[c] = @ \cup domain]
                          /\ pattern' = [pattern EXCEPT ![p] = [r EXCEPT !.cluster = c]]
  BY <1>1
<1> HIDE DEF g
<1>5. tags \subseteq Behaviour!Tag
  BY <1>0 DEF Behaviour!Tags
<1> HIDE DEF tags
<1>6. /\ Behaviour!Keys(g, tags) \subseteq Key /\ domain \subseteq Key
      /\ \A t \in tags \cap Domain : g.alias[t] \in domain
  BY <1>3, <1>5, KeysOf
<1> HIDE DEF domain
<1>7. placed \in GraphOf /\ placed.alias = g.alias /\ placed.scene = g.scene
  BY <1>3, <1>6 DEF GraphOf
<1> HIDE DEF placed
<1>8. ASSUME NEW q \in Pattern, NEW h \in GraphOf, h.alias = g.alias, \A c \in Scene : g.scene[c] \subseteq h.scene[c]
      PROVE  Described(pattern[q], h)
  <2>1. Described(pattern[q], graph) /\ pattern[q] \in PatternRow
    BY DEF GraphInv
  <2>2. pattern[q].cluster # Null => pattern[q].cluster \in Scene
    BY <2>1 DEF PatternRow
  <2>3. Domain \subseteq Behaviour!Tag
    BY DEF Behaviour!Tag
  <2>4. \A t \in Domain, c \in Scene : Held(graph, t, c) => Held(h, t, c)
    BY <1>3, <1>8, <2>3 DEF Held
  <2> QED BY <2>1, <2>2, <2>4 DEF Described
<1>9. CASE domain = {} /\ graph' = placed /\ pattern' = [pattern EXCEPT ![p] = [r EXCEPT !.cluster = Null]]
  <2>1. [r EXCEPT !.cluster = Null] \in PatternRow /\ [r EXCEPT !.cluster = Null].cluster = Null
    BY DEF PatternRow
  <2>2. \A c \in Scene : g.scene[c] \subseteq placed.scene[c]
    BY <1>7
  <2>3. ASSUME NEW q \in Pattern PROVE Described(pattern'[q], placed) /\ pattern'[q] \in PatternRow
    <3>1. CASE q = p
      BY <1>0, <1>9, <2>1, <3>1 DEF Described
    <3>2. CASE q # p
      <4>1. pattern'[q] = pattern[q] /\ pattern[q] \in PatternRow
        BY <1>0, <1>9, <3>2
      <4> QED BY <1>7, <1>8, <2>2, <4>1
    <3> QED BY <3>1, <3>2
  <2>4. pattern' \in [Pattern -> PatternRow]
    BY <1>0, <1>9, <2>1
  <2> QED BY <1>7, <1>9, <2>3, <2>4 DEF GraphInv
<1>10. ASSUME NEW c \in Behaviour!Scenes(g, domain),
              graph' = [placed EXCEPT !.scene[c] = @ \cup domain],
              pattern' = [pattern EXCEPT ![p] = [r EXCEPT !.cluster = c]]
       PROVE  GraphInv'
  <2>1. c \in Scene
    BY DEF Behaviour!Scenes, Behaviour!Similar
  <2>2. /\ graph' \in GraphOf /\ graph'.alias = g.alias /\ \A b \in Scene : g.scene[b] \subseteq graph'.scene[b]
        /\ domain \subseteq graph'.scene[c]
    BY <1>6, <1>7, <1>10, <2>1 DEF GraphOf
  <2>3. /\ [r EXCEPT !.cluster = c] \in PatternRow
        /\ [r EXCEPT !.cluster = c].cluster = c /\ [r EXCEPT !.cluster = c].groups = r.groups
    BY <2>1 DEF PatternRow
  <2>4. Described([r EXCEPT !.cluster = c], graph')
    BY <1>3, <1>6, <2>2, <2>3 DEF Described, Held, tags
  <2>5. ASSUME NEW q \in Pattern PROVE Described(pattern'[q], graph')
    <3>1. CASE q = p
      BY <1>0, <1>10, <2>4, <3>1
    <3>2. CASE q # p
      <4>1. pattern'[q] = pattern[q]
        BY <1>0, <1>10, <3>2
      <4> QED BY <1>8, <2>2, <4>1
    <3> QED BY <3>1, <3>2
  <2>6. pattern' \in [Pattern -> PatternRow]
    BY <1>0, <1>10, <2>3
  <2> QED BY <2>2, <2>5, <2>6 DEF GraphInv
<1> QED BY <1>4, <1>9, <1>10

\* The tags of a row without groups, each as a group of its own.
LEMMA FlatRow == ASSUME NEW r \in PatternRow PROVE Behaviour!FlatGroups(r) \in Seq(SUBSET Behaviour!Tag)
<1>1. r.groups \in Seq(SUBSET Behaviour!Tag) /\ r.flat \subseteq Domain
  BY DEF PatternRow
<1> DEFINE T == {{t} : t \in r.flat}
<1>2. IsFiniteSet(r.flat)
  BY <1>1, BackgroundAssumption, FS_Subset
<1>3. ExistsBijection(r.flat, T)
  <2> DEFINE F == [t \in r.flat |-> {t}]
  <2>1. F \in Bijection(r.flat, T)
    BY DEF Bijection, Injection, Surjection, IsInjective
  <2> QED BY <2>1 DEF ExistsBijection
<1>4. IsFiniteSet(T)
  BY <1>2, <1>3, FS_Bijection
<1>5. Cardinality(T) \in Nat /\ ExistsBijection(1..Cardinality(T), T)
  BY <1>4, FS_CardinalityType
<1>8. T \subseteq SUBSET Behaviour!Tag
  BY <1>1 DEF Behaviour!Tag
<1> HIDE DEF T
<1>6. \E F \in [1..Cardinality(T) -> T] : Behaviour!IsInjective(F)
  BY <1>5 DEF ExistsBijection, Bijection, Injection, IsInjective, Behaviour!IsInjective
<1>a. Behaviour!Cardinality(T) = Cardinality(T)
  BY DEF Cardinality, Behaviour!Cardinality
<1>7. Behaviour!SetToSeq(T) \in [1..Cardinality(T) -> T]
  BY <1>6, <1>a DEF Behaviour!SetToSeq
<1>9. Behaviour!SetToSeq(T) \in [1..Cardinality(T) -> SUBSET Behaviour!Tag]
  BY <1>7, <1>8
<1>10. Behaviour!SetToSeq(T) \in Seq(SUBSET Behaviour!Tag)
  BY <1>5, <1>9, SeqDef
<1> QED BY <1>1, <1>10 DEF Behaviour!FlatGroups, T

\* A pattern that is saved, migrated or disabled leaves every pattern in the graph.
LEMMA GraphStep == GraphInv /\ [Behaviour!Next]_behaviour => GraphInv'
<1> SUFFICES ASSUME GraphInv, [Behaviour!Next]_behaviour PROVE GraphInv'
  OBVIOUS
<1>0. graph \in GraphOf /\ pattern \in [Pattern -> PatternRow] /\ \A p \in Pattern : Described(pattern[p], graph)
  BY DEF GraphInv
<1>1. ASSUME NEW p \in Pattern, NEW groups \in Seq(SUBSET Behaviour!Tag), Behaviour!Save(p, groups) PROVE GraphInv'
  <2>1. PICK active \in Behaviour!Revived(p) :
          Behaviour!Upsert(p, [pattern[p] EXCEPT !.groups = groups, !.active = active])
    BY <1>1 DEF Behaviour!Save
  <2>2. [pattern[p] EXCEPT !.groups = groups, !.active = active] \in PatternRow
    <3>1. pattern[p] \in PatternRow
      BY <1>0
    <3> QED BY <3>1 DEF PatternRow, Behaviour!Revived
  <2> QED BY <2>1, <2>2, UpsertKeeps
<1>2. ASSUME NEW p \in Pattern, NEW r \in PatternRow, pattern' = [pattern EXCEPT ![p] = r], graph' = graph,
             r.groups = <<>> \/ (r.groups = pattern[p].groups /\ r.cluster = pattern[p].cluster)
      PROVE  GraphInv'
  <2>1. Described(r, graph)
    BY <1>0, <1>2 DEF Described, Behaviour!Tags
  <2> QED BY <1>0, <1>2, <2>1 DEF GraphInv
<1>3. ASSUME NEW p \in Pattern, NEW flat \in SUBSET Domain, Behaviour!SaveFlat(p, flat) PROVE GraphInv'
  <2>1. PICK active \in Behaviour!Revived(p) :
          pattern' = [pattern EXCEPT ![p] = [pattern[p] EXCEPT !.groups = <<>>, !.flat = flat, !.active = active]]
    BY <1>3 DEF Behaviour!SaveFlat
  <2>2. pattern[p] \in PatternRow /\ active \in BOOLEAN /\ <<>> \in Seq(SUBSET Behaviour!Tag)
    <3>1. pattern[p] \in PatternRow
      BY <1>0
    <3>2. pattern[p].active \in BOOLEAN
      BY <3>1 DEF PatternRow
    <3>3. active \in BOOLEAN
      BY <3>2 DEF Behaviour!Revived
    <3>4. <<>> \in Seq(SUBSET Behaviour!Tag)
      OBVIOUS
    <3> QED BY <3>1, <3>3, <3>4
  <2> DEFINE r == [pattern[p] EXCEPT !.groups = <<>>, !.flat = flat, !.active = active]
  <2>3. r \in PatternRow /\ r.groups = <<>>
    BY <2>2 DEF PatternRow
  <2>4. graph' = graph
    BY <1>3 DEF Behaviour!SaveFlat
  <2> HIDE DEF r
  <2>5. pattern' = [pattern EXCEPT ![p] = r]
    BY <2>1 DEF r
  <2> QED BY <1>2, <2>3, <2>4, <2>5
<1>4. ASSUME NEW p \in Pattern, Behaviour!Backfill(p) PROVE GraphInv'
  <2>1. pattern[p] \in PatternRow
    BY <1>0
  <2>2. [pattern[p] EXCEPT !.groups = Behaviour!FlatGroups(pattern[p])] \in PatternRow
    BY <2>1, FlatRow DEF PatternRow
  <2> QED BY <1>4, <2>2, UpsertKeeps DEF Behaviour!Backfill
<1>5. ASSUME NEW p \in Pattern, Behaviour!Disable(p) PROVE GraphInv'
  <2> DEFINE r == [pattern[p] EXCEPT !.active = FALSE]
  <2>1. pattern[p] \in PatternRow
    BY <1>0
  <2>2. r \in PatternRow /\ r.groups = pattern[p].groups /\ r.cluster = pattern[p].cluster
    BY <2>1 DEF PatternRow
  <2>3. pattern' = [pattern EXCEPT ![p] = r] /\ graph' = graph
    BY <1>5 DEF Behaviour!Disable
  <2> HIDE DEF r
  <2> QED BY <1>2, <2>2, <2>3
<1>6. CASE UNCHANGED behaviour
  BY <1>0, <1>6 DEF behaviour, GraphInv
<1>7. ASSUME NEW p \in Pattern, NEW g \in Behaviour!Group,
             Behaviour!Save(p, <<g>>) \/ \E h \in Behaviour!Group \ {g} : Behaviour!Save(p, <<g, h>>)
      PROVE  GraphInv'
  <2>1. Behaviour!Group \subseteq SUBSET Behaviour!Tag
    BY DEF Behaviour!Group, Behaviour!Tag
  <2>2. <<g>> \in Seq(SUBSET Behaviour!Tag) /\ \A h \in Behaviour!Group : <<g, h>> \in Seq(SUBSET Behaviour!Tag)
    BY <2>1
  <2> QED BY <1>1, <1>7, <2>2
<1> QED BY <1>3, <1>4, <1>5, <1>6, <1>7 DEF Behaviour!Next

\* A query spreads from the keys it starts with, so it reaches those.
LEMMA Spreads == ASSUME NEW keys PROVE keys \subseteq Behaviour!Expand(keys)
<1> DEFINE Wider(x) == x \cup UNION {s \in Behaviour!InUse : s \cap x # {}}
           More == [i \in 1..MaxDepth |-> [x \in SUBSET (keys \cup UNION Behaviour!InUse) |-> Wider(x)]]
           S == [i \in 0..MaxDepth |-> {x \in SUBSET (keys \cup UNION Behaviour!InUse) : keys \subseteq x}]
           IsReach(F) == F = [d \in 0..MaxDepth |-> IF d = 0 THEN keys
                                ELSE Wider(F[d - 1])]
           Reach == CHOOSE F : IsReach(F)
<1>1. MaxDepth \in Nat /\ 0 \in 0..MaxDepth /\ MaxDepth \in 0..MaxDepth
  BY BackgroundAssumption
<1>2. \A i \in 1..MaxDepth : i \in 0..MaxDepth /\ i - 1 \in 0..MaxDepth /\ i # 0
  BY <1>1
<1>3. \A i \in 1..MaxDepth : \A x \in S[i - 1] : Wider(x) \in S[i]
  BY <1>2
<1>4. keys \in S[0]
  BY <1>1
<1>7. Behaviour!Expand(keys) = Reach[MaxDepth]
  BY DEF Behaviour!Expand
<1> HIDE DEF Wider
<1>5. \E F : IsReach(F)
  <2> HIDE DEF More
  <2>1. PICK F : Repeats(F, MaxDepth, keys, More)
    BY <1>1, Iterated
  <2>2. F = [i \in 0..MaxDepth |-> IF i = 0 THEN keys ELSE More[i][F[i - 1]]]
    BY <2>1 DEF Repeats
  <2>b. \A i \in 1..MaxDepth : \A x \in SUBSET (keys \cup UNION Behaviour!InUse) :
          More[i][x] = Wider(x)
    BY DEF More
  <2>3. F[0] = keys
    BY <1>1, <2>2
  <2>4. ASSUME NEW i \in 1..MaxDepth, F[i - 1] \in S[i - 1]
        PROVE  F[i] \in S[i] /\ F[i] = Wider(F[i - 1])
    <3>1. F[i] = More[i][F[i - 1]] /\ F[i - 1] \in SUBSET (keys \cup UNION Behaviour!InUse)
      BY <1>2, <2>2, <2>4
    <3>2. F[i] = Wider(F[i - 1])
      BY <2>b, <3>1
    <3> QED BY <1>3, <2>4, <3>2
  <2> HIDE DEF S
  <2>5. \A i \in 0..MaxDepth : F[i] \in S[i]
    BY <1>1, <1>4, <2>3, <2>4, Along
  <2>6. \A d \in 0..MaxDepth : F[d] = IF d = 0 THEN keys
                                ELSE Wider(F[d - 1])
    <3> TAKE d \in 0..MaxDepth
    <3>1. CASE d # 0
      <4>1. d \in 1..MaxDepth /\ d - 1 \in 0..MaxDepth
        BY <1>1, <3>1
      <4> QED BY <2>4, <2>5, <3>1, <4>1
    <3> QED BY <2>3, <3>1
  <2>7. F = [d \in 0..MaxDepth |-> F[d]]
    BY <2>2
  <2>8. IsReach(F)
    BY <2>6, <2>7
  <2> QED BY <2>8
<1>6. IsReach(Reach)
  BY <1>5
<1> HIDE DEF Reach
<1>8. Reach[0] \in S[0]
  BY <1>1, <1>4, <1>6
<1>9. ASSUME NEW i \in 1..MaxDepth, Reach[i - 1] \in S[i - 1] PROVE Reach[i] \in S[i]
  BY <1>2, <1>3, <1>6, <1>9
<1> HIDE DEF S
<1>10. \A i \in 0..MaxDepth : Reach[i] \in S[i]
  BY <1>1, <1>8, <1>9, Along
<1> QED BY <1>1, <1>7, <1>10 DEF S

\* What the graph holds of a pattern is what its recall asks for.
LEMMA GraphSafe == GraphInv => Behaviour!Recalled
<1> SUFFICES ASSUME GraphInv, NEW p \in Behaviour!Active, NEW t \in Domain \cap Behaviour!Tags(pattern[p].groups)
             PROVE  p \in Behaviour!Found({t})
  BY DEF Behaviour!Recalled
<1>1. p \in Pattern /\ pattern[p].cluster # Null /\ graph \in GraphOf
  BY DEF Behaviour!Active, GraphInv
<1>2. graph.alias[t] \in Key /\ graph.alias[t] \in graph.scene[pattern[p].cluster]
  BY <1>1 DEF GraphInv, Described, Held
<1>3. graph.alias[t] # Null
  BY <1>2, BackgroundAssumption
<1>4. graph.alias[t] \in Behaviour!QueryKeys({t})
  BY <1>3 DEF Behaviour!QueryKeys, Behaviour!Keys
<1>5. graph.alias[t] \in Behaviour!Expand(Behaviour!QueryKeys({t}))
  BY <1>4, Spreads
<1> QED BY <1>2, <1>5 DEF Behaviour!Found

(****************************************************************************)
(* ExpressionIndex: what a ranking uses as an index is one                  *)
(****************************************************************************)

\* The values of the variables: who made a vector, the set it was clustered with,
\* a vector, and a member at its ranking.
Backend == Marker \cup {Index!None}
Printed == {<<>>} \cup (Backend \X SUBSET Expr)
Vector == [marker : Backend, fp : Printed, label : Nat]
Member == [pc : {"off", "lock", "profile", "probe", "load", "embed", "cluster", "use"},
           cand : SUBSET Expr, gen : Nat, marker : Backend, addr : Address \cup {Index!None},
           todo : SUBSET Expr]

\* The types of the state.
IndexTypes ==
  /\ backend \in [gen : Nat, addr : Address, marker : Marker]
  /\ cache \in [gen : Nat, marker : Backend, addr : Address \cup {Index!None}]
  /\ user \in [User -> Member] /\ vec \in [Expr -> Vector]
  /\ centre \in [fp : Printed, labels : SUBSET Nat]

\* A vector that is assigned was made by the backend of the clustering, for a
\* set it is of; of the published clustering its place has a centre.
Placed(v, e) == /\ v.fp # <<>> => v.fp[1] = v.marker /\ e \in v.fp[2]
                /\ v.marker # Index!None => e \in there
Centred(v, c) == v.fp # <<>> /\ v.fp = c.fp => v.label \in c.labels

\* The inductive invariant of the index.
IndexInv == /\ IndexTypes
            /\ \A e \in Expr : Placed(vec[e], e) /\ Centred(vec[e], centre)

\* No expression has a vector at first.
LEMMA IndexInit == Index!Init => IndexInv
<1> SUFFICES ASSUME Index!Init PROVE IndexInv
  OBVIOUS
<1>1. backend \in [gen : Nat, addr : Address, marker : Marker]
  BY DEF Index!Init
<1>2. cache \in [gen : Nat, marker : Backend, addr : Address \cup {Index!None}]
  BY DEF Index!Init, Index!NoCache, Backend
<1>3. Index!Off \in Member /\ Index!NoVec \in Vector
  BY DEF Index!Off, Index!NoVec, Member, Vector, Backend, Printed
<1>4. centre \in [fp : Printed, labels : SUBSET Nat]
  BY DEF Index!Init, Index!NoCentre, Printed
<1>5. user \in [User -> Member] /\ vec \in [Expr -> Vector]
  BY <1>3 DEF Index!Init
<1>6. \A e \in Expr : vec[e].fp = <<>> /\ vec[e].marker = Index!None
  BY DEF Index!Init, Index!NoVec
<1> QED BY <1>1, <1>2, <1>4, <1>5, <1>6 DEF IndexInv, IndexTypes, Placed, Centred

\* A step that leaves the vectors and the centres alone and forgets no
\* expression.
LEMMA VectorsStay ==
  ASSUME IndexInv, IndexTypes', UNCHANGED <<vec, centre>>, there \subseteq there'
  PROVE  IndexInv'
BY DEF IndexInv, Placed, Centred

\* What one coroutine writes of itself.
LEMMA OneGoesOn ==
  ASSUME IndexInv, NEW u \in User, NEW q \in Member, user' = [user EXCEPT ![u] = q],
         cache' \in [gen : Nat, marker : Backend, addr : Address \cup {Index!None}],
         UNCHANGED <<backend, vec, centre, there>>
  PROVE  IndexInv'
BY VectorsStay DEF IndexInv, IndexTypes

\* A member that is off.
LEMMA OffMember == Index!Off \in Member
BY DEF Index!Off, Member, Backend

\* The steps before the vectors are written, and after.
LEMMA PrepareKeeps ==
  ASSUME IndexInv, NEW u \in User,
         \/ \E cand \in SUBSET Expr : Index!Want(u, cand)
         \/ Index!Enter(u) \/ Index!Profile(u) \/ Index!Probed(u) \/ Index!Load(u) \/ Index!Use(u)
         \/ Index!Fails(u)
  PROVE  IndexInv'
<1>0. /\ user[u] \in Member /\ backend \in [gen : Nat, addr : Address, marker : Marker]
      /\ cache \in [gen : Nat, marker : Backend, addr : Address \cup {Index!None}]
  BY DEF IndexInv, IndexTypes
<1>a. user[u].marker \in Backend /\ user[u].gen \in Nat /\ user[u].addr \in Address \cup {Index!None}
      /\ user[u].cand \subseteq Expr
  BY <1>0 DEF Member
<1>b. Marker \subseteq Backend
  BY DEF Backend
<1>1. ASSUME NEW cand \in SUBSET Expr, Index!Want(u, cand) PROVE IndexInv'
  <2> DEFINE q == [Index!Off EXCEPT !.pc = "lock", !.cand = cand]
  <2>1. q \in Member
    BY OffMember DEF Member
  <2>2. user' = [user EXCEPT ![u] = q] /\ UNCHANGED <<backend, cache, vec, centre, there>>
    BY <1>1 DEF Index!Want
  <2> HIDE DEF q
  <2> QED BY <1>0, <2>1, <2>2, OneGoesOn
<1>2. CASE Index!Enter(u)
  <2> DEFINE q == [user[u] EXCEPT !.pc = "profile", !.addr = backend.addr, !.gen = backend.gen, !.marker = backend.marker]
  <2>1. q \in Member
    BY <1>0, <1>b DEF Member
  <2>2. user' = [user EXCEPT ![u] = q] /\ UNCHANGED <<backend, cache, vec, centre, there>>
    BY <1>2 DEF Index!Enter
  <2> HIDE DEF q
  <2> QED BY <1>0, <2>1, <2>2, OneGoesOn
<1>3. CASE Index!Profile(u)
  <2> DEFINE q == [user[u] EXCEPT !.pc = "load", !.gen = cache.gen, !.marker = cache.marker]
             q2 == [user[u] EXCEPT !.pc = "probe"]
  <2>1. q \in Member /\ q2 \in Member
    BY <1>0 DEF Member
  <2>2. /\ user' = [user EXCEPT ![u] = q] \/ user' = [user EXCEPT ![u] = q2]
        /\ UNCHANGED <<backend, cache, vec, centre, there>>
    BY <1>3 DEF Index!Profile, Index!Goto
  <2> HIDE DEF q, q2
  <2> QED BY <1>0, <2>1, <2>2, OneGoesOn
<1>4. CASE Index!Probed(u)
  <2> DEFINE q == [user[u] EXCEPT !.pc = "load"]
  <2>1. q \in Member
    BY <1>0 DEF Member
  <2>2. user' = [user EXCEPT ![u] = q] /\ UNCHANGED <<backend, vec, centre, there>>
    BY <1>4 DEF Index!Probed, Index!Goto
  <2>3. cache' \in [gen : Nat, marker : Backend, addr : Address \cup {Index!None}]
    BY <1>a, <1>4 DEF Index!Probed
  <2> HIDE DEF q
  <2> QED BY <2>1, <2>2, <2>3, OneGoesOn
<1>5. CASE Index!Load(u)
  <2> DEFINE q == [user[u] EXCEPT !.todo = Index!Missing(u),
                                  !.pc = IF Index!Missing(u) = {} THEN "cluster" ELSE "embed"]
  <2>1. Index!Missing(u) \subseteq Expr
    BY <1>a DEF Index!Missing
  <2>2. q \in Member
    BY <1>0, <2>1 DEF Member
  <2>3. user' = [user EXCEPT ![u] = q] /\ UNCHANGED <<backend, cache, vec, centre, there>>
    BY <1>5 DEF Index!Load
  <2> HIDE DEF q
  <2> QED BY <1>0, <2>2, <2>3, OneGoesOn
<1>6. CASE Index!Use(u) \/ Index!Fails(u)
  BY <1>0, <1>6, OffMember, OneGoesOn DEF Index!Use, Index!Fails
<1> QED BY <1>1, <1>2, <1>3, <1>4, <1>5, <1>6

\* A batch of vectors is of no clustering yet.
LEMMA EmbedKeeps == ASSUME IndexInv, NEW u \in User, Index!Embed(u) PROVE IndexInv'
<1>0. user[u] \in Member /\ vec \in [Expr -> Vector] /\ user[u].marker \in Backend
  BY DEF IndexInv, IndexTypes, Member
<1>1. PICK b \in (SUBSET user[u].todo) \ {{}} :
       IF b \subseteq there
       THEN /\ vec' = Index!Renewed(u, b)
            /\ user' = [user EXCEPT ![u].todo = @ \ b, ![u].pc = IF user[u].todo = b THEN "cluster" ELSE "embed"]
       ELSE user' = [user EXCEPT ![u] = Index!Off] /\ UNCHANGED vec
  BY DEF Index!Embed
<1>2. UNCHANGED <<backend, cache, there, centre>>
  BY DEF Index!Embed
<1>3. CASE b \subseteq there
  <2> DEFINE q == [user[u] EXCEPT !.todo = user[u].todo \ b, !.pc = IF user[u].todo = b THEN "cluster" ELSE "embed"]
             v == [Index!NoVec EXCEPT !.marker = user[u].marker]
  <2>1. q \in Member
    BY <1>0 DEF Member
  <2>2. user' = [user EXCEPT ![u] = q]
    BY <1>1, <1>3
  <2>3. v \in Vector /\ v.fp = <<>>
    BY <1>0 DEF Vector, Index!NoVec, Printed
  <2>4. vec' = [e \in Expr |-> IF e \in b THEN v ELSE vec[e]]
    BY <1>1, <1>3 DEF Index!Renewed
  <2> HIDE DEF q, v
  <2>5. vec' \in [Expr -> Vector]
    BY <1>0, <2>3, <2>4
  <2>6. IndexTypes'
    BY <1>2, <2>1, <2>2, <2>5 DEF IndexInv, IndexTypes
  <2>7. ASSUME NEW e \in Expr PROVE (Placed(vec[e], e) /\ Centred(vec[e], centre))'
    BY <1>2, <1>3, <2>3, <2>4 DEF IndexInv, Placed, Centred
  <2> QED BY <2>6, <2>7 DEF IndexInv, Placed
<1>4. CASE ~(b \subseteq there)
  BY <1>1, <1>2, <1>4, OffMember, OneGoesOn DEF IndexInv, IndexTypes
<1> QED BY <1>3, <1>4

\* A publication writes the centres and the places of one set together.
LEMMA Published ==
  ASSUME IndexInv, NEW u \in User, Index!Cluster(u)
  PROVE  /\ IndexInv'
         /\ user'[u].pc = "use" => /\ centre'.fp = Index!Fp(u)
                                   /\ \A e \in user[u].cand : vec'[e].fp = centre'.fp /\ vec'[e].label \in centre'.labels
<1>0. /\ user[u] \in Member /\ vec \in [Expr -> Vector] /\ user[u].marker \in Backend /\ user[u].cand \subseteq Expr
      /\ user \in [User -> Member]
      /\ cache \in [gen : Nat, marker : Backend, addr : Address \cup {Index!None}]
  BY DEF IndexInv, IndexTypes, Member
<1>a. Index!Fp(u) \in Printed /\ Index!Fp(u) # <<>> /\ Index!Fp(u)[1] = user[u].marker /\ Index!Fp(u)[2] = user[u].cand
  BY <1>0 DEF Index!Fp, Printed
<1>b. UNCHANGED <<backend, cache, there>> /\ [user[u] EXCEPT !.pc = "use"] \in Member
  BY <1>0 DEF Index!Cluster, Member
<1>1. CASE Index!Reusable(u)
  <2>1. user' = [user EXCEPT ![u] = [user[u] EXCEPT !.pc = "use"]] /\ UNCHANGED <<vec, centre>>
    BY <1>1 DEF Index!Cluster, Index!Goto
  <2>2. IndexInv'
    BY <1>0, <1>b, <2>1, OneGoesOn
  <2>3. centre.fp = Index!Fp(u) /\ \A e \in user[u].cand : vec[e].fp = Index!Fp(u)
    BY <1>1 DEF Index!Reusable, Index!Assigned
  <2>4. \A e \in user[u].cand : vec[e].label \in centre.labels
    BY <1>0, <1>a, <2>3 DEF IndexInv, Centred
  <2> QED BY <2>1, <2>2, <2>3, <2>4
<1>2. CASE ~Index!Reusable(u) /\ \A e \in user[u].cand : vec[e].marker = user[u].marker
  <2>1. PICK l \in Index!Labels(user[u].cand) :
          /\ vec' = [e \in Expr |-> IF e \in user[u].cand
                                    THEN [vec[e] EXCEPT !.fp = Index!Fp(u), !.label = l[e]] ELSE vec[e]]
          /\ centre' = [fp |-> Index!Fp(u), labels |-> {l[e] : e \in user[u].cand}]
    BY <1>2 DEF Index!Cluster
  <2>2. user' = [user EXCEPT ![u] = [user[u] EXCEPT !.pc = "use"]]
    BY <1>2 DEF Index!Cluster, Index!Goto
  <2>3. \A e \in user[u].cand : l[e] \in Nat
    BY DEF Index!Labels
  <2>4. centre' \in [fp : Printed, labels : SUBSET Nat] /\ centre'.fp = Index!Fp(u)
    BY <1>a, <2>1, <2>3
  <2>5. ASSUME NEW e \in Expr
        PROVE  /\ vec'[e] \in Vector /\ vec'[e].marker = vec[e].marker
               /\ e \in user[u].cand => vec'[e].fp = Index!Fp(u) /\ vec'[e].label = l[e] /\ vec'[e].label \in centre'.labels
               /\ e \notin user[u].cand => vec'[e] = vec[e]
    <3>1. vec[e] \in Vector
      BY <1>0
    <3> QED BY <1>a, <2>1, <2>3, <3>1 DEF Vector
  <2>6. vec' \in [Expr -> Vector]
    BY <2>1, <2>5
  <2>7. IndexTypes'
    BY <1>b, <2>2, <2>4, <2>6 DEF IndexInv, IndexTypes
  <2>8. ASSUME NEW e \in Expr PROVE (Placed(vec[e], e) /\ Centred(vec[e], centre))'
    <3>1. Placed(vec[e], e)
      BY DEF IndexInv
    <3>2. CASE e \in user[u].cand
      BY <1>a, <1>b, <1>2, <2>5, <3>1, <3>2 DEF Placed, Centred
    <3>3. CASE e \notin user[u].cand
      BY <1>a, <1>b, <2>4, <2>5, <3>1, <3>3 DEF Placed, Centred
    <3> QED BY <3>2, <3>3
  <2>9. IndexInv'
    BY <2>7, <2>8 DEF IndexInv, Placed
  <2> QED BY <1>0, <2>4, <2>5, <2>9
<1>3. CASE ~Index!Reusable(u) /\ ~(\A e \in user[u].cand : vec[e].marker = user[u].marker)
  <2>1. user' = [user EXCEPT ![u] = Index!Off] /\ UNCHANGED <<vec, centre>>
    BY <1>3 DEF Index!Cluster
  <2>2. IndexInv'
    BY <1>0, <1>b, <2>1, OffMember, OneGoesOn
  <2> QED BY <1>0, <2>1, <2>2 DEF Index!Off
<1> QED BY <1>1, <1>2, <1>3

\* A step of a member, or of the user, keeps every vector with its backend and its clustering.
LEMMA IndexStep == IndexInv /\ [Index!Next]_index => IndexInv'
<1> SUFFICES ASSUME IndexInv, [Index!Next]_index PROVE IndexInv'
  OBVIOUS
<1>1. ASSUME NEW e \in Expr, Index!Learned(e) PROVE IndexInv'
  BY <1>1, VectorsStay DEF Index!Learned, IndexInv, IndexTypes
<1>2. ASSUME NEW a \in Address, NEW m \in Marker, Index!Switch(a, m) PROVE IndexInv'
  <2>1. backend' \in [gen : Nat, addr : Address, marker : Marker]
    BY <1>2 DEF Index!Switch, IndexInv, IndexTypes
  <2>2. cache' \in [gen : Nat, marker : Backend, addr : Address \cup {Index!None}]
    BY <1>2 DEF Index!Switch, Index!NoCache, Backend
  <2> QED BY <1>2, <2>1, <2>2, VectorsStay DEF Index!Switch, IndexInv, IndexTypes
<1>3. CASE Index!Erase
  <2>1. Index!NoVec \in Vector /\ Index!NoCentre \in [fp : Printed, labels : SUBSET Nat]
    BY DEF Index!NoVec, Vector, Backend, Printed, Index!NoCentre
  <2>2. IndexTypes'
    BY <1>3, <2>1 DEF Index!Erase, IndexInv, IndexTypes
  <2>3. \A e \in Expr : vec'[e].fp = <<>> /\ vec'[e].marker = Index!None
    BY <1>3 DEF Index!Erase, Index!NoVec
  <2> QED BY <2>2, <2>3 DEF IndexInv, Placed, Centred
<1>4. CASE UNCHANGED index
  BY <1>4 DEF index, IndexInv, IndexTypes, Placed, Centred
<1> QED BY <1>1, <1>2, <1>3, <1>4, PrepareKeeps, EmbedKeeps, Published DEF Index!Next, Index!Step

\* Only a clustering lets a coroutine rank.
LEMMA OthersWait ==
  ASSUME IndexInv, [Index!Next]_index, NEW u \in User, user[u].pc = "cluster", user'[u].pc = "use"
  PROVE  Index!Cluster(u)
<1>0. user \in [User -> Member]
  BY DEF IndexInv, IndexTypes
<1>1. ASSUME NEW a \in User, NEW cand \in SUBSET Expr, Index!Want(a, cand) PROVE FALSE
  BY <1>0, <1>1 DEF Index!Want, Index!Off
<1>2. ASSUME NEW a \in User, Index!Enter(a) \/ Index!Profile(a) \/ Index!Probed(a) PROVE FALSE
  BY <1>0, <1>2 DEF Index!Enter, Index!Profile, Index!Probed, Index!Goto, Member
<1>3. ASSUME NEW a \in User, Index!Load(a) \/ Index!Use(a) \/ Index!Fails(a) PROVE FALSE
  BY <1>0, <1>3 DEF Index!Load, Index!Use, Index!Fails, Index!Off, Member
<1>4. ASSUME NEW a \in User, Index!Embed(a) PROVE FALSE
  BY <1>0, <1>4 DEF Index!Embed, Index!Off, Member
<1>5. ASSUME NEW a \in User, Index!Cluster(a) PROVE a = u
  BY <1>0, <1>5 DEF Index!Cluster, Index!Goto, Index!Off, Member
<1>6. ~(UNCHANGED user)
  OBVIOUS
<1> QED BY <1>1, <1>2, <1>3, <1>4, <1>5, <1>6 DEF Index!Next, Index!Step, Index!Learned, Index!Switch, Index!Erase, index

\* A member that goes on to use an index has one for exactly its candidates.
LEMMA IndexWhole ==
  ASSUME IndexInv, [Index!Next]_index, NEW u \in User, user[u].pc = "cluster", user'[u].pc = "use"
  PROVE  /\ centre'.fp = <<user[u].marker, user[u].cand>>
         /\ \A e \in user[u].cand : vec'[e].fp = centre'.fp /\ vec'[e].label \in centre'.labels
BY OthersWait, Published DEF Index!Fp

\* What a ranking reads is from one backend, and of expressions that are there.
LEMMA IndexSafe == IndexInv => Index!OneBackend /\ Index!NoOrphanVectors
BY DEF IndexInv, Placed, Index!OneBackend, Index!NoOrphanVectors

(****************************************************************************)
(* DelayedReply: what the filter holds back, and how it lets it go          *)
(****************************************************************************)
\* What DelayedReply assumes of its constants.
Delays == /\ MessageDelay \in Nat \ {0} /\ TypingDelay \in Nat /\ MessageDelay <= TypingDelay
          /\ MaxArrivals \in Nat /\ MaxRaises \in Nat /\ NoId \notin Id

\* What bounds the wait: a batch that was not extended yet keeps its message
\* window, so that the one extension adds at most a typing window to it.
Bounded ==
  \A r \in Route :
    /\ batch[r].age + batch[r].left <= MessageDelay + TypingDelay
    /\ ~batch[r].extended => batch[r].age + batch[r].left <= MessageDelay

\* The types of the state, and the windows.
DelayInv == Delay!TypeOK /\ Bounded

\* No batch is a batch.
LEMMA NoBatchType == Delay!NoBatch \in Delay!Batch
  BY DEF Delay!NoBatch, Delay!Batch

\* Nothing waits at first.
LEMMA DelayInit == ASSUME Delays, Delay!Init PROVE DelayInv
  BY NoBatchType
  DEF Delays, Delay!Init, DelayInv, Delay!TypeOK, Bounded, Delay!Waits, Delay!NoBatch, Delay!Batch

\* A message opens a new window of its batch.
LEMMA IngestKeeps ==
  ASSUME Delays, DelayInv, NEW r \in Route, NEW id \in Id \cup {NoId}, Delay!Ingest(r, id)
  PROVE  DelayInv'
<1> USE DEF Delays
<1> DEFINE t == Len(arrived')
           b == Delay!IngestArm(batch[r], t)
<1>1. arrived' \in Seq([route: Route, id: Id \cup {NoId}])
      /\ t \in Delay!Ticket /\ Len(arrived') <= MaxArrivals
  BY DEF DelayInv, Delay!TypeOK, Delay!Ingest, Delay!Ticket
<1>2. batch[r] \in Delay!Batch
  BY DEF DelayInv, Delay!TypeOK
<1>3. Append(batch[r].envs, t) \in Seq(Delay!Ticket)
  BY <1>1, <1>2 DEF Delay!Batch
<1>4. b = [envs |-> Append(batch[r].envs, t), extended |-> FALSE,
           left |-> MessageDelay, age |-> 0]
  BY DEF Delay!IngestArm, Delay!Arm
<1> HIDE DEF b, t
<1>5. b \in Delay!Batch
  BY <1>3, <1>4 DEF Delay!Batch
<1>6. batch' = [batch EXCEPT ![r] = b]
  BY DEF Delay!Ingest, b, t
<1>7. Delay!TypeOK'
  BY <1>1, <1>5, <1>6 DEF DelayInv, Delay!TypeOK, Delay!Ingest, Delay!Waits
<1>8. Bounded'
  BY <1>4, <1>6 DEF DelayInv, Delay!TypeOK, Bounded
<1> QED BY <1>7, <1>8 DEF DelayInv

\* Delay!Typing extends a window that was not extended before.
LEMMA TypingKeeps ==
  ASSUME Delays, DelayInv, NEW r \in Route, Delay!Typing(r)
  PROVE  DelayInv'
<1> USE DEF Delays
<1> DEFINE b == Delay!Arm(batch[r].envs, TRUE, TypingDelay, batch[r].age)
<1>1. batch[r] \in Delay!Batch
  BY DEF DelayInv, Delay!TypeOK
<1>2. b = [envs |-> batch[r].envs, extended |-> TRUE,
           left |-> TypingDelay, age |-> batch[r].age]
  BY DEF Delay!Arm
<1>3. batch' = [batch EXCEPT ![r] = b]
  BY DEF Delay!Typing
<1> HIDE DEF b
<1>4. b \in Delay!Batch
  BY <1>1, <1>2 DEF Delay!Batch
<1>5. Delay!TypeOK'
  BY <1>3, <1>4 DEF DelayInv, Delay!TypeOK, Delay!Typing, Delay!Waits
<1>6. batch[r].age <= MessageDelay
  BY <1>1 DEF Delay!Typing, DelayInv, Bounded, Delay!Batch
<1>7. batch[r].age \in Nat
  BY <1>1 DEF Delay!Batch
<1>8. Bounded'
  BY <1>2, <1>3, <1>6, <1>7 DEF DelayInv, Delay!TypeOK, Bounded
<1> QED BY <1>5, <1>8 DEF DelayInv

\* Time moves a wait from what is left to what has passed.
LEMMA TickKeeps ==
  ASSUME Delays, DelayInv, Delay!Tick
  PROVE  DelayInv'
<1>1. ASSUME NEW r \in Route
      PROVE  /\ batch'[r] \in Delay!Batch /\ batch'[r].envs = batch[r].envs
             /\ batch'[r].extended = batch[r].extended
             /\ batch'[r].age + batch'[r].left = batch[r].age + batch[r].left
  <2>1. batch[r] \in Delay!Batch
    BY DEF DelayInv, Delay!TypeOK
  <2>2. CASE Delay!Waits(r)
    <3>1. batch'[r] = [envs |-> batch[r].envs, extended |-> batch[r].extended,
                       left |-> batch[r].left - 1, age |-> batch[r].age + 1]
      BY <2>1, <2>2 DEF Delay!Tick, Delay!Pass
    <3>2. batch[r].left > 0
      BY <2>2 DEF Delay!Tick
    <3>3. batch[r].left \in Nat /\ batch[r].age \in Nat
      BY <2>1 DEF Delay!Batch
    <3>4. batch[r].left - 1 \in Nat /\ batch[r].age + 1 \in Nat
      BY <3>2, <3>3
    <3>5. batch'[r].age + batch'[r].left = batch[r].age + batch[r].left
      BY <3>1, <3>3
    <3> QED BY <2>1, <3>1, <3>4, <3>5 DEF Delay!Batch
  <2>3. CASE ~Delay!Waits(r)
    BY <2>1, <2>3 DEF Delay!Tick
  <2> QED BY <2>2, <2>3
<1>2. batch' \in [Route -> Delay!Batch]
  BY <1>1 DEF Delay!Tick
<1>3. Delay!TypeOK'
  BY <1>1, <1>2 DEF DelayInv, Delay!TypeOK, Delay!Tick, Delay!Waits
<1>4. Bounded'
  BY <1>1 DEF DelayInv, Bounded
<1> QED BY <1>3, <1>4 DEF DelayInv

\* A batch that begins to be submitted is named by its first message.
LEMMA FlushType ==
  ASSUME NEW envs \in Seq(Delay!Ticket), envs # <<>>, NEW by \in {"timer", "stop"}
  PROVE  Delay!FlushOf(envs, by) \in Delay!Flush
  BY DEF Delay!FlushOf, Delay!Flush

\* A batch that is taken out leaves no window.
LEMMA FireKeeps ==
  ASSUME Delays, DelayInv, NEW r \in Route, Delay!Fire(r)
  PROVE  DelayInv'
<1>1. Delay!FlushOf(batch[r].envs, "timer") \in Delay!Flush
  BY FlushType DEF DelayInv, Delay!TypeOK, Delay!Batch, Delay!Fire, Delay!Waits
<1>2. phase \in {"open", "closed"} /\ \A f \in flushes : f.by # "stop"
  BY DEF DelayInv, Delay!TypeOK, Delay!Fire
<1>3. Delay!FlushOf(batch[r].envs, "timer").by = "timer"
  BY DEF Delay!FlushOf
<1>4. Delay!TypeOK'
  BY <1>1, <1>2, <1>3, NoBatchType DEF DelayInv, Delay!TypeOK, Delay!Fire, Delay!Waits
<1>5. Bounded'
  BY DEF Delays, DelayInv, Delay!TypeOK, Bounded, Delay!Fire, Delay!NoBatch
<1> QED BY <1>4, <1>5 DEF DelayInv

\* A submission passes its first message on and keeps the others.
LEMMA SubmitKeeps ==
  ASSUME Delays, DelayInv, NEW f \in flushes, Delay!Submit(f)
  PROVE  DelayInv'
<1> DEFINE p == Delay!Pick(f)
           g == [f EXCEPT !.todo = p.rest]
<1>1. f \in Delay!Flush /\ f.todo # <<>>
  BY DEF DelayInv, Delay!TypeOK, Delay!Flush
<1>2. p.t \in Delay!Ticket /\ p.rest \in Seq(Delay!Ticket) /\ p.turn \in BOOLEAN
  BY <1>1 DEF Delay!Pick, Delay!Flush
<1>3. flushes' = (flushes \ {f}) \cup (IF p.rest = <<>> THEN {} ELSE {g})
  BY DEF Delay!Submit
<1>4. core' = Append(core, [t |-> p.t, batch |-> f.batch, turn |-> p.turn])
  BY DEF Delay!Submit
<1> HIDE DEF p
<1>5. ASSUME p.rest # <<>> PROVE g \in Delay!Flush
  BY <1>1, <1>2, <1>5 DEF Delay!Flush
<1>6. g.by = f.by
  BY <1>1 DEF Delay!Flush
<1> HIDE DEF g
<1>7. flushes' \subseteq Delay!Flush
  BY <1>3, <1>5 DEF DelayInv, Delay!TypeOK
<1>8. [t |-> p.t, batch |-> f.batch, turn |-> p.turn]
        \in [t: Delay!Ticket, batch: Delay!Ticket, turn: BOOLEAN]
  BY <1>1, <1>2 DEF Delay!Flush
<1>9. core' \in Seq([t: Delay!Ticket, batch: Delay!Ticket, turn: BOOLEAN])
  BY <1>4, <1>8 DEF DelayInv, Delay!TypeOK
<1>10. \A h \in flushes' : h.by = "stop" => phase' = "stopping" /\ flushes' = {h}
  <2>1. CASE f.by = "stop"
    BY <1>3, <2>1 DEF DelayInv, Delay!TypeOK, Delay!Submit
  <2>2. CASE f.by # "stop"
    <3>1. \A h \in flushes : h.by # "stop"
      BY <2>2 DEF DelayInv, Delay!TypeOK
    <3> QED BY <1>3, <1>6, <2>2, <3>1
  <2> QED BY <2>1, <2>2
<1> QED BY <1>7, <1>9, <1>10 DEF DelayInv, Delay!TypeOK, Bounded, Delay!Submit, Delay!Waits

\* The message for which the core raised is one of the accepted ones.
LEMMA RaiseKeeps ==
  ASSUME Delays, DelayInv, NEW f \in flushes, Delay!SubmitRaises(f)
  PROVE  DelayInv'
<1>1. f \in Delay!Flush /\ f.todo # <<>>
  BY DEF DelayInv, Delay!TypeOK, Delay!Flush
<1>2. Delay!Pick(f).t \in Delay!Ticket
  BY <1>1 DEF Delay!Pick, Delay!Flush
<1>3. raised' \subseteq Delay!Ticket
  BY <1>2 DEF DelayInv, Delay!TypeOK, Delay!SubmitRaises
<1>4. phase' \in {"open", "closed", "stopping", "stopped"}
      /\ (phase' \in {"stopping", "stopped"} => \A r \in Route : ~Delay!Waits(r)')
      /\ (stopq' # {} => phase' = "stopping") /\ stopq' \subseteq Seq(Delay!Ticket)
  BY DEF DelayInv, Delay!TypeOK, Delay!SubmitRaises, Delay!Waits
<1> QED BY <1>3, <1>4 DEF DelayInv, Delay!TypeOK, Bounded, Delay!SubmitRaises, Delay!Waits

\* stop() takes every batch out of the table.
LEMMA StopKeeps ==
  ASSUME Delays, DelayInv, Delay!StopBegin \/ Delay!StopFlush
  PROVE  DelayInv'
<1>1. CASE Delay!StopBegin
  <2>1. \A r \in Route : batch[r].envs \in Seq(Delay!Ticket) \ {<<>>} \/ ~Delay!Waits(r)
    BY DEF DelayInv, Delay!TypeOK, Delay!Batch, Delay!Waits
  <2>2. stopq' \subseteq Seq(Delay!Ticket) \ {<<>>}
    BY <1>1, <2>1 DEF Delay!StopBegin
  <2>3. \A r \in Route : batch'[r] = Delay!NoBatch
    BY <1>1 DEF Delay!StopBegin
  <2>4. batch' \in [Route -> Delay!Batch]
    BY <1>1, NoBatchType DEF Delay!StopBegin
  <2>5. Bounded'
    BY <2>3 DEF Delays, Bounded, Delay!NoBatch
  <2>6. \A r \in Route : ~Delay!Waits(r)'
    BY <2>3 DEF Delay!Waits, Delay!NoBatch
  <2> QED BY <1>1, <2>2, <2>4, <2>5, <2>6 DEF DelayInv, Delay!TypeOK, Delay!StopBegin
<1>2. CASE Delay!StopFlush
  <2>1. PICK envs \in stopq : flushes' = {Delay!FlushOf(envs, "stop")} /\ stopq' = stopq \ {envs}
    BY <1>2 DEF Delay!StopFlush
  <2>2. envs \in Seq(Delay!Ticket) /\ envs # <<>>
    BY <2>1 DEF DelayInv, Delay!TypeOK
  <2>3. Delay!FlushOf(envs, "stop") \in Delay!Flush
    BY <2>2, FlushType
  <2>4. phase' = "stopping" /\ UNCHANGED <<arrived, batch, core, raised>>
    BY <1>2 DEF Delay!StopFlush
  <2>5. flushes' \subseteq Delay!Flush /\ stopq' \subseteq Seq(Delay!Ticket) \ {<<>>}
    BY <2>1, <2>3 DEF DelayInv, Delay!TypeOK
  <2>6. \A f \in flushes' : flushes' = {f}
    BY <2>1
  <2>7. \A r \in Route : ~Delay!Waits(r)'
    BY <1>2, <2>4 DEF DelayInv, Delay!TypeOK, Delay!StopFlush, Delay!Waits
  <2> QED BY <2>4, <2>5, <2>6, <2>7 DEF DelayInv, Delay!TypeOK, Bounded
<1> QED BY <1>1, <1>2

\* Every step of the filter keeps its type and its windows.
LEMMA DelayStep == ASSUME Delays, DelayInv, [Delay!Next]_Delay!vars PROVE DelayInv'
<1>1. ASSUME NEW r \in Route, NEW id \in Id \cup {NoId}, Delay!Ingest(r, id) PROVE DelayInv'
  BY <1>1, IngestKeeps
<1>2. ASSUME NEW r \in Route, Delay!Typing(r) PROVE DelayInv'
  BY <1>2, TypingKeeps
<1>3. ASSUME NEW r \in Route, Delay!Fire(r) PROVE DelayInv'
  BY <1>3, FireKeeps
<1>4. CASE Delay!Tick
  BY <1>4, TickKeeps
<1>5. ASSUME NEW f \in flushes, Delay!Submit(f) PROVE DelayInv'
  BY <1>5, SubmitKeeps
<1>6. ASSUME NEW f \in flushes, Delay!SubmitRaises(f) PROVE DelayInv'
  BY <1>6, RaiseKeeps
<1>7. CASE Delay!StopBegin \/ Delay!StopFlush
  BY <1>7, StopKeeps
<1>8. CASE Delay!CloseAdmission \/ Delay!StopEnd \/ Delay!Start
  BY <1>8 DEF DelayInv, Delay!TypeOK, Bounded, Delay!CloseAdmission, Delay!StopEnd, Delay!Start, Delay!Waits
<1>9. CASE UNCHANGED Delay!vars
  BY <1>9 DEF Delay!vars, DelayInv, Delay!TypeOK, Bounded, Delay!Waits
<1> QED
  BY <1>1, <1>2, <1>3, <1>4, <1>5, <1>6, <1>7, <1>8, <1>9 DEF Delay!Next

\* A sequence of tickets that grow; what is in a sequence, and what was stored.
Rising(s) == \A i, j \in 1..Len(s) : i < j => s[i] < s[j]
Of(s) == {s[i] : i \in 1..Len(s)}
In(c) == {c[i].t : i \in 1..Len(c)}

\* A message has one place: it is stored, or waits in one batch, one submission
\* or one batch of stop(); it waits behind those that came before it.
Places ==
  /\ \A r \in Route : Rising(batch[r].envs) /\ \A x \in Of(batch[r].envs) : x \notin In(core)
  /\ \A f \in flushes : Rising(f.todo) /\ \A x \in Of(f.todo) : x \notin In(core)
  /\ \A s \in stopq : Rising(s) /\ \A x \in Of(s) : x \notin In(core)
  /\ \A q, r \in Route : q # r => \A x \in Of(batch[q].envs) : x \notin Of(batch[r].envs)
  /\ \A f, g \in flushes : f # g => \A x \in Of(f.todo) : x \notin Of(g.todo)
  /\ \A s, u \in stopq : s # u => \A x \in Of(s) : x \notin Of(u)
  /\ \A r \in Route, f \in flushes : \A x \in Of(f.todo) : x \notin Of(batch[r].envs)
  /\ \A s \in stopq, f \in flushes : \A x \in Of(f.todo) : x \notin Of(s)

\* Every message that has a place has arrived, and has one unless the core raised.
Came ==
  /\ \A r \in Route : \A x \in Of(batch[r].envs) : x \in 1..Len(arrived)
  /\ \A f \in flushes : \A x \in Of(f.todo) : x \in 1..Len(arrived)
  /\ \A s \in stopq : \A x \in Of(s) : x \in 1..Len(arrived)
  /\ \A x \in In(core) : x \in 1..Len(arrived)
  /\ raised = {} => \A x \in 1..Len(arrived) :
       \/ x \in In(core)
       \/ \E r \in Route : x \in Of(batch[r].envs)
       \/ \E f \in flushes : x \in Of(f.todo)
       \/ \E s \in stopq : x \in Of(s)

\* A batch keeps the name of its first message, which is stored or next.
Named ==
  /\ \A f \in flushes : f.batch = Head(f.todo) \/ f.batch \in In(core)
  /\ \A f, g \in flushes : f.batch = g.batch => f = g
  /\ \A i \in 1..Len(core) : core[i].batch \in In(core)

\* What is stored of a batch came before the rest of it, in its order, and the
\* turn with the last of it.
Ordered ==
  /\ \A i \in 1..Len(core), f \in flushes : core[i].batch = f.batch =>
       ~core[i].turn /\ \A x \in Of(f.todo) : core[i].t < x
  /\ \A i, j \in 1..Len(core) : i < j =>
       core[i].t # core[j].t /\ (core[i].batch = core[j].batch => core[i].t < core[j].t /\ ~core[i].turn)

\* The inductive invariant of the filter.
OrderInv == DelayInv /\ Places /\ Came /\ Named /\ Ordered

\* What Append and Tail do to what is in a sequence.
LEMMA Appended ==
  ASSUME NEW S, NEW s \in Seq(S), NEW x \in S
  PROVE  /\ Append(s, x) \in Seq(S) /\ \A y : y \in Of(Append(s, x)) <=> y \in Of(s) \/ y = x
         /\ Rising(s) /\ (\A y \in Of(s) : y < x) => Rising(Append(s, x))
<1>1. Append(s, x) \in Seq(S) /\ Len(Append(s, x)) = Len(s) + 1 /\ Len(s) \in Nat
  OBVIOUS
<1>2. Append(s, x)[Len(s) + 1] = x /\ \A i \in 1..Len(s) : Append(s, x)[i] = s[i]
  OBVIOUS
<1>3. \A i : i \in 1..(Len(s) + 1) <=> i \in 1..Len(s) \/ i = Len(s) + 1
  BY <1>1
<1>4. \A y : y \in Of(Append(s, x)) <=> y \in Of(s) \/ y = x
  BY <1>1, <1>2, <1>3 DEF Of
<1>5. ASSUME Rising(s), \A y \in Of(s) : y < x PROVE Rising(Append(s, x))
  BY <1>1, <1>2, <1>3, <1>5 DEF Rising, Of
<1> QED BY <1>1, <1>4, <1>5

\* What Head and Tail do to it.
LEMMA Behead ==
  ASSUME NEW S, NEW s \in Seq(S), s # <<>>
  PROVE  /\ \A y : y \in Of(s) <=> y = Head(s) \/ y \in Of(Tail(s))
         /\ Tail(s) \in Seq(S) /\ Len(Tail(s)) = Len(s) - 1 /\ Len(s) \in Nat \ {0}
         /\ Rising(s) => Rising(Tail(s)) /\ \A y \in Of(Tail(s)) : Head(s) < y
<1>1. /\ Tail(s) \in Seq(S) /\ Len(Tail(s)) = Len(s) - 1 /\ Len(s) \in Nat \ {0} /\ Head(s) = s[1]
      /\ \A i \in 1..Len(Tail(s)) : Tail(s)[i] = s[i + 1]
  OBVIOUS
<1>2. \A i \in 1..Len(s) : i = 1 \/ (i - 1 \in 1..Len(Tail(s)) /\ Tail(s)[i - 1] = s[i])
  BY <1>1
<1>3. \A i \in 1..Len(Tail(s)) : i + 1 \in 1..Len(s) /\ 1 < i + 1
  BY <1>1
<1>4. \A y : y \in Of(s) <=> y = Head(s) \/ y \in Of(Tail(s))
  <2>1. ASSUME NEW y \in Of(s), y # Head(s) PROVE y \in Of(Tail(s))
    <3>1. PICK i \in 1..Len(s) : y = s[i]
      BY <2>1 DEF Of
    <3> QED BY <1>1, <1>2, <2>1, <3>1 DEF Of
  <2>2. ASSUME NEW y \in Of(Tail(s)) PROVE y \in Of(s)
    <3>1. PICK i \in 1..Len(Tail(s)) : y = Tail(s)[i]
      BY <2>2 DEF Of
    <3>2. y = s[i + 1] /\ i + 1 \in 1..Len(s)
      BY <1>1, <1>3, <3>1
    <3> QED BY <3>2 DEF Of
  <2>3. Head(s) \in Of(s)
    BY <1>1 DEF Of
  <2> QED BY <2>1, <2>2, <2>3
<1>5. ASSUME Rising(s) PROVE Rising(Tail(s)) /\ \A y \in Of(Tail(s)) : Head(s) < y
  BY <1>1, <1>3, <1>5 DEF Rising, Of
<1> QED BY <1>1, <1>4, <1>5

\* Nothing is in the empty sequence.
LEMMA Nothing == Rising(<<>>) /\ \A x : x \notin Of(<<>>)
BY DEF Rising, Of

\* Steps that leave the messages where they are.
LEMMA StaysOrdered ==
  ASSUME OrderInv, DelayInv', \A r \in Route : batch'[r].envs = batch[r].envs,
         UNCHANGED <<arrived, flushes, stopq, core, raised>>
  PROVE  OrderInv'
<1>1. Places'
  BY DEF OrderInv, Places
<1>2. Came'
  BY DEF OrderInv, Came
<1> QED BY <1>1, <1>2 DEF OrderInv, Named, Ordered

\* A message that comes is the last of its batch.
LEMMA IngestOrdered ==
  ASSUME Delays, OrderInv, DelayInv', NEW r \in Route, NEW id \in Id \cup {NoId}, Delay!Ingest(r, id)
  PROVE  OrderInv'
<1> DEFINE n == Len(arrived) + 1
<1>1. /\ Len(arrived) \in Nat /\ Len(arrived') = n /\ UNCHANGED <<flushes, stopq, core, raised>>
      /\ batch'[r].envs = Append(batch[r].envs, n) /\ \A q \in Route : q # r => batch'[q].envs = batch[q].envs
  BY DEF OrderInv, DelayInv, Delay!TypeOK, Delay!Ingest, Delay!IngestArm, Delay!Arm
<1>2. batch[r].envs \in Seq(Nat) /\ n \in Nat
  BY <1>1 DEF Delays, OrderInv, DelayInv, Delay!TypeOK, Delay!Batch, Delay!Ticket
<1> HIDE DEF n
<1>3. /\ \A y : y \in Of(batch'[r].envs) <=> y \in Of(batch[r].envs) \/ y = n
      /\ Rising(batch[r].envs) /\ (\A y \in Of(batch[r].envs) : y < n) => Rising(batch'[r].envs)
  BY <1>1, <1>2, Appended
<1>4. n \notin 1..Len(arrived) /\ (\A y \in 1..Len(arrived) : y < n) /\ \A y : y \in 1..n <=> y \in 1..Len(arrived) \/ y = n
  BY <1>1 DEF n
<1>5. Rising(batch'[r].envs)
  BY <1>3, <1>4 DEF OrderInv, Places, Came
<1>6. /\ n \notin In(core) /\ \A q \in Route : n \notin Of(batch[q].envs)
      /\ (\A f \in flushes : n \notin Of(f.todo)) /\ \A s \in stopq : n \notin Of(s)
  BY <1>4 DEF OrderInv, Came
<1>7. Places'
  <2>1. \A q \in Route : Rising(batch'[q].envs) /\ \A x \in Of(batch'[q].envs) : x \notin In(core)
    BY <1>1, <1>3, <1>5, <1>6 DEF OrderInv, Places
  <2>2. ASSUME NEW p \in Route, NEW q \in Route, p # q, NEW x \in Of(batch'[p].envs), x \in Of(batch'[q].envs)
        PROVE  FALSE
    <3>1. (p = r /\ x = n) \/ x \in Of(batch[p].envs)
      BY <1>1, <1>3
    <3>2. (q = r /\ x = n) \/ x \in Of(batch[q].envs)
      BY <1>1, <1>3, <2>2
    <3>3. \A y \in Of(batch[p].envs) : y \notin Of(batch[q].envs)
      BY <2>2 DEF OrderInv, Places
    <3> QED BY <1>6, <2>2, <3>1, <3>2, <3>3
  <2>3. \A q \in Route, f \in flushes : \A x \in Of(f.todo) : x \notin Of(batch'[q].envs)
    BY <1>1, <1>3, <1>6 DEF OrderInv, Places
  <2> QED BY <1>1, <2>1, <2>2, <2>3 DEF OrderInv, Places
<1>8. Came'
  BY <1>1, <1>3, <1>4 DEF OrderInv, Came
<1> QED BY <1>1, <1>7, <1>8 DEF OrderInv, Named, Ordered

\* A submission that begins is of a batch that none was named after.
LEMMA Launched ==
  ASSUME OrderInv, NEW e \in Seq(Nat), e # <<>>, NEW by, \A x \in Of(e) : x \notin In(core),
         \A f \in flushes : \A x \in Of(f.todo) : x \notin Of(e),
         flushes' = flushes \cup {Delay!FlushOf(e, by)}, UNCHANGED core
  PROVE  Named' /\ Ordered'
<1>1. /\ Delay!FlushOf(e, by).batch \in Of(e) /\ Delay!FlushOf(e, by).batch = Head(e)
      /\ Delay!FlushOf(e, by).todo = e
  BY Behead DEF Delay!FlushOf
<1>2. ASSUME NEW f \in flushes PROVE f.batch # Delay!FlushOf(e, by).batch
  <2>1. f.todo \in Seq(Delay!Ticket) /\ f.todo # <<>>
    BY DEF OrderInv, DelayInv, Delay!TypeOK, Delay!Flush
  <2>2. Head(f.todo) \in Of(f.todo)
    BY <2>1, Behead
  <2> QED BY <1>1, <2>2 DEF OrderInv, Named
<1>3. \A i \in 1..Len(core) : core[i].batch # Delay!FlushOf(e, by).batch
  BY <1>1 DEF OrderInv, Named
<1>4. Named'
  BY <1>1, <1>2 DEF OrderInv, Named
<1> QED BY <1>3, <1>4 DEF OrderInv, Ordered

\* A timer takes a batch as it is.
LEMMA FireOrdered ==
  ASSUME Delays, OrderInv, DelayInv', NEW r \in Route, Delay!Fire(r)
  PROVE  OrderInv'
<1> DEFINE e == batch[r].envs
           g == Delay!FlushOf(e, "timer")
<1>1. e \in Seq(Nat) /\ e # <<>>
  BY DEF Delays, OrderInv, DelayInv, Delay!TypeOK, Delay!Batch, Delay!Ticket, Delay!Fire, Delay!Waits
<1>2. /\ flushes' = flushes \cup {g} /\ UNCHANGED <<arrived, stopq, core, raised>>
      /\ batch'[r].envs = <<>> /\ \A q \in Route : q # r => batch'[q].envs = batch[q].envs
      /\ g.todo = e /\ stopq = {}
  BY DEF OrderInv, DelayInv, Delay!TypeOK, Delay!Fire, Delay!NoBatch, Delay!FlushOf, Delay!Waits
<1> HIDE DEF g
<1>3. Named' /\ Ordered'
  BY <1>1, <1>2, Launched DEF g, OrderInv, Places
<1>4. Places'
  BY <1>2, Nothing DEF OrderInv, Places
<1>5. Came'
  BY <1>2, Nothing DEF OrderInv, Came
<1> QED BY <1>3, <1>4, <1>5 DEF OrderInv

\* stop() takes each batch as it is, and submits one after the other.
LEMMA StopOrdered ==
  ASSUME Delays, OrderInv, DelayInv', Delay!StopBegin \/ Delay!StopFlush
  PROVE  OrderInv'
<1>1. CASE Delay!StopBegin
  <2>1. /\ stopq' = {batch[r].envs : r \in {q \in Route : Delay!Waits(q)}} /\ stopq = {}
        /\ \A r \in Route : batch'[r].envs = <<>>
        /\ UNCHANGED <<arrived, flushes, core, raised>>
    BY <1>1 DEF OrderInv, DelayInv, Delay!TypeOK, Delay!StopBegin, Delay!NoBatch
  <2>2. \A s \in stopq' : \E r \in Route : s = batch[r].envs
    BY <2>1
  <2>3. \A r \in Route : \A x \in Of(batch[r].envs) : batch[r].envs \in stopq'
    BY <2>1, Nothing DEF Delay!Waits
  <2>4. Places'
    <3>1. /\ \A r \in Route : Rising(batch'[r].envs) /\ \A x : x \notin Of(batch'[r].envs)
          /\ \A s \in stopq' : Rising(s) /\ \A x \in Of(s) : x \notin In(core)
      BY <2>1, <2>2, Nothing DEF OrderInv, Places
    <3>2. \A s, u \in stopq' : s # u => \A x \in Of(s) : x \notin Of(u)
      BY <2>2 DEF OrderInv, Places
    <3>3. \A s \in stopq', f \in flushes : \A x \in Of(f.todo) : x \notin Of(s)
      BY <2>2 DEF OrderInv, Places
    <3> QED BY <2>1, <3>1, <3>2, <3>3 DEF OrderInv, Places
  <2>5. Came'
    <3>1. \A r \in Route : \A x : x \notin Of(batch'[r].envs)
      BY <2>1, Nothing
    <3>2. \A s \in stopq' : \A x \in Of(s) : x \in 1..Len(arrived)
      BY <2>2 DEF OrderInv, Came
    <3>3. raised = {} => \A x \in 1..Len(arrived) :
            \/ x \in In(core)
            \/ \E f \in flushes : x \in Of(f.todo)
            \/ \E s \in stopq' : x \in Of(s)
      BY <2>1, <2>3 DEF OrderInv, Came
    <3> QED BY <2>1, <3>1, <3>2, <3>3 DEF OrderInv, Came
  <2> QED BY <2>1, <2>4, <2>5 DEF OrderInv, Named, Ordered
<1>2. CASE Delay!StopFlush
  <2>1. PICK e \in stopq : flushes' = {Delay!FlushOf(e, "stop")} /\ stopq' = stopq \ {e}
    BY <1>2 DEF Delay!StopFlush
  <2>2. flushes = {} /\ UNCHANGED <<arrived, batch, core, raised>> /\ Delay!FlushOf(e, "stop").todo = e
    BY <1>2 DEF Delay!StopFlush, Delay!FlushOf
  <2>3. e \in Seq(Nat) /\ e # <<>>
    BY DEF Delays, OrderInv, DelayInv, Delay!TypeOK, Delay!Ticket
  <2>4. \A r \in Route : batch[r].envs = <<>>
    BY <2>1 DEF OrderInv, DelayInv, Delay!TypeOK, Delay!Waits
  <2>5. Named' /\ Ordered'
    BY <2>1, <2>2, <2>3, Launched DEF OrderInv, Places
  <2>6. Places'
    BY <2>1, <2>2, <2>4, Nothing DEF OrderInv, Places
  <2>7. Came'
    BY <2>1, <2>2 DEF OrderInv, Came
  <2> QED BY <2>5, <2>6, <2>7 DEF OrderInv
<1> QED BY <1>1, <1>2

\* What one more stored message adds.
LEMMA Told ==
  ASSUME DelayInv, NEW c \in [t : Delay!Ticket, batch : Delay!Ticket, turn : BOOLEAN], core' = Append(core, c)
  PROVE  /\ Len(core') = Len(core) + 1 /\ Len(core) \in Nat /\ core'[Len(core) + 1] = c
         /\ \A i \in 1..Len(core) : core'[i] = core[i]
         /\ \A i : i \in 1..Len(core') <=> i \in 1..Len(core) \/ i = Len(core) + 1
         /\ \A x : x \in In(core') <=> x \in In(core) \/ x = c.t
<1>1. /\ Len(core') = Len(core) + 1 /\ Len(core) \in Nat /\ core'[Len(core) + 1] = c
      /\ \A i \in 1..Len(core) : core'[i] = core[i]
  BY DEF DelayInv, Delay!TypeOK
<1>2. \A i : i \in 1..Len(core') <=> i \in 1..Len(core) \/ i = Len(core) + 1
  BY <1>1
<1> QED BY <1>1, <1>2 DEF In

\* A submission stores its first message and keeps the rest.
LEMMA SubmitOrdered ==
  ASSUME Delays, OrderInv, DelayInv', NEW f \in flushes, Delay!Submit(f)
  PROVE  OrderInv'
<1> DEFINE c == [t |-> Head(f.todo), batch |-> f.batch, turn |-> Len(f.todo) = 1]
           g == [f EXCEPT !.todo = Tail(f.todo)]
           n == Len(core) + 1
<1>1. f \in Delay!Flush /\ f.todo \in Seq(Delay!Ticket) /\ f.todo # <<>>
  BY DEF OrderInv, DelayInv, Delay!TypeOK, Delay!Flush
<1>2. c \in [t : Delay!Ticket, batch : Delay!Ticket, turn : BOOLEAN]
  BY <1>1 DEF Delay!Flush
<1>3. /\ core' = Append(core, c) /\ UNCHANGED <<arrived, batch, stopq, raised>>
      /\ flushes' = (flushes \ {f}) \cup (IF Tail(f.todo) = <<>> THEN {} ELSE {g})
  BY DEF Delay!Submit, Delay!Pick
<1>4. g.todo = Tail(f.todo) /\ g.batch = f.batch /\ c.t = Head(f.todo) /\ c.batch = f.batch
      /\ (c.turn <=> Len(f.todo) = 1)
  BY <1>1 DEF Delay!Flush
<1>5. /\ \A y : y \in Of(f.todo) <=> y = c.t \/ y \in Of(g.todo)
      /\ Rising(g.todo) /\ \A y \in Of(g.todo) : c.t < y
      /\ ~(c.t < c.t) /\ c.t \in Of(f.todo)
  <2>1. Head(f.todo) \in Nat
    BY <1>1 DEF Delays, Delay!Ticket
  <2> QED BY <1>1, <1>4, <2>1, Behead DEF OrderInv, Places
<1>6. c.turn => Tail(f.todo) = <<>>
  <2>1. Len(Tail(f.todo)) = Len(f.todo) - 1 /\ Tail(f.todo) \in Seq(Delay!Ticket) /\ Len(f.todo) \in Nat
    BY <1>1, Behead
  <2>2. Tail(f.todo) # <<>> => Len(Tail(f.todo)) # 0
    BY <2>1, EmptySeq
  <2>3. Len(f.todo) = 1 => Tail(f.todo) = <<>>
    BY <2>1, <2>2
  <2> QED BY <1>4, <2>3
<1> HIDE DEF c, g
<1>7. /\ Len(core') = n /\ core'[n] = c /\ \A i \in 1..Len(core) : core'[i] = core[i] /\ i < n
      /\ \A i : i \in 1..Len(core') <=> i \in 1..Len(core) \/ i = n
      /\ \A x : x \in In(core') <=> x \in In(core) \/ x = c.t
  BY <1>2, <1>3, Told DEF OrderInv
<1> HIDE DEF n
<1>8. \A h \in flushes' : (h \in flushes /\ h # f) \/ (h = g /\ ~c.turn)
  BY <1>3, <1>6
<1>9. \A h \in flushes : h # f => h \in flushes'
  BY <1>3
<1>10. \A y \in Of(g.todo) : g \in flushes'
  BY <1>3, <1>4, Nothing
<1>11. Places'
  <2>1. \A h \in flushes' : Rising(h.todo) /\ \A x \in Of(h.todo) : x \notin In(core')
    BY <1>5, <1>7, <1>8 DEF OrderInv, Places
  <2>2. \A r \in Route : \A x \in Of(batch[r].envs) : x \notin In(core')
    BY <1>5, <1>7 DEF OrderInv, Places
  <2>3. \A s \in stopq : \A x \in Of(s) : x \notin In(core')
    BY <1>5, <1>7 DEF OrderInv, Places
  <2>4. \A h, k \in flushes' : h # k => \A x \in Of(h.todo) : x \notin Of(k.todo)
    BY <1>5, <1>8 DEF OrderInv, Places
  <2>5. \A r \in Route, h \in flushes' : \A x \in Of(h.todo) : x \notin Of(batch[r].envs)
    BY <1>5, <1>8 DEF OrderInv, Places
  <2>6. \A s \in stopq, h \in flushes' : \A x \in Of(h.todo) : x \notin Of(s)
    BY <1>5, <1>8 DEF OrderInv, Places
  <2> QED BY <1>3, <2>1, <2>2, <2>3, <2>4, <2>5, <2>6 DEF OrderInv, Places
<1>12. Came'
  <2>1. \A h \in flushes' : \A x \in Of(h.todo) : x \in 1..Len(arrived)
    BY <1>5, <1>8 DEF OrderInv, Came
  <2>2. \A x \in In(core') : x \in 1..Len(arrived)
    BY <1>5, <1>7 DEF OrderInv, Came
  <2>3. \A h \in flushes : \A x \in Of(h.todo) : x \in In(core') \/ \E k \in flushes' : x \in Of(k.todo)
    BY <1>5, <1>7, <1>9, <1>10
  <2>4. \A x \in In(core) : x \in In(core')
    BY <1>7
  <2>5. raised = {} => \A x \in 1..Len(arrived) :
          \/ x \in In(core')
          \/ \E r \in Route : x \in Of(batch[r].envs)
          \/ \E h \in flushes' : x \in Of(h.todo)
          \/ \E s \in stopq : x \in Of(s)
    BY <2>3, <2>4 DEF OrderInv, Came
  <2> QED BY <1>3, <2>1, <2>2, <2>5 DEF OrderInv, Came
<1>13. c.batch \in In(core')
  BY <1>4, <1>7 DEF OrderInv, Named
<1>14. Named'
  <2>1. \A h \in flushes' : h.batch = Head(h.todo) \/ h.batch \in In(core')
    BY <1>4, <1>7, <1>8, <1>13 DEF OrderInv, Named
  <2>2. \A h, k \in flushes' : h.batch = k.batch => h = k
    BY <1>4, <1>8 DEF OrderInv, Named
  <2>3. \A i \in 1..Len(core') : core'[i].batch \in In(core')
    BY <1>7, <1>13 DEF OrderInv, Named
  <2> QED BY <2>1, <2>2, <2>3 DEF Named
<1>15. Ordered'
  <2>1. \A i \in 1..Len(core), h \in flushes' : core[i].batch = h.batch =>
          ~core[i].turn /\ \A x \in Of(h.todo) : core[i].t < x
    BY <1>4, <1>5, <1>8 DEF OrderInv, Ordered
  <2>2. \A h \in flushes' : c.batch = h.batch => ~c.turn /\ \A x \in Of(h.todo) : c.t < x
    BY <1>4, <1>5, <1>8 DEF OrderInv, Named
  <2>3. \A i \in 1..Len(core) : /\ core[i].t # c.t
                                /\ core[i].batch = c.batch => core[i].t < c.t /\ ~core[i].turn
    <3>1. \A i \in 1..Len(core) : core[i].t \in In(core)
      BY DEF In
    <3>2. c.t \notin In(core)
      BY <1>5 DEF OrderInv, Places
    <3> QED BY <1>4, <1>5, <3>1, <3>2 DEF OrderInv, Ordered
  <2>4. \A j \in 1..Len(core) : ~(n < j)
    BY <1>7 DEF n
  <2>5. ~(n < n)
    BY <1>7 DEF n, OrderInv, DelayInv, Delay!TypeOK
  <2>6. \A i, j \in 1..Len(core') : i < j =>
          core'[i].t # core'[j].t /\ (core'[i].batch = core'[j].batch => core'[i].t < core'[j].t /\ ~core'[i].turn)
    BY <1>7, <2>3, <2>4, <2>5 DEF OrderInv, Ordered
  <2>7. \A i \in 1..Len(core'), h \in flushes' : core'[i].batch = h.batch =>
          ~core'[i].turn /\ \A x \in Of(h.todo) : core'[i].t < x
    BY <1>7, <2>1, <2>2
  <2> QED BY <2>6, <2>7 DEF Ordered
<1> QED BY <1>11, <1>12, <1>14, <1>15 DEF OrderInv

\* A batch for which the core raises is gone, and so may be those of stop().
LEMMA RaiseOrdered ==
  ASSUME Delays, OrderInv, DelayInv', NEW f \in flushes, Delay!SubmitRaises(f)
  PROVE  OrderInv'
<1>1. /\ flushes' \subseteq flushes /\ stopq' \subseteq stopq /\ raised' # {}
      /\ UNCHANGED <<arrived, batch, core>>
  BY DEF Delay!SubmitRaises
<1> QED BY <1>1 DEF OrderInv, Places, Came, Named, Ordered

\* Nothing has come at first.
LEMMA OrderInit == ASSUME Delays, Delay!Init PROVE OrderInv
<1>1. /\ core = <<>> /\ arrived = <<>> /\ flushes = {} /\ stopq = {} /\ \A r \in Route : batch[r].envs = <<>>
  BY DEF Delay!Init, Delay!NoBatch
<1>2. \A x : x \notin In(core) /\ x \notin 1..Len(core) /\ x \notin 1..Len(arrived)
  BY <1>1 DEF In
<1> QED BY <1>1, <1>2, Nothing, DelayInit DEF OrderInv, Places, Came, Named, Ordered

\* Every step keeps each message in one place, and in its order.
LEMMA OrderStep == ASSUME Delays, OrderInv, [Delay!Next]_Delay!vars PROVE OrderInv'
<1>0. DelayInv'
  BY DelayStep DEF OrderInv
<1>1. ASSUME NEW r \in Route, NEW id \in Id \cup {NoId}, Delay!Ingest(r, id) PROVE OrderInv'
  BY <1>0, <1>1, IngestOrdered
<1>2. ASSUME NEW r \in Route, Delay!Typing(r) PROVE OrderInv'
  <2>1. \A q \in Route : batch'[q].envs = batch[q].envs
    BY <1>2 DEF Delay!Typing, Delay!Arm, OrderInv, DelayInv, Delay!TypeOK
  <2> QED BY <1>0, <1>2, <2>1, StaysOrdered DEF Delay!Typing
<1>3. ASSUME NEW r \in Route, Delay!Fire(r) PROVE OrderInv'
  BY <1>0, <1>3, FireOrdered
<1>4. CASE Delay!Tick
  <2>1. \A q \in Route : batch'[q].envs = batch[q].envs
    BY <1>4 DEF Delay!Tick, Delay!Pass
  <2> QED BY <1>0, <1>4, <2>1, StaysOrdered DEF Delay!Tick
<1>5. ASSUME NEW f \in flushes, Delay!Submit(f) PROVE OrderInv'
  BY <1>0, <1>5, SubmitOrdered
<1>6. ASSUME NEW f \in flushes, Delay!SubmitRaises(f) PROVE OrderInv'
  BY <1>0, <1>6, RaiseOrdered
<1>7. CASE Delay!StopBegin \/ Delay!StopFlush
  BY <1>0, <1>7, StopOrdered
<1>8. CASE Delay!CloseAdmission \/ Delay!StopEnd \/ Delay!Start
  BY <1>0, <1>8, StaysOrdered DEF Delay!CloseAdmission, Delay!StopEnd, Delay!Start
<1>9. CASE UNCHANGED Delay!vars
  BY <1>0, <1>9, StaysOrdered DEF Delay!vars
<1> QED
  BY <1>1, <1>2, <1>3, <1>4, <1>5, <1>6, <1>7, <1>8, <1>9 DEF Delay!Next

\* What the properties of DelayedReply say of a message that is held.
LEMMA OrderSafe ==
  OrderInv => Delay!SubmittedOnce /\ Delay!InOrder /\ Delay!TurnSeesBatch /\ Delay!NothingLost
<1> SUFFICES ASSUME OrderInv
             PROVE  Delay!SubmittedOnce /\ Delay!InOrder /\ Delay!TurnSeesBatch /\ Delay!NothingLost
  OBVIOUS
<1>1. DOMAIN core = 1..Len(core) /\ Len(core) \in Nat
  BY DEF OrderInv, DelayInv, Delay!TypeOK
<1>2. Delay!Stored = In(core)
  BY <1>1 DEF Delay!Stored, In
<1>3. /\ \A r \in Route : Delay!ToSet(batch[r].envs) = Of(batch[r].envs)
      /\ \A f \in flushes : Delay!ToSet(f.todo) = Of(f.todo)
      /\ \A s \in stopq : Delay!ToSet(s) = Of(s)
  BY DEF OrderInv, DelayInv, Delay!TypeOK, Delay!Batch, Delay!Flush, Delay!ToSet, Of
<1>4. \A x : x \in Delay!Held <=> \/ \E r \in Route : x \in Of(batch[r].envs)
                                  \/ \E f \in flushes : x \in Of(f.todo)
                                  \/ \E s \in stopq : x \in Of(s)
  BY <1>3 DEF Delay!Held
<1>5. \A i, j \in 1..Len(core) : i < j \/ j < i \/ i = j
  BY <1>1
<1>6. Delay!SubmittedOnce
  <2>1. \A i, j \in DOMAIN core : core[i].t = core[j].t => i = j
    BY <1>1, <1>5 DEF OrderInv, Ordered
  <2>2. \A x \in Delay!Held : x \notin In(core)
    BY <1>4 DEF OrderInv, Places
  <2> QED BY <1>2, <2>1, <2>2 DEF Delay!SubmittedOnce
<1>7. Delay!InOrder
  BY <1>1 DEF OrderInv, Ordered, Delay!InOrder
<1>8. Delay!TurnSeesBatch
  <2>1. \A i, j \in 1..Len(core) : core[i].turn /\ core[j].batch = core[i].batch => j <= i
    <3>1. \A i, j \in 1..Len(core) : i < j \/ j <= i
      BY <1>1
    <3> QED BY <3>1 DEF OrderInv, Ordered
  <2> QED BY <1>1, <2>1 DEF OrderInv, Ordered, Delay!TurnSeesBatch
<1>9. Delay!NothingLost
  BY <1>2, <1>4 DEF OrderInv, Came, Delay!NothingLost
<1> QED BY <1>6, <1>7, <1>8, <1>9

\* The constants are as DelayedReply assumes.
LEMMA DelaysHold == Delays
  BY BackgroundAssumption DEF Delays

\* The same of a step of the part.
LEMMA FilterStep == OrderInv /\ [Delay!Next]_filter => OrderInv'
  BY DelaysHold, OrderStep DEF filter, Delay!vars

(****************************************************************************)
(* Composed                                                                 *)
(****************************************************************************)

\* All invariants together.
BackgroundInv == SocialInv /\ RunsKnown /\ LocksOwned /\ DriftInv /\ FeedsInv /\ GraphInv /\ IndexInv
                 /\ OrderInv

\* A step is one of one part, and the other parts stutter.
LEMMA EachPart ==
  ASSUME [Next]_vars
  PROVE  /\ [Social!Next]_social /\ [Research!Next]_drift /\ [Sources!Next]_feeds
         /\ [Behaviour!Next]_behaviour /\ [Index!Next]_index
         /\ [Delay!Next]_filter
BY DEF Next, OfSocial, OfResearch, OfSources, OfBehaviour, OfIndex, OfFilter, vars

\* Every part starts in its invariant.
LEMMA BackgroundInit == Init => BackgroundInv
BY SocialInit, RunsInit, OwnedInit, DriftInit, FeedsInit, GraphInit, IndexInit, OrderInit, DelaysHold DEF Init, BackgroundInv

\* Every part keeps its invariant.
LEMMA BackgroundStep == BackgroundInv /\ [Next]_vars => BackgroundInv'
BY EachPart, SocialStep, RunsStep, OwnedStep, DriftStep, FeedsStep, GraphStep, IndexStep, FilterStep DEF BackgroundInv

\* The invariants of all parts hold for any values of the constants.
THEOREM Invariant == Spec => []BackgroundInv
BY BackgroundInit, BackgroundStep, PTL DEF Spec

\* SocialLearning: however runs, feedback, maintenance, turns and operations on a
\* session interleave, a row that a scan writes over has the status, the level, the
\* evidence and the inference it was read with.  (Its decay may have been reset.)
THEOREM ScansWriteWhatTheyRead == Spec => []ReadStillTrue
<1>1. BackgroundInv => ReadStillTrue
  BY SocialSafe DEF BackgroundInv, ReadStillTrue
<1> QED BY <1>1, Invariant, PTL

\* SocialLearning: nothing is learned, and nothing stays learned, from a message
\* that was erased.
THEOREM ErasedUnlearned == Spec => []LearnedFromKept
<1>1. BackgroundInv => LearnedFromKept
  BY SocialSafe DEF BackgroundInv, LearnedFromKept
<1> QED BY <1>1, Invariant, PTL

\* SocialLearning: a selection expires only after it was followed up and asked
\* about as often as the settings say.
THEOREM ExpiryEarned == Spec => []ExpiredHeard
<1>1. BackgroundInv => ExpiredHeard
  BY SocialSafe DEF BackgroundInv, ExpiredHeard
<1> QED BY <1>1, Invariant, PTL

\* SocialLearning: while an operation or a turn is under way, nobody waits in a
\* circle: what Unstuck says, with the conditions of the steps in place of ENABLED.
THEOREM NobodyStuck == Spec => []SomebodyGoesOn
<1>1. BackgroundInv => SomebodyGoesOn
  BY OwnedSafe DEF BackgroundInv
<1> QED BY <1>1, Invariant, PTL

\* Drift: between two acts of the user a paused run is continued by itself at most
\* as often as the settings say, whatever fails and restarts.
THEOREM BudgetHolds == Spec => []BudgetKept
<1>1. BackgroundInv => BudgetKept
  BY DriftSafe DEF BackgroundInv, BudgetKept
<1> QED BY <1>1, Invariant, PTL

\* Feeds: a feed has no validator for a document of which a story is missing in
\* the pool.
THEOREM ValidatorsHonest == Spec => []NothingMissed
<1>1. BackgroundInv => NothingMissed
  BY FeedsSafe DEF BackgroundInv, NothingMissed
<1> QED BY <1>1, Invariant, PTL

\* BehaviorGraph: whatever is merged and saved in whatever order, the domains of
\* an active pattern find it.
THEOREM PatternsRecalled == Spec => []Recalled
<1>1. BackgroundInv => Recalled
  BY GraphSafe DEF BackgroundInv, Recalled
<1> QED BY <1>1, Invariant, PTL

\* ExpressionIndex: a ranking compares vectors of one backend, though the backend
\* is switched while members build the index.
THEOREM BackendsApart == Spec => []OneBackend
<1>1. BackgroundInv => OneBackend
  BY IndexSafe DEF BackgroundInv, OneBackend
<1> QED BY <1>1, Invariant, PTL

\* ExpressionIndex: no vector outlives its expression.
THEOREM VectorsErased == Spec => []Index!NoOrphanVectors
<1>1. BackgroundInv => Index!NoOrphanVectors
  BY IndexSafe DEF BackgroundInv
<1> QED BY <1>1, Invariant, PTL

\* What a member finds when it goes on to rank.
WholeRule ==
  \A u \in User : user[u].pc = "cluster" /\ user'[u].pc = "use" =>
    /\ centre'.fp = <<user[u].marker, user[u].cand>>
    /\ \A e \in user[u].cand : vec'[e].fp = centre'.fp /\ vec'[e].label \in centre'.labels

\* ExpressionIndex: a member that goes on to rank has an index of exactly its
\* candidates, all of it from its backend.
THEOREM IndexIsWhole == Spec => WholeIndex
<1>1. BackgroundInv /\ [Next]_vars => [WholeRule]_Index!vars
  BY EachPart, IndexWhole DEF BackgroundInv, WholeRule
<1> QED BY <1>1, Invariant, PTL DEF Spec, WholeIndex, Index!WholeIndex, WholeRule

\* DelayedReply: whatever users write and type, and whenever the plugin is stopped
\* and started again, no batch waits longer than one message and one typing window.
THEOREM BoundedWait == Spec => []WaitBounded
<1>1. BackgroundInv => WaitBounded
  BY DEF BackgroundInv, OrderInv, DelayInv, Bounded, WaitBounded, Delay!WaitBounded
<1> QED BY <1>1, Invariant, PTL

\* DelayedReply: a message reaches the core at most once, and none that reached it is held.
THEOREM OncePerMessage == Spec => []Delay!SubmittedOnce
<1>1. BackgroundInv => Delay!SubmittedOnce
  BY OrderSafe DEF BackgroundInv
<1> QED BY <1>1, Invariant, PTL

\* DelayedReply: the messages of a batch reach the core in the order in which they came.
THEOREM BatchInOrder == Spec => []Delay!InOrder
<1>1. BackgroundInv => Delay!InOrder
  BY OrderSafe DEF BackgroundInv
<1> QED BY <1>1, Invariant, PTL

\* DelayedReply: a batch schedules its turn when every message of it is with the core.
THEOREM TurnAfterBatch == Spec => []Delay!TurnSeesBatch
<1>1. BackgroundInv => Delay!TurnSeesBatch
  BY OrderSafe DEF BackgroundInv
<1> QED BY <1>1, Invariant, PTL

\* DelayedReply: a message that was answered as accepted is held or with the core,
\* unless the core raised.
THEOREM AcceptedHeld == Spec => []Delay!NothingLost
<1>1. BackgroundInv => Delay!NothingLost
  BY OrderSafe DEF BackgroundInv
<1> QED BY <1>1, Invariant, PTL
===============================================================================
