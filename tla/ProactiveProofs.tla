---------------------------- MODULE ProactiveProofs ----------------------------
(* Proofs about the proactive messages, for any number of candidates, runs,  *)
(* messages of the user, manual runs and crashes.                            *)
EXTENDS Proactive, OutboundCallProofs, FiniteSetTheorems, WellFoundedInduction

(****************************************************************************)
(* The inductive invariant, in parts that build on each other               *)
(****************************************************************************)

\* The third failure closes a candidate.
Copy == {x \in [status : CandStatus, tries : 0 .. 3] :
           /\ x.status # "failed" => x.tries \in 0 .. 2
           /\ x.status = "none" => x.tries = 0}

\* Copies of open rows: what was read from the pool and may be written back.
OpenCopy == [status : Open, tries : 0 .. 2]
OpenCopies == UNION {[S -> OpenCopy] : S \in SUBSET Candidate}

\* The copy of a reserved row; the loop may have expired it before it was read.
HeldCopy == [status : {"prepared", "expired"}, tries : 0 .. 2]
HeldCopies == UNION {[{c} -> HeldCopy] : c \in Candidate}

LoopShape == [pc : {"off", "clear", "poll", "check", "expire", "run", "wait"},
              dead : OpenCopies, any : BOOLEAN]
Looking == {"expire", "gate", "judge", "conclude", "prepare"}
Holding == {"regate", "send", "drop", "deliver", "settle"}
ExecShape == [pc : {"idle", "list", "recover", "remember"} \cup Looking \cup Holding,
              by : {"nobody", "boot", "loop", "user"}, r : {0} \cup Run,
              policy : BOOLEAN, snap : 0 .. MaxUser, pool : OpenCopies \cup HeldCopies,
              dead : OpenCopies, pick : Candidate \cup {NoCandidate},
              verdict : {"none", "skipped", "failed", "disabled", "no_candidates",
                         "pending_user_message", "clock"} \cup Status,
              locked : BOOLEAN]
RunShape == [status : RunStatus, cand : Candidate \cup {NoCandidate}, manual : BOOLEAN,
             snap : 0 .. MaxUser]

\* Runs are numbered as created.
Numbered(k) == \A r \in Run : prun[r].status # "none" <=> r <= k

TableTypes ==
  /\ cand \in [Candidate -> Copy]
  /\ prun \in [Run -> RunShape]
  /\ \E k \in 0 .. MaxRun : Numbered(k)
  /\ remembered \in SUBSET Run /\ recent \in SUBSET Run /\ cool \in SUBSET Run
  /\ said \in 0 .. MaxUser /\ answered \in 0 .. said /\ enabled \in BOOLEAN

ProcTypes ==
  /\ on \in {"off", "outbound", "proactive", "on"}
  /\ todo \in SUBSET Run
  /\ loop \in LoopShape
  /\ waiters \in Seq({"loop", "user"})
  /\ exec \in ExecShape

\* Who may hold the run lock at which stage of the process.
Stages ==
  /\ on # "on" => loop.pc = "off" /\ waiters = <<>>
  /\ on \in {"off", "outbound"} => AtExec("idle")
  /\ on = "proactive" => exec.by = "boot" /\ exec.pc \in {"recover", "remember"} \cup Holding
  /\ on = "on" => exec.by # "boot" /\ exec.pc # "recover"
  /\ exec.by \in {"loop", "user"} => waiters # <<>>
  /\ exec.by = "nobody" <=> AtExec("idle")
  /\ on = "off" => todo = {}

\* What the holder of the lock carries.
Carries ==
  /\ exec.pc \in Looking => exec.pool \in OpenCopies
  /\ AtExec("prepare") => exec.pick \in DOMAIN exec.pool
  /\ exec.pc \in Holding => /\ exec.pick \in Candidate
                            /\ exec.pool \in [{exec.pick} -> HeldCopy]

Typed == TableTypes /\ ProcTypes /\ Stages /\ Carries

-------------------------------------------------------------------------------
\* What the record of a run says about the row of its message.
RunTells(r) ==
  LET s == prun[r].status IN
  /\ s \in {"none", "running", "skipped"} => attempt[r] = "NONE"
  /\ s = "gated" => attempt[r] \in {"NONE", "DROPPED"}
  /\ s = "failed" => attempt[r] \in {"NONE", "FAILED"}
  /\ s = "sent" => attempt[r] = "SENT" /\ r \in history
  /\ s = "unknown" => attempt[r] = "UNKNOWN"
  /\ s = "prepared" => attempt[r] \in {"PREPARED", "DISPATCHING"} \cup Outcome
  /\ prun[r].cand \in Candidate <=> attempt[r] # "NONE"

\* The record of the run that holds the lock.
ExecRun ==
  /\ exec.pc \in {"list", "expire"} =>
       exec.r \in Run /\ \E k \in 0 .. MaxRun : Numbered(k) /\ exec.r = k + 1
  /\ exec.pc \in Looking \ {"expire"} => exec.r \in Run /\ prun[exec.r].status = "running"
  /\ exec.pc \in Holding => /\ exec.r \in Run /\ prun[exec.r].status = "prepared"
                            /\ prun[exec.r].cand = exec.pick
  /\ AtExec("remember") => exec.r \in Run /\ prun[exec.r].status = "sent"

\* At most one run is prepared: the one that holds the lock, or the one that the
\* last crash left and start-up recovery has yet to visit.
PreparedOnce ==
  \A r \in Run : prun[r].status = "prepared" =>
    /\ \A q \in Run : prun[q].status = "prepared" => q = r
    /\ on = "proactive" => r \in todo \/ (exec.pc \in Holding /\ exec.r = r)
    /\ on = "on" => exec.pc \in Holding /\ exec.r = r

Books == (\A r \in Run : RunTells(r)) /\ ExecRun /\ PreparedOnce

-------------------------------------------------------------------------------
\* The message of r may reach the user, or may have.
Held(r) == prun[r].status = "prepared"
           \/ attempt[r] \in {"PREPARED", "DISPATCHING", "SENT", "UNKNOWN"}

\* The candidate of such a run is out of the pool, and out of every copy of the
\* pool that is still to be written back.
Reservation ==
  /\ \A q, r \in Run : Held(q) /\ Held(r) /\ prun[q].cand = prun[r].cand => q = r
  /\ \A r \in Run : Held(r) => cand[prun[r].cand].status \notin Open \cup {"none"}
  /\ \A r \in Run : prun[r].status = "prepared" => cand[prun[r].cand] \in HeldCopy
  /\ exec.pc \in Looking =>
       \A r \in Run : Held(r) => prun[r].cand \notin DOMAIN exec.pool
  /\ ReservationHeld

-------------------------------------------------------------------------------
Begun(r) == attempt[r] \notin {"NONE", "PREPARED"}
NoNewSend == call[Holder].pc \notin {"prepare", "dispatch", "send", "settle"}

\* What the gate saw still holds, because the session lock is held.
Cleared ==
  /\ exec.locked
  /\ prun[exec.r].snap = answered
  /\ prun[exec.r].manual \/ cool = {}

\* The outcome of a call is on record, and a message that was sent is shown.
Known(r) == attempt[r] \in Outcome /\ (attempt[r] = "SENT" => r \in history)

\* The only call of deliver() is recovery's, which finishes what began, or that of
\* the run that holds the lock and has passed the gate.
CallPlaced ==
  /\ InFlight(Holder) =>
       \/ on = "outbound" /\ Begun(call[Holder].msg) /\ NoNewSend
       \/ AtExec("deliver") /\ call[Holder].msg = exec.r
  /\ on = "outbound" => \A r \in todo : Begun(r)
  /\ exec.pc \in {"send", "deliver"} => Cleared \/ (Begun(exec.r) /\ NoNewSend)
  /\ AtExec("deliver") /\ At(Holder, "done") =>
       call[Holder].receipt = attempt[exec.r] /\ Known(exec.r)
  /\ AtExec("settle") => exec.verdict = attempt[exec.r] /\ Known(exec.r)

\* A run that was sent a short while ago is on record as such, or still prepared.
SendsRecorded ==
  \A r \in recent : attempt[r] = "SENT" => r \in cool \/ prun[r].status = "prepared"

IInv == /\ Typed /\ CallInv /\ Books /\ Reservation /\ CallPlaced /\ SendsRecorded
        /\ MemoryReconciled

(****************************************************************************)
(* The operators the model is built from                                    *)
(****************************************************************************)

LEMMA CopySorts ==
  /\ OpenCopy \subseteq Copy /\ HeldCopy \subseteq Copy
  /\ \A x \in OpenCopy : Expired(x) \in HeldCopy
  /\ \A x \in OpenCopy : [x EXCEPT !.status = "prepared"] \in HeldCopy
  /\ \A x \in OpenCopy : [x EXCEPT !.status = "skipped"] \in Copy
  /\ \A x \in HeldCopy : [x EXCEPT !.status = "sent"] \in Copy
  /\ \A x \in HeldCopy : [x EXCEPT !.status = "failed"] \in Copy
  BY DEF Copy, OpenCopy, HeldCopy, CandStatus, Open, Expired

LEMMA DeferredSort ==
  ASSUME NEW x \in OpenCopy \cup HeldCopy, NEW more \in {0, 1}
  PROVE  Deferred(x, more) \in Copy /\ Deferred(x, more).status \in {"failed", "deferred"}
<1>1. x.tries \in 0 .. 2
  BY DEF OpenCopy, HeldCopy
<1>2. x.tries + more \in 0 .. 3
  BY <1>1
<1> QED BY <1>1, <1>2 DEF Deferred, Copy, CandStatus

LEMMA NoCopiesOpen == NoCopies \in OpenCopies
<1>1. NoCopies \in [{} -> OpenCopy]
  BY DEF NoCopies
<1> QED BY <1>1 DEF OpenCopies

LEMMA OnlySome ==
  ASSUME NEW copies \in OpenCopies, NEW S \in SUBSET DOMAIN copies
  PROVE  /\ Only(copies, S) \in OpenCopies /\ DOMAIN Only(copies, S) = S
         /\ DOMAIN copies \subseteq Candidate
<1>1. PICK T \in SUBSET Candidate : copies \in [T -> OpenCopy]
  BY DEF OpenCopies
<1>2. Only(copies, S) \in [S -> OpenCopy] /\ S \in SUBSET Candidate
  BY <1>1 DEF Only
<1> QED BY <1>1, <1>2 DEF OpenCopies

LEMMA DeadOpen ==
  ASSUME NEW copies \in OpenCopies
  PROVE  Dead(copies) \in OpenCopies
  BY OnlySome DEF Dead

LEMMA PoolOpen ==
  ASSUME NEW copies \in OpenCopies, NEW manual, NEW pool \in Pools(copies, manual)
  PROVE  pool \in OpenCopies /\ DOMAIN pool \subseteq DOMAIN copies
<1>1. PICK S \in SUBSET (DOMAIN copies \ overdue) : pool = Only(copies, S)
  BY DEF Pools
<1> QED BY <1>1, OnlySome

LEMMA OpenRowsOpen ==
  ASSUME TableTypes
  PROVE  OpenRows \in OpenCopies /\ DOMAIN OpenRows = {c \in Candidate : cand[c].status \in Open}
<1> DEFINE S == {c \in Candidate : cand[c].status \in Open}
<1>1. \A c \in S : cand[c] \in OpenCopy
  BY DEF TableTypes, Copy, OpenCopy, Open
<1>2. OpenRows \in [S -> OpenCopy] /\ S \in SUBSET Candidate
  BY <1>1 DEF OpenRows
<1> QED BY <1>2 DEF OpenCopies

\* Runs are numbered without gaps, so their number is the greatest one.
LEMMA CreatedIs ==
  ASSUME NEW k \in 0 .. MaxRun, Numbered(k)
  PROVE  Created = k
<1>1. {r \in Run : prun[r].status # "none"} = 1 .. k
  BY ProactiveAssumption DEF Numbered, Run
<1>2. Cardinality(1 .. k) = k
  BY FS_Interval, ProactiveAssumption
<1> QED BY <1>1, <1>2 DEF Created

\* Rows are overwritten by sound copies; the others stay.
LEMMA Overwritten ==
  ASSUME TableTypes, NEW S \in SUBSET Candidate, NEW copies \in [S -> Copy], Overwrite(copies)
  PROVE  /\ cand' \in [Candidate -> Copy]
         /\ \A c \in S : cand'[c] = copies[c]
         /\ \A c \in Candidate \ S : cand'[c] = cand[c]
  BY DEF TableTypes, Overwrite

LEMMA OneWritten ==
  ASSUME TableTypes, NEW c \in Candidate, NEW x \in Copy, Overwrite(One(c, x))
  PROVE  /\ cand' \in [Candidate -> Copy] /\ cand'[c] = x
         /\ \A d \in Candidate \ {c} : cand'[d] = cand[d]
<1>1. One(c, x) \in [{c} -> Copy] /\ One(c, x)[c] = x
  BY DEF One
<1> QED BY <1>1, Overwritten
-------------------------------------------------------------------------------
(* What a step may do to the record of a run *)

LEMMA StatusWritten ==
  ASSUME TableTypes, NEW r \in Run, prun[r].status # "none",
         NEW s \in RunStatus \ {"none"}, prun' = [prun EXCEPT ![r].status = s]
  PROVE  /\ prun' \in [Run -> RunShape] /\ \A k \in 0 .. MaxRun : Numbered(k) => Numbered(k)'
         /\ prun'[r] = [prun[r] EXCEPT !.status = s]
         /\ \A q \in Run \ {r} : prun'[q] = prun[q]
  BY DEF TableTypes, RunShape, Numbered

LEMMA SavedRunning ==
  ASSUME IInv, SaveRunning
  PROVE  /\ prun' \in [Run -> RunShape] /\ (\E k \in 0 .. MaxRun : Numbered(k))'
         /\ prun[exec.r].status = "none" /\ exec.r \in Run
         /\ prun'[exec.r].status = "running" /\ prun'[exec.r].cand = NoCandidate
         /\ \A q \in Run \ {exec.r} : prun'[q] = prun[q]
<1>1. PICK k \in 0 .. MaxRun : Numbered(k) /\ exec.r = k + 1
  BY DEF IInv, Books, ExecRun, SaveRunning, AtExec
<1>2. exec.r \in Run /\ prun \in [Run -> RunShape] /\ exec.snap \in 0 .. MaxUser
  BY DEF IInv, Books, ExecRun, SaveRunning, AtExec, Typed, TableTypes, ProcTypes, ExecShape
<1> DEFINE x == [NoRun EXCEPT !.status = "running", !.manual = Manual, !.snap = exec.snap]
<1>3. x.status = "running" /\ x.cand = NoCandidate
  BY DEF NoRun
<1>4. x \in RunShape
  <2>1. Manual \in BOOLEAN
    BY DEF Manual
  <2>2. NoRun \in RunShape
    BY ProactiveAssumption DEF NoRun, RunShape, RunStatus
  <2> QED BY <1>2, <2>1, <2>2 DEF RunShape, RunStatus
<1>5. prun' = [prun EXCEPT ![exec.r] = x]
  BY DEF SaveRunning
<1>6. prun[exec.r].status = "none"
  BY <1>1, <1>2, ProactiveAssumption DEF Numbered, Run
<1>7. k + 1 \in 0 .. MaxRun /\ Numbered(k + 1)'
  <2>1. ASSUME NEW r \in Run
        PROVE  prun'[r].status # "none" <=> r <= k + 1
    BY <1>1, <1>2, <1>3, <1>5, ProactiveAssumption DEF Numbered, Run
  <2> QED BY <1>1, <1>2, <2>1, ProactiveAssumption DEF Numbered, Run
<1>8. (\E j \in 0 .. MaxRun : Numbered(j))'
  BY <1>7
<1> QED BY <1>2, <1>3, <1>4, <1>5, <1>6, <1>8

\* Which rows a step overwrites, and with what.
LEMMA Concluding ==
  ASSUME IInv, Conclude
  PROVE  /\ DOMAIN exec.pool \in SUBSET Candidate
         /\ [c \in DOMAIN exec.pool |-> Concluded(exec.pool[c])] \in [DOMAIN exec.pool -> Copy]
         /\ \A c \in DOMAIN exec.pool : Concluded(exec.pool[c]).status # "prepared"
<1>1. PICK S \in SUBSET Candidate : exec.pool \in [S -> OpenCopy]
  BY DEF IInv, Typed, Carries, Conclude, AtExec, Looking, OpenCopies
<1>2. ASSUME NEW x \in OpenCopy
      PROVE  Concluded(x) \in Copy /\ Concluded(x).status # "prepared"
  <2>1. x.status \in Open /\ x \in Copy
    BY CopySorts DEF OpenCopy
  <2>2. [x EXCEPT !.status = "skipped"] \in Copy /\ [x EXCEPT !.status = "skipped"].status = "skipped"
    BY CopySorts DEF OpenCopy
  <2>3. \A more \in {0, 1} : Deferred(x, more) \in Copy /\ Deferred(x, more).status # "prepared"
    BY DeferredSort
  <2> QED BY <2>1, <2>2, <2>3 DEF Concluded, Open
<1> QED BY <1>1, <1>2

LEMMA Preparing ==
  ASSUME IInv, PrepareDelivery, cand[exec.pick].status \in Open
  PROVE  /\ exec.pick \in Candidate /\ exec.r \in Run
         /\ exec.pool[exec.pick] \in OpenCopy
         /\ Reserved[exec.pick] \in HeldCopy /\ Reserved[exec.pick].status = "prepared"
         /\ Reserved \in [{exec.pick} -> HeldCopy]
         /\ prun' \in [Run -> RunShape] /\ \A k \in 0 .. MaxRun : Numbered(k) => Numbered(k)'
         /\ prun'[exec.r].status = "prepared" /\ prun'[exec.r].cand = exec.pick
         /\ prun'[exec.r].snap = prun[exec.r].snap /\ prun'[exec.r].manual = prun[exec.r].manual
         /\ \A q \in Run \ {exec.r} : prun'[q] = prun[q]
<1>1. /\ exec.pool \in OpenCopies /\ exec.pick \in DOMAIN exec.pool
      /\ exec.r \in Run /\ prun[exec.r].status = "running"
      /\ prun \in [Run -> RunShape]
  BY DEF IInv, Typed, TableTypes, Carries, Books, ExecRun, PrepareDelivery, AtExec, Looking
<1>2. exec.pick \in Candidate /\ exec.pool[exec.pick] \in OpenCopy
  BY <1>1 DEF OpenCopies
<1>3. /\ [exec.pool[exec.pick] EXCEPT !.status = "prepared"] \in HeldCopy
      /\ [exec.pool[exec.pick] EXCEPT !.status = "prepared"].status = "prepared"
  BY <1>2, CopySorts DEF OpenCopy
<1>4. /\ Reserved[exec.pick] \in HeldCopy /\ Reserved[exec.pick].status = "prepared"
      /\ Reserved \in [{exec.pick} -> HeldCopy]
  BY <1>3 DEF Reserved, One
<1>5. prun' = [prun EXCEPT ![exec.r].status = "prepared", ![exec.r].cand = exec.pick]
  BY DEF PrepareDelivery
<1>6. /\ prun' \in [Run -> RunShape]
      /\ prun'[exec.r].status = "prepared" /\ prun'[exec.r].cand = exec.pick
      /\ prun'[exec.r].snap = prun[exec.r].snap /\ prun'[exec.r].manual = prun[exec.r].manual
      /\ \A q \in Run \ {exec.r} : prun'[q] = prun[q]
  BY <1>1, <1>2, <1>5 DEF RunShape, RunStatus
<1>7. \A k \in 0 .. MaxRun : Numbered(k) => Numbered(k)'
  BY <1>1, <1>6 DEF Numbered
<1> QED BY <1>1, <1>2, <1>4, <1>6, <1>7

\* The outcome a run that settles is given, and that of its candidate.
SettledAs == CASE exec.verdict = "SENT" -> "sent"
               [] exec.verdict = "UNKNOWN" -> "unknown"
               [] OTHER -> "failed"

LEMMA Settling ==
  ASSUME IInv, SettleRun
  PROVE  /\ exec.pick \in Candidate /\ exec.r \in Run /\ prun[exec.r].status = "prepared"
         /\ exec.verdict = attempt[exec.r]
         /\ SettledAs = CASE attempt[exec.r] = "SENT" -> "sent"
                           [] attempt[exec.r] = "UNKNOWN" -> "unknown"
                           [] attempt[exec.r] = "FAILED" -> "failed"
         /\ attempt[exec.r] \in Outcome
         /\ prun' = [prun EXCEPT ![exec.r].status = SettledAs]
         /\ Outcomes[SettledAs] \in Copy
         /\ Outcomes[SettledAs].status # "prepared"
         /\ SettledAs # "failed" => Outcomes[SettledAs].status \in {"sent", "failed"}
         /\ Overwrite(One(exec.pick, Outcomes[SettledAs]))
<1>1. /\ exec.pick \in Candidate /\ exec.pool \in [{exec.pick} -> HeldCopy]
      /\ exec.r \in Run /\ prun[exec.r].status = "prepared"
      /\ exec.verdict = attempt[exec.r] /\ attempt[exec.r] \in Outcome
  BY DEF IInv, Typed, Carries, Books, ExecRun, SettleRun, AtExec, Holding, CallPlaced, Known
<1>2. Settled \in HeldCopy
  BY <1>1 DEF Settled
<1>3. /\ [Settled EXCEPT !.status = "sent"] \in Copy
      /\ [Settled EXCEPT !.status = "failed"] \in Copy
      /\ [Settled EXCEPT !.status = "sent"].status = "sent"
      /\ [Settled EXCEPT !.status = "failed"].status = "failed"
  BY <1>2, CopySorts DEF HeldCopy
<1>4. Deferred(Settled, 1) \in Copy /\ Deferred(Settled, 1).status \in {"failed", "deferred"}
  BY <1>2, DeferredSort
<1>5. SettledAs \in {"sent", "unknown", "failed"}
  BY DEF SettledAs
<1>6. /\ Outcomes["sent"] = [Settled EXCEPT !.status = "sent"]
      /\ Outcomes["unknown"] = [Settled EXCEPT !.status = "failed"]
      /\ Outcomes["failed"] = Deferred(Settled, 1)
  BY DEF Outcomes
<1>7. /\ Outcomes[SettledAs] \in Copy /\ Outcomes[SettledAs].status # "prepared"
      /\ SettledAs # "failed" => Outcomes[SettledAs].status \in {"sent", "failed"}
  BY <1>3, <1>4, <1>5, <1>6
<1>8. SettledAs = CASE attempt[exec.r] = "SENT" -> "sent"
                    [] attempt[exec.r] = "UNKNOWN" -> "unknown"
                    [] attempt[exec.r] = "FAILED" -> "failed"
  BY <1>1 DEF SettledAs, Outcome
<1>9. /\ prun' = [prun EXCEPT ![exec.r].status = SettledAs]
      /\ Overwrite(One(exec.pick, Outcomes[SettledAs]))
  BY DEF SettleRun, SettledAs
<1> QED BY <1>1, <1>7, <1>8, <1>9

LEMMA Dropping ==
  ASSUME IInv, Drop
  PROVE  /\ exec.pick \in Candidate /\ exec.r \in Run /\ prun[exec.r].status = "prepared"
         /\ prun' = [prun EXCEPT ![exec.r].status = "gated"]
         /\ Deferred(Settled, 0) \in Copy /\ Deferred(Settled, 0).status # "prepared"
         /\ Overwrite(One(exec.pick, Deferred(Settled, 0)))
<1>1. /\ exec.pick \in Candidate /\ exec.pool \in [{exec.pick} -> HeldCopy]
      /\ exec.r \in Run /\ prun[exec.r].status = "prepared"
  BY DEF IInv, Typed, Carries, Books, ExecRun, Drop, AtExec, Holding
<1>2. Settled \in HeldCopy
  BY <1>1 DEF Settled
<1> QED BY <1>1, <1>2, DeferredSort DEF Drop

LEMMA Expiring ==
  ASSUME IInv, NEW c, NEW dead \in {loop.dead, exec.dead}, c \in DOMAIN dead
  PROVE  c \in Candidate /\ Expired(dead[c]) \in HeldCopy /\ Expired(dead[c]).status = "expired"
<1>1. PICK S \in SUBSET Candidate : dead \in [S -> OpenCopy]
  BY DEF IInv, Typed, ProcTypes, LoopShape, ExecShape, OpenCopies
<1>2. dead[c] \in OpenCopy /\ Expired(dead[c]).status = "expired"
  BY <1>1 DEF OpenCopy, Expired
<1> QED BY <1>1, <1>2, CopySorts

-------------------------------------------------------------------------------
(* Which steps write what                                                   *)

LEMMA CandWriters ==
  Next => \/ UNCHANGED cand
          \/ \E c \in Candidate : Submit(c) \/ PollFeed(c) \/ LoopExpires(c) \/ RunExpires(c)
          \/ Conclude \/ PrepareDelivery \/ Drop \/ SettleRun
<1>1. World \/ Timeout \/ Crash => UNCHANGED cand \/ \E c \in Candidate : Submit(c)
  BY DEF World, UserSpeaks, Answer, UpdatePolicy, RunNow, Expires, IntervalEnds, Timeout, Crash,
         dbVars
<1>2. LoopStep => UNCHANGED cand \/ \E c \in Candidate : LoopExpires(c)
  BY DEF LoopStep, ClearWake, ListPolicies, CheckCandidates, Checked, Awake, dbVars
<1>3. RunStep => \/ UNCHANGED cand \/ \E c \in Candidate : RunExpires(c)
                 \/ Conclude \/ PrepareDelivery \/ Drop \/ SettleRun
  BY DEF RunStep, StartRun, ListCandidates, SaveRunning, Gate, Judge, Regate, Deliver,
         DeliverStep, Delivered, RememberRun, dbVars
<1>4. StartStep => UNCHANGED cand
  BY DEF StartStep, Boot, RecoverMessage, StartRecovery, RecoverRunning, RecoverPrepared,
         StartLoop, dbVars
<1>5. (\E c \in Candidate : Notice(c)) => UNCHANGED cand
  BY DEF Notice, dbVars
<1> QED BY <1>1, <1>2, <1>3, <1>4, <1>5 DEF Next

LEMMA RunWriters ==
  Next => \/ UNCHANGED prun
          \/ SaveRunning \/ Conclude \/ PrepareDelivery \/ Drop \/ SettleRun \/ RecoverRunning
<1>1. World \/ Timeout \/ Crash => UNCHANGED prun
  BY DEF World, UserSpeaks, Answer, UpdatePolicy, RunNow, Submit, Expires, IntervalEnds,
         Timeout, Crash, dbVars
<1>2. LoopStep => UNCHANGED prun
  BY DEF LoopStep, ClearWake, ListPolicies, CheckCandidates, LoopExpires, Checked, Awake, dbVars
<1>3. RunStep => \/ UNCHANGED prun
                 \/ SaveRunning \/ Conclude \/ PrepareDelivery \/ Drop \/ SettleRun
  BY DEF RunStep, StartRun, ListCandidates, RunExpires, Gate, Judge, Regate, Deliver,
         DeliverStep, Delivered, RememberRun, dbVars
<1>4. StartStep => UNCHANGED prun \/ RecoverRunning
  BY DEF StartStep, Boot, RecoverMessage, StartRecovery, RecoverPrepared, StartLoop, dbVars
<1>5. (\E c \in Candidate : Notice(c) \/ PollFeed(c)) => UNCHANGED prun
  BY DEF Notice, PollFeed, dbVars
<1> QED BY <1>1, <1>2, <1>3, <1>4, <1>5 DEF Next

LEMMA RowWriters ==
  Next => \/ UNCHANGED callVars
          \/ PrepareDelivery \/ Drop \/ Deliver \/ DeliverStep \/ Delivered
          \/ RecoverMessage \/ StartRecovery \/ Crash
<1>1. World \/ Timeout => UNCHANGED callVars
  BY DEF World, UserSpeaks, Answer, UpdatePolicy, RunNow, Submit, Expires, IntervalEnds, Timeout
<1>2. LoopStep => UNCHANGED callVars
  BY DEF LoopStep, ClearWake, ListPolicies, CheckCandidates, LoopExpires, Checked, Awake
<1>3. RunStep => \/ UNCHANGED callVars
                 \/ PrepareDelivery \/ Drop \/ Deliver \/ DeliverStep \/ Delivered
  BY DEF RunStep, StartRun, ListCandidates, RunExpires, SaveRunning, Gate, Judge, Conclude,
         Regate, SettleRun, RememberRun
<1>4. StartStep => UNCHANGED callVars \/ RecoverMessage \/ StartRecovery
  BY DEF StartStep, Boot, RecoverRunning, RecoverPrepared, StartLoop
<1>5. (\E c \in Candidate : Notice(c) \/ PollFeed(c)) => UNCHANGED callVars
  BY DEF Notice, PollFeed
<1> QED BY <1>1, <1>2, <1>3, <1>4, <1>5 DEF Next

LEMMA ExecWriters ==
  Next => \/ UNCHANGED exec
          \/ StartRun \/ ListCandidates \/ SaveRunning \/ Gate \/ Judge \/ Conclude
          \/ PrepareDelivery \/ Regate \/ Drop \/ Deliver \/ Delivered \/ SettleRun \/ RememberRun
          \/ \E c \in Candidate : RunExpires(c)
          \/ StartRecovery \/ RecoverPrepared \/ StartLoop \/ Crash
<1>1. World \/ Timeout => UNCHANGED exec
  BY DEF World, UserSpeaks, Answer, UpdatePolicy, RunNow, Submit, Expires, IntervalEnds, Timeout,
         procVars
<1>2. LoopStep => UNCHANGED exec
  BY DEF LoopStep, ClearWake, ListPolicies, CheckCandidates, LoopExpires, Checked, Awake
<1>3. DeliverStep => UNCHANGED exec
  BY DEF DeliverStep, procVars
<1>4. Boot \/ RecoverMessage \/ RecoverRunning => UNCHANGED exec
  BY DEF Boot, RecoverMessage, RecoverRunning
<1>5. (\E c \in Candidate : Notice(c) \/ PollFeed(c)) => UNCHANGED exec
  BY DEF Notice, PollFeed, procVars
<1> QED BY <1>1, <1>2, <1>3, <1>4, <1>5 DEF Next, RunStep, StartStep

LEMMA StageWriters ==
  Next => \/ UNCHANGED <<on, todo>>
          \/ Boot \/ RecoverMessage \/ StartRecovery \/ RecoverRunning \/ RecoverPrepared
          \/ StartLoop \/ Crash
<1>1. World \/ Timeout => UNCHANGED <<on, todo>>
  BY DEF World, UserSpeaks, Answer, UpdatePolicy, RunNow, Submit, Expires, IntervalEnds, Timeout,
         procVars
<1>2. LoopStep => UNCHANGED <<on, todo>>
  BY DEF LoopStep, ClearWake, ListPolicies, CheckCandidates, LoopExpires, Checked, Awake
<1>3. RunStep => UNCHANGED <<on, todo>>
  BY DEF RunStep, StartRun, ListCandidates, RunExpires, SaveRunning, Gate, Judge, Conclude,
         PrepareDelivery, Regate, Drop, Deliver, DeliverStep, Delivered, SettleRun, RememberRun,
         procVars
<1>4. (\E c \in Candidate : Notice(c) \/ PollFeed(c)) => UNCHANGED <<on, todo>>
  BY DEF Notice, PollFeed, procVars
<1> QED BY <1>1, <1>2, <1>3, <1>4 DEF Next, StartStep

LEMMA LoopWriters ==
  Next => \/ UNCHANGED <<loop, waiters>>
          \/ ClearWake \/ ListPolicies \/ CheckCandidates \/ Checked \/ Awake \/ Timeout \/ RunNow
          \/ \E c \in Candidate : LoopExpires(c)
          \/ StartRun \/ Conclude \/ PrepareDelivery \/ Drop \/ SettleRun \/ RememberRun
          \/ StartLoop \/ Crash
<1>1. World => UNCHANGED <<loop, waiters>> \/ RunNow
  BY DEF World, UserSpeaks, Answer, UpdatePolicy, Submit, Expires, IntervalEnds, procVars
<1>2. RunStep => \/ UNCHANGED <<loop, waiters>>
                 \/ StartRun \/ Conclude \/ PrepareDelivery \/ Drop \/ SettleRun \/ RememberRun
  BY DEF RunStep, ListCandidates, RunExpires, SaveRunning, Gate, Judge, Regate, Deliver,
         DeliverStep, Delivered, procVars
<1>3. StartStep => UNCHANGED <<loop, waiters>> \/ StartLoop
  BY DEF StartStep, Boot, RecoverMessage, StartRecovery, RecoverRunning, RecoverPrepared
<1>4. (\E c \in Candidate : Notice(c) \/ PollFeed(c)) => UNCHANGED <<loop, waiters>>
  BY DEF Notice, PollFeed, procVars
<1> QED BY <1>1, <1>2, <1>3, <1>4 DEF Next, LoopStep

LEMMA ChatWriters ==
  Next => \/ UNCHANGED <<said, answered, enabled>>
          \/ UserSpeaks \/ Answer \/ UpdatePolicy
<1>1. World \/ Timeout \/ Crash =>
        UNCHANGED <<said, answered, enabled>> \/ UserSpeaks \/ Answer \/ UpdatePolicy
  BY DEF World, RunNow, Submit, Expires, IntervalEnds, Timeout, Crash, chatVars
<1>2. LoopStep => UNCHANGED <<said, answered, enabled>>
  BY DEF LoopStep, ClearWake, ListPolicies, CheckCandidates, LoopExpires, Checked, Awake, chatVars
<1>3. RunStep => UNCHANGED <<said, answered, enabled>>
  BY DEF RunStep, StartRun, ListCandidates, RunExpires, SaveRunning, Gate, Judge, Conclude,
         PrepareDelivery, Regate, Drop, Deliver, DeliverStep, Delivered, SettleRun, RememberRun,
         chatVars
<1>4. StartStep => UNCHANGED <<said, answered, enabled>>
  BY DEF StartStep, Boot, RecoverMessage, StartRecovery, RecoverRunning, RecoverPrepared,
         StartLoop, chatVars
<1>5. (\E c \in Candidate : Notice(c) \/ PollFeed(c)) => UNCHANGED <<said, answered, enabled>>
  BY DEF Notice, PollFeed, chatVars
<1> QED BY <1>1, <1>2, <1>3, <1>4, <1>5 DEF Next

LEMMA ClockWriters ==
  Next => \/ UNCHANGED <<recent, cool>>
          \/ \E r \in Run : IntervalEnds(r)
          \/ DeliverStep \/ SettleRun
<1>1. World \/ Timeout \/ Crash => UNCHANGED <<recent, cool>> \/ \E r \in Run : IntervalEnds(r)
  BY DEF World, UserSpeaks, Answer, UpdatePolicy, RunNow, Submit, Expires, Timeout, Crash,
         clockVars
<1>2. LoopStep => UNCHANGED <<recent, cool>>
  BY DEF LoopStep, ClearWake, ListPolicies, CheckCandidates, LoopExpires, Checked, Awake,
         clockVars
<1>3. RunStep => UNCHANGED <<recent, cool>> \/ DeliverStep \/ SettleRun
  BY DEF RunStep, StartRun, ListCandidates, RunExpires, SaveRunning, Gate, Judge, Conclude,
         PrepareDelivery, Regate, Drop, Deliver, Delivered, RememberRun, clockVars
<1>4. StartStep => UNCHANGED <<recent, cool>>
  BY DEF StartStep, Boot, RecoverMessage, StartRecovery, RecoverRunning, RecoverPrepared,
         StartLoop, clockVars
<1>5. (\E c \in Candidate : Notice(c) \/ PollFeed(c)) => UNCHANGED <<recent, cool>>
  BY DEF Notice, PollFeed, clockVars
<1> QED BY <1>1, <1>2, <1>3, <1>4, <1>5 DEF Next

LEMMA MemoryWriters ==
  Next => \/ UNCHANGED <<remembered, missed>>
          \/ RememberRun \/ StartLoop \/ Crash
<1>1. World \/ Timeout => UNCHANGED <<remembered, missed>>
  BY DEF World, UserSpeaks, Answer, UpdatePolicy, RunNow, Submit, Expires, IntervalEnds, Timeout,
         dbVars, histVars
<1>2. LoopStep => UNCHANGED <<remembered, missed>>
  BY DEF LoopStep, ClearWake, ListPolicies, CheckCandidates, LoopExpires, Checked, Awake, dbVars,
         histVars
<1>3. RunStep => UNCHANGED <<remembered, missed>> \/ RememberRun
  BY DEF RunStep, StartRun, ListCandidates, RunExpires, SaveRunning, Gate, Judge, Conclude,
         PrepareDelivery, Regate, Drop, Deliver, DeliverStep, Delivered, SettleRun, dbVars, histVars
<1>4. StartStep => UNCHANGED <<remembered, missed>> \/ StartLoop
  BY DEF StartStep, Boot, RecoverMessage, StartRecovery, RecoverRunning, RecoverPrepared, dbVars,
         histVars
<1>5. (\E c \in Candidate : Notice(c) \/ PollFeed(c)) => UNCHANGED <<remembered, missed>>
  BY DEF Notice, PollFeed, dbVars, histVars
<1> QED BY <1>1, <1>2, <1>3, <1>4, <1>5 DEF Next

\* Start-up visits a run of its list.
LEMMA FirstRun ==
  ASSUME todo \in SUBSET Run, todo # {}
  PROVE  First \in todo
<1>1. todo \subseteq Nat
  BY ProactiveAssumption DEF Run
<1>2. PICK x \in todo : \A y \in todo : ~(<<y, x>> \in OpToRel(<, Nat))
  BY <1>1, NatLessThanWellFounded, WFMin
<1>3. \A y \in todo : ~(y < x)
  BY <1>1, <1>2 DEF OpToRel
<1>4. \A y \in todo : x <= y
  BY <1>1, <1>3
<1> QED BY <1>4, Zenon DEF First, Min

(****************************************************************************)
(* The invariant holds at first                                             *)
(****************************************************************************)

LEMMA InitTyped == Init => Typed
<1> SUFFICES ASSUME Init PROVE Typed
  OBVIOUS
<1> USE ProactiveAssumption DEF Init
<1>1. TableTypes
  <2>1. cand \in [Candidate -> Copy]
    BY DEF Copy, CandStatus
  <2>2. prun \in [Run -> RunShape]
    BY DEF NoRun, RunShape, RunStatus
  <2>3. 0 \in 0 .. MaxRun /\ Numbered(0)
    BY DEF NoRun, Numbered, Run
  <2> QED BY <2>1, <2>2, <2>3 DEF TableTypes
<1>2. ProcTypes
  <2>1. loop \in LoopShape
    BY NoCopiesOpen DEF LoopIdle, LoopShape
  <2>2. exec \in ExecShape
    BY NoCopiesOpen DEF ExecIdle, ExecShape
  <2> QED BY <2>1, <2>2 DEF ProcTypes
<1>3. Stages
  BY DEF Stages, LoopIdle, ExecIdle, AtExec
<1>4. Carries
  BY DEF Carries, ExecIdle, AtExec, Looking, Holding
<1> QED BY <1>1, <1>2, <1>3, <1>4 DEF Typed

LEMMA InitInv == Init => IInv
<1> SUFFICES ASSUME Init PROVE IInv
  OBVIOUS
<1>1. Typed /\ CallInv
  BY InitTyped, CallInitInv DEF Init
<1>2. Books
  BY ProactiveAssumption
     DEF Init, CallInit, Books, RunTells, ExecRun, PreparedOnce, NoRun, ExecIdle, AtExec,
         Looking, Holding, Run
<1>3. Reservation
  BY ProactiveAssumption
     DEF Init, CallInit, Reservation, ReservationHeld, Held, NoRun, ExecIdle, AtExec, Looking,
         Run
<1>4. CallPlaced
  BY ProactiveAssumption
     DEF Init, CallInit, CallPlaced, InFlight, Idle, ExecIdle, AtExec, At
<1>5. SendsRecorded /\ MemoryReconciled
  BY DEF Init, SendsRecorded, MemoryReconciled
<1> QED BY <1>1, <1>2, <1>3, <1>4, <1>5 DEF IInv

(****************************************************************************)
(* A step keeps the types                                                   *)
(****************************************************************************)

LEMMA TableStep ==
  ASSUME IInv, Next
  PROVE  TableTypes'
<1>1. TableTypes /\ Typed
  BY DEF IInv, Typed
<1>2. cand' \in [Candidate -> Copy]
  <2>1. ASSUME NEW c \in Candidate, Submit(c) \/ PollFeed(c)
        PROVE  cand' \in [Candidate -> Copy]
    <3>1. cand' = [cand EXCEPT ![c].status = "pending"] /\ cand[c].status = "none"
      BY <2>1 DEF Submit, PollFeed
    <3> QED BY <1>1, <3>1 DEF TableTypes, Copy, CandStatus
  <2>2. ASSUME NEW c \in Candidate, LoopExpires(c) \/ RunExpires(c)
        PROVE  cand' \in [Candidate -> Copy]
    <3>1. PICK dead \in {loop.dead, exec.dead} :
            c \in DOMAIN dead /\ Overwrite(One(c, Expired(dead[c])))
      BY <2>2 DEF LoopExpires, RunExpires
    <3> QED BY <1>1, <3>1, Expiring, CopySorts, OneWritten
  <2>3. CASE Conclude
    <3>1. Overwrite([c \in DOMAIN exec.pool |-> Concluded(exec.pool[c])])
      BY <2>3 DEF Conclude
    <3> QED BY <1>1, <2>3, <3>1, Concluding, Overwritten
  <2>4. CASE PrepareDelivery
    <3>1. CASE cand[exec.pick].status \in Open
      <4>1. Overwrite(Reserved) /\ Reserved \in [{exec.pick} -> Copy] /\ exec.pick \in Candidate
        BY <2>4, <3>1, Preparing, CopySorts DEF PrepareDelivery
      <4> QED BY <1>1, <4>1, Overwritten
    <3>2. CASE cand[exec.pick].status \notin Open
      BY <1>1, <2>4, <3>2 DEF PrepareDelivery, TableTypes
    <3> QED BY <3>1, <3>2
  <2>5. CASE Drop
    BY <1>1, <2>5, Dropping, OneWritten
  <2>6. CASE SettleRun
    BY <1>1, <2>6, Settling, OneWritten
  <2>7. CASE UNCHANGED cand
    BY <1>1, <2>7 DEF TableTypes
  <2> QED BY <2>1, <2>2, <2>3, <2>4, <2>5, <2>6, <2>7, CandWriters
<1>3. prun' \in [Run -> RunShape] /\ (\E k \in 0 .. MaxRun : Numbered(k))'
  <2>0. PICK k \in 0 .. MaxRun : Numbered(k)
    BY <1>1 DEF TableTypes
  <2>1. ASSUME NEW r \in Run, NEW s \in RunStatus \ {"none"}, prun[r].status # "none",
               prun' = [prun EXCEPT ![r].status = s]
        PROVE  prun' \in [Run -> RunShape] /\ (\E j \in 0 .. MaxRun : Numbered(j))'
    BY <1>1, <2>0, <2>1, StatusWritten
  <2>2. CASE SaveRunning
    BY <2>2, SavedRunning
  <2>3. CASE Conclude
    <3>1. exec.r \in Run /\ prun[exec.r].status = "running"
      BY <2>3 DEF IInv, Books, ExecRun, Conclude, AtExec, Looking
    <3>2. PICK s \in {"skipped", "failed", "gated"} : prun' = [prun EXCEPT ![exec.r].status = s]
      BY <2>3 DEF Conclude
    <3> QED BY <2>1, <3>1, <3>2 DEF RunStatus
  <2>4. CASE PrepareDelivery
    <3>1. CASE cand[exec.pick].status \in Open
      BY <2>0, <2>4, <3>1, Preparing
    <3>2. CASE cand[exec.pick].status \notin Open
      BY <1>1, <2>0, <2>4, <3>2 DEF PrepareDelivery, TableTypes, Numbered
    <3> QED BY <3>1, <3>2
  <2>5. CASE Drop
    BY <2>1, <2>5, Dropping DEF RunStatus
  <2>6. CASE SettleRun
    <3>1. SettledAs \in {"sent", "unknown", "failed"}
      BY DEF SettledAs
    <3> QED BY <2>1, <2>6, <3>1, Settling DEF RunStatus
  <2>7. CASE RecoverRunning
    <3>1. First \in Run
      BY <2>7, FirstRun DEF RecoverRunning, IInv, Typed, ProcTypes
    <3> QED BY <2>1, <2>7, <3>1 DEF RecoverRunning, RunStatus
  <2>8. CASE UNCHANGED prun
    BY <1>1, <2>0, <2>8 DEF TableTypes, Numbered
  <2> QED
    BY <2>2, <2>3, <2>4, <2>5, <2>6, <2>7, <2>8, RunWriters
<1>4. remembered' \in SUBSET Run
  <2>1. CASE RememberRun
    <3>1. exec.r \in Run
      BY <2>1 DEF IInv, Books, ExecRun, RememberRun, AtExec
    <3> QED BY <1>1, <2>1, <3>1 DEF RememberRun, Remember, TableTypes
  <2>2. CASE StartLoop
    <3>1. \A ok \in BOOLEAN : Reconcile[ok] \in SUBSET Run
      BY DEF Reconcile, Unrecorded
    <3> QED BY <1>1, <2>2, <3>1 DEF StartLoop, TableTypes
  <2>3. CASE Crash
    BY <1>1, <2>3 DEF Crash, dbVars, TableTypes
  <2>4. CASE UNCHANGED remembered
    BY <1>1, <2>4 DEF TableTypes
  <2> QED BY <2>1, <2>2, <2>3, <2>4, MemoryWriters
<1>5. recent' \in SUBSET Run /\ cool' \in SUBSET Run
  <2>1. CASE SettleRun
    <3>1. exec.r \in Run
      BY <2>1, Settling
    <3> QED BY <1>1, <2>1, <3>1 DEF SettleRun, TableTypes
  <2>2. CASE DeliverStep
    BY <1>1, <2>2 DEF DeliverStep, TableTypes
  <2>3. ASSUME NEW r \in Run, IntervalEnds(r)
        PROVE  recent' \in SUBSET Run /\ cool' \in SUBSET Run
    BY <1>1, <2>3 DEF IntervalEnds, TableTypes
  <2>4. CASE UNCHANGED <<recent, cool>>
    BY <1>1, <2>4 DEF TableTypes
  <2> QED BY <2>1, <2>2, <2>3, <2>4, ClockWriters
<1>6. said' \in 0 .. MaxUser /\ answered' \in 0 .. said' /\ enabled' \in BOOLEAN
  <2>0. said \in 0 .. MaxUser /\ answered \in 0 .. said /\ enabled \in BOOLEAN /\ MaxUser \in Nat
    BY <1>1, ProactiveAssumption DEF TableTypes
  <2>1. CASE UserSpeaks
    BY <2>0, <2>1 DEF UserSpeaks
  <2>2. CASE Answer
    BY <2>0, <2>2 DEF Answer
  <2>3. CASE UpdatePolicy
    BY <2>0, <2>3 DEF UpdatePolicy
  <2> QED BY <2>0, <2>1, <2>2, <2>3, ChatWriters
<1> QED BY <1>2, <1>3, <1>4, <1>5, <1>6 DEF TableTypes

\* Start-up recovery takes up a prepared run where its message stands.
LEMMA Recovering ==
  ASSUME IInv, RecoverPrepared
  PROVE  /\ First \in todo /\ First \in Run /\ prun[First].status = "prepared"
         /\ on = "proactive"
         /\ exec' \in ExecShape /\ exec'.by = "boot" /\ exec'.r = First
         /\ exec'.pick = prun[First].cand /\ prun[First].cand \in Candidate
         /\ exec'.pool \in [{exec'.pick} -> HeldCopy]
         /\ exec'.verdict = attempt[First] /\ exec'.locked = FALSE
         /\ \/ attempt[First] = "PREPARED" /\ exec'.pc = "regate"
            \/ attempt[First] \in {"DISPATCHING", "SENT"} /\ exec'.pc = "send"
            \/ attempt[First] \in {"FAILED", "UNKNOWN"} /\ exec'.pc = "settle"
<1> DEFINE r == First
           c == prun[r].cand
<1>1. First \in todo /\ First \in Run /\ prun[First].status = "prepared" /\ on = "proactive"
  BY FirstRun DEF RecoverPrepared, IInv, Typed, ProcTypes, Stages, AtExec
<1> HIDE DEF r
<1>2. r \in Run /\ prun[r].status = "prepared" /\ prun \in [Run -> RunShape]
  BY <1>1 DEF r, IInv, Typed, TableTypes
<1>3. RunTells(r)
  BY <1>2 DEF IInv, Books
<1>4. attempt[r] \in {"PREPARED", "DISPATCHING", "SENT", "FAILED", "UNKNOWN"} /\ c \in Candidate
  BY <1>2, <1>3 DEF RunTells, Outcome
<1>5. cand[c] \in HeldCopy
  BY <1>2 DEF IInv, Reservation
<1>6. One(c, cand[c]) \in [{c} -> HeldCopy]
  BY <1>5 DEF One
<1>7. One(c, cand[c]) \in HeldCopies
  BY <1>4, <1>6 DEF HeldCopies
<1> HIDE DEF c
<1>8. PICK pc \in {"regate", "send", "settle"} :
        /\ exec' = [ExecIdle EXCEPT !.by = "boot", !.r = r, !.pick = c, !.pool = One(c, cand[c]),
                                    !.verdict = attempt[r], !.pc = pc]
        /\ \/ attempt[r] = "PREPARED" /\ pc = "regate"
           \/ attempt[r] \in {"DISPATCHING", "SENT"} /\ pc = "send"
           \/ attempt[r] \in {"FAILED", "UNKNOWN"} /\ pc = "settle"
  BY <1>4 DEF RecoverPrepared, c, r
<1>9. exec' = [pc |-> pc, by |-> "boot", r |-> r, policy |-> FALSE, snap |-> 0,
               pool |-> One(c, cand[c]), dead |-> NoCopies, pick |-> c, verdict |-> attempt[r],
               locked |-> FALSE]
  BY <1>8 DEF ExecIdle
<1>10. attempt[r] \in Status
  BY <1>4 DEF Status
<1>11. exec' \in ExecShape
  BY <1>2, <1>4, <1>7, <1>9, <1>10, NoCopiesOpen, ProactiveAssumption DEF ExecShape, Holding
<1>12. /\ exec'.by = "boot" /\ exec'.r = r /\ exec'.pick = c /\ exec'.locked = FALSE
       /\ exec'.pool = One(c, cand[c]) /\ exec'.verdict = attempt[r] /\ exec'.pc = pc
  BY <1>9
<1>13. exec'.pool \in [{exec'.pick} -> HeldCopy]
  BY <1>6, <1>12
<1> QED BY <1>1, <1>4, <1>8, <1>11, <1>12, <1>13 DEF r, c

\* The run lock passes on, or recovery to its next run.
LEMMA Released ==
  ASSUME IInv, Release, exec.pc # "idle"
  PROVE  /\ exec' \in ExecShape /\ loop' \in LoopShape /\ waiters' \in Seq({"loop", "user"})
         /\ exec'.r = 0 /\ exec'.pick = NoCandidate
         /\ exec.by = "boot" => /\ exec'.pc = "recover" /\ exec'.by = "boot"
                                /\ UNCHANGED <<waiters, loop>>
         /\ exec.by # "boot" => exec'.pc = "idle" /\ exec'.by = "nobody" /\ on = "on"
<1>1. ProcTypes /\ Stages
  BY DEF IInv, Typed
<1>2. ExecIdle \in ExecShape /\ LoopIdle \in LoopShape
  BY NoCopiesOpen, ProactiveAssumption DEF ExecIdle, LoopIdle, ExecShape, LoopShape
<1>3. CASE exec.by = "boot"
  <2>1. exec' = [ExecIdle EXCEPT !.pc = "recover", !.by = "boot"] /\ UNCHANGED <<waiters, loop>>
    BY <1>3 DEF Release
  <2>2. exec' \in ExecShape
    BY <1>2, <2>1 DEF ExecShape
  <2> QED BY <1>1, <1>3, <2>1, <2>2 DEF ProcTypes, ExecIdle
<1>4. CASE exec.by # "boot"
  <2>1. /\ exec' = ExecIdle /\ waiters' = Tail(waiters)
        /\ loop' = IF exec.by = "loop" THEN [LoopIdle EXCEPT !.pc = "wait"] ELSE loop
    BY <1>4 DEF Release
  <2>2. exec.by \in {"loop", "user"} /\ waiters # <<>> /\ on = "on"
    BY <1>1, <1>4 DEF ProcTypes, ExecShape, Stages, AtExec
  <2>3. waiters' \in Seq({"loop", "user"})
    BY <1>1, <2>1, <2>2 DEF ProcTypes
  <2>4. [LoopIdle EXCEPT !.pc = "wait"] \in LoopShape
    BY <1>2 DEF LoopShape
  <2> QED BY <1>1, <1>2, <1>4, <2>1, <2>2, <2>3, <2>4 DEF ProcTypes, ExecIdle
<1> QED BY <1>3, <1>4

LEMMA ReleasedBy ==
  ASSUME IInv, \/ Conclude \/ Drop \/ RememberRun
               \/ PrepareDelivery /\ cand[exec.pick].status \notin Open
               \/ SettleRun /\ SettledAs # "sent"
  PROVE  Release /\ exec.pc # "idle"
  BY DEF Conclude, Drop, RememberRun, PrepareDelivery, SettleRun, SettledAs, AtExec

LEMMA LoopTypes ==
  ASSUME IInv, Next
  PROVE  loop' \in LoopShape /\ waiters' \in Seq({"loop", "user"})
<1>1. ProcTypes /\ TableTypes /\ Stages
  BY DEF IInv, Typed
<1>2. LoopIdle \in LoopShape
  BY NoCopiesOpen DEF LoopIdle, LoopShape
<1>3. CASE ClearWake \/ ListPolicies \/ Checked \/ Awake \/ Timeout \/ RunNow
  BY <1>1, <1>2, <1>3 DEF ClearWake, ListPolicies, Checked, Awake, Timeout, RunNow, ProcTypes,
     LoopShape
<1>4. CASE CheckCandidates
  <2>1. PICK pool \in Pools(OpenRows, FALSE) :
          loop' = [pc |-> "expire", dead |-> Dead(OpenRows), any |-> pool # NoCopies]
    BY <1>4 DEF CheckCandidates
  <2>2. Dead(OpenRows) \in OpenCopies
    BY <1>1, OpenRowsOpen, DeadOpen
  <2>3. (pool # NoCopies) \in BOOLEAN
    OBVIOUS
  <2>4. loop' \in LoopShape
    BY <2>1, <2>2, <2>3 DEF LoopShape
  <2> QED BY <1>1, <1>4, <2>4 DEF CheckCandidates, ProcTypes
<1>5. ASSUME NEW c \in Candidate, LoopExpires(c)
      PROVE  loop' \in LoopShape /\ waiters' \in Seq({"loop", "user"})
  <2>1. Only(loop.dead, DOMAIN loop.dead \ {c}) \in OpenCopies
    BY <1>1, OnlySome DEF ProcTypes, LoopShape
  <2>2. loop' = [loop EXCEPT !.dead = Only(loop.dead, DOMAIN loop.dead \ {c})]
    BY <1>5 DEF LoopExpires
  <2> QED BY <1>1, <1>5, <2>1, <2>2 DEF LoopExpires, ProcTypes, LoopShape
<1>6. CASE StartRun
  <2>1. CASE Created = MaxRun
    <3>1. /\ waiters' = Tail(waiters) /\ waiters # <<>>
          /\ loop' = IF Head(waiters) = "loop" THEN [LoopIdle EXCEPT !.pc = "wait"] ELSE loop
      BY <1>6, <2>1 DEF StartRun
    <3>2. [LoopIdle EXCEPT !.pc = "wait"] \in LoopShape
      BY <1>2 DEF LoopShape
    <3> QED BY <1>1, <3>1, <3>2 DEF ProcTypes
  <2>2. CASE Created # MaxRun
    BY <1>1, <1>6, <2>2 DEF StartRun, ProcTypes
  <2> QED BY <2>1, <2>2
<1>7. CASE Release /\ exec.pc # "idle"
  BY <1>7, Released
<1>8. CASE PrepareDelivery /\ cand[exec.pick].status \in Open
  BY <1>1, <1>8 DEF PrepareDelivery, ProcTypes
<1>9. CASE SettleRun /\ SettledAs = "sent"
  BY <1>1, <1>9 DEF SettleRun, SettledAs, ProcTypes
<1>10. CASE StartLoop
  BY <1>1, <1>2, <1>10 DEF StartLoop, ProcTypes, LoopShape
<1>11. CASE Crash
  BY <1>2, <1>11 DEF Crash
<1>12. CASE UNCHANGED <<loop, waiters>>
  BY <1>1, <1>12 DEF ProcTypes
<1> QED
  BY <1>3, <1>4, <1>5, <1>6, <1>7, <1>8, <1>9, <1>10, <1>11, <1>12, ReleasedBy, LoopWriters

LEMMA ExecTypes ==
  ASSUME IInv, Next
  PROVE  exec' \in ExecShape
<1>1. ProcTypes /\ TableTypes /\ Stages /\ exec \in ExecShape
  BY DEF IInv, Typed, ProcTypes
<1>2. ExecIdle \in ExecShape
  BY NoCopiesOpen, ProactiveAssumption DEF ExecIdle, ExecShape
<1>3. CASE StartRun
  <2>1. CASE Created = MaxRun
    BY <1>1, <1>3, <2>1 DEF StartRun
  <2>2. CASE Created # MaxRun
    <3>1. PICK k \in 0 .. MaxRun : Numbered(k)
      BY <1>1 DEF TableTypes
    <3>2. Created + 1 \in Run
      BY <2>2, <3>1, CreatedIs, ProactiveAssumption DEF Run
    <3>3. Head(waiters) \in {"loop", "user"}
      BY <1>1, <1>3 DEF StartRun, ProcTypes
    <3>4. exec' = [ExecIdle EXCEPT !.pc = "list", !.by = Head(waiters), !.r = Created + 1,
                                   !.policy = enabled, !.snap = said]
      BY <1>3, <2>2 DEF StartRun
    <3>5. enabled \in BOOLEAN /\ said \in 0 .. MaxUser
      BY <1>1 DEF TableTypes
    <3> QED BY <1>2, <3>2, <3>3, <3>4, <3>5 DEF ExecShape
  <2> QED BY <2>1, <2>2
<1>4. CASE ListCandidates
  <2>1. PICK pool \in Pools(OpenRows, Manual) :
          exec' = [exec EXCEPT !.pc = "expire", !.dead = Dead(OpenRows), !.pool = pool]
    BY <1>4 DEF ListCandidates
  <2>2. Dead(OpenRows) \in OpenCopies /\ pool \in OpenCopies
    BY <1>1, OpenRowsOpen, DeadOpen, PoolOpen
  <2> QED BY <1>1, <2>1, <2>2 DEF ExecShape, Looking
<1>5. ASSUME NEW c \in Candidate, RunExpires(c)
      PROVE  exec' \in ExecShape
  <2>1. Only(exec.dead, DOMAIN exec.dead \ {c}) \in OpenCopies
    BY <1>1, OnlySome DEF ExecShape
  <2>2. exec' = [exec EXCEPT !.dead = Only(exec.dead, DOMAIN exec.dead \ {c})]
    BY <1>5 DEF RunExpires
  <2> QED BY <1>1, <2>1, <2>2 DEF ExecShape
<1>6. CASE SaveRunning \/ Deliver \/ (SettleRun /\ SettledAs = "sent")
  <2>1. PICK pc \in {"gate", "deliver", "remember"} : ExecAt(pc)
    BY <1>6 DEF SaveRunning, Deliver, SettleRun, SettledAs
  <2> QED BY <1>1, <2>1 DEF ExecAt, ExecShape, Looking, Holding
<1>7. CASE Gate
  <2>1. PICK reason \in Gates(exec.policy, exec.pool # NoCopies, Manual) :
          exec' = [exec EXCEPT !.pc = IF reason = "none" THEN "judge" ELSE "conclude",
                               !.verdict = reason]
    BY <1>7 DEF Gate
  <2>2. reason \in {"none", "disabled", "no_candidates", "pending_user_message", "clock"}
    BY DEF Gates
  <2>3. PICK pc \in {"judge", "conclude"} : exec' = [exec EXCEPT !.pc = pc, !.verdict = reason]
    BY <2>1
  <2> QED BY <1>1, <2>2, <2>3 DEF ExecShape, Looking
<1>8. CASE Judge
  <2>1. CASE \E c \in DOMAIN exec.pool : exec' = [exec EXCEPT !.pc = "prepare", !.pick = c]
    <3>1. exec.pool \in OpenCopies
      BY <1>8 DEF IInv, Typed, Carries, Judge, AtExec, Looking
    <3>2. DOMAIN exec.pool \subseteq Candidate
      BY <3>1 DEF OpenCopies
    <3> QED BY <1>1, <2>1, <3>2 DEF ExecShape, Looking
  <2>2. CASE \E v \in {"skipped", "failed"} :
               exec' = [exec EXCEPT !.pc = "conclude", !.verdict = v]
    BY <1>1, <2>2 DEF ExecShape, Looking
  <2> QED BY <1>8, <2>1, <2>2 DEF Judge
<1>9. CASE Release /\ exec.pc # "idle"
  BY <1>9, Released
<1>10. CASE PrepareDelivery /\ cand[exec.pick].status \in Open
  <2>1. exec' = [exec EXCEPT !.pc = "regate", !.pool = Reserved]
    BY <1>10 DEF PrepareDelivery
  <2>2. Reserved \in HeldCopies
    BY <1>10, Preparing DEF HeldCopies
  <2> QED BY <1>1, <2>1, <2>2 DEF ExecShape, Holding
<1>11. CASE Regate
  <2>1. PICK pc \in {"send", "drop"} : exec' = [exec EXCEPT !.locked = TRUE, !.pc = pc]
    BY <1>11 DEF Regate
  <2> QED BY <1>1, <2>1 DEF ExecShape, Holding
<1>12. CASE Delivered
  <2>1. call[Holder].receipt \in Status
    BY ProactiveAssumption DEF IInv, CallInv, CallTypeOK
  <2> QED BY <1>1, <1>12, <2>1 DEF Delivered, ExecShape, Holding
<1>13. CASE StartRecovery
  BY <1>2, <1>13 DEF StartRecovery, ExecShape
<1>14. CASE RecoverPrepared
  BY <1>1, <1>14, Recovering
<1>15. CASE StartLoop \/ Crash
  BY <1>2, <1>15 DEF StartLoop, Crash
<1> QED
  BY <1>1, <1>3, <1>4, <1>5, <1>6, <1>7, <1>8, <1>9, <1>10, <1>11, <1>12, <1>13, <1>14, <1>15,
     ReleasedBy, ExecWriters

\* The holder of the run lock goes on.
GoesOn == \/ ListCandidates \/ SaveRunning \/ Gate \/ Judge \/ Regate \/ Deliver \/ Delivered
          \/ PrepareDelivery /\ cand[exec.pick].status \in Open
          \/ SettleRun /\ SettledAs = "sent"
          \/ \E c \in Candidate : RunExpires(c)

LEMMA GoingOn ==
  ASSUME IInv, GoesOn
  PROVE  /\ exec'.by = exec.by /\ exec'.r = exec.r /\ UNCHANGED <<on, todo, loop, waiters>>
         /\ \/ exec.pc \in {"list"} \cup Looking /\ exec'.pc \in Looking
            \/ AtExec("prepare") /\ exec'.pc = "regate"
            \/ exec.pc \in Holding /\ exec'.pc \in Holding
            \/ SettleRun /\ AtExec("settle") /\ exec'.pc = "remember"
<1>1. exec \in ExecShape
  BY DEF IInv, Typed, ProcTypes
<1> USE <1>1 DEF ExecShape, Looking, Holding, AtExec, ExecAt
<1>2. CASE ListCandidates
  BY <1>2 DEF ListCandidates
<1>3. CASE SaveRunning
  BY <1>3 DEF SaveRunning
<1>4. CASE Gate
  <2>1. PICK pc \in {"judge", "conclude"},
            reason \in Gates(exec.policy, exec.pool # NoCopies, Manual) :
           exec' = [exec EXCEPT !.pc = pc, !.verdict = reason]
    BY <1>4 DEF Gate
  <2> QED BY <1>4, <2>1 DEF Gate
<1>5. CASE Judge
  BY <1>5 DEF Judge
<1>6. CASE Regate
  <2>1. PICK pc \in {"send", "drop"} : exec' = [exec EXCEPT !.locked = TRUE, !.pc = pc]
    BY <1>6 DEF Regate
  <2> QED BY <1>6, <2>1 DEF Regate
<1>7. CASE Deliver
  BY <1>7 DEF Deliver
<1>8. CASE Delivered
  BY <1>8 DEF Delivered
<1>9. CASE PrepareDelivery /\ cand[exec.pick].status \in Open
  BY <1>9 DEF PrepareDelivery
<1>10. CASE SettleRun /\ SettledAs = "sent"
  BY <1>10 DEF SettleRun, SettledAs
<1>11. CASE \E c \in Candidate : RunExpires(c)
  BY <1>11 DEF RunExpires
<1> QED BY <1>2, <1>3, <1>4, <1>5, <1>6, <1>7, <1>8, <1>9, <1>10, <1>11 DEF GoesOn

\* What a step does to the holder of the run lock.
LEMMA ExecSteps ==
  ASSUME IInv, Next
  PROVE  \/ UNCHANGED exec
         \/ StartRun /\ Created # MaxRun
         \/ GoesOn
         \/ Release /\ exec.pc # "idle" /\ UNCHANGED <<on, todo>>
         \/ StartRecovery \/ RecoverPrepared \/ StartLoop \/ Crash
<1>1. StartRun => Created # MaxRun \/ UNCHANGED exec
  BY DEF StartRun
<1>2. Conclude \/ Drop \/ RememberRun \/ PrepareDelivery \/ SettleRun => UNCHANGED <<on, todo>>
  BY DEF Conclude, Drop, RememberRun, PrepareDelivery, SettleRun
<1> QED BY <1>1, <1>2, ExecWriters, ReleasedBy DEF GoesOn

LEMMA Stopped ==
  ASSUME StartRecovery \/ StartLoop \/ Crash
  PROVE  \/ exec'.pc = "recover" /\ exec'.by = "boot"
         \/ exec'.pc = "idle" /\ exec'.by = "nobody"
<1>1. CASE StartRecovery
  BY <1>1 DEF StartRecovery, ExecIdle
<1>2. CASE StartLoop \/ Crash
  <2>1. exec' = ExecIdle
    BY <1>2 DEF StartLoop, Crash
  <2> QED BY <2>1 DEF ExecIdle
<1> QED BY <1>1, <1>2

LEMMA StageTypes ==
  ASSUME IInv, Next
  PROVE  on' \in {"off", "outbound", "proactive", "on"} /\ todo' \in SUBSET Run
<1>1. on \in {"off", "outbound", "proactive", "on"} /\ todo \in SUBSET Run
  BY DEF IInv, Typed, ProcTypes
<1> QED
  BY <1>1, StageWriters
     DEF Boot, RecoverMessage, StartRecovery, RecoverRunning, RecoverPrepared, StartLoop, Crash,
         Unfinished

\* The loop and the callers exist only while the process is up.
LEMMA LoopStage ==
  ASSUME IInv, Next, on' # "on"
  PROVE  loop'.pc = "off" /\ waiters' = <<>>
<1>1. Stages
  BY DEF IInv, Typed
<1>2. CASE on = "on"
  <2>1. Crash
    BY <1>2, StageWriters, FirstRun
       DEF Boot, RecoverMessage, StartRecovery, RecoverRunning, RecoverPrepared, StartLoop,
           IInv, Typed, Stages, AtExec
  <2> QED BY <2>1 DEF Crash, LoopIdle
<1>3. CASE on # "on"
  <2>1. loop.pc = "off" /\ waiters = <<>>
    BY <1>1, <1>3 DEF Stages
  <2>2. CASE UNCHANGED <<loop, waiters>>
    BY <2>1, <2>2
  <2>3. CASE Release /\ exec.pc # "idle"
    BY <1>3, <2>1, <2>3, Released
  <2>4. CASE PrepareDelivery /\ cand[exec.pick].status \in Open
    BY <2>1, <2>4 DEF PrepareDelivery
  <2>5. CASE SettleRun /\ SettledAs = "sent"
    BY <2>1, <2>5 DEF SettleRun, SettledAs
  <2>6. CASE StartLoop
    BY <2>6 DEF StartLoop
  <2>7. CASE Crash
    BY <2>7 DEF Crash, LoopIdle
  <2>8. ~( \/ ClearWake \/ ListPolicies \/ CheckCandidates \/ Checked \/ Awake \/ Timeout \/ RunNow
           \/ (\E c \in Candidate : LoopExpires(c)) \/ StartRun)
    BY <1>3, <2>1 DEF ClearWake, ListPolicies, CheckCandidates, Checked, Awake, Timeout, RunNow,
       LoopExpires, StartRun
  <2> QED BY <2>2, <2>3, <2>4, <2>5, <2>6, <2>7, <2>8, ReleasedBy, LoopWriters
<1> QED BY <1>2, <1>3

\* A caller keeps its place at the lock for as long as it holds it.
LEMMA WaitersStage ==
  ASSUME IInv, Next, exec'.by \in {"loop", "user"}
  PROVE  waiters' # <<>>
<1>1. Stages /\ waiters \in Seq({"loop", "user"})
  BY DEF IInv, Typed, ProcTypes
<1>2. CASE StartRun /\ Created # MaxRun
  BY <1>2 DEF StartRun
<1>3. CASE GoesOn
  BY <1>1, <1>3, GoingOn DEF Stages
<1>4. CASE Release /\ exec.pc # "idle"
  BY <1>4, Released DEF IInv, Typed, ProcTypes, ExecShape
<1>5. CASE StartRecovery \/ StartLoop \/ Crash
  BY <1>5, Stopped
<1>6. CASE RecoverPrepared
  BY <1>6, Recovering
<1>7. CASE UNCHANGED exec
  <2>1. waiters # <<>> /\ exec.pc # "idle"
    BY <1>1, <1>7 DEF Stages, AtExec
  <2>2. CASE RunNow \/ Checked
    <3>1. waiters' = waiters \/ \E who \in {"loop", "user"} : waiters' = Append(waiters, who)
      BY <2>2 DEF RunNow, Checked
    <3> QED BY <1>1, <2>1, <3>1
  <2>3. CASE Release
    BY <1>1, <1>7, <2>1, <2>3, Released DEF Stages, IInv, Typed, ProcTypes, ExecShape
  <2>4. CASE PrepareDelivery /\ cand[exec.pick].status \in Open
    BY <2>1, <2>4 DEF PrepareDelivery
  <2>5. CASE SettleRun /\ SettledAs = "sent"
    BY <2>1, <2>5 DEF SettleRun, SettledAs
  <2>6. CASE StartLoop \/ Crash
    BY <1>7, <2>1, <2>6 DEF StartLoop, Crash, ExecIdle
  <2>7. CASE ClearWake \/ ListPolicies \/ CheckCandidates \/ Awake \/ Timeout
             \/ \E c \in Candidate : LoopExpires(c)
    BY <2>1, <2>7 DEF ClearWake, ListPolicies, CheckCandidates, Awake, Timeout, LoopExpires
  <2>8. ~StartRun
    BY <2>1 DEF StartRun, AtExec
  <2> QED BY <2>1, <2>2, <2>3, <2>4, <2>5, <2>6, <2>7, <2>8, ReleasedBy, LoopWriters
<1> QED BY <1>2, <1>3, <1>4, <1>5, <1>6, <1>7, ExecSteps

LEMMA ExecStage ==
  ASSUME IInv, Next
  PROVE  /\ on' \in {"off", "outbound"} => exec'.pc = "idle"
         /\ on' = "proactive" => exec'.by = "boot" /\ exec'.pc \in {"recover", "remember"} \cup Holding
         /\ on' = "on" => exec'.by # "boot" /\ exec'.pc # "recover"
         /\ exec'.by = "nobody" <=> exec'.pc = "idle"
         /\ on' = "off" => todo' = {}
<1>1. Stages /\ exec \in ExecShape /\ on \in {"off", "outbound", "proactive", "on"}
  BY DEF IInv, Typed, ProcTypes
<1> USE <1>1 DEF Stages, AtExec
<1>2. CASE StartRun /\ Created # MaxRun
  <2>1. Head(waiters) \in {"loop", "user"} /\ waiters # <<>>
    BY <1>2 DEF StartRun, IInv, Typed, ProcTypes
  <2>2. exec' = [ExecIdle EXCEPT !.pc = "list", !.by = Head(waiters), !.r = Created + 1,
                                 !.policy = enabled, !.snap = said]
    BY <1>2 DEF StartRun
  <2>3. exec'.pc = "list" /\ exec'.by \in {"loop", "user"} /\ UNCHANGED <<on, todo>>
    BY <1>2, <2>1, <2>2 DEF StartRun, ExecIdle
  <2> QED BY <2>1, <2>3
<1>3. CASE GoesOn
  BY <1>3, GoingOn DEF Looking, Holding
<1>4. CASE Release /\ exec.pc # "idle" /\ UNCHANGED <<on, todo>>
  BY <1>4, Released DEF Looking, Holding
<1>5. CASE StartRecovery
  BY <1>5 DEF StartRecovery, ExecIdle
<1>6. CASE RecoverPrepared
  BY <1>6, Recovering DEF Holding, RecoverPrepared
<1>7. CASE StartLoop \/ Crash
  BY <1>7 DEF StartLoop, Crash, ExecIdle
<1>8. CASE UNCHANGED exec
  <2>1. CASE UNCHANGED <<on, todo>>
    BY <1>8, <2>1
  <2>2. CASE Boot \/ RecoverMessage \/ RecoverRunning
    BY <1>8, <2>2 DEF Boot, RecoverMessage, RecoverRunning
  <2> QED BY <1>5, <1>6, <1>7, <2>1, <2>2, StageWriters
<1> QED BY <1>2, <1>3, <1>4, <1>5, <1>6, <1>7, <1>8, ExecSteps

LEMMA CarriesStep ==
  ASSUME IInv, Next
  PROVE  Carries'
<1>1. Carries /\ exec \in ExecShape /\ TableTypes
  BY DEF IInv, Typed, ProcTypes
<1> USE <1>1 DEF Carries, AtExec, Looking, Holding
<1>2. CASE ListCandidates
  <2>1. PICK pool \in Pools(OpenRows, Manual) :
          exec' = [exec EXCEPT !.pc = "expire", !.dead = Dead(OpenRows), !.pool = pool]
    BY <1>2 DEF ListCandidates
  <2>2. pool \in OpenCopies
    BY OpenRowsOpen, PoolOpen
  <2> QED BY <2>1, <2>2 DEF ExecShape
<1>3. CASE Gate
  <2>1. PICK pc \in {"judge", "conclude"},
            reason \in Gates(exec.policy, exec.pool # NoCopies, Manual) :
           exec' = [exec EXCEPT !.pc = pc, !.verdict = reason]
    BY <1>3 DEF Gate
  <2> QED BY <1>3, <2>1 DEF Gate, ExecShape
<1>4. CASE Judge
  BY <1>4 DEF Judge, ExecShape
<1>5. CASE PrepareDelivery /\ cand[exec.pick].status \in Open
  <2>1. exec' = [exec EXCEPT !.pc = "regate", !.pool = Reserved]
    BY <1>5 DEF PrepareDelivery
  <2> QED BY <1>5, <2>1, Preparing DEF ExecShape
<1>6. CASE Regate
  <2>1. PICK pc \in {"send", "drop"} : exec' = [exec EXCEPT !.locked = TRUE, !.pc = pc]
    BY <1>6 DEF Regate
  <2> QED BY <1>6, <2>1 DEF Regate, ExecShape
<1>7. CASE Delivered
  BY <1>7 DEF Delivered, ExecShape
<1>8. CASE SaveRunning \/ Deliver \/ (SettleRun /\ SettledAs = "sent")
  BY <1>8 DEF SaveRunning, Deliver, SettleRun, SettledAs, ExecAt, ExecShape
<1>9. ASSUME NEW c \in Candidate, RunExpires(c)
      PROVE  Carries'
  BY <1>9 DEF RunExpires, ExecShape
<1>10. CASE StartRun /\ Created # MaxRun
  <2>1. exec'.pc = "list"
    BY <1>10 DEF StartRun, ExecIdle
  <2> QED BY <2>1
<1>11. CASE Release /\ exec.pc # "idle"
  <2>1. exec'.pc \in {"idle", "recover"}
    BY <1>11, Released
  <2> QED BY <2>1
<1>12. CASE StartRecovery \/ StartLoop \/ Crash
  <2>1. exec'.pc \in {"idle", "recover"}
    BY <1>12, Stopped
  <2> QED BY <2>1
<1>13. CASE RecoverPrepared
  BY <1>13, Recovering
<1>14. CASE UNCHANGED exec
  BY <1>14
<1> QED
  BY <1>2, <1>3, <1>4, <1>5, <1>6, <1>7, <1>8, <1>9, <1>10, <1>11, <1>12, <1>13, <1>14, ExecSteps
     DEF GoesOn

LEMMA TypedStep ==
  ASSUME IInv, Next
  PROVE  Typed'
<1>1. TableTypes' /\ Carries'
  BY TableStep, CarriesStep
<1>2. ProcTypes'
  BY LoopTypes, ExecTypes, StageTypes DEF ProcTypes
<1>3. Stages'
  BY LoopStage, WaitersStage, ExecStage DEF Stages, AtExec
<1> QED BY <1>1, <1>2, <1>3 DEF Typed

(****************************************************************************)
(* A step keeps the rows of the messages and the records of the runs true   *)
(****************************************************************************)

\* Nobody is inside deliver() while a run is prepared or dropped.
LEMMA NoCall ==
  ASSUME IInv, ~AtExec("deliver"), on # "outbound"
  PROVE  ~InFlight(Holder) /\ Free(Holder) /\ \A M : Untouched({}, M)
<1>1. ~InFlight(Holder)
  BY DEF IInv, CallPlaced
<1> QED BY <1>1, ProactiveAssumption DEF InFlight, Free, Untouched

\* A call about a message that was sent before sends nothing.
LEMMA NothingSent ==
  ASSUME IInv, Step(Holder), Begun(call[Holder].msg), NoNewSend
  PROVE  LET m == call[Holder].msg IN
         /\ attempt'[m] # attempt[m] => attempt[m] = "DISPATCHING" /\ attempt'[m] = "UNKNOWN"
         /\ attempt'[m] \notin {"NONE", "PREPARED"} /\ NoNewSend' /\ sends' = sends
<1> DEFINE m == call[Holder].msg
<1>1. Holder \in Worker /\ CallInv
  BY ProactiveAssumption DEF IInv
<1>2. m \in Run /\ CallTypeOK /\ Suspended(Holder)
  BY <1>1, StepBusy DEF Run, CallInv
<1>3. Look(Holder) \/ Doubt(Holder) \/ Commit(Holder)
  BY DEF Step, NoNewSend, Prepare, Dispatch, Send, Settle, At
<1>4. sends' = sends
  BY <1>3 DEF Look, Doubt, Commit
<1>5. attempt'[m] # attempt[m] => attempt[m] = "DISPATCHING" /\ attempt'[m] = "UNKNOWN"
  BY <1>2, <1>3 DEF Look, Doubt, Commit, SaveDelivery, Suspended, At, CallTypeOK, Run
<1>6. NoNewSend'
  <2>1. CASE Look(Holder)
    BY <1>1, <1>2, <2>1 DEF Look, Goto, Return, NoNewSend, Begun, CallTypeOK
  <2>2. CASE Doubt(Holder) \/ Commit(Holder)
    BY <1>1, <1>2, <2>2 DEF Doubt, Commit, Return, NoNewSend, CallTypeOK
  <2> QED BY <1>3, <2>1, <2>2
<1>7. attempt'[m] \notin {"NONE", "PREPARED"}
  BY <1>5 DEF Begun
<1> QED BY <1>4, <1>5, <1>6, <1>7

\* The call is recovery's or the run's.
LEMMA Calling ==
  ASSUME IInv, DeliverStep
  PROVE  LET m == call[Holder].msg IN
         /\ m \in Run /\ Untouched({Holder}, {m}) /\ Holder \in Worker
         /\ UNCHANGED <<prun, cand, exec, on, todo, answered, cool>>
         /\ \/ /\ on = "outbound" /\ Begun(m) /\ NoNewSend
               /\ attempt'[m] # attempt[m] => attempt[m] = "DISPATCHING" /\ attempt'[m] = "UNKNOWN"
            \/ AtExec("deliver") /\ m = exec.r
<1> DEFINE m == call[Holder].msg
<1>1. Holder \in Worker /\ CallInv /\ Step(Holder)
  BY ProactiveAssumption DEF IInv, DeliverStep
<1>2. InFlight(Holder) /\ m \in Run
  BY <1>1, StepBusy DEF Run
<1>3. UNCHANGED <<prun, cand, exec, on, todo, answered, cool>>
  BY DEF DeliverStep, dbVars, chatVars, procVars
<1>4. \/ on = "outbound" /\ Begun(m) /\ NoNewSend
      \/ AtExec("deliver") /\ m = exec.r
  BY <1>2 DEF IInv, CallPlaced
<1> QED BY <1>1, <1>2, <1>3, <1>4, NothingSent, ProactiveAssumption DEF Untouched

LEMMA CallsStep ==
  ASSUME IInv, Next
  PROVE  CallInv'
<1>1. CallInv /\ Holder \in Worker /\ Typed /\ Stages
  BY ProactiveAssumption DEF IInv, Typed
<1>2. CASE UNCHANGED callVars
  BY <1>1, <1>2, CallsUntouched
<1>3. CASE PrepareDelivery
  <2>1. CASE cand[exec.pick].status \in Open
    <3>1. PrepareBatch(exec.r, {}) /\ exec.r \in Message
      BY <1>3, <2>1, Preparing DEF PrepareDelivery, Run
    <3>2. Untouched({}, {} \cup {exec.r})
      BY <1>1, <1>3, NoCall DEF PrepareDelivery, AtExec, Stages
    <3> QED BY <1>1, <3>1, <3>2, BatchInv
  <2>2. CASE cand[exec.pick].status \notin Open
    BY <1>1, <1>3, <2>2, CallsUntouched DEF PrepareDelivery
  <2> QED BY <2>1, <2>2
<1>4. CASE Drop
  <2>1. DropPrepared(exec.r) /\ exec.r \in Message
    BY <1>4, Dropping DEF Drop, Run
  <2>2. Untouched({}, {exec.r})
    BY <1>1, <1>4, NoCall DEF Drop, AtExec, Stages
  <2> QED BY <1>1, <2>1, <2>2, DropInv
<1>5. CASE Deliver
  <2>1. exec.r \in Message
    BY <1>5 DEF IInv, Books, ExecRun, Deliver, AtExec, Holding, Run
  <2> QED BY <1>1, <1>5, <2>1, BeginInv DEF Deliver
<1>6. CASE DeliverStep
  BY <1>1, <1>6, Calling, StepInv DEF DeliverStep
<1>7. CASE Delivered \/ StartRecovery \/ Crash
  BY <1>1, <1>7, AbandonInv DEF Delivered, StartRecovery, Crash
<1>8. CASE RecoverMessage
  <2>1. First \in Message
    BY <1>1, <1>8, FirstRun DEF RecoverMessage, Typed, ProcTypes, Run
  <2> QED BY <1>1, <1>8, <2>1, BeginInv DEF RecoverMessage
<1> QED BY <1>2, <1>3, <1>4, <1>5, <1>6, <1>7, <1>8, RowWriters

\* The rows only change with the records, or by a step inside deliver().
LEMMA RowsKept ==
  ASSUME Next
  PROVE  \/ UNCHANGED <<attempt, history, sends>>
         \/ PrepareDelivery /\ cand[exec.pick].status \in Open
         \/ Drop \/ DeliverStep
<1>1. PrepareDelivery => \/ cand[exec.pick].status \in Open
                         \/ UNCHANGED <<attempt, history, sends>>
  BY DEF PrepareDelivery, callVars
<1>2. Deliver \/ Delivered \/ RecoverMessage \/ StartRecovery \/ Crash
        => UNCHANGED <<attempt, history, sends>>
  BY DEF Deliver, Delivered, RecoverMessage, StartRecovery, Crash, Begin, Abandon
<1> QED BY <1>1, <1>2, RowWriters DEF callVars

\* What PrepareDelivery and Drop write.
LEMMA RowPrepared ==
  ASSUME IInv, PrepareDelivery, cand[exec.pick].status \in Open
  PROVE  /\ attempt[exec.r] = "NONE" /\ attempt'[exec.r] = "PREPARED"
         /\ \A r \in Run \ {exec.r} : attempt'[r] = attempt[r]
         /\ UNCHANGED <<history, call, sends>>
<1>1. exec.r \in Run /\ prun[exec.r].status = "running"
  BY DEF IInv, Books, ExecRun, PrepareDelivery, AtExec, Looking
<1>2. attempt[exec.r] = "NONE" /\ attempt \in [Message -> Status]
  BY <1>1 DEF IInv, Books, RunTells, CallInv, CallTypeOK
<1> QED BY <1>1, <1>2 DEF PrepareDelivery, PrepareBatch, Run

LEMMA RowDropped ==
  ASSUME IInv, Drop
  PROVE  /\ attempt[exec.r] = "PREPARED" /\ attempt'[exec.r] = "DROPPED"
         /\ \A r \in Run \ {exec.r} : attempt'[r] = attempt[r]
         /\ UNCHANGED <<history, call, sends>>
  BY Dropping DEF IInv, CallInv, CallTypeOK, Drop, DropPrepared, SaveDelivery, Run

\* Conclude and RecoverRunning end a run that has no message.
LEMMA EndsWithout ==
  ASSUME IInv, Conclude \/ RecoverRunning
  PROVE  \E r \in Run, s \in {"skipped", "failed", "gated"} :
           /\ prun[r].status = "running" /\ prun' = [prun EXCEPT ![r].status = s]
           /\ UNCHANGED callVars
<1>1. CASE Conclude
  <2>1. exec.r \in Run /\ prun[exec.r].status = "running"
    BY <1>1 DEF IInv, Books, ExecRun, Conclude, AtExec, Looking
  <2>2. PICK s \in {"skipped", "failed", "gated"} : prun' = [prun EXCEPT ![exec.r].status = s]
    BY <1>1 DEF Conclude
  <2> QED BY <1>1, <2>1, <2>2 DEF Conclude
<1>2. CASE RecoverRunning
  <2>1. First \in Run
    BY <1>2, FirstRun DEF RecoverRunning, IInv, Typed, ProcTypes
  <2> QED BY <1>2, <2>1 DEF RecoverRunning
<1> QED BY <1>1, <1>2

LEMMA TellsStep ==
  ASSUME IInv, Next, NEW r \in Run
  PROVE  RunTells(r)'
<1>1. /\ RunTells(r) /\ prun \in [Run -> RunShape] /\ TableTypes
      /\ attempt \in [Message -> Status] /\ history \in SUBSET Message
  BY DEF IInv, Typed, TableTypes, Books, CallInv, CallTypeOK
<1> USE DEF RunTells
<1>2. CASE SaveRunning
  <2>1. UNCHANGED <<attempt, history>>
    BY <1>2 DEF SaveRunning, callVars
  <2>2. CASE r = exec.r
    BY <1>1, <1>2, <2>1, <2>2, SavedRunning, ProactiveAssumption
  <2>3. CASE r # exec.r
    BY <1>1, <1>2, <2>1, <2>3, SavedRunning
  <2> QED BY <2>2, <2>3
<1>3. CASE Conclude \/ RecoverRunning
  <2>1. PICK q \in Run, s \in {"skipped", "failed", "gated"} :
          /\ prun[q].status = "running" /\ prun' = [prun EXCEPT ![q].status = s]
          /\ UNCHANGED callVars
    BY <1>3, EndsWithout
  <2>2. prun'[r].cand = prun[r].cand /\ prun'[r].status \in {prun[r].status, s}
        /\ (prun'[r].status # prun[r].status => r = q)
    BY <1>1, <2>1 DEF RunShape
  <2>3. UNCHANGED <<attempt, history>>
    BY <2>1 DEF callVars
  <2> QED BY <1>1, <2>1, <2>2, <2>3
<1>4. CASE PrepareDelivery /\ cand[exec.pick].status \in Open
  <2>1. CASE r = exec.r
    BY <1>4, <2>1, RowPrepared, Preparing
  <2>2. CASE r # exec.r
    BY <1>1, <1>4, <2>2, RowPrepared, Preparing
  <2> QED BY <2>1, <2>2
<1>5. CASE Drop
  <2>1. /\ prun'[exec.r].status = "gated" /\ prun'[exec.r].cand = prun[exec.r].cand
        /\ \A q \in Run \ {exec.r} : prun'[q] = prun[q]
    BY <1>1, <1>5, Dropping DEF RunShape
  <2>2. CASE r = exec.r
    BY <1>1, <1>5, <2>1, <2>2, RowDropped
  <2>3. CASE r # exec.r
    BY <1>1, <1>5, <2>1, <2>3, RowDropped
  <2> QED BY <2>2, <2>3
<1>6. CASE SettleRun
  <2>1. /\ prun'[exec.r].status = SettledAs /\ prun'[exec.r].cand = prun[exec.r].cand
        /\ \A q \in Run \ {exec.r} : prun'[q] = prun[q]
    BY <1>1, <1>6, Settling DEF RunShape
  <2>2. UNCHANGED <<attempt, history>>
    BY <1>6 DEF SettleRun, callVars
  <2>3. CASE r = exec.r
    <3>1. attempt[r] \in Outcome /\ (attempt[r] = "SENT" => r \in history)
      BY <1>6, <2>3 DEF IInv, CallPlaced, Known, SettleRun, AtExec
    <3> QED BY <1>1, <1>6, <2>1, <2>2, <2>3, <3>1, Settling DEF Outcome
  <2>4. CASE r # exec.r
    BY <1>1, <2>1, <2>2, <2>4
  <2> QED BY <2>3, <2>4
<1>7. CASE DeliverStep
  <2> DEFINE m == call[Holder].msg
  <2>1. m \in Run /\ prun' = prun /\ Holder \in Worker /\ CallInv /\ Step(Holder) /\ CallInv'
    BY <1>7, Calling, CallsStep DEF DeliverStep, IInv
  <2>2. /\ Confined({Holder}, {m}) /\ history \subseteq history'
        /\ attempt[m] = "SENT" => attempt'[m] = "SENT"
        /\ attempt'[m] = attempt[m] \/ attempt'[m] \notin {"NONE", "BLOCKED", "DROPPED"}
    BY <2>1, StepEffect, StepWrites
  <2>3. CASE r # m
    BY <1>1, <2>1, <2>2, <2>3 DEF Confined, Run
  <2>4. CASE r = m /\ attempt'[m] # attempt[m] /\ prun[m].status # "prepared"
    <3>1. attempt[m] = "DISPATCHING" \/ prun[m].status = "prepared"
      BY <1>7, <2>4, Calling DEF IInv, Books, ExecRun, AtExec, Holding
    <3> QED BY <1>1, <2>4, <3>1
            DEF RunShape, RunStatus
  <2>5. CASE r = m /\ attempt'[m] # attempt[m] /\ prun[m].status = "prepared"
    <3>1. attempt'[m] \in Status
      BY <2>1 DEF CallInv, CallTypeOK, Run
    <3>2. attempt'[m] \in {"PREPARED", "DISPATCHING"} \cup Outcome
      BY <2>2, <2>5, <3>1 DEF Status, Outcome
    <3> QED BY <1>1, <2>1, <2>5, <3>2 DEF Outcome
  <2>6. CASE r = m /\ attempt'[m] = attempt[m]
    BY <1>1, <2>1, <2>2, <2>6
  <2> QED BY <2>3, <2>4, <2>5, <2>6
<1>8. CASE UNCHANGED <<attempt, history, prun>>
  BY <1>1, <1>8
<1>9. PrepareDelivery => \/ cand[exec.pick].status \in Open
                         \/ UNCHANGED <<attempt, history, prun>>
  BY DEF PrepareDelivery, callVars
<1> QED BY <1>2, <1>3, <1>4, <1>5, <1>6, <1>7, <1>8, <1>9, RowsKept, RunWriters

\* The records that a step of the holder of the lock leaves alone.
LEMMA ExecKeeps ==
  ASSUME IInv, Next, UNCHANGED exec
  PROVE  UNCHANGED prun \/ (AtExec("recover") /\ RecoverRunning)
<1>1. exec \in ExecShape
  BY DEF IInv, Typed, ProcTypes
<1>2. ~SaveRunning
  BY <1>1 DEF SaveRunning, ExecAt, AtExec, ExecShape
<1>3. ~Conclude /\ ~Drop
  <2>1. Conclude \/ Drop => exec.pc \in {"conclude", "drop"} /\ exec'.pc \in {"idle", "recover"}
    BY ReleasedBy, Released DEF Conclude, Drop, AtExec
  <2> QED BY <2>1
<1>4. ~(PrepareDelivery /\ cand[exec.pick].status \in Open)
  BY <1>1 DEF PrepareDelivery, AtExec, ExecShape
<1>5. ~SettleRun
  <2>1. SettleRun /\ SettledAs = "sent" => exec'.pc = "remember" /\ exec.pc = "settle"
    BY <1>1 DEF SettleRun, SettledAs, ExecAt, AtExec, ExecShape
  <2>2. SettleRun /\ SettledAs # "sent" => exec'.pc \in {"idle", "recover"} /\ exec.pc = "settle"
    BY ReleasedBy, Released DEF SettleRun, AtExec
  <2> QED BY <2>1, <2>2
<1>6. PrepareDelivery /\ cand[exec.pick].status \notin Open => UNCHANGED prun
  BY DEF PrepareDelivery
<1> QED BY <1>2, <1>3, <1>4, <1>5, <1>6, RunWriters DEF RecoverRunning

LEMMA ExecRunStep ==
  ASSUME IInv, Next
  PROVE  ExecRun'
<1>1. ExecRun /\ exec \in ExecShape /\ TableTypes /\ Carries /\ prun \in [Run -> RunShape]
  BY DEF IInv, Typed, ProcTypes, Books, TableTypes
<1>2. CASE UNCHANGED exec
  <2>1. CASE UNCHANGED prun
    BY <1>1, <1>2, <2>1 DEF ExecRun, AtExec, Numbered
  <2>2. CASE AtExec("recover")
    BY <1>2, <2>2 DEF ExecRun, AtExec, Looking, Holding
  <2> QED BY <1>2, <2>1, <2>2, ExecKeeps
<1>3. CASE StartRun /\ Created # MaxRun
  <2>1. PICK k \in 0 .. MaxRun : Numbered(k)
    BY <1>1 DEF TableTypes
  <2>2. Created = k /\ prun' = prun
    BY <1>3, <2>1, CreatedIs DEF StartRun, dbVars
  <2>3. exec'.pc = "list" /\ exec'.r = k + 1
    BY <1>3, <2>2 DEF StartRun, ExecIdle
  <2>4. exec'.r \in Run /\ Numbered(k)'
    BY <1>3, <2>1, <2>2, <2>3, ProactiveAssumption DEF Run, Numbered
  <2> QED BY <2>3, <2>4 DEF ExecRun, AtExec, Looking, Holding
<1>4. CASE ListCandidates \/ \E c \in Candidate : RunExpires(c)
  <2>1. prun' = prun /\ exec'.r = exec.r /\ exec'.pc = "expire" /\ exec.pc \in {"list", "expire"}
    BY <1>1, <1>4 DEF ListCandidates, RunExpires, dbVars, AtExec, ExecShape
  <2> QED BY <1>1, <2>1 DEF ExecRun, AtExec, Looking, Holding, Numbered
<1>5. CASE SaveRunning
  <2>1. exec'.r = exec.r /\ exec'.pc = "gate"
    BY <1>1, <1>5 DEF SaveRunning, ExecAt, ExecShape
  <2> QED BY <1>5, <2>1, SavedRunning DEF ExecRun, AtExec, Looking, Holding
<1>6. CASE Gate \/ Judge
  <2>1. prun' = prun /\ exec'.r = exec.r /\ exec.pc \in {"gate", "judge"}
    BY <1>6, GoingOn DEF GoesOn, Gate, Judge, dbVars, AtExec
  <2>2. exec'.pc \in {"judge", "conclude", "prepare"}
    <3>1. CASE Gate
      <4>1. PICK pc \in {"judge", "conclude"},
                reason \in Gates(exec.policy, exec.pool # NoCopies, Manual) :
               exec' = [exec EXCEPT !.pc = pc, !.verdict = reason]
        BY <3>1 DEF Gate
      <4> QED BY <1>1, <4>1 DEF ExecShape
    <3>2. CASE Judge
      BY <1>1, <3>2 DEF Judge, ExecShape
    <3> QED BY <1>6, <3>1, <3>2
  <2> QED BY <1>1, <2>1, <2>2 DEF ExecRun, AtExec, Looking, Holding
<1>7. CASE PrepareDelivery /\ cand[exec.pick].status \in Open
  <2>1. exec' = [exec EXCEPT !.pc = "regate", !.pool = Reserved]
    BY <1>7 DEF PrepareDelivery
  <2>2. exec'.pc = "regate" /\ exec'.r = exec.r /\ exec'.pick = exec.pick
    BY <1>1, <2>1 DEF ExecShape
  <2> QED BY <1>7, <2>2, Preparing DEF ExecRun, AtExec, Looking, Holding
<1>8. CASE Regate \/ Deliver \/ Delivered
  <2>1. prun' = prun /\ exec.pc \in Holding
    BY <1>8 DEF Regate, Deliver, Delivered, dbVars, AtExec, Holding
  <2>2. PICK pc \in {"send", "drop", "deliver", "settle"} :
          exec'.pc = pc /\ exec'.r = exec.r /\ exec'.pick = exec.pick
    <3>1. CASE Regate
      <4>1. PICK pc \in {"send", "drop"} : exec' = [exec EXCEPT !.locked = TRUE, !.pc = pc]
        BY <3>1 DEF Regate
      <4> QED BY <1>1, <4>1 DEF ExecShape
    <3>2. CASE Deliver \/ Delivered
      BY <1>1, <3>2 DEF Deliver, Delivered, ExecAt, ExecShape
    <3> QED BY <1>8, <3>1, <3>2
  <2> QED BY <1>1, <2>1, <2>2 DEF ExecRun, AtExec, Looking, Holding
<1>9. CASE SettleRun /\ SettledAs = "sent"
  <2>1. exec'.pc = "remember" /\ exec'.r = exec.r
    BY <1>1, <1>9 DEF SettleRun, SettledAs, ExecAt, ExecShape
  <2>2. exec.r \in Run /\ prun'[exec.r].status = "sent"
    BY <1>1, <1>9, Settling DEF RunShape
  <2> QED BY <2>1, <2>2 DEF ExecRun, AtExec, Looking, Holding
<1>10. CASE RecoverPrepared
  <2>1. prun' = prun /\ exec'.pc \in {"regate", "send", "settle"}
    BY <1>10, Recovering DEF RecoverPrepared, dbVars
  <2> QED BY <1>10, <2>1, Recovering DEF ExecRun, AtExec, Looking, Holding
<1>11. CASE \/ Release /\ exec.pc # "idle"
            \/ StartRecovery \/ StartLoop \/ Crash
  <2>1. exec'.pc \in {"idle", "recover"}
    BY <1>11, Released, Stopped
  <2> QED BY <2>1 DEF ExecRun, AtExec, Looking, Holding
<1> QED
  BY <1>2, <1>3, <1>4, <1>5, <1>6, <1>7, <1>8, <1>9, <1>10, <1>11, ExecSteps DEF GoesOn

\* Which runs become prepared, and which cease to be.
LEMMA PreparedSteps ==
  ASSUME IInv, Next, NEW r \in Run, prun'[r].status = "prepared"
  PROVE  \/ prun[r].status = "prepared" /\ ~(exec.r = r /\ (Drop \/ SettleRun))
         \/ /\ PrepareDelivery /\ cand[exec.pick].status \in Open /\ r = exec.r
            /\ exec'.pc = "regate" /\ exec'.r = r
<1>1. exec \in ExecShape /\ prun \in [Run -> RunShape]
  BY DEF IInv, Typed, ProcTypes, TableTypes
<1>2. CASE PrepareDelivery /\ cand[exec.pick].status \in Open
  <2>1. exec' = [exec EXCEPT !.pc = "regate", !.pool = Reserved] /\ ~Drop /\ ~SettleRun
    BY <1>2 DEF PrepareDelivery, AtExec, Drop, SettleRun
  <2> QED BY <1>1, <1>2, <2>1, Preparing DEF ExecShape
<1>3. CASE Drop
  BY <1>1, <1>3, Dropping DEF RunShape
<1>4. CASE SettleRun
  <2>1. SettledAs \in {"sent", "unknown", "failed"}
    BY DEF SettledAs
  <2> QED BY <1>1, <1>4, <2>1, Settling DEF RunShape
<1>5. CASE ~Drop /\ ~SettleRun /\ ~(PrepareDelivery /\ cand[exec.pick].status \in Open)
  <2>1. CASE SaveRunning
    BY <1>5, <2>1, SavedRunning
  <2>2. CASE Conclude \/ RecoverRunning
    <3>1. PICK q \in Run, s \in {"skipped", "failed", "gated"} :
            prun[q].status = "running" /\ prun' = [prun EXCEPT ![q].status = s]
      BY <2>2, EndsWithout
    <3> QED BY <1>1, <1>5, <3>1 DEF RunShape
  <2>3. PrepareDelivery => UNCHANGED prun
    BY <1>5 DEF PrepareDelivery
  <2> QED BY <1>5, <2>1, <2>2, <2>3, RunWriters
<1> QED BY <1>2, <1>3, <1>4, <1>5

LEMMA PreparedOnceStep ==
  ASSUME IInv, Next
  PROVE  PreparedOnce'
<1>1. /\ PreparedOnce /\ ExecRun /\ Stages /\ exec \in ExecShape
      /\ on \in {"off", "outbound", "proactive", "on"}
  BY DEF IInv, Books, Typed, ProcTypes
<1>2. SUFFICES ASSUME NEW r \in Run, prun'[r].status = "prepared"
               PROVE  /\ \A q \in Run : prun'[q].status = "prepared" => q = r
                      /\ on' = "proactive" => r \in todo' \/ (exec'.pc \in Holding /\ exec'.r = r)
                      /\ on' = "on" => exec'.pc \in Holding /\ exec'.r = r
  BY DEF PreparedOnce
<1>3. CASE PrepareDelivery /\ cand[exec.pick].status \in Open
  <2>1. on = "on" /\ on' = on /\ exec.pc \notin Holding
    BY <1>1, <1>3 DEF PrepareDelivery, Stages, AtExec, Holding
  <2>2. \A q \in Run : prun[q].status # "prepared"
    BY <1>1, <2>1 DEF PreparedOnce
  <2>3. \A q \in Run : prun'[q].status = "prepared" => q = exec.r /\ exec'.pc = "regate" /\ exec'.r = q
    BY <2>2, PreparedSteps
  <2> QED BY <1>2, <2>1, <2>3 DEF Holding
<1>4. CASE ~(PrepareDelivery /\ cand[exec.pick].status \in Open)
  <2>1. prun[r].status = "prepared" /\ ~(exec.r = r /\ (Drop \/ SettleRun))
    BY <1>2, <1>4, PreparedSteps
  <2>2. \A q \in Run : prun'[q].status = "prepared" => q = r
    BY <1>1, <1>4, <2>1, PreparedSteps DEF PreparedOnce
  <2>3. /\ on' = "proactive" => r \in todo' \/ (exec'.pc \in Holding /\ exec'.r = r)
        /\ on' = "on" => exec'.pc \in Holding /\ exec'.r = r
    <3>1. CASE UNCHANGED <<exec, on, todo>>
      BY <1>1, <2>1, <3>1 DEF PreparedOnce
    <3>2. CASE GoesOn /\ ~SettleRun
      BY <1>1, <2>1, <3>2, GoingOn DEF PreparedOnce, Looking, Holding, AtExec
    <3>3. CASE Drop \/ SettleRun
      <4>1. exec.r # r /\ UNCHANGED <<on, todo>>
        BY <2>1, <3>3 DEF Drop, SettleRun
      <4> QED BY <1>1, <2>1, <4>1 DEF PreparedOnce
    <3>4. CASE Conclude \/ RememberRun \/ PrepareDelivery \/ StartRun
      <4>1. exec.pc \notin Holding /\ UNCHANGED <<on, todo>>
        BY <3>4 DEF Conclude, RememberRun, PrepareDelivery, StartRun, AtExec, Holding
      <4> QED BY <1>1, <2>1, <4>1 DEF PreparedOnce
    <3>5. CASE StartRecovery
      BY <1>2, <3>5 DEF StartRecovery, Unfinished, dbVars
    <3>6. CASE RecoverPrepared
      <4>1. prun[First].status = "prepared" /\ First \in Run /\ exec'.r = First /\ exec'.pc \in Holding
        BY <3>6, Recovering DEF Holding
      <4> QED BY <1>1, <2>1, <4>1 DEF PreparedOnce
    <3>7. CASE StartLoop
      <4>1. on = "proactive" /\ todo = {} /\ exec.pc = "recover"
        BY <1>1, <3>7 DEF StartLoop, AtExec, Stages
      <4> QED BY <1>1, <2>1, <4>1 DEF PreparedOnce, Holding
    <3>8. CASE Boot \/ RecoverMessage \/ Crash
      BY <3>8 DEF Boot, RecoverMessage, Crash
    <3>9. CASE RecoverRunning
      <4>1. /\ on = "proactive" /\ exec.pc = "recover" /\ UNCHANGED <<on, exec>>
            /\ prun[First].status = "running" /\ todo' = todo \ {First}
        BY <1>1, <3>9 DEF RecoverRunning, AtExec, Stages
      <4> QED BY <1>1, <2>1, <4>1 DEF PreparedOnce, Holding
    <3> QED
      BY <3>1, <3>2, <3>3, <3>4, <3>5, <3>6, <3>7, <3>8, <3>9, ExecWriters, StageWriters DEF GoesOn
  <2> QED BY <2>2, <2>3
<1> QED BY <1>3, <1>4

LEMMA BooksStep ==
  ASSUME IInv, Next
  PROVE  Books'
  BY TellsStep, ExecRunStep, PreparedOnceStep DEF Books

(****************************************************************************)
(* A step keeps every message's candidate out of the pool                   *)
(****************************************************************************)

\* How the row of a candidate may change.
LEMMA CandSteps ==
  ASSUME IInv, Next, NEW c \in Candidate
  PROVE  \/ cand'[c] = cand[c]
         \/ cand[c].status = "none" /\ cand'[c].status = "pending"
         \/ cand'[c] \in HeldCopy /\ cand'[c].status = "expired"
         \/ Conclude /\ c \in DOMAIN exec.pool /\ cand'[c].status # "prepared"
         \/ /\ PrepareDelivery /\ cand[exec.pick].status \in Open /\ c = exec.pick
            /\ cand'[c] \in HeldCopy /\ cand'[c].status = "prepared"
         \/ Drop /\ c = exec.pick /\ cand'[c].status # "prepared"
         \/ SettleRun /\ c = exec.pick /\ cand'[c] = Outcomes[SettledAs]
<1>1. TableTypes /\ cand \in [Candidate -> Copy]
  BY DEF IInv, Typed, TableTypes
<1>2. ASSUME NEW d \in Candidate, Submit(d) \/ PollFeed(d)
      PROVE  cand'[c] = cand[c] \/ (cand[c].status = "none" /\ cand'[c].status = "pending")
  <2>1. cand' = [cand EXCEPT ![d].status = "pending"] /\ cand[d].status = "none"
    BY <1>2 DEF Submit, PollFeed
  <2> QED BY <1>1, <2>1 DEF Copy
<1>3. ASSUME NEW d \in Candidate, LoopExpires(d) \/ RunExpires(d)
      PROVE  cand'[c] = cand[c] \/ (cand'[c] \in HeldCopy /\ cand'[c].status = "expired")
  <2>1. PICK dead \in {loop.dead, exec.dead} :
          d \in DOMAIN dead /\ Overwrite(One(d, Expired(dead[d])))
    BY <1>3 DEF LoopExpires, RunExpires
  <2>2. Expired(dead[d]) \in HeldCopy /\ Expired(dead[d]).status = "expired"
    BY <2>1, Expiring
  <2>3. cand'[d] = Expired(dead[d]) /\ \A e \in Candidate \ {d} : cand'[e] = cand[e]
    BY <1>1, <2>1, <2>2, OneWritten, CopySorts
  <2> QED BY <2>2, <2>3
<1>4. CASE Conclude
  <2> DEFINE copies == [d \in DOMAIN exec.pool |-> Concluded(exec.pool[d])]
  <2>1. Overwrite(copies)
    BY <1>4 DEF Conclude
  <2>2. /\ DOMAIN exec.pool \in SUBSET Candidate /\ copies \in [DOMAIN exec.pool -> Copy]
        /\ \A d \in DOMAIN exec.pool : copies[d].status # "prepared"
    BY <1>4, Concluding
  <2> HIDE DEF copies
  <2>3. /\ \A d \in DOMAIN exec.pool : cand'[d] = copies[d]
        /\ \A d \in Candidate \ DOMAIN exec.pool : cand'[d] = cand[d]
    BY <1>1, <2>1, <2>2, Overwritten
  <2> QED BY <1>4, <2>2, <2>3
<1>5. CASE PrepareDelivery
  <2>1. CASE cand[exec.pick].status \in Open
    <3>1. /\ Overwrite(Reserved) /\ Reserved \in [{exec.pick} -> Copy] /\ exec.pick \in Candidate
          /\ Reserved[exec.pick] \in HeldCopy /\ Reserved[exec.pick].status = "prepared"
      BY <1>5, <2>1, Preparing, CopySorts DEF PrepareDelivery
    <3>2. /\ cand'[exec.pick] = Reserved[exec.pick]
          /\ \A d \in Candidate \ {exec.pick} : cand'[d] = cand[d]
      BY <1>1, <3>1, Overwritten
    <3> QED BY <1>5, <2>1, <3>1, <3>2
  <2>2. CASE cand[exec.pick].status \notin Open
    BY <1>5, <2>2 DEF PrepareDelivery
  <2> QED BY <2>1, <2>2
<1>6. CASE Drop
  <2>1. /\ cand'[exec.pick] = Deferred(Settled, 0)
        /\ \A d \in Candidate \ {exec.pick} : cand'[d] = cand[d]
    BY <1>1, <1>6, Dropping, OneWritten
  <2> QED BY <1>6, <2>1, Dropping
<1>7. CASE SettleRun
  <2>1. /\ cand'[exec.pick] = Outcomes[SettledAs]
        /\ \A d \in Candidate \ {exec.pick} : cand'[d] = cand[d]
    BY <1>1, <1>7, Settling, OneWritten
  <2> QED BY <1>7, <2>1
<1> QED BY <1>2, <1>3, <1>4, <1>5, <1>6, <1>7, CandWriters

\* A run keeps its candidate for good.
LEMMA CandKept ==
  ASSUME IInv, Next, NEW r \in Run
  PROVE  \/ prun'[r].cand = prun[r].cand
         \/ SaveRunning /\ r = exec.r
         \/ PrepareDelivery /\ cand[exec.pick].status \in Open /\ r = exec.r
<1>1. prun \in [Run -> RunShape]
  BY DEF IInv, Typed, TableTypes
<1>2. CASE Conclude \/ RecoverRunning
  <2>1. PICK q \in Run, s \in {"skipped", "failed", "gated"} : prun' = [prun EXCEPT ![q].status = s]
    BY <1>2, EndsWithout
  <2> QED BY <1>1, <2>1 DEF RunShape
<1>3. CASE Drop
  BY <1>1, <1>3, Dropping DEF RunShape
<1>4. CASE SettleRun
  BY <1>1, <1>4, Settling DEF RunShape
<1>5. CASE SaveRunning
  BY <1>5, SavedRunning
<1>6. CASE PrepareDelivery
  <2>1. CASE cand[exec.pick].status \in Open
    BY <1>6, <2>1, Preparing
  <2>2. CASE cand[exec.pick].status \notin Open
    BY <1>6, <2>2 DEF PrepareDelivery
  <2> QED BY <2>1, <2>2
<1> QED BY <1>2, <1>3, <1>4, <1>5, <1>6, RunWriters

LEMMA PreparedStays ==
  ASSUME IInv, Next, NEW r \in Run, prun[r].status = "prepared"
  PROVE  prun'[r].status = "prepared" \/ (exec.r = r /\ (Drop \/ SettleRun))
<1>1. prun \in [Run -> RunShape]
  BY DEF IInv, Typed, TableTypes
<1>2. CASE Conclude \/ RecoverRunning
  <2>1. PICK q \in Run, s \in {"skipped", "failed", "gated"} :
          prun[q].status = "running" /\ prun' = [prun EXCEPT ![q].status = s]
    BY <1>2, EndsWithout
  <2> QED BY <1>1, <2>1 DEF RunShape
<1>3. CASE Drop
  BY <1>1, <1>3, Dropping DEF RunShape
<1>4. CASE SettleRun
  BY <1>1, <1>4, Settling DEF RunShape
<1>5. CASE SaveRunning
  BY <1>5, SavedRunning
<1>6. CASE PrepareDelivery
  <2>1. CASE cand[exec.pick].status \in Open
    BY <1>6, <2>1, Preparing
  <2>2. CASE cand[exec.pick].status \notin Open
    BY <1>6, <2>2 DEF PrepareDelivery
  <2> QED BY <2>1, <2>2
<1> QED BY <1>2, <1>3, <1>4, <1>5, <1>6, RunWriters

\* Only the reservation makes a message that may reach the user; a gate and a
\* definite failure end it.
LEMMA HeldSteps ==
  ASSUME IInv, Next, NEW r \in Run, Held(r)'
  PROVE  \/ /\ Held(r) /\ prun'[r].cand = prun[r].cand
            /\ exec.r = r => ~Drop /\ (SettleRun => SettledAs # "failed" /\ prun'[r].status # "prepared")
         \/ PrepareDelivery /\ cand[exec.pick].status \in Open /\ r = exec.r
<1>1. prun \in [Run -> RunShape] /\ RunTells(r)
  BY DEF IInv, Typed, TableTypes, Books
<1>2. CASE PrepareDelivery /\ cand[exec.pick].status \in Open /\ r = exec.r
  BY <1>2
<1>3. CASE ~(PrepareDelivery /\ cand[exec.pick].status \in Open /\ r = exec.r)
  <2>1. Held(r)
    <3>1. CASE prun'[r].status = "prepared"
      BY <1>3, <3>1, PreparedSteps DEF Held
    <3>2. CASE prun'[r].status # "prepared"
      <4>1. attempt'[r] \in {"PREPARED", "DISPATCHING", "SENT", "UNKNOWN"}
        BY <3>2 DEF Held
      <4>2. CASE attempt'[r] = attempt[r]
        BY <4>1, <4>2 DEF Held
      <4>3. CASE DeliverStep /\ attempt'[r] # attempt[r]
        <5>1. r = call[Holder].msg
          <6>1. CallInv /\ Step(Holder) /\ Holder \in Worker
            BY <4>3, ProactiveAssumption DEF IInv, DeliverStep
          <6> QED BY <4>3, <6>1, StepEffect DEF Confined, Run
        <5>2. attempt[r] = "DISPATCHING" \/ (AtExec("deliver") /\ r = exec.r)
          BY <4>3, <5>1, Calling
        <5> QED BY <5>2 DEF Held, IInv, Books, ExecRun, AtExec, Holding
      <4>4. CASE Drop
        BY <4>1, <4>4, RowDropped DEF Held
      <4>5. CASE PrepareDelivery /\ cand[exec.pick].status \in Open
        BY <1>3, <4>1, <4>5, RowPrepared DEF Held
      <4> QED BY <4>2, <4>3, <4>4, <4>5, RowsKept
    <3> QED BY <3>1, <3>2
  <2>2. prun'[r].cand = prun[r].cand
    <3>1. ~(SaveRunning /\ r = exec.r)
      BY <1>1, <2>1, SavedRunning DEF Held, RunTells
    <3> QED BY <1>3, <3>1, CandKept
  <2>3. ASSUME exec.r = r, Drop
        PROVE  FALSE
    <3>1. prun'[r].status = "gated"
      BY <1>1, <2>3, Dropping DEF RunShape
    <3> QED BY <2>3, <3>1, RowDropped DEF Held
  <2>4. ASSUME exec.r = r, SettleRun
        PROVE  SettledAs # "failed" /\ prun'[r].status # "prepared"
    <3>1. prun'[r].status = SettledAs /\ attempt[r] \in Outcome /\ attempt' = attempt
      BY <1>1, <2>4, Settling DEF RunShape, SettleRun, callVars
    <3>2. attempt[r] = "FAILED" <=> SettledAs = "failed"
      BY <2>4, <3>1, Settling DEF Outcome
    <3>3. SettledAs \in {"sent", "unknown", "failed"}
      BY DEF SettledAs
    <3> QED BY <3>1, <3>2, <3>3 DEF Held
  <2> QED BY <2>1, <2>2, <2>3, <2>4
<1> QED BY <1>2, <1>3

LEMMA ReservationStep ==
  ASSUME IInv, Next
  PROVE  Reservation'
<1>1. Reservation /\ exec \in ExecShape /\ ExecRun /\ TableTypes /\ Carries
  BY DEF IInv, Books, Typed, ProcTypes
<1> DEFINE Chosen(r) == PrepareDelivery /\ cand[exec.pick].status \in Open /\ r = exec.r
\* The holder's candidate is still in its pool, so no other run has it.
<1>2. ASSUME NEW q \in Run, Chosen(q)
      PROVE  /\ prun'[q].cand = exec.pick /\ prun'[q].status = "prepared"
             /\ cand'[exec.pick] \in HeldCopy /\ cand'[exec.pick].status = "prepared"
             /\ exec.pick \in Candidate
             /\ \A r \in Run : Held(r) => prun[r].cand # exec.pick
  <2>1. /\ prun'[q].cand = exec.pick /\ exec.pick \in Candidate /\ prun'[q].status = "prepared"
        /\ exec.pick \in DOMAIN exec.pool /\ exec.pc \in Looking
    BY <1>1, <1>2, Preparing DEF Carries, PrepareDelivery, AtExec, Looking
  <2>2. cand'[exec.pick] = Reserved[exec.pick]
    <3>1. Overwrite(Reserved) /\ Reserved \in [{exec.pick} -> Copy]
      BY <1>2, Preparing, CopySorts DEF PrepareDelivery
    <3> QED BY <1>1, <2>1, <3>1, Overwritten
  <2> QED BY <1>1, <1>2, <2>1, <2>2, Preparing DEF Reservation
<1>3. ASSUME NEW q \in Run, NEW r \in Run, Held(q)', Held(r)', prun'[q].cand = prun'[r].cand
      PROVE  q = r
  <2>1. CASE Chosen(q)
    BY <1>2, <1>3, <2>1, HeldSteps
  <2>2. CASE Chosen(r)
    BY <1>2, <1>3, <2>2, HeldSteps
  <2>3. CASE ~Chosen(q) /\ ~Chosen(r)
    BY <1>1, <1>3, <2>3, HeldSteps DEF Reservation
  <2> QED BY <2>1, <2>2, <2>3
<1>4. ASSUME NEW r \in Run, Held(r)'
      PROVE  /\ cand'[prun'[r].cand].status \notin Open \cup {"none"}
             /\ prun'[r].status = "prepared" => cand'[prun'[r].cand] \in HeldCopy
  <2>1. CASE Chosen(r)
    BY <1>2, <2>1 DEF Open
  <2>2. CASE ~Chosen(r)
    <3> DEFINE c == prun[r].cand
    <3>1. /\ Held(r) /\ prun'[r].cand = c
          /\ exec.r = r => ~Drop /\ (SettleRun => SettledAs # "failed" /\ prun'[r].status # "prepared")
      BY <1>4, <2>2, HeldSteps
    <3>2. c \in Candidate
      BY <3>1 DEF Held, IInv, Books, RunTells, Outcome
    <3>3. /\ cand[c].status \notin Open \cup {"none"}
          /\ prun[r].status = "prepared" => cand[c] \in HeldCopy
      BY <1>1, <3>1 DEF Reservation
    <3>4. prun'[r].status = "prepared" => prun[r].status = "prepared"
      BY <2>2, PreparedSteps
    <3>5. CASE cand'[c] = cand[c]
      BY <3>1, <3>3, <3>4, <3>5
    <3>6. CASE cand'[c] \in HeldCopy /\ cand'[c].status = "expired"
      BY <3>1, <3>6 DEF Open
    <3>7. ~(Conclude /\ c \in DOMAIN exec.pool)
      BY <1>1, <3>1 DEF Conclude, AtExec, Reservation, Looking
    <3>8. ~(PrepareDelivery /\ cand[exec.pick].status \in Open /\ c = exec.pick)
      BY <3>3
    <3>9. (Drop \/ SettleRun) /\ c = exec.pick => exec.r = r
      <4>1. Drop \/ SettleRun => exec.r \in Run /\ Held(exec.r) /\ prun[exec.r].cand = exec.pick
        BY <1>1 DEF Drop, SettleRun, AtExec, ExecRun, Holding, Held
      <4> QED BY <1>1, <3>1, <4>1 DEF Reservation
    <3>10. CASE SettleRun /\ c = exec.pick /\ cand'[c] = Outcomes[SettledAs]
      BY <3>1, <3>9, <3>10, Settling DEF Open
    <3> QED BY <3>1, <3>2, <3>3, <3>5, <3>6, <3>7, <3>8, <3>9, <3>10, CandSteps
  <2> QED BY <2>1, <2>2
<1>5. ASSUME exec'.pc \in Looking, NEW r \in Run, Held(r)'
      PROVE  prun'[r].cand \notin DOMAIN exec'.pool
  <2>1. ~Chosen(r)
    <3>1. Chosen(r) => exec'.pc = "regate"
      BY <1>1 DEF PrepareDelivery, ExecShape
    <3> QED BY <1>5, <3>1 DEF Looking
  <2>2. Held(r) /\ prun'[r].cand = prun[r].cand
    BY <1>5, <2>1, HeldSteps
  <2>3. CASE ListCandidates
    <3>1. PICK pool \in Pools(OpenRows, Manual) :
            exec' = [exec EXCEPT !.pc = "expire", !.dead = Dead(OpenRows), !.pool = pool]
      BY <2>3 DEF ListCandidates
    <3>2. exec'.pool = pool /\ DOMAIN pool \subseteq {c \in Candidate : cand[c].status \in Open}
      BY <1>1, <3>1, OpenRowsOpen, PoolOpen DEF ExecShape
    <3> QED BY <1>1, <2>2, <3>2 DEF Reservation
  <2>4. CASE exec'.pool = exec.pool /\ exec.pc \in Looking
    BY <1>1, <2>2, <2>4 DEF Reservation
  <2>5. CASE GoesOn /\ ~ListCandidates
    <3>1. exec.pc \in Looking
      BY <1>5, <2>5, GoingOn DEF GoesOn, SaveRunning, Gate, Judge, Regate, Deliver, Delivered,
         PrepareDelivery, SettleRun, RunExpires, AtExec, Looking, Holding
    <3>2. exec'.pool = exec.pool
      <4>1. CASE Gate
        <5>1. PICK pc \in {"judge", "conclude"},
                  reason \in Gates(exec.policy, exec.pool # NoCopies, Manual) :
                 exec' = [exec EXCEPT !.pc = pc, !.verdict = reason]
          BY <4>1 DEF Gate
        <5> QED BY <1>1, <5>1 DEF ExecShape
      <4>2. CASE PrepareDelivery /\ cand[exec.pick].status \in Open
        <5>1. exec'.pc = "regate"
          BY <1>1, <4>2 DEF PrepareDelivery, ExecShape
        <5> QED BY <1>5, <5>1 DEF Looking
      <4>3. ~(Regate \/ Deliver \/ Delivered \/ SettleRun)
        BY <3>1 DEF Regate, Deliver, Delivered, SettleRun, AtExec, Looking
      <4>4. CASE SaveRunning \/ Judge \/ \E c \in Candidate : RunExpires(c)
        BY <1>1, <4>4 DEF SaveRunning, Judge, RunExpires, ExecAt, ExecShape
      <4> QED BY <2>5, <4>1, <4>2, <4>3, <4>4 DEF GoesOn
    <3> QED BY <2>4, <3>1, <3>2
  <2>6. CASE UNCHANGED exec
    BY <1>5, <2>4, <2>6
  <2>7. ~(StartRun /\ Created # MaxRun)
    BY <1>5 DEF StartRun, ExecIdle, Looking
  <2>8. ~((Release /\ exec.pc # "idle") \/ StartRecovery \/ StartLoop \/ Crash \/ RecoverPrepared)
    <3>1. Release /\ exec.pc # "idle" => exec'.pc \in {"idle", "recover"}
      BY Released
    <3>2. StartRecovery \/ StartLoop \/ Crash => exec'.pc \in {"idle", "recover"}
      BY Stopped
    <3>3. RecoverPrepared => exec'.pc \in {"regate", "send", "settle"}
      BY Recovering
    <3> QED BY <1>5, <3>1, <3>2, <3>3 DEF Looking
  <2> QED BY <2>3, <2>5, <2>6, <2>7, <2>8, ExecSteps
<1>6. ReservationHeld'
  <2>1. SUFFICES ASSUME NEW c \in Candidate, cand'[c].status = "prepared"
                 PROVE  \E r \in Run : prun'[r].status = "prepared" /\ prun'[r].cand = c
    BY DEF ReservationHeld
  <2>2. CASE PrepareDelivery /\ cand[exec.pick].status \in Open /\ c = exec.pick
    <3>1. exec.r \in Run
      BY <2>2, Preparing
    <3> QED BY <1>2, <2>2, <3>1
  <2>3. CASE cand'[c] = cand[c]
    <3>1. PICK r \in Run : prun[r].status = "prepared" /\ prun[r].cand = c
      BY <1>1, <2>1, <2>3 DEF Reservation, ReservationHeld
    <3>2. ~(exec.r = r /\ (Drop \/ SettleRun))
      <4>1. ASSUME exec.r = r, Drop
            PROVE  FALSE
        <5>1. exec.pick = c
          BY <1>1, <3>1, <4>1 DEF Drop, AtExec, ExecRun, Holding
        <5>2. cand'[c] = Deferred(Settled, 0)
          BY <1>1, <4>1, <5>1, Dropping, OneWritten
        <5> QED BY <2>1, <4>1, <5>2, Dropping
      <4>2. ASSUME exec.r = r, SettleRun
            PROVE  FALSE
        <5>1. exec.pick = c
          BY <1>1, <3>1, <4>2 DEF SettleRun, AtExec, ExecRun, Holding
        <5>2. cand'[c] = Outcomes[SettledAs]
          BY <1>1, <4>2, <5>1, Settling, OneWritten
        <5> QED BY <2>1, <4>2, <5>2, Settling
      <4> QED BY <4>1, <4>2
    <3>3. prun'[r].status = "prepared"
      BY <3>1, <3>2, PreparedStays
    <3>4. prun'[r].cand = prun[r].cand
      <4>1. ~(SaveRunning /\ r = exec.r)
        BY <3>1, SavedRunning
      <4>2. ~Chosen(r)
        BY <1>1, <3>1 DEF PrepareDelivery, AtExec, ExecRun, Looking
      <4> QED BY <4>1, <4>2, CandKept
    <3> QED BY <3>1, <3>3, <3>4
  <2>4. ~(SettleRun /\ c = exec.pick /\ cand'[c] = Outcomes[SettledAs])
    BY <2>1, Settling
  <2> QED BY <2>1, <2>2, <2>3, <2>4, CandSteps
<1>7. \A r \in Run : prun'[r].status = "prepared" => cand'[prun'[r].cand] \in HeldCopy
  BY <1>4 DEF Held
<1> QED BY <1>3, <1>4, <1>5, <1>6, <1>7 DEF Reservation

(****************************************************************************)
(* A step keeps what the holder of the lock relies on                       *)
(****************************************************************************)

\* A run that is inside deliver() leaves it by its end or by a crash.
LEMMA InsideDeliver ==
  ASSUME IInv, Next, AtExec("deliver")
  PROVE  UNCHANGED exec \/ Delivered \/ Crash
<1>1. on # "outbound"
  BY DEF IInv, Typed, Stages, AtExec
<1> QED
  BY <1>1, ExecWriters
     DEF AtExec, StartRun, ListCandidates, SaveRunning, Gate, Judge, Conclude, PrepareDelivery,
         Regate, Drop, Deliver, SettleRun, RememberRun, RunExpires, StartRecovery, RecoverPrepared,
         StartLoop

LEMMA PlacedCall ==
  ASSUME IInv, Next, InFlight(Holder)'
  PROVE  \/ /\ on' = "outbound" /\ attempt'[call'[Holder].msg] \notin {"NONE", "PREPARED"}
            /\ NoNewSend'
         \/ exec'.pc = "deliver" /\ call'[Holder].msg = exec'.r
<1>1. /\ Stages /\ exec \in ExecShape /\ CallTypeOK /\ Holder \in Worker
      /\ todo \in SUBSET Run
  BY ProactiveAssumption DEF IInv, Typed, ProcTypes, CallInv
<1>2. ~(Delivered \/ StartRecovery \/ Crash)
  <2>1. Delivered \/ StartRecovery \/ Crash => call'[Holder].pc = "idle"
    BY <1>1 DEF Delivered, StartRecovery, Crash, Abandon, CallTypeOK, Idle
  <2> QED BY <2>1 DEF InFlight
<1>3. CASE Deliver
  BY <1>1, <1>3 DEF Deliver, Begin, ExecAt, CallTypeOK, ExecShape
<1>4. CASE RecoverMessage
  <2>1. First \in todo /\ on = "outbound"
    BY <1>1, <1>4, FirstRun DEF RecoverMessage
  <2>2. Begun(First)
    BY <2>1 DEF IInv, CallPlaced
  <2> QED BY <1>1, <1>4, <2>1, <2>2 DEF RecoverMessage, Begin, Begun, NoNewSend, CallTypeOK
<1>5. CASE DeliverStep
  <2>1. call'[Holder].msg = call[Holder].msg
    BY <1>1, <1>5, StepEffect DEF DeliverStep, IInv
  <2>2. Step(Holder) /\ UNCHANGED <<on, exec>>
    BY <1>5, Calling DEF DeliverStep
  <2>3. CASE on = "outbound" /\ Begun(call[Holder].msg) /\ NoNewSend
    BY <2>1, <2>2, <2>3, NothingSent DEF Begun
  <2>4. CASE AtExec("deliver") /\ call[Holder].msg = exec.r
    BY <2>1, <2>2, <2>4 DEF AtExec
  <2> QED BY <1>5, <2>3, <2>4, Calling
<1>6. CASE PrepareDelivery \/ Drop
  <2>1. call' = call
    BY <1>6 DEF PrepareDelivery, PrepareBatch, Drop, DropPrepared, callVars
  <2>2. ~InFlight(Holder)
    BY <1>1, <1>6, NoCall DEF PrepareDelivery, Drop, AtExec, Stages
  <2> QED BY <2>1, <2>2 DEF InFlight
<1>7. CASE UNCHANGED callVars
  <2>1. InFlight(Holder) /\ UNCHANGED <<call, attempt>>
    BY <1>7 DEF InFlight, callVars
  <2>2. CASE on = "outbound" /\ Begun(call[Holder].msg) /\ NoNewSend
    <3>1. on' = "outbound"
      BY <1>1, <1>2, <2>2, StageWriters
         DEF Boot, RecoverMessage, RecoverRunning, RecoverPrepared, StartLoop, AtExec, Stages
    <3> QED BY <2>1, <2>2, <3>1 DEF Begun, NoNewSend
  <2>3. CASE AtExec("deliver") /\ call[Holder].msg = exec.r
    BY <1>2, <2>1, <2>3, InsideDeliver DEF AtExec
  <2> QED BY <2>1, <2>2, <2>3 DEF IInv, CallPlaced
<1> QED BY <1>2, <1>3, <1>4, <1>5, <1>6, <1>7, RowWriters

LEMMA TodoBegun ==
  ASSUME IInv, Next, on' = "outbound", NEW r \in todo'
  PROVE  attempt'[r] \notin {"NONE", "PREPARED"}
<1>1. Stages /\ todo \in SUBSET Run
  BY DEF IInv, Typed, ProcTypes
<1>2. CASE Boot
  BY <1>2 DEF Boot, callVars
<1>3. CASE ~Boot
  <2>1. on = "outbound" /\ r \in todo
    BY <1>1, <1>3, StageWriters
       DEF RecoverMessage, StartRecovery, RecoverRunning, RecoverPrepared, StartLoop, Crash,
           AtExec, Stages
  <2>2. Begun(r) /\ r \in Run /\ AtExec("idle")
    BY <1>1, <2>1 DEF IInv, CallPlaced, Stages
  <2>3. CASE DeliverStep
    <3> DEFINE m == call[Holder].msg
    <3>1. attempt'[m] # attempt[m] => attempt'[m] = "UNKNOWN"
      BY <2>2, <2>3, Calling DEF AtExec
    <3>2. r # m => attempt'[r] = attempt[r]
      BY <2>2, <2>3, StepEffect, ProactiveAssumption DEF DeliverStep, IInv, Confined, Run
    <3> QED BY <2>2, <3>1, <3>2 DEF Begun
  <2>4. ~PrepareDelivery /\ ~Drop
    BY <2>2 DEF PrepareDelivery, Drop, AtExec
  <2> QED BY <2>2, <2>3, <2>4, RowsKept DEF Begun
<1> QED BY <1>2, <1>3

\* Nothing the gate saw changes while the session lock is held.
LEMMA ClearedStays ==
  ASSUME IInv, Next, Cleared, exec'.locked = exec.locked, exec'.r = exec.r, UNCHANGED prun
  PROVE  Cleared' \/ SettleRun
<1>1. answered' = answered
  BY ChatWriters DEF UserSpeaks, Answer, UpdatePolicy, Cleared
<1>2. cool = {} => cool' = {} \/ SettleRun
  BY ClockWriters DEF IntervalEnds, DeliverStep
<1> QED BY <1>1, <1>2 DEF Cleared

\* A non-manual run only passes outside the interval.
LEMMA PassesGate ==
  ASSUME IInv, Regate, exec'.pc = "send"
  PROVE  Cleared'
<1>1. exec \in ExecShape /\ prun \in [Run -> RunShape] /\ exec.r \in Run /\ TableTypes
  BY DEF IInv, Typed, ProcTypes, TableTypes, Books, ExecRun, Regate, AtExec, Holding
<1>2. PICK reason \in IF said # prun[exec.r].snap THEN {"new_user_message"}
                      ELSE Gates(enabled, TRUE, prun[exec.r].manual) :
        exec' = [exec EXCEPT !.locked = TRUE, !.pc = IF reason = "none" THEN "send" ELSE "drop"]
  BY DEF Regate
<1>3. reason = "none"
  <2>1. CASE reason # "none"
    <3>1. exec' = [exec EXCEPT !.locked = TRUE, !.pc = "drop"]
      BY <1>2, <2>1
    <3> QED BY <1>1, <3>1 DEF ExecShape
  <2> QED BY <2>1
<1>4. said = prun[exec.r].snap /\ "none" \in Gates(enabled, TRUE, prun[exec.r].manual)
  BY <1>2, <1>3
<1>5. ~Pending /\ (prun[exec.r].manual \/ cool = {})
  BY <1>4 DEF Gates
<1>6. said = answered
  BY <1>1, <1>5 DEF TableTypes, Pending
<1>7. exec' = [exec EXCEPT !.locked = TRUE, !.pc = "send"]
  BY <1>2, <1>3
<1>8. exec'.locked /\ exec'.r = exec.r
  BY <1>1, <1>7 DEF ExecShape
<1>9. UNCHANGED <<prun, answered, cool>>
  BY DEF Regate, dbVars, chatVars, clockVars
<1> QED BY <1>4, <1>5, <1>6, <1>8, <1>9 DEF Cleared

LEMMA MayDeliver ==
  ASSUME IInv, Next, exec'.pc \in {"send", "deliver"}
  PROVE  Cleared' \/ (Begun(exec.r)' /\ NoNewSend')
<1>1. Stages /\ exec \in ExecShape /\ ExecRun /\ CallTypeOK /\ Holder \in Worker
  BY ProactiveAssumption DEF IInv, Typed, ProcTypes, Books, CallInv
<1>2. CASE Regate
  <2>1. exec'.pc \in {"send", "drop"}
    BY <1>1, <1>2 DEF Regate, ExecShape
  <2> QED BY <1>2, <2>1, PassesGate, GoingOn DEF GoesOn
<1>3. CASE RecoverPrepared
  <2>1. exec'.pc = "send" /\ exec'.r = First /\ attempt[First] \in {"DISPATCHING", "SENT"}
    BY <1>3, Recovering
  <2>2. Free(Holder) /\ UNCHANGED <<attempt, call>>
    BY <1>1, <1>3, NoCall DEF RecoverPrepared, AtExec, Stages, callVars
  <2> QED BY <2>1, <2>2 DEF Begun, NoNewSend, Free
<1>4. CASE Deliver
  <2>1. /\ exec' = [exec EXCEPT !.pc = "deliver"] /\ exec.pc = "send"
        /\ UNCHANGED <<prun, attempt>> /\ call'[Holder].pc = "look"
    BY <1>1, <1>4 DEF Deliver, ExecAt, Begin, dbVars, AtExec, CallTypeOK
  <2>2. exec'.locked = exec.locked /\ exec'.r = exec.r
    BY <1>1, <2>1 DEF ExecShape
  <2>3. Cleared \/ Begun(exec.r)
    BY <2>1 DEF IInv, CallPlaced
  <2>4. ~SettleRun
    BY <2>1 DEF SettleRun, AtExec
  <2> QED BY <2>1, <2>2, <2>3, <2>4, ClearedStays DEF Begun, NoNewSend
<1>5. CASE UNCHANGED exec
  <2>1. exec.pc \in {"send", "deliver"} /\ UNCHANGED prun
    BY <1>5, ExecKeeps DEF AtExec
  <2>2. CASE Cleared
    BY <1>5, <2>1, <2>2, ClearedStays DEF SettleRun, AtExec
  <2>3. CASE Begun(exec.r) /\ NoNewSend
    <3>1. on # "outbound" /\ ~PrepareDelivery /\ ~Drop
      BY <1>1, <2>1 DEF Stages, AtExec, PrepareDelivery, Drop
    <3>2. CASE DeliverStep
      BY <2>3, <3>1, <3>2, Calling, NothingSent DEF DeliverStep, Begun
    <3>3. CASE UNCHANGED callVars
      BY <1>5, <2>3, <3>3 DEF callVars, Begun, NoNewSend
    <3>4. CASE Deliver \/ Delivered
      BY <1>1, <1>5, <3>4 DEF Deliver, Delivered, ExecAt, AtExec, ExecShape
    <3>5. CASE Crash
      BY <1>5, <2>1, <3>5 DEF Crash, ExecIdle
    <3> QED BY <3>1, <3>2, <3>3, <3>4, <3>5, RowWriters DEF RecoverMessage, StartRecovery
  <2> QED BY <2>1, <2>2, <2>3 DEF IInv, CallPlaced
<1>6. CASE GoesOn /\ ~Regate /\ ~Deliver
  <2>1. exec'.pc \notin {"send", "deliver"}
    <3>1. CASE Delivered \/ SettleRun
      <4>1. CASE Delivered
        BY <1>1, <4>1 DEF Delivered, ExecShape
      <4>2. CASE SettleRun /\ SettledAs = "sent"
        BY <1>1, <4>2 DEF SettleRun, SettledAs, ExecAt, ExecShape
      <4>3. SettleRun => SettledAs = "sent"
        BY <1>6 DEF GoesOn, ListCandidates, SaveRunning, Gate, Judge, Delivered, PrepareDelivery,
           SettleRun, RunExpires, AtExec
      <4> QED BY <3>1, <4>1, <4>2, <4>3
    <3>2. CASE PrepareDelivery
      BY <1>6, <3>2, GoingOn DEF PrepareDelivery, AtExec, Looking, Holding
    <3>3. CASE ListCandidates \/ SaveRunning \/ Gate \/ Judge \/ \E c \in Candidate : RunExpires(c)
      BY <1>6, <3>3, GoingOn DEF ListCandidates, SaveRunning, Gate, Judge, RunExpires, AtExec,
         Looking, Holding
    <3> QED BY <1>6, <3>1, <3>2, <3>3 DEF GoesOn
  <2> QED BY <2>1
<1>7. ~(StartRun /\ Created # MaxRun)
  BY DEF StartRun, ExecIdle
<1>8. ~((Release /\ exec.pc # "idle") \/ StartRecovery \/ StartLoop \/ Crash)
  BY Released, Stopped
<1> QED BY <1>2, <1>3, <1>4, <1>5, <1>6, <1>7, <1>8, ExecSteps

LEMMA OutcomeKnown ==
  ASSUME IInv, Next
  PROVE  /\ exec'.pc = "deliver" /\ At(Holder, "done")' =>
              call'[Holder].receipt = attempt'[exec'.r] /\ Known(exec.r)'
         /\ exec'.pc = "settle" => exec'.verdict = attempt'[exec'.r] /\ Known(exec.r)'
<1>1. /\ Stages /\ exec \in ExecShape /\ ExecRun /\ CallTypeOK /\ Holder \in Worker
      /\ CallInv /\ \A r \in Run : RunTells(r)'
  BY TellsStep, ProactiveAssumption DEF IInv, Typed, ProcTypes, Books, CallInv
<1>2. CASE UNCHANGED exec /\ exec.pc \in {"deliver", "settle"}
  <2>1. exec.r \in Run /\ prun'[exec.r].status = "prepared"
    BY <1>1, <1>2, ExecKeeps DEF ExecRun, AtExec, Holding
  <2>2. on # "outbound" /\ ~PrepareDelivery /\ ~Drop /\ ~RecoverMessage /\ ~StartRecovery
    BY <1>1, <1>2 DEF Stages, AtExec, PrepareDelivery, Drop, RecoverMessage, StartRecovery
  <2>3. ~Deliver /\ ~Delivered /\ ~Crash
    <3>1. Deliver => exec.pc = "send"
      BY DEF Deliver, AtExec
    <3>2. Delivered => exec.pc = "deliver" /\ exec'.pc = "settle"
      BY <1>1 DEF Delivered, AtExec, ExecShape
    <3>3. Crash => exec'.pc \in {"idle", "recover"}
      BY Stopped
    <3> QED BY <1>2, <3>1, <3>2, <3>3
  <2>4. CASE DeliverStep
    <3>1. call[Holder].msg = exec.r /\ exec.pc = "deliver"
      BY <2>2, <2>4, Calling DEF AtExec
    <3>2. At(Holder, "done")' =>
            /\ call'[Holder].receipt = attempt'[exec.r]
            /\ attempt'[exec.r] \notin {"NONE", "PREPARED", "DISPATCHING"}
            /\ attempt'[exec.r] = "SENT" => exec.r \in history'
      BY <1>1, <2>4, <3>1, StepEffect DEF DeliverStep, At, InFlight
    <3>3. attempt'[exec.r] \in {"PREPARED", "DISPATCHING"} \cup Outcome
      BY <1>1, <2>1 DEF RunTells
    <3> QED BY <1>2, <3>1, <3>2, <3>3 DEF Known, Outcome
  <2>5. CASE UNCHANGED callVars
    BY <1>2, <2>5 DEF callVars, IInv, CallPlaced, Known, At, AtExec
  <2> QED BY <2>2, <2>3, <2>4, <2>5, RowWriters
<1>3. CASE Deliver
  BY <1>1, <1>3 DEF Deliver, ExecAt, Begin, At, CallTypeOK, ExecShape
<1>4. CASE Delivered
  <2>1. /\ exec' = [exec EXCEPT !.pc = "settle", !.verdict = call[Holder].receipt]
        /\ UNCHANGED <<attempt, history>> /\ AtExec("deliver") /\ At(Holder, "done")
    BY <1>4 DEF Delivered, Abandon
  <2>2. call[Holder].receipt = attempt[exec.r] /\ Known(exec.r)
    BY <2>1 DEF IInv, CallPlaced
  <2>3. exec'.pc = "settle" /\ exec'.verdict = call[Holder].receipt /\ exec'.r = exec.r
    BY <1>1, <2>1 DEF ExecShape
  <2> QED BY <2>1, <2>2, <2>3 DEF Known
<1>5. CASE RecoverPrepared
  <2>1. UNCHANGED <<attempt, history>>
    BY <1>5 DEF RecoverPrepared, callVars
  <2> QED BY <1>5, <2>1, Recovering DEF Known, Outcome
<1>6. CASE GoesOn /\ ~Deliver /\ ~Delivered
  <2>1. exec'.pc \notin {"deliver", "settle"}
    <3>1. CASE Regate
      BY <1>1, <3>1 DEF Regate, ExecShape
    <3>2. CASE SettleRun /\ SettledAs = "sent"
      BY <1>1, <3>2 DEF SettleRun, SettledAs, ExecAt, ExecShape
    <3>3. CASE PrepareDelivery
      BY <1>6, <3>3, GoingOn DEF PrepareDelivery, AtExec, Looking, Holding
    <3>4. CASE ListCandidates \/ SaveRunning \/ Gate \/ Judge \/ \E c \in Candidate : RunExpires(c)
      BY <1>6, <3>4, GoingOn DEF ListCandidates, SaveRunning, Gate, Judge, RunExpires, AtExec,
         Looking, Holding
    <3> QED BY <1>6, <3>1, <3>2, <3>3, <3>4 DEF GoesOn
  <2> QED BY <2>1
<1>7. CASE UNCHANGED exec /\ exec.pc \notin {"deliver", "settle"}
  BY <1>7
<1>8. CASE StartRun /\ Created # MaxRun
  <2>1. exec'.pc = "list"
    BY <1>8 DEF StartRun, ExecIdle
  <2> QED BY <2>1
<1>9. CASE (Release /\ exec.pc # "idle") \/ StartRecovery \/ StartLoop \/ Crash
  <2>1. exec'.pc \in {"idle", "recover"}
    BY <1>9, Released, Stopped
  <2> QED BY <2>1
<1> QED BY <1>2, <1>3, <1>4, <1>5, <1>6, <1>7, <1>8, <1>9, ExecSteps

LEMMA PlacedStep ==
  ASSUME IInv, Next
  PROVE  CallPlaced'
  BY PlacedCall, TodoBegun, MayDeliver, OutcomeKnown DEF CallPlaced, AtExec, Begun

(****************************************************************************)
(* A step keeps the sends and the memories on record                        *)
(****************************************************************************)

\* Only the run that holds the lock, and has passed the gate, sends.
LEMMA Sending ==
  ASSUME IInv, Next, NEW r \in Run, sends'[r] # sends[r]
  PROVE  /\ DeliverStep /\ AtExec("deliver") /\ r = exec.r /\ Cleared
         /\ attempt[r] = "DISPATCHING" /\ prun[r].status = "prepared"
<1>1. Stages /\ CallInv /\ Holder \in Worker /\ ExecRun
  BY ProactiveAssumption DEF IInv, Typed, Books
<1>2. DeliverStep
  BY RowsKept, RowPrepared, RowDropped
<1>3. r = call[Holder].msg
  BY <1>1, <1>2, StepEffect DEF DeliverStep, Confined, Run
<1>4. ~(Begun(r) /\ NoNewSend)
  BY <1>2, <1>3, NothingSent DEF DeliverStep
<1>5. AtExec("deliver") /\ r = exec.r
  BY <1>2, <1>3, <1>4, Calling
<1>6. attempt[r] = "DISPATCHING"
  BY <1>1, <1>2, <1>3, StepEffect DEF DeliverStep
<1>7. Cleared
  BY <1>4, <1>5 DEF IInv, CallPlaced, AtExec
<1> QED BY <1>1, <1>2, <1>5, <1>6, <1>7 DEF ExecRun, AtExec, Holding

LEMMA SendsRecordedStep ==
  ASSUME IInv, Next
  PROVE  SendsRecorded'
<1>1. SUFFICES ASSUME NEW r \in recent', attempt'[r] = "SENT"
               PROVE  r \in cool' \/ prun'[r].status = "prepared"
  BY DEF SendsRecorded
<1>2. SendsRecorded /\ r \in Run /\ CallInv /\ Holder \in Worker /\ Stages /\ ExecRun
  BY <1>1, TypedStep, ProactiveAssumption DEF IInv, Typed, TableTypes, Books
<1>3. CASE DeliverStep
  <2>1. UNCHANGED <<prun, cool>> /\ (r \in recent \/ sends'[r] # sends[r])
    BY <1>1, <1>3, Calling DEF DeliverStep
  <2>2. CASE sends'[r] # sends[r]
    BY <1>2, <2>1, <2>2, Sending
  <2>3. CASE r \in recent /\ attempt[r] = "SENT"
    BY <1>2, <2>1, <2>3 DEF SendsRecorded
  <2>4. CASE attempt[r] # "SENT"
    <3>1. r = call[Holder].msg
      BY <1>1, <1>2, <1>3, <2>4, StepEffect DEF DeliverStep, Confined, Run
    <3>2. AtExec("deliver") /\ r = exec.r
      BY <1>1, <1>3, <2>4, <3>1, Calling
    <3> QED BY <1>2, <2>1, <3>2 DEF ExecRun, AtExec, Holding
  <2> QED BY <2>1, <2>2, <2>3, <2>4
<1>4. CASE ~DeliverStep
  <2>1. r \in recent
    BY <1>1, <1>4, ClockWriters DEF IntervalEnds, SettleRun
  <2>2. attempt[r] = "SENT"
    <3>1. CASE Drop
      BY <1>1, <1>2, <3>1, RowDropped, Dropping
    <3>2. CASE PrepareDelivery /\ cand[exec.pick].status \in Open
      BY <1>1, <1>2, <3>2, RowPrepared, Preparing
    <3> QED BY <1>1, <1>4, <3>1, <3>2, RowsKept
  <2>3. CASE prun[r].status = "prepared"
    <3>1. CASE Drop /\ exec.r = r
      BY <2>2, <3>1, RowDropped
    <3>2. CASE SettleRun /\ exec.r = r
      <4>1. SettledAs = "sent"
        BY <2>2, <3>2, Settling
      <4> QED BY <3>2, <4>1 DEF SettleRun, SettledAs
    <3> QED BY <1>2, <2>3, <3>1, <3>2, PreparedStays
  <2>4. CASE r \in cool
    <3>1. r \in cool'
      BY <1>1, <1>4, <2>4, ClockWriters DEF IntervalEnds, SettleRun
    <3> QED BY <3>1
  <2> QED BY <1>2, <2>1, <2>2, <2>3, <2>4 DEF SendsRecorded
<1> QED BY <1>3, <1>4

LEMMA MemoryStep ==
  ASSUME IInv, Next
  PROVE  MemoryReconciled'
<1>1. SUFFICES ASSUME on' = "on", NEW r \in Run, prun'[r].status = "sent"
               PROVE  r \in remembered' \cup missed' \/ (exec'.pc = "remember" /\ exec'.r = r)
  BY DEF MemoryReconciled, AtExec
<1>2. MemoryReconciled /\ prun \in [Run -> RunShape] /\ Stages /\ exec \in ExecShape
  BY DEF IInv, Typed, TableTypes, ProcTypes
<1>3. CASE StartLoop
  <2>1. r \in Run /\ prun' = prun
    BY <1>3 DEF StartLoop
  <2>2. PICK ok \in BOOLEAN : /\ remembered' = remembered \cup Reconcile[ok]
                              /\ missed' = IF ok THEN missed ELSE missed \cup Unrecorded
    BY <1>3 DEF StartLoop
  <2>3. r \in remembered \/ r \in Unrecorded
    BY <1>1, <2>1 DEF Unrecorded
  <2>4. ok => Reconcile[ok] = Unrecorded
    BY DEF Reconcile
  <2> QED BY <2>2, <2>3, <2>4
<1>4. CASE ~StartLoop
  <2>1. on = "on"
    BY <1>1, <1>4, StageWriters
       DEF Boot, RecoverMessage, StartRecovery, RecoverRunning, RecoverPrepared, Crash
  <2>2. CASE SettleRun /\ exec.r = r
    <3>1. prun'[r].status = SettledAs
      BY <1>2, <2>2, Settling DEF RunShape
    <3>2. exec'.pc = "remember" /\ exec'.r = exec.r
      BY <1>1, <1>2, <2>2, <3>1 DEF SettleRun, SettledAs, ExecAt, ExecShape
    <3> QED BY <2>2, <3>2
  <2>3. CASE ~(SettleRun /\ exec.r = r)
    <3>1. prun[r].status = "sent"
      <4>1. CASE SaveRunning
        BY <1>1, <4>1, SavedRunning
      <4>2. CASE Conclude \/ RecoverRunning
        <5>1. PICK q \in Run, s \in {"skipped", "failed", "gated"} :
                prun' = [prun EXCEPT ![q].status = s]
          BY <4>2, EndsWithout
        <5> QED BY <1>1, <1>2, <5>1 DEF RunShape
      <4>3. CASE Drop
        BY <1>1, <1>2, <4>3, Dropping DEF RunShape
      <4>4. CASE SettleRun
        BY <1>1, <1>2, <2>3, <4>4, Settling DEF RunShape
      <4>5. CASE PrepareDelivery
        <5>1. CASE cand[exec.pick].status \in Open
          BY <1>1, <4>5, <5>1, Preparing
        <5>2. CASE cand[exec.pick].status \notin Open
          BY <1>1, <4>5, <5>2 DEF PrepareDelivery
        <5> QED BY <5>1, <5>2
      <4> QED BY <1>1, <4>1, <4>2, <4>3, <4>4, <4>5, RunWriters
    <3>2. r \in remembered \cup missed \/ (AtExec("remember") /\ exec.r = r)
      BY <1>2, <2>1, <3>1 DEF MemoryReconciled
    <3>3. ~Crash
      BY <1>1 DEF Crash
    <3>4. CASE RememberRun
      BY <3>2, <3>4 DEF RememberRun, Remember
    <3>5. CASE ~RememberRun
      <4>1. UNCHANGED <<remembered, missed>>
        BY <1>4, <3>3, <3>5, MemoryWriters
      <4>2. AtExec("remember") => UNCHANGED exec
        BY <1>4, <2>1, <3>3, <3>5, ExecWriters
           DEF AtExec, StartRun, ListCandidates, SaveRunning, Gate, Judge, Conclude,
               PrepareDelivery, Regate, Drop, Deliver, Delivered, SettleRun, RunExpires,
               StartRecovery, RecoverPrepared
      <4> QED BY <3>2, <4>1, <4>2 DEF AtExec
    <3> QED BY <3>4, <3>5
  <2> QED BY <2>2, <2>3
<1> QED BY <1>3, <1>4

LEMMA NextInv == IInv /\ [Next]_vars => IInv'
<1>1. ASSUME IInv, Next
      PROVE  IInv'
  BY <1>1, TypedStep, CallsStep, BooksStep, ReservationStep, PlacedStep, SendsRecordedStep,
     MemoryStep DEF IInv
<1>2. ASSUME IInv, UNCHANGED vars
      PROVE  IInv'
  <2> USE <1>2 DEF vars, chainVars, dbVars, chatVars, clockVars, procVars, histVars
  <2>1. Typed'
    <3>1. TableTypes' /\ ProcTypes'
      BY DEF IInv, Typed, TableTypes, ProcTypes, Numbered
    <3>2. Stages' /\ Carries'
      BY DEF IInv, Typed, Stages, Carries, AtExec
    <3> QED BY <3>1, <3>2 DEF Typed
  <2>2. CallInv'
    BY CallsUntouched DEF IInv
  <2>3. Books'
    BY DEF IInv, Books, RunTells, ExecRun, PreparedOnce, Numbered, AtExec, callVars
  <2>4. Reservation'
    BY DEF IInv, Reservation, ReservationHeld, Held, callVars
  <2>5. CallPlaced'
    BY DEF IInv, CallPlaced, Known, Cleared, Begun, NoNewSend, InFlight, At, AtExec, callVars
  <2>6. SendsRecorded' /\ MemoryReconciled'
    BY DEF IInv, SendsRecorded, MemoryReconciled, AtExec, callVars
  <2> QED BY <2>1, <2>2, <2>3, <2>4, <2>5, <2>6 DEF IInv
<1> QED BY <1>1, <1>2

(****************************************************************************)
(* The theorems                                                             *)
(****************************************************************************)

\* The inductive invariant holds in every state the chain reaches.
THEOREM Invariant == Spec => []IInv
  BY InitInv, NextInv, PTL DEF Spec

\* The pool, the runs, the loop and the holder of the run lock have their types.
THEOREM TypeCorrect == Spec => []TypeOK
<1>1. IInv => TypeOK
  <2> SUFFICES ASSUME IInv PROVE TypeOK
    OBVIOUS
  <2>1. CallTypeOK
    BY DEF IInv, CallInv
  <2>2. /\ cand \in [Candidate -> [status : CandStatus, tries : 0 .. 3]]
        /\ \A r \in Run : prun[r].status \in RunStatus /\ prun[r].snap \in 0 .. MaxUser
        /\ remembered \subseteq Run /\ recent \subseteq Run /\ cool \subseteq Run
        /\ answered \in 0 .. said /\ said \in 0 .. MaxUser
    BY DEF IInv, Typed, TableTypes, Copy, RunShape
  <2>3. /\ on \in {"off", "outbound", "proactive", "on"}
        /\ loop.pc \in {"off", "clear", "poll", "check", "expire", "run", "wait"}
        /\ exec.pc \in {"idle", "list", "expire", "gate", "judge", "conclude", "prepare",
                        "regate", "send", "drop", "deliver", "settle", "remember", "recover"}
    BY DEF IInv, Typed, ProcTypes, LoopShape, ExecShape, Looking, Holding
  <2> QED BY <2>1, <2>2, <2>3 DEF TypeOK
<1> QED BY <1>1, Invariant, PTL

\* A message that reached the user is that of a run that may not be given up.
LEMMA ArrivedHeld ==
  ASSUME IInv, NEW r \in Run
  PROVE  arrived[r] \in {0, 1} /\ (arrived[r] # 0 => Held(r) /\ prun[r].cand \in Candidate)
<1>1. RowMeans(r) /\ CallTypeOK /\ RunTells(r)
  BY DEF IInv, CallInv, Books, Run
<1>2. arrived[r] \in {0, 1}
  BY <1>1 DEF RowMeans, CallTypeOK, Run
<1>3. arrived[r] # 0 => attempt[r] \notin {"NONE", "BLOCKED", "PREPARED", "DROPPED", "FAILED"}
  BY <1>1 DEF RowMeans
<1>4. attempt[r] \in Status
  BY <1>1 DEF CallTypeOK, Run
<1> QED BY <1>1, <1>2, <1>3, <1>4 DEF Held, RunTells, Status

\* A candidate never reaches the user twice (proactive_candidates go back to the
\* pool after gates, failures and crashes).
THEOREM CandidateReachesOnce == Spec => []CandidateOnce
<1>1. IInv => CandidateOnce
  BY ArrivedHeld DEF CandidateOnce, IInv, Reservation
<1> QED BY <1>1, Invariant, PTL

\* What the record of a run says about the delivery is true.
THEOREM RecordsTruthful == Spec => []RunTruthful
<1>1. IInv => RunTruthful
  <2> SUFFICES ASSUME IInv, NEW r \in Run
               PROVE  /\ prun[r].status = "sent" =>
                           attempt[r] = "SENT" /\ r \in history /\ arrived[r] = 1
                      /\ prun[r].status \in {"running", "skipped", "gated", "failed"} =>
                           arrived[r] = 0
    BY DEF RunTruthful
  <2>1. RunTells(r) /\ RowMeans(r)
    BY DEF IInv, CallInv, Books, Run
  <2> QED BY <2>1 DEF RunTells, RowMeans
<1> QED BY <1>1, Invariant, PTL

\* A reserved candidate has a prepared run: none is locked out of the pool.
THEOREM NoOrphanReservation == Spec => []ReservationHeld
<1>1. IInv => ReservationHeld
  BY DEF IInv, Reservation
<1> QED BY <1>1, Invariant, PTL

\* Once the loop runs, every sent run is remembered or its write has failed.
THEOREM MemoriesReconciled == Spec => []MemoryReconciled
<1>1. IInv => MemoryReconciled
  BY DEF IInv
<1> QED BY <1>1, Invariant, PTL

\* A message goes out only into the conversation it was judged on
\* (_post_prepare_gate_reason behind the session lock).
THEOREM SentWhenAnswered == Spec => AnsweredFirst
<1>1. IInv /\ [Next]_vars
        => [\A r \in Run : sends'[r] # sends[r] => prun[r].snap = answered]_vars
  BY Sending DEF Cleared
<1> QED BY <1>1, Invariant, PTL DEF Spec, AnsweredFirst

\* No automatic run sends within the minimum interval after a message the user is
\* known to have got, also when the process died before that run was settled.
THEOREM IntervalRespected == Spec => IntervalKept
<1>1. IInv /\ [Next]_vars
        => [\A r \in Run : sends'[r] # sends[r] /\ ~prun[r].manual
              => \A q \in recent : attempt[q] # "SENT"]_vars
  <2> SUFFICES ASSUME IInv, Next, NEW r \in Run, sends'[r] # sends[r], ~prun[r].manual,
                      NEW q \in recent, attempt[q] = "SENT"
               PROVE  FALSE
    OBVIOUS
  <2>1. cool = {} /\ attempt[r] = "DISPATCHING" /\ prun[r].status = "prepared"
    BY Sending DEF Cleared
  <2>2. prun[q].status = "prepared" /\ q \in Run
    BY <2>1 DEF IInv, SendsRecorded, Typed, TableTypes
  <2> QED BY <2>1, <2>2 DEF IInv, Books, PreparedOnce
<1> QED BY <1>1, Invariant, PTL DEF Spec, IntervalKept

\* Runs, the second gate and recovery deliver as Delivery promises.
THEOREM Refinement == Spec => ImplementsDelivery
<1>1. Init => D!DInit
  BY CallInitRefines DEF Init
<1>2. IInv /\ [Next]_vars => [D!DNext]_(D!dvars)
  <2> SUFFICES ASSUME IInv, [Next]_vars
               PROVE  D!DNext \/ UNCHANGED D!dvars
    OBVIOUS
  <2>1. CallInv /\ Holder \in Worker
    BY ProactiveAssumption DEF IInv
  <2>2. CASE UNCHANGED callVars
    BY <2>2, Stutter DEF callVars
  <2>3. CASE PrepareDelivery
    <3>1. CASE cand[exec.pick].status \in Open
      <4>1. PrepareBatch(exec.r, {}) /\ exec.r \in Message
        BY <2>3, <3>1, Preparing DEF PrepareDelivery, Run
      <4> QED BY <2>1, <4>1, BatchRefines
    <3>2. CASE cand[exec.pick].status \notin Open
      BY <2>2, <2>3, <3>2 DEF PrepareDelivery
    <3> QED BY <3>1, <3>2
  <2>4. CASE Drop
    <3>1. DropPrepared(exec.r) /\ exec.r \in Message
      BY <2>4, Dropping DEF Drop, Run
    <3> QED BY <3>1, DropRefines
  <2>5. CASE DeliverStep
    BY <2>1, <2>5, StepRefines DEF DeliverStep
  <2>6. CASE Deliver \/ Delivered \/ RecoverMessage \/ StartRecovery \/ Crash
    BY <2>6, Stutter
       DEF Deliver, Delivered, RecoverMessage, StartRecovery, Crash, Begin, Abandon
  <2>7. CASE UNCHANGED vars
    BY <2>2, <2>7 DEF vars
  <2> QED BY <2>2, <2>3, <2>4, <2>5, <2>6, <2>7, RowWriters
<1> QED BY <1>1, <1>2, Invariant, PTL DEF Spec, ImplementsDelivery, D!DSpec
===============================================================================
