------------------------------- MODULE Proactive -------------------------------
(****************************************************************************)
(* Proactive messages of one private session: the candidate pool, the loop  *)
(* of ProactiveScheduler with its wake event, runs (the loop's and manual   *)
(* ones) that queue for the run lock, judge the candidates, reserve one,    *)
(* pass the gate again under the session lock and send through              *)
(* OutboundCall, the reactive chain that competes for that lock, crashes,   *)
(* and the recovery and reconciliation at start-up.                         *)
(*                                                                          *)
(* A run sends at most one message, under an id the run determines, so runs *)
(* are the messages; they are numbered as created.  The clock is abstract:  *)
(* back-off and quiet hours are choices, and the minimum interval after a   *)
(* send ends by a step of its own.  Model calls are reduced to a verdict.   *)
(****************************************************************************)
EXTENDS OutboundCall, Sequences, FiniteSets, FiniteSetsExt, SequencesExt

CONSTANTS Candidate, NoCandidate,
          Holder,     \* the worker: the run that is being delivered
          MaxUser,    \* bound: messages of the user
          MaxManual,  \* bound: manual runs
          MaxCrash    \* bound: process deaths

Run == Message
MaxRun == Cardinality(Message)  \* bound: runs

ASSUME ProactiveAssumption ==
  /\ NoCandidate \notin Candidate
  /\ MaxRun \in Nat /\ Message = 1 .. MaxRun
  /\ Worker = {Holder}
  /\ MaxUser \in Nat /\ MaxManual \in Nat /\ MaxCrash \in Nat

VARIABLES
  cand,       \* [Candidate -> [status, tries]]: proactive_candidates
  prun,       \* [Run -> [status, cand, manual, snap]]: proactive_runs
  remembered, \* runs whose outcome is in the long-term memory
  said,       \* messages of the user so far
  answered,   \* how many of them a reactive turn has consumed
  enabled,    \* the policy's proactive_enabled
  overdue,    \* candidates beyond expires_at
  recent,     \* runs that sent within the last minimum interval
  cool,       \* sent runs whose updated_at lies within the minimum interval
  on,         \* "off", "outbound", "proactive", "on"
  todo,       \* the runs start-up recovery has still to visit
  loop,       \* ProactiveScheduler._loop
  wake,       \* its event
  waiters,    \* the callers at the run lock, the holder first
  exec,       \* the run that holds the run lock
  noticing,   \* candidates stored by the console that has yet to call wake()
  missed,     \* runs whose memory write failed since the process started
  spent       \* [{"manual", "crash"} -> Nat]: what the bounds count

dbVars == <<cand, prun, remembered>>
chatVars == <<said, answered, enabled>>
clockVars == <<overdue, recent, cool>>
procVars == <<on, todo, loop, wake, waiters, exec, noticing>>
histVars == <<missed, spent>>
chainVars == <<dbVars, chatVars, clockVars, procVars, histVars>>
vars == <<callVars, chainVars>>

CandStatus == {"none", "pending", "deferred", "prepared", "sent", "skipped", "failed",
               "expired"}
RunStatus == {"none", "running", "prepared", "sent", "skipped", "gated", "failed",
              "unknown"}
Open == {"pending", "deferred"}

NoRun == [status |-> "none", cand |-> NoCandidate, manual |-> FALSE, snap |-> 0]
NoCopies == <<>>
LoopIdle == [pc |-> "off", dead |-> NoCopies, any |-> FALSE]
ExecIdle == [pc |-> "idle", by |-> "nobody", r |-> 0, policy |-> FALSE, snap |-> 0,
             pool |-> NoCopies, dead |-> NoCopies, pick |-> NoCandidate, verdict |-> "none",
             locked |-> FALSE]

Init ==
  /\ CallInit
  /\ cand = [c \in Candidate |-> [status |-> "none", tries |-> 0]]
  /\ prun = [r \in Run |-> NoRun]
  /\ remembered = {}
  /\ said = 0 /\ answered = 0 /\ enabled = TRUE
  /\ overdue = {} /\ recent = {} /\ cool = {}
  /\ on = "off" /\ todo = {} /\ loop = LoopIdle /\ wake = FALSE
  /\ waiters = <<>> /\ exec = ExecIdle /\ noticing = {}
  /\ missed = {}
  /\ spent = [k \in {"manual", "crash"} |-> 0]

-------------------------------------------------------------------------------
(* Helpers *)

Pending == answered < said
Created == Cardinality({r \in Run : prun[r].status # "none"})

\* list_proactive_candidates: copies of the open rows.
OpenRows == [c \in {x \in Candidate : cand[x].status \in Open} |-> cand[c]]
Only(copies, S) == [c \in S |-> copies[c]]
Dead(copies) == Only(copies, DOMAIN copies \cap overdue)
\* Which of the rest are due: a deferred one only when its back-off is over, or
\* when a manual run asks.
Pools(copies, manual) ==
  LET alive == DOMAIN copies \ overdue
      must == {c \in alive : manual \/ copies[c].status = "pending"} IN
  {Only(copies, S) : S \in {X \in SUBSET alive : must \subseteq X}}

Expired(copy) == [copy EXCEPT !.status = "expired"]
\* _defer_candidate: the third failure closes the candidate.
Deferred(copy, more) ==
  LET tries == copy.tries + more IN
  [status |-> IF tries >= 3 THEN "failed" ELSE "deferred", tries |-> tries]

\* Rows are overwritten by copies.
One(c, copy) == [x \in {c} |-> copy]
Overwrite(copies) ==
  cand' = [c \in Candidate |-> IF c \in DOMAIN copies THEN copies[c] ELSE cand[c]]

\* exec goes on at pc.
AtExec(pc) == exec.pc = pc
ExecAt(pc) == exec' = [exec EXCEPT !.pc = pc]

\* The run lock passes on; start-up recovery visits the next run.
Release ==
  IF exec.by = "boot"
  THEN exec' = [ExecIdle EXCEPT !.pc = "recover", !.by = "boot"] /\ UNCHANGED <<waiters, loop>>
  ELSE /\ exec' = ExecIdle
       /\ waiters' = Tail(waiters)
       /\ loop' = IF exec.by = "loop" THEN [LoopIdle EXCEPT !.pc = "wait"] ELSE loop

-------------------------------------------------------------------------------
(* The world: the user, the console, the clock, the reactive chain *)

UserSpeaks ==
  /\ on # "off" /\ said < MaxUser
  /\ said' = said + 1
  /\ UNCHANGED <<callVars, dbVars, answered, enabled, clockVars, procVars, histVars>>

\* A reactive turn consumes what is pending; it holds the session lock, too.
Answer ==
  /\ on # "off" /\ Pending /\ ~exec.locked
  /\ answered' = said
  /\ UNCHANGED <<callVars, dbVars, said, enabled, clockVars, procVars, histVars>>

\* update_policy, and the wake that follows it.
UpdatePolicy ==
  /\ on = "on"
  /\ enabled' = ~enabled
  /\ wake' = TRUE
  /\ UNCHANGED <<callVars, dbVars, said, answered, clockVars, on, todo, loop, waiters,
                 exec, noticing, histVars>>

\* submit_external_candidate commits; the console then wakes the loop.
Submit(c) ==
  /\ on = "on" /\ cand[c].status = "none"
  /\ cand' = [cand EXCEPT ![c].status = "pending"]
  /\ noticing' = noticing \cup {c}
  /\ UNCHANGED <<callVars, prun, remembered, chatVars, clockVars, on, todo, loop, wake,
                 waiters, exec, histVars>>

Notice(c) ==
  /\ c \in noticing
  /\ noticing' = noticing \ {c}
  /\ wake' = TRUE
  /\ UNCHANGED <<callVars, dbVars, chatVars, clockVars, on, todo, loop, waiters, exec,
                 histVars>>

Expires(c) ==
  /\ cand[c].status # "none" /\ c \notin overdue
  /\ overdue' = overdue \cup {c}
  /\ UNCHANGED <<callVars, dbVars, chatVars, recent, cool, procVars, histVars>>

\* The interval counted from the send ends, then the one from updated_at.
IntervalEnds(r) ==
  /\ r \in recent \cup cool
  /\ IF r \in recent THEN recent' = recent \ {r} /\ UNCHANGED cool
                     ELSE cool' = cool \ {r} /\ UNCHANGED recent
  /\ UNCHANGED <<callVars, dbVars, chatVars, overdue, procVars, histVars>>

-------------------------------------------------------------------------------
(* ProactiveScheduler._loop *)

ClearWake ==
  /\ loop.pc = "clear"
  /\ wake' = FALSE
  /\ loop' = [loop EXCEPT !.pc = "poll"]
  /\ UNCHANGED <<callVars, dbVars, chatVars, clockVars, on, todo, waiters, exec, noticing,
                 histVars>>

\* poll_due_feeds: an item of a feed may become a candidate.
PollFeed(c) ==
  /\ loop.pc = "poll" /\ cand[c].status = "none"
  /\ cand' = [cand EXCEPT ![c].status = "pending"]
  /\ UNCHANGED <<callVars, prun, remembered, chatVars, clockVars, procVars, histVars>>

ListPolicies ==
  /\ loop.pc = "poll"
  /\ loop' = [loop EXCEPT !.pc = IF enabled THEN "check" ELSE "wait"]
  /\ UNCHANGED <<callVars, dbVars, chatVars, clockVars, on, todo, wake, waiters, exec,
                 noticing, histVars>>

\* has_eligible_candidates, without the run lock.
CheckCandidates ==
  /\ loop.pc = "check"
  /\ \E pool \in Pools(OpenRows, FALSE) :
       loop' = [pc |-> "expire", dead |-> Dead(OpenRows), any |-> pool # NoCopies]
  /\ UNCHANGED <<callVars, dbVars, chatVars, clockVars, on, todo, wake, waiters, exec,
                 noticing, histVars>>

LoopExpires(c) ==
  /\ loop.pc = "expire" /\ c \in DOMAIN loop.dead
  /\ Overwrite(One(c, Expired(loop.dead[c])))
  /\ loop' = [loop EXCEPT !.dead = Only(@, DOMAIN @ \ {c})]
  /\ UNCHANGED <<callVars, prun, remembered, chatVars, clockVars, on, todo, wake, waiters,
                 exec, noticing, histVars>>

Checked ==
  /\ loop.pc = "expire" /\ loop.dead = NoCopies
  /\ IF loop.any
     THEN loop' = [loop EXCEPT !.pc = "run"] /\ waiters' = Append(waiters, "loop")
     ELSE loop' = [loop EXCEPT !.pc = "wait"] /\ UNCHANGED waiters
  /\ UNCHANGED <<callVars, dbVars, chatVars, clockVars, on, todo, wake, exec, noticing,
                 histVars>>

Awake ==
  /\ loop.pc = "wait" /\ wake
  /\ loop' = [LoopIdle EXCEPT !.pc = "clear"]
  /\ UNCHANGED <<callVars, dbVars, chatVars, clockVars, on, todo, wake, waiters, exec,
                 noticing, histVars>>

Timeout ==
  /\ loop.pc = "wait" /\ ~wake
  /\ loop' = [LoopIdle EXCEPT !.pc = "clear"]
  /\ UNCHANGED <<callVars, dbVars, chatVars, clockVars, on, todo, wake, waiters, exec,
                 noticing, histVars>>

-------------------------------------------------------------------------------
(* _run_proactive_locked *)

\* run-now of the console.
RunNow ==
  /\ on = "on" /\ spent["manual"] < MaxManual
  /\ spent' = [spent EXCEPT !["manual"] = @ + 1]
  /\ waiters' = Append(waiters, "user")
  /\ UNCHANGED <<callVars, dbVars, chatVars, clockVars, on, todo, loop, wake, exec,
                 noticing, missed>>

Manual == exec.by = "user"

\* The lock is taken; the policy and the newest message of the user are read.
StartRun ==
  /\ AtExec("idle") /\ waiters # <<>>
  /\ IF Created = MaxRun
     THEN /\ waiters' = Tail(waiters)
          /\ loop' = IF Head(waiters) = "loop" THEN [LoopIdle EXCEPT !.pc = "wait"] ELSE loop
          /\ UNCHANGED exec
     ELSE /\ exec' = [ExecIdle EXCEPT !.pc = "list", !.by = Head(waiters), !.r = Created + 1,
                                      !.policy = enabled, !.snap = said]
          /\ UNCHANGED <<waiters, loop>>
  /\ UNCHANGED <<callVars, dbVars, chatVars, clockVars, on, todo, wake, noticing, histVars>>

ListCandidates ==
  /\ AtExec("list")
  /\ \E pool \in Pools(OpenRows, Manual) :
       exec' = [exec EXCEPT !.pc = "expire", !.dead = Dead(OpenRows), !.pool = pool]
  /\ UNCHANGED <<callVars, dbVars, chatVars, clockVars, on, todo, loop, wake, waiters,
                 noticing, histVars>>

RunExpires(c) ==
  /\ AtExec("expire") /\ c \in DOMAIN exec.dead
  /\ Overwrite(One(c, Expired(exec.dead[c])))
  /\ exec' = [exec EXCEPT !.dead = Only(@, DOMAIN @ \ {c})]
  /\ UNCHANGED <<callVars, prun, remembered, chatVars, clockVars, on, todo, loop, wake,
                 waiters, noticing, histVars>>

SaveRunning ==
  /\ AtExec("expire") /\ exec.dead = NoCopies
  /\ prun' = [prun EXCEPT ![exec.r] = [NoRun EXCEPT !.status = "running", !.manual = Manual,
                                                    !.snap = exec.snap]]
  /\ ExecAt("gate")
  /\ UNCHANGED <<callVars, cand, remembered, chatVars, clockVars, on, todo, loop, wake,
                 waiters, noticing, histVars>>

\* _gate_reason.  "clock" stands for quiet_hours and for cooldown: a manual run
\* passes it, an automatic one fails it in quiet hours or within the interval.
Gates(policy, candidates, manual) ==
  CASE ~policy -> {"disabled"}
    [] policy /\ ~candidates -> {"no_candidates"}
    [] policy /\ candidates /\ Pending -> {"pending_user_message"}
    [] policy /\ candidates /\ ~Pending /\ manual -> {"none"}
    [] OTHER -> {"clock"} \cup (IF cool = {} THEN {"none"} ELSE {})

Gate ==
  /\ AtExec("gate")
  /\ \E reason \in Gates(exec.policy, exec.pool # NoCopies, Manual) :
       exec' = [exec EXCEPT !.pc = IF reason = "none" THEN "judge" ELSE "conclude",
                            !.verdict = reason]
  /\ UNCHANGED <<callVars, dbVars, chatVars, clockVars, on, todo, loop, wake, waiters,
                 noticing, histVars>>

\* Judgement, composition and the egress filter: one candidate to send, a refusal
\* (or a score below the threshold), or a failure.
Judge ==
  /\ AtExec("judge")
  /\ \/ \E c \in DOMAIN exec.pool : exec' = [exec EXCEPT !.pc = "prepare", !.pick = c]
     \/ \E v \in {"skipped", "failed"} : exec' = [exec EXCEPT !.pc = "conclude", !.verdict = v]
  /\ UNCHANGED <<callVars, dbVars, chatVars, clockVars, on, todo, loop, wake, waiters,
                 noticing, histVars>>

\* save_proactive_run_with_candidates: the run ends without a message, and every
\* candidate it looked at is written back.
Concluded(copy) ==
  CASE exec.verdict = "skipped" -> [copy EXCEPT !.status = "skipped"]
    [] exec.verdict = "failed" -> Deferred(copy, 1)
    [] exec.verdict \in {"disabled", "no_candidates"} -> copy
    [] OTHER -> Deferred(copy, 0)

Conclude ==
  /\ AtExec("conclude")
  /\ prun' = [prun EXCEPT ![exec.r].status =
                IF exec.verdict \in {"skipped", "failed"} THEN exec.verdict ELSE "gated"]
  /\ Overwrite([c \in DOMAIN exec.pool |-> Concluded(exec.pool[c])])
  /\ Release
  /\ UNCHANGED <<callVars, remembered, chatVars, clockVars, on, todo, wake, noticing,
                 histVars>>

Reserved == One(exec.pick, [exec.pool[exec.pick] EXCEPT !.status = "prepared"])

\* prepare_proactive_delivery: candidate, run and message in one transaction; a
\* candidate that left the pool raises, and the run stays as it is.
PrepareDelivery ==
  /\ AtExec("prepare")
  /\ IF cand[exec.pick].status \in Open
     THEN /\ PrepareBatch(exec.r, {})
          /\ prun' = [prun EXCEPT ![exec.r].status = "prepared", ![exec.r].cand = exec.pick]
          /\ Overwrite(Reserved)
          /\ exec' = [exec EXCEPT !.pc = "regate", !.pool = Reserved]
          /\ UNCHANGED <<loop, waiters>>
     ELSE UNCHANGED <<callVars, cand, prun>> /\ Release
  /\ UNCHANGED <<remembered, chatVars, clockVars, on, todo, wake, noticing, histVars>>

-------------------------------------------------------------------------------
(* Behind the session lock *)

\* Mutant: only the policy is looked at again.
RegatePolicy ==
  /\ AtExec("regate")
  /\ exec' = [exec EXCEPT !.locked = TRUE,
                       !.pc = IF enabled THEN "send" ELSE "drop"]
  /\ UNCHANGED <<callVars, dbVars, chatVars, clockVars, on, todo, loop, wake, waiters,
                 noticing, histVars>>

\* The session lock is taken (by recovery too, if nothing was sent yet).
\* _post_prepare_gate_reason: what the run was judged on still holds.
Regate ==
  /\ AtExec("regate")
  /\ \E reason \in IF said # prun[exec.r].snap THEN {"new_user_message"}
                   ELSE Gates(enabled, TRUE, prun[exec.r].manual) :
       exec' = [exec EXCEPT !.locked = TRUE,
                            !.pc = IF reason = "none" THEN "send" ELSE "drop"]
  /\ UNCHANGED <<callVars, dbVars, chatVars, clockVars, on, todo, loop, wake, waiters,
                 noticing, histVars>>

Settled == exec.pool[exec.pick]

\* _drop_prepared_proactive
Drop ==
  /\ AtExec("drop")
  /\ DropPrepared(exec.r)
  /\ prun' = [prun EXCEPT ![exec.r].status = "gated"]
  /\ Overwrite(One(exec.pick, Deferred(Settled, 0)))
  /\ Release
  /\ UNCHANGED <<remembered, chatVars, clockVars, on, todo, wake, noticing, histVars>>

Deliver ==
  /\ AtExec("send")
  /\ Begin(Holder, exec.r)
  /\ ExecAt("deliver")
  /\ UNCHANGED <<dbVars, chatVars, clockVars, on, todo, loop, wake, waiters, noticing,
                 histVars>>

\* One step inside deliver(); recovery's own outbound.recover() is here as well.
DeliverStep ==
  /\ Step(Holder)
  /\ recent' = recent \cup {r \in Run : sends'[r] # sends[r]}
  /\ UNCHANGED <<dbVars, chatVars, overdue, cool, procVars, histVars>>

Delivered ==
  /\ AtExec("deliver") /\ At(Holder, "done")
  /\ exec' = [exec EXCEPT !.pc = "settle", !.verdict = call[Holder].receipt]
  /\ Abandon(Holder)
  /\ UNCHANGED <<dbVars, chatVars, clockVars, on, todo, loop, wake, waiters, noticing,
                 histVars>>

\* Mutant: an uncertain outcome is treated as a failure.
OutcomesHopeful ==
  [sent |-> [Settled EXCEPT !.status = "sent"], unknown |-> Deferred(Settled, 1),
   failed |-> Deferred(Settled, 1)]

\* _settle_proactive_delivery: what becomes of the candidate.
Outcomes ==
  [sent |-> [Settled EXCEPT !.status = "sent"],
   unknown |-> [Settled EXCEPT !.status = "failed"],
   failed |-> Deferred(Settled, 1)]

SettleRun ==
  LET outcome == CASE exec.verdict = "SENT" -> "sent"
                   [] exec.verdict = "UNKNOWN" -> "unknown"
                   [] OTHER -> "failed" IN
  /\ AtExec("settle")
  /\ prun' = [prun EXCEPT ![exec.r].status = outcome]
  /\ Overwrite(One(exec.pick, Outcomes[outcome]))
  /\ IF outcome = "sent"
     THEN /\ cool' = cool \cup {exec.r}
          /\ ExecAt("remember")
          /\ UNCHANGED <<waiters, loop>>
     ELSE Release /\ UNCHANGED cool
  /\ UNCHANGED <<callVars, remembered, chatVars, overdue, recent, on, todo, wake, noticing,
                 histVars>>

\* try_record_chain_outcome: an error is logged and swallowed.
Remember(r, ok) ==
  /\ remembered' = IF ok THEN remembered \cup {r} ELSE remembered
  /\ missed' = IF ok THEN missed ELSE missed \cup {r}

RememberRun ==
  /\ AtExec("remember")
  /\ \E ok \in BOOLEAN : Remember(exec.r, ok)
  /\ Release
  /\ UNCHANGED <<callVars, cand, prun, chatVars, clockVars, on, todo, wake, noticing,
                 spent>>

-------------------------------------------------------------------------------
(* The process *)

\* Start-up visits the runs in the order they were created.
First == Min(todo)

Boot ==
  /\ on = "off"
  /\ on' = "outbound"
  /\ todo' = {r \in Run : attempt[r] \in {"DISPATCHING", "SENT"}}
  /\ UNCHANGED <<callVars, dbVars, chatVars, clockVars, loop, wake, waiters, exec, noticing,
                 histVars>>

\* outbound.recover(): prepared proactive messages are left to this chain.
RecoverMessage ==
  /\ on = "outbound" /\ todo # {}
  /\ Begin(Holder, First)
  /\ todo' = todo \ {First}
  /\ UNCHANGED <<dbVars, chatVars, clockVars, on, loop, wake, waiters, exec, noticing,
                 histVars>>

\* list_recoverable_proactive_runs
Unfinished == {r \in Run : prun[r].status \in {"running", "prepared"}}

StartRecovery ==
  /\ on = "outbound" /\ todo = {} /\ Free(Holder)
  /\ on' = "proactive"
  /\ todo' = Unfinished
  /\ exec' = [ExecIdle EXCEPT !.pc = "recover", !.by = "boot"]
  /\ Abandon(Holder)
  /\ UNCHANGED <<dbVars, chatVars, clockVars, loop, wake, waiters, noticing, histVars>>

\* A run that never got to its message failed, and its candidates stay open.
RecoverRunning ==
  /\ AtExec("recover") /\ todo # {}
  /\ prun[First].status = "running"
  /\ prun' = [prun EXCEPT ![First].status = "failed"]
  /\ todo' = todo \ {First}
  /\ UNCHANGED <<callVars, cand, remembered, chatVars, clockVars, on, loop, wake, waiters,
                 exec, noticing, histVars>>

\* _recover_prepared_proactive: gate again, or take up the receipt.
RecoverPrepared ==
  LET r == First
      c == prun[r].cand IN
  /\ AtExec("recover") /\ todo # {} /\ prun[r].status = "prepared"
  /\ exec' = [ExecIdle EXCEPT !.by = "boot", !.r = r, !.pick = c, !.pool = One(c, cand[c]),
                !.verdict = attempt[r],
                !.pc = CASE attempt[r] = "PREPARED" -> "regate"
                         [] attempt[r] \in {"DISPATCHING", "SENT"} -> "send"
                         [] OTHER -> "settle"]
  /\ todo' = todo \ {First}
  /\ UNCHANGED <<callVars, dbVars, chatVars, clockVars, on, loop, wake, waiters, noticing,
                 histVars>>

\* Mutant: nothing is reconciled.
ReconcileNothing == [ok \in BOOLEAN |-> {}]

\* _reconcile_sent_proactive_memories: the sent runs without a memory; a write
\* that fails ends it.
Unrecorded == {r \in Run : prun[r].status = "sent" /\ r \notin remembered}
Reconcile ==
  [ok \in BOOLEAN |-> IF ok THEN Unrecorded ELSE {}]

StartLoop ==
  /\ AtExec("recover") /\ todo = {}
  /\ \E ok \in BOOLEAN :
       /\ remembered' = remembered \cup Reconcile[ok]
       /\ missed' = IF ok THEN missed ELSE missed \cup Unrecorded
  /\ on' = "on"
  /\ exec' = ExecIdle
  /\ loop' = [LoopIdle EXCEPT !.pc = "clear"]
  /\ UNCHANGED <<callVars, cand, prun, chatVars, clockVars, todo, wake, waiters, noticing,
                 spent>>

Crash ==
  /\ on # "off" /\ spent["crash"] < MaxCrash
  /\ spent' = [spent EXCEPT !["crash"] = @ + 1]
  /\ on' = "off" /\ todo' = {} /\ loop' = LoopIdle /\ wake' = FALSE
  /\ waiters' = <<>> /\ exec' = ExecIdle /\ noticing' = {} /\ missed' = {}
  /\ Abandon(Holder)
  /\ UNCHANGED <<dbVars, chatVars, clockVars>>

-------------------------------------------------------------------------------
World ==
  \/ UserSpeaks \/ Answer \/ UpdatePolicy \/ RunNow
  \/ \E c \in Candidate : Submit(c) \/ Expires(c)
  \/ \E r \in Run : IntervalEnds(r)

LoopStep ==
  \/ ClearWake \/ ListPolicies \/ CheckCandidates \/ Checked \/ Awake
  \/ \E c \in Candidate : LoopExpires(c)

RunStep ==
  \/ StartRun \/ ListCandidates \/ SaveRunning \/ Gate \/ Judge \/ Conclude
  \/ PrepareDelivery \/ Regate \/ Drop \/ Deliver \/ DeliverStep \/ Delivered \/ SettleRun
  \/ RememberRun
  \/ \E c \in Candidate : RunExpires(c)

StartStep ==
  Boot \/ RecoverMessage \/ StartRecovery \/ RecoverRunning \/ RecoverPrepared \/ StartLoop

Next ==
  \/ World \/ LoopStep \/ RunStep \/ StartStep \/ Crash \/ Timeout
  \/ \E c \in Candidate : PollFeed(c) \/ Notice(c)

\* Coroutines that can run do run, and the process is restarted.  Nothing relies
\* on the loop's time-out.
Fairness ==
  /\ WF_vars(LoopStep) /\ WF_vars(RunStep) /\ WF_vars(StartStep)
  /\ WF_vars(\E c \in Candidate : Notice(c))

Spec == Init /\ [][Next]_vars
FairSpec == Spec /\ Fairness

-------------------------------------------------------------------------------
TypeOK ==
  /\ CallTypeOK
  /\ cand \in [Candidate -> [status : CandStatus, tries : 0 .. 3]]
  /\ \A r \in Run : prun[r].status \in RunStatus /\ prun[r].snap \in 0 .. MaxUser
  /\ remembered \subseteq Run /\ recent \subseteq Run /\ cool \subseteq Run
  /\ answered \in 0 .. said /\ said \in 0 .. MaxUser
  /\ on \in {"off", "outbound", "proactive", "on"}
  /\ loop.pc \in {"off", "clear", "poll", "check", "expire", "run", "wait"}
  /\ exec.pc \in {"idle", "list", "expire", "gate", "judge", "conclude", "prepare",
                  "regate", "send", "drop", "deliver", "settle", "remember", "recover"}

\* A candidate never reaches the user twice, although it goes back to the pool
\* after gates, failures and crashes, and further runs may pick it.
CandidateOnce ==
  \A q, r \in Run :
    /\ arrived[r] <= 1
    /\ prun[q].cand = prun[r].cand /\ arrived[q] > 0 /\ arrived[r] > 0 => q = r

\* The record of a run that has ended, or that recovery may give up, is true: a
\* sent run was delivered and is in the history, and no other run but one of
\* unknown outcome reached the user.
RunTruthful ==
  \A r \in Run :
    /\ prun[r].status = "sent" => attempt[r] = "SENT" /\ r \in history /\ arrived[r] = 1
    /\ prun[r].status \in {"running", "skipped", "gated", "failed"} => arrived[r] = 0

\* A candidate is only reserved while a prepared run holds it: no crash or gate
\* leaves it locked out of the pool.
ReservationHeld ==
  \A c \in Candidate :
    cand[c].status = "prepared" => \E r \in Run : prun[r].status = "prepared" /\ prun[r].cand = c

\* A message goes out only into the conversation it was judged on: the user's
\* messages it saw have been answered and no later one has been, however long the
\* run waited for the session lock or for a restart.
AnsweredFirst ==
  [][\A r \in Run : sends'[r] # sends[r] => prun[r].snap = answered]_vars

\* No automatic run sends within the minimum interval after a message the user
\* is known to have got, also when the process died before the run was settled.
IntervalKept ==
  [][\A r \in Run : sends'[r] # sends[r] /\ ~prun[r].manual
       => \A q \in recent : attempt[q] # "SENT"]_vars

\* Once the loop runs, every sent run is in the long-term memory, unless its
\* write failed since the process started: start-up closes the gap a crash
\* left between the settled run and its memory.
MemoryReconciled ==
  on = "on" => \A r \in Run :
    prun[r].status = "sent"
      => r \in remembered \cup missed \/ (AtExec("remember") /\ exec.r = r)

\* A prepared run comes to an end, through crashes and the second gate.
PreparedEnds ==
  \A r \in Run : prun[r].status = "prepared" ~> prun[r].status \notin {"none", "running",
                                                                      "prepared"}

\* The loop's event is cleared before its pass, so a candidate the console stored
\* is looked at without waiting for the time-out, while the policy is on.
CandidateNoticed ==
  \A c \in Candidate :
    c \in noticing /\ enabled ~> loop.pc = "check" \/ ~enabled \/ on = "off"

\* "The final states of run and candidate are committed together" (docstring of
\* _settle_proactive_delivery): a delivered candidate stays delivered.
DeliveredStays ==
  [][\A c \in Candidate : cand[c].status = "sent" => cand'[c].status = "sent"]_vars
===============================================================================
