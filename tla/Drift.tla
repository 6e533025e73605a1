--------------------------------- MODULE Drift ---------------------------------
(***************************************************************************)
(* The drift runs of one private chat: a background job that turns skipped *)
(* feed items into an aggregate, or the chat into a topic, and puts the    *)
(* result into the pool of proactive candidates.  The run is checkpointed; *)
(* a run that failed or was cut off is PAUSED, and a later run continues   *)
(* it a bounded number of times.  One coroutine runs at a time (run lock), *)
(* and judging a candidate takes the same lock; storing a message takes    *)
(* neither that lock nor the session's.                                    *)
(*                                                                         *)
(* An open candidate that is due keeps an automatic run from starting; one *)
(* that is deferred does not, so open candidates restrict nothing here.    *)
(* Deleting the session, which takes rows and candidates, is left out.     *)
(***************************************************************************)
EXTENDS Integers, Sequences, FiniteSets, SequencesExt

CONSTANTS Items,         \* feed items 1..Items, a greater one published later
          Fact,          \* ids of facts and memories, none of them a message's
          MaxResumes,    \* settings.drift.max_auto_resumes
          Window,        \* the candidates a run reads (1000)
          MaxRuns, MaxMessages, MaxClears, MaxFaults

VARIABLES up, enabled,
          messages,      \* user messages stored so far
          last,          \* the newest one the chat still shows, 0 if none
          pending,       \* some message waits for its turn
          idle, rested,  \* idle_hours and minimum_interval_hours have gone by
          item,          \* state of each feed item in the pool
          pool,          \* what drift added to the pool, oldest first
          runs,          \* rows of drift_runs, oldest first
          pc, me,        \* the coroutine and its copy of the run
          seen, draft,   \* the skipped items it read, the candidate it made
          auto,          \* automatic continuations since the user or a result
          clears, faults

chat == <<messages, last, pending, idle>>
work == <<pc, me, seen, draft>>
budget == <<clears, faults>>
vars == <<up, enabled, chat, rested, item, pool, runs, work, auto, budget>>

Item == 1..Items
Aggregation == "candidate_aggregation"
Topic == "conversation_topic_preparation"
NoRow == [status |-> "none", stage |-> "none", activity |-> "none", snap |-> 0, count |-> 0, refs |-> {}]
NoDraft == [kind |-> "none", refs |-> {}, parents |-> {}]

Init == /\ up = TRUE /\ enabled = TRUE
        /\ messages = 1 /\ last = 1 /\ pending = FALSE /\ idle = FALSE /\ rested = TRUE
        /\ item = [i \in Item |-> "absent"] /\ pool = <<>> /\ runs = <<>>
        /\ pc = "idle" /\ me = NoRow /\ seen = {} /\ draft = NoDraft
        /\ auto = 0 /\ clears = 0 /\ faults = 0

---------------------------------------------------------------------------
(* The chat, the clock and the pool around the runs.                       *)

Ingest == /\ up /\ messages < MaxMessages
          /\ messages' = messages + 1 /\ last' = messages + 1
          /\ pending' = TRUE /\ idle' = FALSE
          /\ UNCHANGED <<up, enabled, rested, item, pool, runs, work, auto, budget>>

Answered == /\ up /\ pending /\ pending' = FALSE
            /\ UNCHANGED <<up, enabled, messages, last, idle, rested, item, pool, runs, work, auto, budget>>

(* clear_chat holds the lock of the session and takes the message out of   *)
(* the rows, though not the cited messages.                                *)
ClearChat == /\ up /\ pc # "complete" /\ clears < MaxClears
             /\ last' = 0 /\ pending' = FALSE /\ clears' = clears + 1
             /\ runs' = [r \in DOMAIN runs |-> [runs[r] EXCEPT !.snap = 0]]
             /\ UNCHANGED <<up, enabled, messages, idle, rested, item, pool, work, auto, faults>>

Hours == /\ \/ ~idle /\ idle' = TRUE /\ UNCHANGED rested
            \/ ~rested /\ rested' = TRUE /\ UNCHANGED idle
         /\ UNCHANGED <<up, enabled, messages, last, pending, item, pool, runs, work, auto, budget>>

UpdatePolicy == /\ up /\ enabled' = ~enabled
                /\ UNCHANGED <<up, chat, rested, item, pool, runs, work, auto, budget>>

Polled(i) == /\ up /\ item[i] = "absent" /\ item' = [item EXCEPT ![i] = "pending"]
             /\ UNCHANGED <<up, enabled, chat, rested, pool, runs, work, auto, budget>>

Judged(i) == /\ up /\ pc = "idle" /\ item[i] = "pending"
             /\ item' = [item EXCEPT ![i] = "skipped"]
             /\ UNCHANGED <<up, enabled, chat, rested, pool, runs, work, auto, budget>>

---------------------------------------------------------------------------
(* The candidates are read newest publication first; what drift made has   *)
(* no publication date and therefore comes after every feed item.          *)
Listed == LET items == SetToSortSeq({i \in Item : item[i] # "absent"}, LAMBDA a, b : a > b)
              all == [k \in DOMAIN items |-> [kind |-> "rss", refs |-> {}, parents |-> {items[k]}]]
                       \o Reverse(pool)
          IN SubSeq(all, 1, IF Len(all) < Window THEN Len(all) ELSE Window)

Consumed == UNION {Listed[k].parents : k \in {l \in DOMAIN Listed : Listed[l].kind = Aggregation}}

Skipped == {i \in Item : item[i] = "skipped"
                           /\ \E k \in DOMAIN Listed : Listed[k].kind = "rss" /\ Listed[k].parents = {i}}
             \ Consumed

Latest == IF runs = <<>> THEN NoRow ELSE runs[Len(runs)]

Allowed(force) == /\ enabled /\ ~pending
                  /\ force \/ last = 0 \/ idle
                  /\ force \/ ~(Latest.status = "paused" /\ Latest.count >= MaxResumes)
                  /\ force \/ ~(Latest.status \in {"completed", "paused"} /\ ~rested)

(* The activity of a paused run is taken up if it still has something to   *)
(* work on.                                                                *)
Resumed == IF /\ Latest.status = "paused"
              /\ \/ Latest.activity = Aggregation /\ Cardinality(Skipped) >= 2
                 \/ Latest.activity = Topic /\ (last # 0 \/ Fact # {})
           THEN Latest.activity ELSE "none"

Count(force) == IF Latest.status # "paused" THEN 0
                ELSE IF force /\ Latest.count >= MaxResumes THEN 0 ELSE Latest.count

Begin(force) ==
  /\ up /\ pc = "idle" /\ Len(runs) < MaxRuns /\ Allowed(force)
  /\ me' = [status |-> "running", stage |-> IF Resumed = "none" THEN "selecting" ELSE "executing",
            activity |-> Resumed, snap |-> last, count |-> Count(force), refs |-> {}]
  /\ runs' = Append(runs, me') /\ seen' = Skipped /\ pc' = "select"
  /\ auto' = IF ~force /\ Latest.status = "paused" THEN auto + 1 ELSE 0
  /\ UNCHANGED <<up, enabled, chat, rested, item, pool, draft, budget>>

(* The coroutine's run is the newest row; saving it writes every column    *)
(* from the coroutine's copy.                                              *)
Saved(row) == me' = row /\ runs' = [runs EXCEPT ![Len(runs)] = row]
Ends == pc' = "idle" /\ seen' = {} /\ draft' = NoDraft

SelectIdle == /\ up /\ pc = "select" /\ me.activity = "none"
              /\ Saved([me EXCEPT !.status = "completed", !.stage = "finished"])
              /\ Ends /\ rested' = FALSE
              /\ UNCHANGED <<up, enabled, chat, item, pool, auto, budget>>

Select(a) == /\ up /\ pc = "select" /\ me.activity \in {"none", a}
             /\ Saved([me EXCEPT !.activity = a, !.stage = "executing"]) /\ pc' = "activity"
             /\ UNCHANGED <<up, enabled, chat, rested, item, pool, seen, draft, auto, budget>>

(* What validation lets through: two or more of the skipped items that were*)
(* read, or cited messages, facts and memories that were read.             *)
Valid(c) == \/ /\ c.kind = Aggregation /\ c.refs = {}
               /\ c.parents \subseteq seen /\ Cardinality(c.parents) >= 2
            \/ /\ c.kind = Topic /\ c.parents = {}
               /\ c.refs # {} /\ c.refs \subseteq ({me.snap} \ {0}) \cup Fact

Candidates == [kind : {me.activity}, refs : SUBSET (({me.snap} \ {0}) \cup Fact), parents : SUBSET seen]

Make(c) == /\ up /\ pc = "activity" /\ Valid(c)
           /\ Saved([me EXCEPT !.stage = "committing", !.refs = c.refs])
           /\ draft' = c /\ pc' = "commit"
           /\ UNCHANGED <<up, enabled, chat, rested, item, pool, seen, auto, budget>>

Stale == last # me.snap \/ pending

Gate == /\ up /\ pc = "commit" /\ (Stale \/ ~enabled)
        /\ Saved([me EXCEPT !.status = "gated", !.stage = "finished"]) /\ Ends
        /\ UNCHANGED <<up, enabled, chat, rested, item, pool, auto, budget>>

Checked == /\ up /\ pc = "commit" /\ ~Stale /\ enabled /\ pc' = "complete"
           /\ UNCHANGED <<up, enabled, chat, rested, item, pool, runs, me, seen, draft, auto, budget>>

(* The key of a candidate is what it is made from: the same again adds none.*)
Complete == /\ up /\ pc = "complete" /\ runs[Len(runs)].status = "running"
            /\ Saved([me EXCEPT !.status = "completed", !.stage = "finished"])
            /\ pool' = IF draft \in Range(pool) THEN pool ELSE Append(pool, draft)
            /\ Ends /\ rested' = FALSE
            /\ UNCHANGED <<up, enabled, chat, item, auto, budget>>

More(count) == IF count + 1 > MaxResumes THEN MaxResumes ELSE count + 1

(* A model call or a write fails, or the answer is not valid.              *)
Pause == /\ up /\ pc # "idle" /\ faults < MaxFaults
         /\ Saved([me EXCEPT !.status = "paused", !.count = More(me.count)]) /\ Ends
         /\ rested' = FALSE /\ faults' = faults + 1
         /\ UNCHANGED <<up, enabled, chat, item, pool, auto, clears>>

Crash == /\ up /\ faults < MaxFaults /\ up' = FALSE /\ faults' = faults + 1
         /\ Ends /\ me' = NoRow
         /\ UNCHANGED <<enabled, chat, rested, item, pool, runs, auto, clears>>

(* Mutant: a run that a restart cut off does not use up the budget.        *)
Uncounted(row) == [row EXCEPT !.status = "paused"]

Interrupted(row) == [row EXCEPT !.status = "paused", !.count = More(row.count)]

(* DriftScheduler.start: every row that still runs becomes a pause.        *)
Recover == /\ ~up /\ up' = TRUE
           /\ runs' = [r \in DOMAIN runs |-> IF runs[r].status = "running" THEN Interrupted(runs[r]) ELSE runs[r]]
           /\ rested' = (rested /\ \A r \in DOMAIN runs : runs[r].status # "running")
           /\ UNCHANGED <<enabled, chat, item, pool, work, auto, budget>>

Next == \/ Ingest \/ Answered \/ ClearChat \/ Hours \/ UpdatePolicy
        \/ \E i \in Item : Polled(i) \/ Judged(i)
        \/ \E force \in BOOLEAN : Begin(force)
        \/ SelectIdle \/ \E a \in {Aggregation, Topic} : Select(a)
        \/ \E c \in Candidates : Make(c)
        \/ Gate \/ Checked \/ Complete \/ Pause \/ Crash \/ Recover

Spec == Init /\ [][Next]_vars

---------------------------------------------------------------------------
(* Between two acts of the user, or two results, a paused run is continued *)
(* at most MaxResumes times, whether it fails by itself or is cut off by   *)
(* restarts of the process (the limit in _run_drift_locked).               *)
BudgetKept == auto <= MaxResumes

(* No feed item is a parent of two aggregates.                             *)
AggregatedOnce ==
  \A p, q \in DOMAIN pool : p # q => pool[p].parents \cap pool[q].parents = {}

(* A result goes into the pool only if no message came after the snapshot. *)
FreshResult == [][pool' # pool => last = me.snap /\ ~pending]_vars

(* After the chat was cleared no run refers to a message that is gone.     *)
ReferencesGone == \A r \in DOMAIN runs : last = 0 /\ clears > 0 => runs[r].snap = 0

=============================================================================
