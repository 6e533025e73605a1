-------------------------------- MODULE ToolTurn --------------------------------
(***************************************************************************)
(* The tool loop of one turn: the model answers with tool calls, each call *)
(* is audited, executed and shown to the guard, and the loop goes round    *)
(* until there is a reply or something stops it.  A turn of which nothing  *)
(* was sent can be retried by hand: the loop is then run anew, in a context *)
(* that knows nothing of the run before.  The tools are one of each        *)
(* kind: load_skill, a plain tool, a terminal one, and a tool of the skill  *)
(* qq-group-management, which changes a QQ group through NapCat.  The guard *)
(* is the circuit breaker, whose budget of time is the loop's.              *)
(*                                                                         *)
(* Roles may change in the group at any time.  NapCat is external: a        *)
(* request may be carried out or not, whatever comes back, except that it   *)
(* says "ok" only of what it did.                                          *)
(***************************************************************************)
EXTENDS Integers, Sequences

CONSTANTS MaxRounds, MaxCalls,          \* settings.tools
          Repetitions, MaxCycle, MaxFailures,  \* of the circuit breaker
          Result,                       \* what the plain tool may find
          MaxRoleChanges, MaxLoops      \* bounds: role changes, runs of the loop

VARIABLES at, round, todo, made,   \* the loop: place, round, calls left, calls begun
          loaded, claimed,         \* of the context: the skill, its one action
          result,                  \* of the call under way
          late, ended,             \* the budget has run out; how the run ended
          failures, history,       \* of the guard
          seen,                    \* every observation, oldest first
          audit,                   \* the status of every audited call
          role, held,              \* the roles in the group, as read by the call
          tries, acted,            \* the run of the loop; what each did to the group
          changes

loop == <<at, round, todo, made>>
guard == <<failures, history, seen>>
group == <<role, held, tries, acted, changes>>
vars == <<loop, loaded, claimed, result, late, ended, guard, audit, group>>

Tool == {"load_skill", "look", "reply", "manage"}
Member == {"actor", "bot", "target"}
Rank == 1..3                              \* member, admin, owner
NoResult == [ok |-> FALSE, value |-> 0]

Init == /\ at = "ask" /\ round = 0 /\ todo = <<>> /\ made = 0
        /\ loaded = FALSE /\ claimed = FALSE /\ result = NoResult
        /\ late = FALSE /\ ended = ""
        /\ failures = 0 /\ history = <<>> /\ seen = <<>> /\ audit = <<>>
        /\ role = [m \in Member |-> IF m = "target" THEN 1 ELSE 2]
        /\ held = [m \in Member |-> 0] /\ changes = 0
        /\ tries = 1 /\ acted = [k \in 1..MaxLoops |-> 0]

(* The tools of a skill are offered once it is loaded.                     *)
Exposed == IF loaded THEN Tool ELSE Tool \ {"manage"}
Terminal(tool) == tool = "reply"

Ends(how) == at' = "end" /\ ended' = how
Goes(to) == at' = to /\ UNCHANGED ended

---------------------------------------------------------------------------
(* The group and the clock.                                                *)

RoleChange(m, r) == /\ at # "end" /\ changes < MaxRoleChanges /\ role[m] # r
                    /\ role' = [role EXCEPT ![m] = r] /\ changes' = changes + 1
                    /\ UNCHANGED <<loop, loaded, claimed, result, late, ended, guard, audit, held, tries, acted>>

Deadline == /\ at # "end" /\ ~late /\ late' = TRUE
            /\ UNCHANGED <<loop, loaded, claimed, result, ended, guard, audit, group>>

---------------------------------------------------------------------------
(* One round: a text ends the run, calls are taken one after another.      *)

Reply == /\ at = "ask" /\ round < MaxRounds /\ ~late /\ Ends("draft")
         /\ UNCHANGED <<round, todo, made, loaded, claimed, result, late, guard, audit, group>>

Refused(calls) == \/ \E k \in DOMAIN calls : calls[k] \notin Exposed
                  \/ Len(calls) > 1 /\ \E k \in DOMAIN calls : Terminal(calls[k])

Respond(calls) ==
  /\ at = "ask" /\ round < MaxRounds /\ ~late /\ round' = round + 1
  /\ IF Refused(calls) THEN Ends("invalid") /\ UNCHANGED todo ELSE Goes("call") /\ todo' = calls
  /\ UNCHANGED <<made, loaded, claimed, result, late, guard, audit, group>>

Exhausted == /\ \/ at = "ask" /\ round = MaxRounds
                \/ at = "call" /\ ~late /\ todo # <<>> /\ made = MaxCalls
             /\ Ends("limit")
             /\ UNCHANGED <<round, todo, made, loaded, claimed, result, late, guard, audit, group>>

NextRound == /\ at = "call" /\ todo = <<>> /\ Goes("ask")
             /\ UNCHANGED <<round, todo, made, loaded, claimed, result, late, guard, audit, group>>

(* The call is in the audit before it is executed.                         *)
Begin == /\ at = "call" /\ todo # <<>> /\ ~late /\ made < MaxCalls
         /\ made' = made + 1 /\ audit' = Append(audit, "running") /\ Goes("execute")
         /\ UNCHANGED <<round, todo, loaded, claimed, result, late, guard, group>>

BadArguments == /\ at = "call" /\ todo # <<>> /\ ~late /\ made < MaxCalls
                /\ made' = made + 1 /\ audit' = Append(audit, "failed")
                /\ result' = NoResult /\ Goes("observe")
                /\ UNCHANGED <<round, todo, loaded, claimed, late, guard, group>>

---------------------------------------------------------------------------
(* Execution.  A handler that swallows the cancellation goes on after the  *)
(* budget is gone.                                                         *)

Executing(tool) == at = "execute" /\ Head(todo) = tool

Returned(ok, value) == result' = [ok |-> ok, value |-> value] /\ Goes("store")

Plain(tool, r) == /\ tool \in {"look", "reply"} /\ Executing(tool) /\ Returned(TRUE, r)
                  /\ UNCHANGED <<round, todo, made, loaded, claimed, late, guard, audit, group>>

Raised == /\ at = "execute" /\ Head(todo) # "reply" /\ Returned(FALSE, 0)
          /\ UNCHANGED <<round, todo, made, loaded, claimed, late, guard, audit, group>>

(* Loading the skill and using it both ask NapCat for the roles of the     *)
(* sender and of the bot, neither of whom may be a mere member.            *)
RoleNow(m) == role[m]                     \* inspect_member, no_cache
Authorized == RoleNow("actor") > 1 /\ RoleNow("bot") > 1

LoadSkill == /\ Executing("load_skill") /\ Authorized
             /\ Returned(TRUE, 0) /\ loaded' = TRUE
             /\ UNCHANGED <<round, todo, made, claimed, late, guard, audit, group>>

Authorize == /\ Executing("manage") /\ Authorized
             /\ held' = [held EXCEPT !["actor"] = RoleNow("actor"), !["bot"] = RoleNow("bot")]
             /\ Goes("rank")
             /\ UNCHANGED <<round, todo, made, loaded, claimed, result, late, guard, audit, role, tries, acted, changes>>

(* An action may be about a member (mute, unmute, remove, recall what he   *)
(* said), whom both must outrank; about a message of the sender himself,   *)
(* whom the bot must outrank; about the group, or a message of the agent.  *)
Aim == {"member", "sender", "group"}
Outranks(aim) ==
  /\ aim = "member" => held["actor"] > RoleNow("target") /\ held["bot"] > RoleNow("target")
  /\ aim = "sender" => held["bot"] > RoleNow("actor")

(* The one action of the context is claimed before anything is asked of    *)
(* NapCat.  Mutant: it is not.                                             *)
Unclaimed(aim) == at = "rank" /\ Outranks(aim) /\ ~claimed /\ UNCHANGED claimed
Claim(aim) == at = "rank" /\ Outranks(aim) /\ ~claimed /\ claimed' = TRUE

Ranked(aim) ==
  /\ \/ Claim(aim) /\ Goes("post") /\ UNCHANGED result
     \/ /\ at = "rank" /\ (~Outranks(aim) \/ claimed)
        /\ Returned(FALSE, 0) /\ UNCHANGED claimed
  /\ UNCHANGED <<round, todo, made, loaded, late, guard, audit, group>>

(* "ok", a refusal, or an answer that says nothing: the last two raise.    *)
Did(done) == acted' = [acted EXCEPT ![tries] = @ + (IF done THEN 1 ELSE 0)]
Answered(ok, done) == (ok => done) /\ Did(done)

Post(ok, done) ==
  /\ at = "post" /\ Answered(ok, done)
  /\ Returned(ok, 0)
  /\ UNCHANGED <<round, todo, made, loaded, claimed, late, guard, audit, role, held, tries, changes>>

---------------------------------------------------------------------------
(* The outcome is saved; a terminal tool's ends the run.                   *)
Settle(status) == audit' = [audit EXCEPT ![Len(audit)] = status]

Store == /\ at = "store"
         /\ Settle(IF result.ok THEN "completed" ELSE "failed")
         /\ IF late THEN Ends("aborted")
            ELSE IF result.ok /\ Terminal(Head(todo)) THEN Ends("draft") ELSE Goes("observe")
         /\ UNCHANGED <<round, todo, made, loaded, claimed, result, late, guard, group>>

Observation == [tool |-> Head(todo), ok |-> result.ok, value |-> result.value]
Kept(s) == LET most == Repetitions * MaxCycle
           IN IF Len(s) <= most THEN s ELSE SubSeq(s, Len(s) - most + 1, Len(s))

Failing(n, ok) == IF ok THEN 0 ELSE n + 1

Repeats(s) == \E n \in 1..MaxCycle :
                /\ Len(s) >= n * Repetitions
                /\ \A k \in 1..n : \A i \in 1..(Repetitions - 1) :
                     s[Len(s) - k + 1] = s[Len(s) - k + 1 - i * n]

Observe == /\ at = "observe" /\ ~late
           /\ seen' = Append(seen, Observation)
           /\ failures' = Failing(failures, result.ok)
           /\ history' = Kept(Append(history, Observation))
           /\ todo' = Tail(todo)
           /\ IF failures' >= MaxFailures \/ Repeats(history') THEN Ends("tripped") ELSE Goes("call")
           /\ UNCHANGED <<round, made, loaded, claimed, result, late, audit, group>>

(* The budget's cancellation, or that of the turn: a call that is cut off  *)
(* is settled as failed; one whose outcome was being saved stays as it is. *)
Stopped(how) ==
  /\ at # "end" /\ (how = "aborted" => late) /\ Ends(how)
  /\ IF at \in {"execute", "rank", "post"} THEN Settle("failed") ELSE UNCHANGED audit
  /\ IF at = "post" THEN \E done \in BOOLEAN : Did(done) ELSE UNCHANGED acted
  /\ UNCHANGED <<round, todo, made, loaded, claimed, result, late, guard, role, held, tries, changes>>

(* retry_reactive_reply, of a turn whose reply was not sent (a draft that   *)
(* the filter refuses is not): a new context, loop and guard.              *)
Retry ==
  /\ at = "end" /\ tries < MaxLoops /\ tries' = tries + 1
  /\ at' = "ask" /\ round' = 0 /\ todo' = <<>> /\ made' = 0
  /\ loaded' = FALSE /\ claimed' = FALSE /\ result' = NoResult
  /\ late' = FALSE /\ ended' = ""
  /\ failures' = 0 /\ history' = <<>> /\ seen' = <<>> /\ audit' = <<>>
  /\ held' = [m \in Member |-> 0]
  /\ UNCHANGED <<role, acted, changes>>

Next == \/ \E m \in Member, r \in Rank : RoleChange(m, r)
        \/ Deadline \/ Reply \/ Exhausted \/ NextRound \/ Begin \/ BadArguments
        \/ \E a, b \in Tool : Respond(<<a>>) \/ Respond(<<a, b>>)
        \/ \E r \in Result : Plain("look", r) \/ Plain("reply", 0)
        \/ Raised \/ LoadSkill \/ Authorize \/ \E aim \in Aim : Ranked(aim)
        \/ \E ok, done \in BOOLEAN : Post(ok, done)
        \/ Store \/ Observe
        \/ \E how \in {"aborted", "cancelled"} : Stopped(how)
        \/ Retry

Spec == Init /\ [][Next]_vars

---------------------------------------------------------------------------
(* A run of the loop changes the group at most once, however often the     *)
(* model asks and whatever NapCat answered.  A turn has one run of its own  *)
(* accord; each retry by hand allows it one more change.                   *)
OnceALoop == \A k \in 1..MaxLoops : acted[k] <= IF k <= tries THEN 1 ELSE 0

(* The guard, which keeps a counter and the last few observations, stops   *)
(* the run exactly when the whole run shows a cycle repeated often enough  *)
(* or a long enough row of failures.                                       *)
RowOfFailures == /\ Len(seen) >= MaxFailures
                 /\ \A k \in 0..(MaxFailures - 1) : ~seen[Len(seen) - k].ok
TripsExactly == at \in {"call", "ask"} \/ ended = "tripped"
                  => (ended = "tripped" <=> Repeats(seen) \/ RowOfFailures)

(* Once the run is over no call is left open in the audit.                 *)
AuditSettled == at = "end" => \A k \in DOMAIN audit : audit[k] # "running"
=============================================================================
