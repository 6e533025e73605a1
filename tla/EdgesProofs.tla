----------------------------- MODULE EdgesProofs -----------------------------
(***************************************************************************)
(* What the parts composed in MCEdges keep, for any users, platforms, jobs, *)
(* pictures, sessions, credentials and bounds.  Each part has an inductive  *)
(* invariant of its own; the end composes them.                             *)
(***************************************************************************)
EXTENDS MCEdges, TLAPS, FiniteSetTheorems, SequenceTheorems

(****************************************************************************)
(* Sending: one token is asked for, however many need one                   *)
(****************************************************************************)

\* Who asks the platform for a token, or just did.
Asking(i) == send[i].pc \in {"ask", "brought"}

\* Where a send can be.
SendPc == {"idle", "token", "wait", "ask", "brought", "post", "delivered", "refused", "rejected",
           "told"}

\* The holder of the lock is the one that asks.  Each token that was issued is
\* paid for by a gap or a loss, and so is the one that is about to be: unless the
\* cache has a token, or one has just been brought, a gap or loss is left over.
SendingInv ==
  /\ status \in [Outgoing -> {"dispatching", "failed", "unknown", "sent"}]
  /\ sends \in [issued : Nat, gaps : Nat, lost : Nat, retries : Nat]
  /\ send \in [Outgoing -> [pc : SendPc, token : Nat \cup {Null}]]
  /\ \A i \in Outgoing : send[i].pc = "brought" => send[i].token \in Nat
  /\ token \in Token \cup {Null}
  /\ \A i \in Outgoing : status[i] = "failed" => send[i].pc = "told"
  /\ \A i \in Outgoing : Asking(i) => sender = i
  /\ Sender!SharedRefresh
  /\ Sender!Usable \/ (\E i \in Outgoing : send[i].pc = "brought")
       \/ sends.issued < sends.gaps + sends.lost
  /\ Sender!Usable => \A i \in Outgoing : ~Asking(i)

\* Nothing was asked or spent at first.
LEMMA SendingInit == Sender!Init => SendingInv
  BY EdgesAssumption DEF Sender!Init, SendingInv, Asking, SendPc, Token, Sender!SharedRefresh, Sender!Usable, Sender!At

\* A send, a retry by hand or the end of a token keeps the books of the tokens.
LEMMA SendingStep == SendingInv /\ [Sender!Next]_sending => SendingInv'
<1> SUFFICES ASSUME SendingInv, [Sender!Next]_sending PROVE SendingInv'
  OBVIOUS
<1> USE EdgesAssumption DEF SendingInv, Asking, SendPc, Token, Sender!SharedRefresh, Sender!Usable, Sender!At, Sender!Move, Sender!Tell, Sender!Add
<1>1. ASSUME NEW i \in Outgoing, Sender!Begin(i) PROVE SendingInv'
  <2>1. CASE Sender!Tell(i, "failed")
    BY <1>1, <2>1 DEF Sender!Begin
  <2>2. CASE UNCHANGED status
    <3>1. status[i] # "failed" /\ ~Asking(i)
      BY <1>1 DEF Sender!Begin
    <3>2. \E pc \in {"post", "token"} : Sender!Move(i, pc, Null)
      BY <1>1, <2>2, <3>1 DEF Sender!Begin
    <3> QED BY <1>1, <2>2, <3>1, <3>2 DEF Sender!Begin
  <2> QED BY <1>1, <2>1, <2>2 DEF Sender!Begin
<1>2. ASSUME NEW i \in Outgoing, Sender!Cached(i) PROVE SendingInv'
  <2>1. status[i] # "failed" /\ ~Asking(i) /\ UNCHANGED <<token, sender, status, sends>>
    BY <1>2 DEF Sender!Cached
  <2>2. CASE Sender!Usable /\ Sender!Move(i, "post", token.of)
    <3>1. token.of \in Nat
      BY <2>2
    <3> QED BY <2>1, <2>2, <3>1
  <2>3. CASE Sender!Move(i, "wait", Null)
    BY <2>1, <2>3
  <2> QED BY <1>2, <2>2, <2>3 DEF Sender!Cached
<1>3. ASSUME NEW i \in Outgoing, Sender!Enter(i) PROVE SendingInv'
  BY <1>3 DEF Sender!Enter
<1>4. ASSUME NEW i \in Outgoing, Sender!Issue(i) PROVE SendingInv'
  BY <1>4 DEF Sender!Issue
<1>5. ASSUME NEW i \in Outgoing, Sender!Fetched(i) PROVE SendingInv'
  <2>0. send[i].token \in Nat /\ token' = [of |-> send[i].token, fresh |-> TRUE]
    BY <1>5 DEF Sender!Fetched
  <2>1. token' \in Token /\ token'.fresh = TRUE
    BY <2>0, Zenon DEF Token
  <2>3. token' # Null
    BY <2>1
  <2>2. \A j \in Outgoing : ~Asking(j)'
    BY <1>5 DEF Sender!Fetched
  <2> QED BY <1>5, <2>1, <2>2, <2>3 DEF Sender!Fetched
<1>6. ASSUME NEW i \in Outgoing, Sender!FetchFails(i) PROVE SendingInv'
  BY <1>6 DEF Sender!FetchFails
<1>7. ASSUME NEW i \in Outgoing, Sender!Post(i) PROVE SendingInv'
  BY <1>7 DEF Sender!Post
<1>8. ASSUME NEW i \in Outgoing, Sender!Answer(i) PROVE SendingInv'
  BY <1>8 DEF Sender!Answer, Sender!Result
<1>9. ASSUME NEW i \in Outgoing, Sender!Lost(i) PROVE SendingInv'
  BY <1>9 DEF Sender!Lost
<1>10. ASSUME NEW i \in Outgoing, Sender!Retry(i) PROVE SendingInv'
  BY <1>10 DEF Sender!Retry
<1>11. CASE Sender!Expire
  <2>1. token' \in Token /\ ~token'.fresh
    BY <1>11 DEF Sender!Expire
  <2>2. sends' \in [issued : Nat, gaps : Nat, lost : Nat, retries : Nat]
        /\ sends'.issued < sends'.gaps + sends'.lost
    BY <1>11 DEF Sender!Expire
  <2> QED BY <1>11, <2>1, <2>2 DEF Sender!Expire
<1>12. CASE Sender!Revoke
  BY <1>12 DEF Sender!Revoke
<1>13. CASE UNCHANGED sending
  BY <1>13 DEF sending
<1> QED
  BY <1>1, <1>2, <1>3, <1>4, <1>5, <1>6, <1>7, <1>8, <1>9, <1>10, <1>11, <1>12, <1>13
     DEF Sender!Next

(****************************************************************************)
(* ToolTurn: a run of the loop changes the group at most once               *)
(****************************************************************************)

\* What this run did was claimed before, and is not about to be done again; what
\* runs before it did stands, and those after it did nothing yet.
ToolsInv ==
  /\ tries \in 1..MaxLoops /\ acted \in [1..MaxLoops -> {0, 1}]
  /\ ~claimed => acted[tries] = 0
  /\ at = "post" => claimed /\ acted[tries] = 0
  /\ \A k \in 1..MaxLoops : k > tries => acted[k] = 0

\* The first run starts with nothing claimed or done.
LEMMA ToolsInit == Tools!Init => ToolsInv
<1> SUFFICES ASSUME Tools!Init PROVE ToolsInv
  OBVIOUS
<1>1. at = "ask" /\ tries = 1 /\ acted = [k \in 1..MaxLoops |-> 0]
  BY DEF Tools!Init
<1> QED BY <1>1, EdgesAssumption DEF ToolsInv

\* A request that was claimed is carried out once at most.
LEMMA DidOnce ==
  ASSUME ToolsInv, NEW done \in BOOLEAN, Tools!Did(done), at = "post",
         UNCHANGED <<tries, claimed>>, at' # "post"
  PROVE  ToolsInv'
<1> DEFINE d == IF done THEN 1 ELSE 0
<1>1. acted[tries] = 0 /\ claimed /\ tries \in 1..MaxLoops /\ d \in {0, 1}
  BY DEF ToolsInv
<1>2. acted' = [acted EXCEPT ![tries] = d]
  <2>1. acted' = [acted EXCEPT ![tries] = acted[tries] + d]
    BY Zenon DEF Tools!Did
  <2>2. acted[tries] + d = d
    BY <1>1
  <2> QED BY <2>1, <2>2
<1> HIDE DEF d
<1>3. acted' \in [1..MaxLoops -> {0, 1}]
  BY <1>1, <1>2 DEF ToolsInv
<1> QED BY <1>1, <1>2, <1>3 DEF ToolsInv

\* Every step keeps what was done claimed, and done at most once in a run.
LEMMA ToolsStep == ToolsInv /\ [Tools!Next]_tools => ToolsInv'
<1> SUFFICES ASSUME ToolsInv, [Tools!Next]_tools PROVE ToolsInv'
  OBVIOUS
<1>1. ASSUME NEW ok \in BOOLEAN, NEW done \in BOOLEAN, Tools!Post(ok, done) PROVE ToolsInv'
  BY <1>1, DidOnce DEF Tools!Post, Tools!Answered, Tools!Returned, Tools!Goes
<1>2. ASSUME NEW aim \in Tools!Aim, Tools!Ranked(aim) PROVE ToolsInv'
  BY <1>2 DEF ToolsInv, Tools!Ranked, Tools!Claim, Tools!group, Tools!Goes, Tools!Returned
<1>3. ASSUME NEW how \in {"aborted", "cancelled"}, Tools!Stopped(how) PROVE ToolsInv'
  <2>1. CASE at = "post"
    BY <1>3, <2>1, DidOnce DEF Tools!Stopped, Tools!Ends
  <2>2. CASE at # "post"
    BY <1>3, <2>2 DEF ToolsInv, Tools!Stopped, Tools!Ends
  <2> QED BY <2>1, <2>2
<1>10. CASE Tools!Retry
  <2>1. /\ tries < MaxLoops /\ tries' = tries + 1 /\ UNCHANGED acted /\ at' = "ask" /\ ~claimed'
    BY <1>10 DEF Tools!Retry
  <2> QED BY <2>1, EdgesAssumption DEF ToolsInv
<1> USE DEF ToolsInv, Tools!Goes, Tools!Ends, Tools!Returned
<1>4. CASE Tools!LoadSkill \/ Tools!Authorize \/ Tools!Raised \/ Tools!Store \/ Tools!Observe
  BY <1>4 DEF Tools!LoadSkill, Tools!Authorize, Tools!Raised, Tools!Store, Tools!Observe,
     Tools!loop, Tools!guard, Tools!group
<1>5. CASE Tools!Deadline \/ Tools!Reply \/ Tools!Exhausted \/ Tools!NextRound \/ Tools!Begin
           \/ Tools!BadArguments
  BY <1>5 DEF Tools!Deadline, Tools!Reply, Tools!Exhausted, Tools!NextRound, Tools!Begin,
     Tools!BadArguments, Tools!loop, Tools!guard, Tools!group
<1>6. ASSUME NEW x \in Tools!Member, NEW r \in Tools!Rank, Tools!RoleChange(x, r) PROVE ToolsInv'
  BY <1>6 DEF Tools!RoleChange, Tools!loop
<1>7. ASSUME NEW calls, Tools!Respond(calls) PROVE ToolsInv'
  BY <1>7 DEF Tools!Respond, Tools!group
<1>8. ASSUME NEW r, Tools!Plain("look", r) \/ Tools!Plain("reply", 0) PROVE ToolsInv'
  BY <1>8 DEF Tools!Plain, Tools!group
<1>9. CASE UNCHANGED tools
  BY <1>9 DEF tools
<1> QED
  BY <1>1, <1>2, <1>3, <1>4, <1>5, <1>6, <1>7, <1>8, <1>9, <1>10 DEF Tools!Next

(****************************************************************************)
(* ModelProvider: what was shown is not said again                          *)
(****************************************************************************)

\* What is known of one call.
CallRow == [pc : {"off", "held", "slot", "pace", "run", "record"}, kind : Kinds \cup {"none"},
            gen : Nat, n : Nat, seen : BOOLEAN,
            out : {"none", "ok", "limited", "retry", "fatal"}]

\* Only the attempt in progress was shown, and then the call knows it.
ModelInv ==
  /\ owner \in Nat
  /\ call \in [Call -> CallRow] /\ shown \in [Call -> SUBSET Nat]
  /\ \A c \in Call : \/ shown[c] = {}
                     \/ shown[c] = {call[c].n} /\ call[c].seen = TRUE
  /\ \A c \in Call : call[c].pc = "off" => shown[c] = {}

\* No call is under way at first.
LEMMA ModelInit == Model!Init => ModelInv
  BY DEF Model!Init, Model!Quiet, ModelInv, CallRow

\* A call may go to that row with that shown of it.
Tells(to, said) == /\ said = {} \/ (said = {to.n} /\ to.seen = TRUE)
                   /\ to.pc = "off" => said = {}

\* One call moves on, and what was shown of it is of its own attempt.
LEMMA CallMoves ==
  ASSUME ModelInv, UNCHANGED owner, NEW c \in Call, NEW to \in CallRow, NEW said \in SUBSET Nat,
         Tells(to, said),
         call' = [call EXCEPT ![c] = to], shown' = [shown EXCEPT ![c] = said]
  PROVE  ModelInv'
BY DEF ModelInv, Tells

\* Every step of a call, and every change of the provider under it, keeps what was shown to one attempt.
LEMMA ModelStep == ModelInv /\ [Model!Next]_model => ModelInv'
<1> SUFFICES ASSUME ModelInv, [Model!Next]_model PROVE ModelInv'
  OBVIOUS
<1> USE DEF Model!At, Model!Ends
<1>0. /\ Model!Quiet \in CallRow /\ Tells(Model!Quiet, {})
      /\ shown = [c \in Call |-> shown[c]]
      /\ \A c \in Call : /\ call[c] \in CallRow /\ shown[c] \in SUBSET Nat
                         /\ Tells(call[c], shown[c])
                         /\ shown' = shown => shown' = [shown EXCEPT ![c] = shown[c]]
  BY DEF ModelInv, CallRow, Model!Quiet, Tells
<1>1. ASSUME NEW c \in Call, NEW k \in Kinds, Model!Take(c, k) PROVE ModelInv'
  <2> DEFINE to == [Model!Quiet EXCEPT !.pc = "held", !.kind = k, !.gen = owner, !.n = 1]
  <2>1. to \in CallRow /\ Tells(to, {})
    BY DEF ModelInv, CallRow, Model!Quiet, Tells
  <2>2. shown[c] = {}
    BY <1>1 DEF Model!Take, ModelInv
  <2>3. /\ UNCHANGED owner /\ call' = [call EXCEPT ![c] = to]
        /\ shown' = [shown EXCEPT ![c] = {}]
    BY <1>0, <1>1, <2>2 DEF Model!Take
  <2> QED BY ONLY ModelInv, <2>1, <2>3, CallMoves
<1>2. ASSUME NEW c \in Call, NEW pc \in {"slot", "pace", "run"}, call[c].pc # "off",
             call' = [call EXCEPT ![c].pc = pc], UNCHANGED <<owner, shown>>
      PROVE  ModelInv'
  <2> DEFINE to == [call[c] EXCEPT !.pc = pc]
  <2>1. call[c] \in CallRow /\ Tells(call[c], shown[c]) /\ shown[c] \in SUBSET Nat
    BY <1>0
  <2>2. to \in CallRow /\ Tells(to, shown[c])
    BY <1>2, <2>1 DEF CallRow, Tells
  <2>3. shown' = [shown EXCEPT ![c] = shown[c]] /\ call' = [call EXCEPT ![c] = to]
    BY <1>0, <1>2
  <2> QED BY ONLY ModelInv, <1>2, <2>1, <2>2, <2>3, CallMoves
<1>3. ASSUME NEW c \in Call, Model!Ends(c), UNCHANGED owner PROVE ModelInv'
  BY <1>0, <1>3, CallMoves
<1>4. ASSUME NEW c \in Call, Model!Lease(c) \/ Model!Slot(c) \/ Model!Pace(c) PROVE ModelInv'
  BY <1>2, <1>3, <1>4 DEF Model!Lease, Model!Slot, Model!Pace
<1>5. ASSUME NEW c \in Call, Model!Record(c) PROVE ModelInv'
  <2>1. CASE Model!Retries(c)
    <3> DEFINE to == [call[c] EXCEPT !.pc = "slot", !.n = call[c].n + 1, !.seen = FALSE, !.out = "none"]
    <3>1. call[c] \in CallRow /\ call[c].n + 1 \in Nat
      BY <1>0 DEF CallRow
    <3>2. to \in CallRow
      BY ONLY <3>1 DEF CallRow
    <3>5. Tells(to, {})
      BY DEF Tells
    <3>3. shown[c] = {}
      BY <1>0, <2>1 DEF Model!Retries, Tells
    <3>4. UNCHANGED <<owner, shown>> /\ call' = [call EXCEPT ![c] = to]
      BY <1>5, <2>1 DEF Model!Record
    <3>6. shown' = [shown EXCEPT ![c] = {}]
      BY <1>0, <3>3, <3>4
    <3> QED BY ONLY ModelInv, <3>2, <3>4, <3>5, <3>6, CallMoves
  <2> QED BY <1>3, <1>5, <2>1 DEF Model!Record
<1>6. ASSUME NEW c \in Call, NEW out \in {"ok", "limited", "retry", "fatal"},
             call[c].pc # "off", call' = [call EXCEPT ![c].pc = "record", ![c].out = out],
             UNCHANGED <<owner, shown>>
      PROVE  ModelInv'
  <2> DEFINE to == [call[c] EXCEPT !.pc = "record", !.out = out]
  <2>1. call[c] \in CallRow /\ Tells(call[c], shown[c]) /\ shown[c] \in SUBSET Nat
    BY <1>0
  <2>2. to \in CallRow /\ Tells(to, shown[c])
    BY <1>6, <2>1 DEF CallRow, Tells
  <2>3. shown' = [shown EXCEPT ![c] = shown[c]] /\ call' = [call EXCEPT ![c] = to]
    BY <1>0, <1>6
  <2> QED BY ONLY ModelInv, <1>6, <2>1, <2>2, <2>3, CallMoves
<1>7. ASSUME NEW c \in Call, Model!Emit(c) PROVE ModelInv'
  <2> DEFINE to == [call[c] EXCEPT !.seen = TRUE]
             said == shown[c] \cup {call[c].n}
  <2>1. to \in CallRow /\ said \in SUBSET Nat /\ Tells(to, said)
    BY <1>0, <1>7 DEF CallRow, Tells, Model!Emit
  <2> QED BY <1>7, <2>1, CallMoves DEF Model!Emit
<1>8. ASSUME NEW c \in Call, \/ Model!Cancel(c)
                            \/ \E out \in {"ok", "limited", "retry", "fatal"} : Model!Answer(c, out)
      PROVE  ModelInv'
  BY <1>6, <1>8 DEF Model!Cancel, Model!Answer
<1>9. CASE UNCHANGED <<owner, call, shown>>
  BY <1>9 DEF ModelInv
<1>10. CASE Model!Reconfigure
  BY <1>10 DEF Model!Reconfigure, ModelInv
<1>11. CASE \/ Model!Tick \/ Model!Reconfigured \/ Model!Stop \/ Model!Stopping
            \/ (\E g \in Generation : Model!Close(g)) \/ UNCHANGED model
  BY <1>9, <1>11 DEF model, Model!Tick, Model!Reconfigured, Model!Stop, Model!Stopping, Model!Close
<1> QED
  BY <1>1, <1>4, <1>5, <1>7, <1>8, <1>10, <1>11 DEF Model!Next, Model!Proceed

\* One attempt at most was shown.
LEMMA ModelSafe == ModelInv => Model!SaidOnce
  BY DEF ModelInv, Model!SaidOnce

(****************************************************************************)
(* SkillFoundry: what runs was tested and confirmed                         *)
(****************************************************************************)

\* The steps of an installation.
Installing == {"reconcile", "remove", "copy", "verify", "replace", "check", "commit"}
\* What the controller is doing, and for which job.
Requested == [pc : {"rest", "generate", "validate", "test", "freeze", "read"} \cup Installing,
              job : Job \cup {Null}]

\* Jobs, trees and requests are what they are named.
FoundryTypes ==
  /\ build \in [Job -> [state : Foundry!States, scripts : Int,
                        tested : Foundry!Tree, frozen : Foundry!Tree]]
  /\ written \in [Job -> Foundry!Tree] /\ staging \in [Job -> Foundry!Tree]
  /\ target \in Foundry!Tree
  /\ handled \in Requested /\ ran \in [job : Job \cup {Null}, source : Foundry!Tree]

\* The state a job is in while a request works on it.
StateAt(pc) == CASE pc = "generate" -> "GENERATING" [] pc = "validate" -> "VALIDATING"
                 [] pc \in {"test", "freeze"} -> "TESTING" [] pc \in Installing -> "INSTALLING"
                 [] pc = "read" -> "INSTALLED"

\* Nothing about a job that was confirmed is written again, and a job that runs
\* has its frozen revision tested.
FoundryInv ==
  /\ FoundryTypes
  /\ handled.pc # "rest" => /\ handled.job \in Job
                            /\ build[handled.job].state = StateAt(handled.pc)
  /\ \A j \in Job : build[j].state \in {"INSTALLING", "INSTALLED"} => build[j].frozen \in confirmed
  /\ handled.pc = "read" => build[handled.job].tested = build[handled.job].frozen
  /\ ran.job # Null => build[ran.job].state = "INSTALLED"
  /\ Foundry!RunsReviewed

\* No job was confirmed or runs at first.
LEMMA FoundryInit == Foundry!Init => FoundryInv
  BY EdgesAssumption DEF Foundry!Init, Foundry!Rest, FoundryInv, FoundryTypes, Foundry!RunsReviewed, Foundry!States,
     Foundry!Tree, Requested, Installing

\* No request, death or touch of the tree makes what runs differ from what was confirmed.
LEMMA FoundryStep == FoundryInv /\ [Foundry!Next]_foundry => FoundryInv'
<1> SUFFICES ASSUME FoundryInv, [Foundry!Next]_foundry PROVE FoundryInv'
  OBVIOUS
<1> USE EdgesAssumption DEF FoundryInv, FoundryTypes, Foundry!RunsReviewed, Foundry!States, Foundry!Tree, Requested, Installing,
     StateAt, Foundry!Goto, Foundry!At, Foundry!Resting, Foundry!Save, Foundry!Rest, Foundry!Valid, Foundry!Fail
<1>1. ASSUME NEW j \in Job, Foundry!Begin(j) PROVE FoundryInv'
  <2>1. CASE Foundry!Started(j, TRUE)
    BY <1>1, <2>1 DEF Foundry!Begin, Foundry!Started
  <2>2. CASE Foundry!Started(j, FALSE)
    BY <1>1, <2>2 DEF Foundry!Begin, Foundry!Started
  <2> QED BY <1>1, <2>1, <2>2 DEF Foundry!Begin
<1>2. ASSUME NEW j \in Job, Foundry!AddScript(j) PROVE FoundryInv'
  <2>1. PICK go \in BOOLEAN :
          /\ build' = [build EXCEPT ![j].scripts = @ + 1,
                                    ![j].state = IF go THEN "GENERATING" ELSE "DRAFT"]
          /\ IF go THEN handled' = [pc |-> "generate", job |-> j] ELSE UNCHANGED handled
    BY <1>2 DEF Foundry!AddScript
  <2>0. /\ handled.pc = "rest" /\ build[j].state = "DRAFT"
        /\ UNCHANGED <<written, staging, target, confirmed, ran>>
    BY <1>2 DEF Foundry!AddScript
  <2>2. CASE go
    BY <2>0, <2>1, <2>2
  <2>3. CASE ~go
    <3>1. build' = [build EXCEPT ![j].scripts = @ + 1, ![j].state = "DRAFT"] /\ handled' = handled
      BY <2>1, <2>3
    <3>2. build[j].scripts + 1 \in Int
      OBVIOUS
    <3>3. \A i \in Job : /\ build'[i].state = build[i].state
                         /\ build'[i].tested = build[i].tested /\ build'[i].frozen = build[i].frozen
      BY <2>0, <3>1
    <3>4. build' \in [Job -> [state : Foundry!States, scripts : Int,
                             tested : Foundry!Tree, frozen : Foundry!Tree]]
      <4> DEFINE Rows == [state : Foundry!States, scripts : Int,
                          tested : Foundry!Tree, frozen : Foundry!Tree]
                 to == [build[j] EXCEPT !.scripts = build[j].scripts + 1, !.state = "DRAFT"]
      <4>1. build \in [Job -> Rows] /\ build[j] \in Rows
        OBVIOUS
      <4>2. to \in Rows
        BY ONLY <3>2, <4>1 DEF Foundry!States
      <4>3. build' = [build EXCEPT ![j] = to]
        BY <3>1
      <4>4. build' \in [Job -> Rows]
        <5> HIDE DEF Rows, to
        <5> QED BY ONLY <4>1, <4>2, <4>3
      <4> QED BY ONLY <4>4
    <3> QED BY <2>0, <3>1, <3>3, <3>4
  <2> QED BY <2>2, <2>3
<1>3. ASSUME NEW j \in Job, Foundry!Finalize(j) PROVE FoundryInv'
  BY <1>3 DEF Foundry!Finalize, Foundry!Started
<1>4. ASSUME NEW j \in Job, Foundry!Generate(j) PROVE FoundryInv'
  <2>1. Foundry!Content(j) \in Job
    BY DEF Foundry!Content, Foundry!Made
  <2> QED BY <1>4, <2>1 DEF Foundry!Generate
<1>5. ASSUME NEW j \in Job, Foundry!Validate(j) PROVE FoundryInv'
  BY <1>5 DEF Foundry!Validate
<1>6. ASSUME NEW j \in Job, Foundry!Test(j) PROVE FoundryInv'
  BY <1>6 DEF Foundry!Test
<1>7. ASSUME NEW j \in Job, Foundry!Freeze(j) PROVE FoundryInv'
  BY <1>7 DEF Foundry!Freeze
<1>8. ASSUME NEW j \in Job, Foundry!Approve(j) PROVE FoundryInv'
  BY <1>8 DEF Foundry!Approve
<1>9. ASSUME NEW j \in Job, Foundry!Reject(j) \/ Foundry!Resume(j) PROVE FoundryInv'
  BY <1>9 DEF Foundry!Reject, Foundry!Resume
<1>10. ASSUME NEW j \in Job, Foundry!Reconcile(j) PROVE FoundryInv'
  BY <1>10 DEF Foundry!Reconcile, Foundry!FoundTarget, Foundry!NoTarget
<1>11. ASSUME NEW j \in Job, Foundry!Remove(j) \/ Foundry!Copy(j) \/ Foundry!Verify(j) PROVE FoundryInv'
  BY <1>11 DEF Foundry!Remove, Foundry!Copy, Foundry!Verify
<1>12. ASSUME NEW j \in Job, Foundry!Replace(j) \/ Foundry!Check(j) PROVE FoundryInv'
  BY <1>12 DEF Foundry!Replace, Foundry!Check
<1>13. ASSUME NEW j \in Job, Foundry!Commit(j) PROVE FoundryInv'
  BY <1>13 DEF Foundry!Commit
<1>14. ASSUME NEW j \in Job, Foundry!Execute(j) PROVE FoundryInv'
  BY <1>14 DEF Foundry!Execute, Foundry!Installed
<1>15. ASSUME NEW j \in Job, Foundry!Read(j) PROVE FoundryInv'
  BY <1>15 DEF Foundry!Read
<1>16. CASE Foundry!Crash
  BY <1>16 DEF Foundry!Crash
<1>17. CASE Foundry!Outside
  BY <1>17 DEF Foundry!Outside
<1>18. CASE UNCHANGED foundry
  BY <1>18 DEF foundry
<1> QED
  BY <1>1, <1>2, <1>3, <1>4, <1>5, <1>6, <1>7, <1>8, <1>9, <1>10, <1>11, <1>12, <1>13, <1>14,
     <1>15, <1>16, <1>17, <1>18 DEF Foundry!Next

(****************************************************************************)
(* ManagedService: no caller is told that a service failed for its own delay *)
(****************************************************************************)

\* The service can be asked.
Serving == process = "alive" /\ reader = "reading" /\ stop = "no"
\* A request is in the pipe, at work, or its answer is not read yet.
Unanswered(r) == (\E i \in DOMAIN pipe : pipe[i] = r) \/ r \in owed \/ r \in answers
\* What the host knows of one request.
Asked == [pc : {"idle", "queue", "drain", "await", "closing", "done"},
          future : {"open", "answered", "failed"}, big : BOOLEAN]

\* A service in use has each request once, in the pipe, at work or answered, and
\* each of those is waited for or recorded as abandoned.
ServingInv ==
  /\ pipe \in Seq(Request) /\ owed \subseteq Request /\ answers \subseteq Request
  /\ \A i, j \in DOMAIN pipe : pipe[i] = pipe[j] => i = j
  /\ \A i \in DOMAIN pipe : pipe[i] \notin owed \cup answers
  /\ owed \cap answers = {}
  /\ \A r \in Request :
       /\ req[r].pc \in {"idle", "queue"} => req[r].future = "open"
       /\ Unanswered(r) => \/ r \in abandoned
                           \/ req[r].pc \in {"drain", "await"} /\ req[r].future = "open"
       /\ req[r].pc \in {"idle", "queue"} => r \notin abandoned /\ ~Unanswered(r)

\* Before it serves nobody waits, and while it serves ServingInv holds.
ServiceInv ==
  /\ req \in [Request -> Asked]
  /\ process \in {"none", "starting"} =>
       /\ reader = "none"
       /\ \A r \in Request : req[r].pc = "idle" /\ req[r].future = "open"
       /\ stop = "no" => pipe = <<>> /\ owed = {} /\ answers = {} /\ abandoned = {}
  /\ Serving => ServingInv
  /\ Service!NeverMisjudged

\* No service was started at first.
LEMMA ServiceInit == Service!Init => ServiceInv
  BY DEF Service!Init, ServiceInv, Asked, Serving, Service!NeverMisjudged

\* A step on one request's row that leaves the messages alone.
LEMMA RowMoves ==
  ASSUME ServiceInv, NEW r \in Request, NEW to \in Asked,
         req' = [req EXCEPT ![r] = to], UNCHANGED <<process, hung, reader, stop, pipe, owed, answers>>,
         process \notin {"none", "starting"},
         abandoned' = abandoned \/ (abandoned' = abandoned \cup {r} /\ to.pc = "done"),
         Serving => /\ to.pc \in {"idle", "queue"} => req[r].pc \in {"idle", "queue"} /\ to.future = "open"
                    /\ Unanswered(r) => \/ r \in abandoned'
                                        \/ to.pc \in {"drain", "await"} /\ to.future = "open"
  PROVE  ServiceInv'
<1>1. req' \in [Request -> Asked]
  BY DEF ServiceInv
<1>2. /\ req'[r] = to /\ \A q \in Request \ {r} : req'[q] = req[q]
      /\ \A q \in Request : Unanswered(q)' = Unanswered(q)
      /\ Serving' = Serving
  BY DEF ServiceInv, Unanswered, Serving
<1>3. ASSUME Serving PROVE ServingInv'
  BY <1>2, <1>3 DEF ServiceInv, ServingInv
<1> QED BY <1>1, <1>2, <1>3 DEF ServiceInv, Service!NeverMisjudged

\* A step that leaves a service that is not in use.
LEMMA NotServing ==
  ASSUME ServiceInv, req' \in [Request -> Asked], ~Serving',
         process' \notin {"none", "starting"}, Service!NeverMisjudged'
  PROVE  ServiceInv'
BY DEF ServiceInv

\* Failing every open request leaves rows of requests.
LEMMA FailedRows ==
  ASSUME ServiceInv, NEW rs PROVE Service!Failed(rs) \in [Request -> Asked]
<1>1. \A r \in Request : /\ req[r] \in Asked
                         /\ [req[r] EXCEPT !.future = "failed"] \in Asked
  BY DEF ServiceInv, Asked
<1> QED BY <1>1 DEF Service!Failed

\* A caller that gives up is recorded, or there is nothing to record.
LEMMA AbandonKeeps ==
  ASSUME ServiceInv, NEW r \in Request, req[r].pc \in {"queue", "drain", "await"},
         Service!Abandon(r), UNCHANGED <<process, hung, reader, owed, answers>>
  PROVE  ServiceInv'
<1>0. process \notin {"none", "starting"} /\ req[r] \in Asked
  BY DEF ServiceInv
<1>1. CASE Service!Cardinality(abandoned) >= MaxAbandoned
  <2> DEFINE F == Service!Failed(Service!Pending)
             to == [F[r] EXCEPT !.pc = "closing"]
  <2>1. F \in [Request -> Asked] /\ req' = [F EXCEPT ![r] = to]
    BY <1>1, FailedRows DEF Service!Abandon
  <2>2. to \in Asked
    <3>1. F[r] \in Asked
      BY <2>1
    <3> HIDE DEF F
    <3> QED BY <3>1 DEF Asked
  <2>4. req' \in [Request -> Asked]
    <3> HIDE DEF F, to
    <3> QED BY ONLY <2>1, <2>2
  <2>5. stop' # "no" \/ process = "closed"
    BY <1>1 DEF Service!Abandon, Service!BeginStop
  <2>6. stop' = stop \/ stop' # "no"
    BY <1>1 DEF Service!Abandon, Service!BeginStop
  <2> QED BY <1>0, <2>4, <2>5, <2>6, NotServing DEF Serving, Service!NeverMisjudged, ServiceInv
<1>2. CASE ~(Service!Cardinality(abandoned) >= MaxAbandoned)
  <2> DEFINE to == [req[r] EXCEPT !.pc = "done"]
  <2>1. to \in Asked /\ to.pc = "done"
    BY <1>0 DEF Asked
  <2>2. req' = [req EXCEPT ![r] = to] /\ abandoned' = abandoned \cup {r} /\ UNCHANGED <<stop, pipe>>
    BY <1>2 DEF Service!Abandon
  <2> QED BY <1>0, <2>1, <2>2, RowMoves
<1> QED BY <1>1, <1>2

\* Every step of a caller, of the reader, of the process and of its end keeps who waits for what.
LEMMA ServiceStep == ServiceInv /\ [Service!Next]_service => ServiceInv'
<1> SUFFICES ASSUME ServiceInv, [Service!Next]_service PROVE ServiceInv'
  OBVIOUS
<1>1. ASSUME NEW r \in Request, Service!Ask(r) PROVE ServiceInv'
  <2>1. PICK big \in BOOLEAN : req' = [req EXCEPT ![r] = [pc |-> "queue", future |-> "open", big |-> big]]
    BY <1>1 DEF Service!Ask
  <2>2. [pc |-> "queue", future |-> "open", big |-> big] \in Asked
    BY DEF Asked
  <2> QED BY <1>1, <2>1, <2>2, RowMoves DEF Service!Ask, Service!Running, ServiceInv, ServingInv
<1>2. ASSUME NEW r \in Request, Service!Write(r) PROVE ServiceInv'
  <2>0. req[r] \in Asked /\ process \notin {"none", "starting"}
    BY <1>2 DEF ServiceInv, Service!Write
  <2>1. CASE process = "closed"
    <3>1. [req[r] EXCEPT !.pc = "done"] \in Asked
      BY <2>0 DEF Asked
    <3> QED BY <1>2, <2>0, <2>1, <3>1, RowMoves DEF Service!Write, Serving
  <2>2. CASE process # "closed"
    <3> DEFINE to == [req[r] EXCEPT !.pc = "drain"]
    <3>1. to \in Asked /\ to.pc = "drain" /\ to.future = req[r].future
      BY <2>0 DEF Asked
    <3>2. req' = [req EXCEPT ![r] = to] /\ req' \in [Request -> Asked]
      BY <1>2, <2>2, <3>1 DEF Service!Write, ServiceInv
    <3>3. CASE ~Serving
      BY <1>2, <2>0, <3>2, <3>3, NotServing DEF Service!Write, Serving, Service!NeverMisjudged, ServiceInv
    <3>4. CASE Serving
      <4>1. pipe' = Append(pipe, r) /\ pipe \in Seq(Request)
        BY <1>2, <2>2, <3>4 DEF Service!Write, Serving, ServiceInv, ServingInv
      <4>2. /\ pipe' \in Seq(Request) /\ DOMAIN pipe' = 1..(Len(pipe) + 1) /\ DOMAIN pipe = 1..Len(pipe)
            /\ pipe'[Len(pipe) + 1] = r /\ \A i \in DOMAIN pipe : pipe'[i] = pipe[i]
            /\ Len(pipe) \in Nat
        BY <4>1
      <4>3. ~Unanswered(r) /\ UNCHANGED <<owed, answers, abandoned, reader, process, stop>>
        BY <1>2, <3>4 DEF Service!Write, ServiceInv, ServingInv
      <4>4. \A i, j \in DOMAIN pipe' : pipe'[i] = pipe'[j] => i = j
        BY <3>4, <4>2, <4>3 DEF ServiceInv, ServingInv, Unanswered
      <4>5. \A q \in Request : Unanswered(q)' => q = r \/ Unanswered(q)
        BY <4>2, <4>3 DEF Unanswered
      <4>6. to.pc = "drain" /\ (req[r].future = "open") /\ r \notin abandoned
        BY <1>2, <3>4 DEF Service!Write, ServiceInv, ServingInv
      <4>7. \A i \in DOMAIN pipe' : pipe'[i] \notin owed' \cup answers'
        BY <3>4, <4>2, <4>3 DEF ServiceInv, ServingInv, Unanswered
      <4>8. ServingInv'
        BY <3>1, <3>2, <3>4, <4>2, <4>3, <4>4, <4>5, <4>6, <4>7 DEF ServiceInv, ServingInv
      <4> QED BY <1>2, <3>2, <3>4, <4>8 DEF Service!Write, Serving, Service!NeverMisjudged, ServiceInv
    <3> QED BY <3>3, <3>4
  <2> QED BY <2>1, <2>2
<1>3. ASSUME NEW r \in Request, NEW pc \in {"await", "done"}, req[r].pc \notin {"idle", "queue"},
             req' = [req EXCEPT ![r].pc = pc],
             UNCHANGED <<process, hung, reader, stop, pipe, owed, answers, abandoned>>,
             Serving => pc = "await" \/ req[r].future # "open"
      PROVE  ServiceInv'
  <2>1. req[r] \in Asked /\ process \notin {"none", "starting"}
    BY <1>3 DEF ServiceInv
  <2>2. [req[r] EXCEPT !.pc = pc] \in Asked
    BY <2>1 DEF Asked
  <2> QED BY <1>3, <2>1, <2>2, RowMoves DEF ServiceInv, ServingInv, Asked
<1>4. ASSUME NEW r \in Request, Service!Drain(r) \/ Service!Resume(r) \/ Service!Closed(r) PROVE ServiceInv'
  BY <1>3, <1>4 DEF Service!Drain, Service!Resume, Service!Closed, Serving
<1>5. ASSUME NEW r \in Request, Service!TimeOut(r) \/ Service!Cancel(r) PROVE ServiceInv'
  BY <1>5, AbandonKeeps DEF Service!TimeOut, Service!Cancel
<1>6. ASSUME NEW r \in Request, Service!Read(r) PROVE ServiceInv'
  <2>1. /\ process \notin {"none", "starting"} /\ req[r] \in Asked
        /\ reader = "reading" /\ r \in answers /\ answers' = answers \ {r}
        /\ UNCHANGED <<process, hung, stop, pipe, owed>>
    BY <1>6 DEF ServiceInv, Service!Read
  <2>2. CASE r \in abandoned /\ abandoned' = abandoned \ {r} /\ UNCHANGED <<req, reader>>
    BY <2>1, <2>2 DEF ServiceInv, ServingInv, Unanswered, Serving, Service!NeverMisjudged
  <2>3. CASE /\ r \notin abandoned
             /\ req' = [req EXCEPT ![r].future = IF @ = "open" THEN "answered" ELSE @]
             /\ UNCHANGED <<abandoned, reader>>
    <3>1. PICK f \in {"open", "answered", "failed"} : req' = [req EXCEPT ![r] = [req[r] EXCEPT !.future = f]]
      BY <2>1, <2>3 DEF Asked
    <3>2. [req[r] EXCEPT !.future = f] \in Asked /\ [req[r] EXCEPT !.future = f].pc = req[r].pc
      BY <2>1 DEF Asked
    <3> QED BY <2>1, <2>3, <3>1, <3>2 DEF ServiceInv, ServingInv, Unanswered, Serving, Service!NeverMisjudged
  <2>4. CASE r \notin abandoned /\ r \notin Service!Pending /\ reader' = "unknown"
             /\ req' = Service!Failed(Service!Pending)
    <3>1. ~Serving
      BY <2>1, <2>4 DEF ServiceInv, ServingInv, Unanswered, Service!Pending
    <3> QED BY <2>1, <2>4, <3>1, FailedRows, NotServing DEF Serving, Service!NeverMisjudged
  <2> QED BY <1>6, <2>2, <2>3, <2>4 DEF Service!Read, Service!Recognised
<1>7. ASSUME NEW r \in Request, Service!Reply(r) PROVE ServiceInv'
  BY <1>7 DEF Service!Reply, ServiceInv, ServingInv, Unanswered, Serving, Service!NeverMisjudged
<1>8. CASE Service!EndOfFile
  BY <1>8, FailedRows, NotServing DEF Service!EndOfFile, Serving, Service!NeverMisjudged, ServiceInv
<1>9. CASE Service!Ended
  BY <1>9, FailedRows, NotServing DEF Service!Ended, Serving, Service!NeverMisjudged, ServiceInv
<1>10. CASE Service!Serve
  <2>1. CASE Serving /\ Head(pipe) # Service!Shutdown
    <3>1. /\ pipe \in Seq(Request) /\ pipe # <<>> /\ pipe' = Tail(pipe)
          /\ owed' = owed \cup {pipe[1]} /\ pipe[1] \in Request /\ 1 \in DOMAIN pipe
          /\ UNCHANGED <<process, hung, reader, stop, answers, req, abandoned>>
      BY <1>10, <2>1 DEF Service!Serve, ServiceInv, ServingInv
    <3>2. /\ Tail(pipe) \in Seq(Request)
          /\ \A i \in DOMAIN Tail(pipe) : i + 1 \in DOMAIN pipe /\ Tail(pipe)[i] = pipe[i + 1]
          /\ \A i \in DOMAIN Tail(pipe) : i + 1 # 1 /\ i \in Int
      BY <3>1
    <3>3. \A i, j \in DOMAIN pipe' : pipe'[i] = pipe'[j] => i = j
      <4> TAKE i, j \in DOMAIN pipe'
      <4> QED BY <2>1, <3>1, <3>2 DEF ServiceInv, ServingInv
    <3>4. ServingInv'
      BY <2>1, <3>1, <3>2, <3>3 DEF ServiceInv, ServingInv, Unanswered
    <3> QED BY <2>1, <3>1, <3>4 DEF ServiceInv, Serving, Service!NeverMisjudged
  <2>2. CASE ~(Serving /\ Head(pipe) # Service!Shutdown)
    BY <1>10, <2>2 DEF Service!Serve, ServiceInv, Serving, Service!NeverMisjudged
  <2> QED BY <2>1, <2>2
<1>11. ASSUME Service!Start \/ Service!Crash \/ Service!Hang \/ Service!Notified PROVE ServiceInv'
  <2>1. CASE Service!Start
    BY <2>1 DEF Service!Start, ServiceInv, Serving, Service!NeverMisjudged
  <2>2. CASE Service!Crash
    BY <2>2 DEF Service!Crash, ServiceInv, Serving, Service!NeverMisjudged
  <2>3. CASE Service!Hang
    BY <2>3 DEF Service!Hang, ServiceInv, Serving, ServingInv, Unanswered, Service!NeverMisjudged
  <2>4. CASE Service!Notified
    BY <2>4 DEF Service!Notified, ServiceInv, Serving, Service!NeverMisjudged
  <2> QED BY <1>11, <2>1, <2>2, <2>3, <2>4
<1>12. CASE Service!Handshake
  <2>1. /\ process = "starting" /\ stop = "no" /\ pipe = <<>> /\ owed = {} /\ answers = {}
        /\ abandoned = {} /\ \A r \in Request : req[r].pc = "idle" /\ req[r].future = "open"
        /\ UNCHANGED <<hung, owed, answers, req, abandoned>>
    BY <1>12 DEF Service!Handshake, ServiceInv
  <2>2. CASE process' = "alive" /\ reader' = "reading" /\ UNCHANGED <<stop, pipe>>
    <3>1. <<>> \in Seq(Request) /\ DOMAIN <<>> = {}
      OBVIOUS
    <3>2. ServingInv'
      BY <2>1, <2>2, <3>1 DEF ServingInv, Unanswered
    <3> QED BY <2>1, <2>2, <3>2 DEF ServiceInv, Service!NeverMisjudged
  <2>3. CASE Service!BeginStop /\ UNCHANGED <<process, reader>>
    BY <2>1, <2>3 DEF Service!BeginStop, ServiceInv, Serving, Service!NeverMisjudged
  <2> QED BY <1>12, <2>2, <2>3 DEF Service!Handshake
<1>14. CASE Service!Stop
  BY <1>14 DEF Service!Stop, Service!BeginStop, ServiceInv, Serving, Service!NeverMisjudged
<1>13. CASE UNCHANGED service
  BY <1>13 DEF service, ServiceInv, ServingInv, Unanswered, Serving, Service!NeverMisjudged
<1> QED
  BY <1>1, <1>2, <1>4, <1>5, <1>6, <1>7, <1>8, <1>9, <1>10, <1>11, <1>12, <1>13, <1>14 DEF Service!Next

(****************************************************************************)
(* Channel: the synchronisation of one sender changes no other member        *)
(****************************************************************************)

\* What the platform tells: who, and as what.
Told == [by : User, role : {"member", "owner"}]
\* The roles of all users, most of them none.
Members == [User -> Line!Roles]
\* What a consumer of an event has read.
Working == [pc : {"none", "read", "update", "refresh", "again", "ingest"}, n : Nat,
            view : Members, revision : Nat, role : Line!Roles]
\* The stored session.
SessionRow == [exists : BOOLEAN, members : Members, revision : Nat]

\* What is told was said.
TellingInv ==
  /\ events \in Seq(Told)
  /\ gateway \in [known : BOOLEAN, sent : Nat] /\ gateway.sent <= Len(events)
  /\ resume \in [known : BOOLEAN, seq : Nat] /\ resume.seq <= Len(events)
  /\ inbox \in Seq(Nat) /\ \A i \in 1..Len(inbox) : inbox[i] \in 1..Len(events)

\* What is about to be written was read from the session as it is, unless the
\* session has a higher revision by now.
WorkingInv ==
  /\ work \in Working /\ session \in SessionRow
  /\ console \in [open : BOOLEAN, members : Members, revision : Nat]
  /\ work.pc # "none" => work.n \in 1..Len(events)
  /\ work.pc \in {"update", "refresh", "again"} => work.role \in {"member", "owner"}
  /\ work.pc \in {"update", "again"} /\ session.exists = TRUE =>
       /\ work.revision <= session.revision
       /\ work.revision = session.revision => work.view = session.members

\* Both together.
ChannelInv == TellingInv /\ WorkingInv

\* What there is before anything happened is of the right kind.
LEMMA Nothing == /\ Line!NoWork \in Working /\ Line!NoWork.pc = "none"
                 /\ Line!NoSession \in SessionRow /\ Line!NoSession.exists = FALSE
                 /\ Line!None \in Members
  BY DEF Line!NoWork, Line!NoSession, Working, SessionRow, Members, Line!None, Line!Roles

\* Nothing was told or read at first.
LEMMA ChannelInit == Line!Init => ChannelInv
<1> SUFFICES ASSUME Line!Init PROVE ChannelInv
  OBVIOUS
<1>1. TellingInv
  BY DEF Line!Init, TellingInv
<1>2. WorkingInv
  BY Nothing DEF Line!Init, WorkingInv
<1> QED BY <1>1, <1>2 DEF ChannelInv

\* A told event has its user, and gives it a role.
LEMMA Roled ==
  ASSUME ChannelInv, work.pc # "none", NEW view \in Members
  PROVE  Line!By \in User /\ Line!Role(view) \in {"member", "owner"}
<1>1. events[work.n] \in Told
  BY DEF ChannelInv, TellingInv, WorkingInv
<1> QED BY <1>1 DEF Told, Line!By, Line!Role

\* What is about to be written differs from what was read in the sender only, or in who is owner.
LEMMA DesiredMembers ==
  ASSUME ChannelInv, work.pc \in {"update", "again"}
  PROVE  /\ Line!Desired \in Members
         /\ \A u \in User \ {Line!By} :
              \/ Line!Desired[u] = work.view[u]
              \/ /\ work.view[u] = "owner" /\ Line!Desired[u] = "member"
                 /\ Line!Desired[Line!By] = "owner"
              \/ /\ work.view[u] = "member" /\ Line!Desired[u] = "owner"
                 /\ Line!Owners(work.view) \subseteq {Line!By}
<1> DEFINE P == Line!Placed(work.view, work.role)
<1>1. /\ Line!By \in User /\ work.role \in {"member", "owner"} /\ work.view \in Members
  BY Roled DEF ChannelInv, WorkingInv, Working
<1>2. /\ P \in Members /\ P[Line!By] = work.role
      /\ \A u \in User \ {Line!By} : \/ P[u] = work.view[u]
                                     \/ work.view[u] = "owner" /\ P[u] = "member" /\ work.role = "owner"
  BY <1>1 DEF Line!Placed, Members, Line!Roles
<1> HIDE DEF P
<1>3. Line!First(P) \in User /\ P[Line!First(P)] # "none"
  BY <1>1, <1>2 DEF Line!First
<1>4. Line!Desired = IF Line!Owners(P) = {} THEN [P EXCEPT ![Line!First(P)] = "owner"] ELSE P
  BY DEF Line!Desired, Line!Normal, P
<1>5. CASE Line!Owners(P) = {}
  <2>1. \A u \in User : P[u] # "owner"
    BY <1>5 DEF Line!Owners
  <2>2. Line!Owners(work.view) \subseteq {Line!By} /\ \A u \in User \ {Line!By} : P[u] = work.view[u]
    BY <1>1, <1>2, <2>1 DEF Line!Owners
  <2>3. P[Line!First(P)] = "member" /\ P \in Members
    BY <1>2, <1>3, <2>1 DEF Members, Line!Roles
  <2>4. Line!Desired \in Members /\ Line!Desired[Line!First(P)] = "owner"
        /\ \A u \in User : u # Line!First(P) => Line!Desired[u] = P[u]
    BY <1>3, <1>4, <1>5, <2>3 DEF Members, Line!Roles
  <2> QED BY <2>2, <2>3, <2>4
<1>6. CASE Line!Owners(P) # {}
  BY <1>2, <1>4, <1>6
<1> QED BY <1>5, <1>6

\* The link, its losses and the inbox tell only what was said.
LEMMA TellingStep == ChannelInv /\ [Line!Next]_channel => TellingInv' /\ Len(events) <= Len(events')
<1> SUFFICES ASSUME ChannelInv, [Line!Next]_channel PROVE TellingInv' /\ Len(events) <= Len(events')
  OBVIOUS
<1> USE DEF ChannelInv, TellingInv
<1>0. Len(events) \in Nat /\ <<>> \in Seq(Nat) /\ Len(<<>>) = 0
  OBVIOUS
<1>1. ASSUME NEW u \in User, NEW r \in {"member", "owner"}, Line!Write(u, r)
      PROVE  TellingInv' /\ Len(events) <= Len(events')
  <2>1. [by |-> u, role |-> r] \in Told /\ events' = Append(events, [by |-> u, role |-> r])
    BY <1>1 DEF Line!Write, Told
  <2>2. events' \in Seq(Told) /\ Len(events') = Len(events) + 1
    BY <2>1
  <2> QED BY <1>0, <1>1, <2>2 DEF Line!Write
<1>2. CASE Line!Push
  <2>1. /\ gateway.sent + 1 \in 1..Len(events) /\ gateway' = [gateway EXCEPT !.sent = gateway.sent + 1]
        /\ inbox' = Append(inbox, gateway.sent + 1) /\ UNCHANGED <<events, resume>>
    BY <1>0, <1>2 DEF Line!Push
  <2>2. /\ inbox' \in Seq(Nat) /\ \A i \in 1..Len(inbox') : inbox'[i] \in 1..Len(events)
    BY <2>1
  <2>3. gateway' \in [known : BOOLEAN, sent : Nat] /\ gateway'.sent <= Len(events)
    BY <1>0, <2>1
  <2> QED BY <1>0, <2>1, <2>2, <2>3
<1>3. CASE Line!Open
  <2>1. CASE \E from \in 0..resume.seq : gateway' = [gateway EXCEPT !.sent = from] /\ UNCHANGED resume
    BY <1>0, <1>3, <2>1 DEF Line!Open
  <2>2. CASE gateway' = [known |-> TRUE, sent |-> Len(events)] /\ resume' = [known |-> TRUE, seq |-> Len(events)]
    BY <1>0, <1>3, <2>2 DEF Line!Open
  <2> QED BY <1>3, <2>1, <2>2 DEF Line!Open
<1>4. CASE Line!Lose
  <2>1. /\ inbox' = <<>> /\ UNCHANGED events
        /\ UNCHANGED <<gateway, resume>> \/ (gateway' = [known |-> FALSE, sent |-> 0] /\ resume' = [known |-> FALSE, seq |-> 0])
    BY <1>4 DEF Line!Lose
  <2>2. inbox' \in Seq(Nat) /\ Len(inbox') = 0
    BY <2>1
  <2>3. UNCHANGED events /\ (UNCHANGED <<gateway, resume>>
          \/ (gateway' = [known |-> FALSE, sent |-> 0] /\ resume' = [known |-> FALSE, seq |-> 0]))
    BY <2>1
  <2>4. /\ gateway' \in [known : BOOLEAN, sent : Nat] /\ gateway'.sent <= Len(events)
        /\ resume' \in [known : BOOLEAN, seq : Nat] /\ resume'.seq <= Len(events)
    <3>1. CASE UNCHANGED <<gateway, resume>>
      BY <3>1
    <3>2. CASE gateway' = [known |-> FALSE, sent |-> 0] /\ resume' = [known |-> FALSE, seq |-> 0]
      <4>1. /\ gateway' \in [known : BOOLEAN, sent : Nat] /\ gateway'.sent = 0
            /\ resume' \in [known : BOOLEAN, seq : Nat] /\ resume'.seq = 0
        BY ONLY <3>2
      <4> QED BY <1>0, <4>1
    <3> QED BY <2>3, <3>1, <3>2
  <2>5. events' = events /\ events \in Seq(Told)
    BY <2>3
  <2>6. \A i \in 1..Len(inbox') : inbox'[i] \in 1..Len(events')
    BY <2>2
  <2> QED BY ONLY <1>0, <2>2, <2>4, <2>5, <2>6 DEF TellingInv
<1>5. CASE Line!Receive
  <2>0. inbox # <<>> /\ inbox' = Tail(inbox) /\ resume' = [resume EXCEPT !.seq = Head(inbox)]
        /\ UNCHANGED <<events, gateway>>
    BY <1>5 DEF Line!Receive
  <2>1. Head(inbox) = inbox[1] /\ 1 \in 1..Len(inbox) /\ Len(inbox) \in Nat
        /\ Tail(inbox) \in Seq(Nat) /\ Len(Tail(inbox)) = Len(inbox) - 1
        /\ \A i \in 1..Len(Tail(inbox)) : Tail(inbox)[i] = inbox[i + 1]
    BY <2>0
  <2>2. \A i \in 1..Len(Tail(inbox)) : i + 1 \in 1..Len(inbox)
    BY <2>1
  <2>3. Head(inbox) \in 1..Len(events)
    BY <2>1
  <2>4. resume' \in [known : BOOLEAN, seq : Nat] /\ resume'.seq <= Len(events)
    BY <1>0, <2>0, <2>3
  <2> QED BY <1>0, <2>0, <2>1, <2>2, <2>4
<1>6. ASSUME UNCHANGED <<events, gateway, resume>>, inbox' = inbox \/ inbox' = <<>>
      PROVE  TellingInv' /\ Len(events) <= Len(events')
  <2>1. CASE inbox' = inbox
    BY <1>0, <1>6, <2>1
  <2>2. CASE inbox' = <<>>
    <3>1. inbox' \in Seq(Nat) /\ Len(inbox') = 0
      BY <2>2
    <3> QED BY <1>0, <1>6, <3>1
  <2> QED BY <1>6, <2>1, <2>2
<1>7. CASE \/ Line!Accept \/ Line!Update \/ Line!Refresh \/ Line!Again \/ Line!Ingest \/ Line!OpenForm
           \/ (\E members \in [User -> Line!Roles] : Line!SaveForm(members)) \/ Line!Delete
           \/ Line!Activate \/ Line!Publish \/ Line!Refuse \/ Line!Retry \/ UNCHANGED channel
  <2>1. UNCHANGED <<events, gateway, resume>> /\ (inbox' = inbox \/ inbox' = <<>>)
    BY <1>7 DEF Line!Activate, Line!Publish, Line!Refuse, Line!Retry, Line!Accept, Line!Update, Line!Refresh,
       Line!Again, Line!Ingest, Line!OpenForm, Line!SaveForm, Line!Delete, Line!Reject, channel
  <2> QED BY <1>6, <2>1
<1> QED BY <1>1, <1>2, <1>3, <1>4, <1>5, <1>7 DEF Line!Next

\* What a consumer has read grows old only when the revision goes up.
LEMMA WorkingStep == ChannelInv /\ [Line!Next]_channel => WorkingInv'
<1> SUFFICES ASSUME ChannelInv, [Line!Next]_channel PROVE WorkingInv'
  OBVIOUS
<1>0. WorkingInv /\ Len(events) <= Len(events') /\ Len(events) \in Nat /\ Len(events') \in Nat
  BY TellingStep DEF ChannelInv, TellingInv
<1>1. ASSUME UNCHANGED <<work, session, console>> PROVE WorkingInv'
  BY <1>0, <1>1 DEF WorkingInv
<1>2. CASE \/ \E u \in User, r \in {"member", "owner"} : Line!Write(u, r)
           \/ Line!Push \/ Line!Open \/ Line!Lose \/ Line!Activate \/ Line!Publish \/ Line!Refuse \/ Line!Retry
           \/ UNCHANGED channel
  BY <1>1, <1>2 DEF Line!Activate, Line!Publish, Line!Refuse, Line!Retry, Line!Write, Line!Push, Line!Open,
     Line!Lose, channel
<1>5. CASE Line!Receive
  <2> DEFINE to == [Line!NoWork EXCEPT !.pc = "read", !.n = Head(inbox)]
  <2>1. Head(inbox) \in 1..Len(events)
    <3>1. inbox # <<>> /\ inbox \in Seq(Nat) /\ \A i \in 1..Len(inbox) : inbox[i] \in 1..Len(events)
      BY <1>5 DEF Line!Receive, ChannelInv, TellingInv
    <3>2. Head(inbox) = inbox[1] /\ 1 \in 1..Len(inbox)
      BY <3>1
    <3> QED BY <3>1, <3>2
  <2>4. Head(inbox) \in Nat
    BY <1>0, <2>1
  <2>2. to \in Working /\ to.pc = "read" /\ to.n = Head(inbox)
    BY Nothing, <2>4 DEF Working
  <2>3. work' = (IF admitted THEN to ELSE Line!NoWork) /\ UNCHANGED <<events, session, console>>
    BY <1>5 DEF Line!Receive
  <2> HIDE DEF to
  <2> QED BY Nothing, <1>0, <2>1, <2>2, <2>3 DEF WorkingInv
<1>6. CASE Line!Accept
  <2>0. work.pc = "read" /\ work \in Working /\ session.members \in Members /\ session.revision \in Nat
    BY <1>0, <1>6 DEF Line!Accept, WorkingInv, SessionRow
  <2>1. CASE session.exists = FALSE
    <3>1. Line!Only(Line!By) \in Members
      BY Nothing DEF Members, Line!Only, Line!Roles
    <3>2. /\ [work EXCEPT !.pc = "ingest"] \in Working
          /\ [session EXCEPT !.exists = TRUE, !.members = Line!Only(Line!By)] \in SessionRow
      BY <1>0, <2>0, <3>1 DEF Working, SessionRow, WorkingInv
    <3>3. /\ work' = [work EXCEPT !.pc = "ingest"] /\ UNCHANGED <<events, console>>
          /\ session' = [session EXCEPT !.exists = TRUE, !.members = Line!Only(Line!By)]
      BY <1>6, <2>1 DEF Line!Accept
    <3>4. work'.pc = "ingest" /\ work'.n = work.n
      BY <2>0, <3>3 DEF Working
    <3> QED BY <1>0, <2>0, <3>2, <3>3, <3>4 DEF WorkingInv
  <2>2. CASE session.exists = TRUE
    <3>1. Line!Role(session.members) \in {"member", "owner"}
      BY <2>0, Roled
    <3>2. PICK pc \in {"ingest", "update"} :
            work' = [work EXCEPT !.view = session.members, !.revision = session.revision,
                                 !.role = Line!Role(session.members), !.pc = pc]
      BY <1>6, <2>2 DEF Line!Accept
    <3>3. /\ work' \in Working /\ work'.n = work.n /\ work'.role = Line!Role(session.members)
          /\ work'.view = session.members /\ work'.revision = session.revision
      BY <2>0, <3>1, <3>2 DEF Working, Line!Roles
    <3>4. UNCHANGED <<events, session, console>>
      BY <1>6, <2>2 DEF Line!Accept
    <3> QED BY <1>0, <2>0, <3>1, <3>3, <3>4 DEF WorkingInv
  <2> QED BY <1>0, <2>1, <2>2 DEF WorkingInv, SessionRow
<1>7. ASSUME work.pc \in {"update", "again"}, Line!Saved("ingest"), UNCHANGED <<events, console>>
      PROVE  WorkingInv'
  <2>1. Line!Desired \in Members /\ work \in Working
    BY <1>7, DesiredMembers DEF ChannelInv, WorkingInv
  <2>2. [work EXCEPT !.pc = "ingest"] \in Working
    BY <2>1 DEF Working
  <2>3. /\ session' = [session EXCEPT !.members = Line!Desired, !.revision = session.revision + 1]
        /\ work' = [work EXCEPT !.pc = "ingest"]
    BY <1>7 DEF Line!Saved
  <2>4. session.revision + 1 \in Nat /\ session \in SessionRow
    BY <1>0 DEF WorkingInv, SessionRow
  <2>5. session' \in SessionRow
    BY ONLY <2>1, <2>3, <2>4 DEF SessionRow
  <2>6. work' \in Working /\ work'.pc = "ingest" /\ work'.n = work.n
    BY <2>1, <2>2, <2>3 DEF Working
  <2> QED BY <1>0, <1>7, <2>5, <2>6 DEF WorkingInv
<1>8. ASSUME work' = Line!NoWork, UNCHANGED <<session, console>> PROVE WorkingInv'
  BY <1>0, <1>8, Nothing DEF WorkingInv
<1>9. CASE Line!Update
  <2>1. CASE work' = [work EXCEPT !.pc = "refresh"] /\ UNCHANGED session
    <3>1. /\ [work EXCEPT !.pc = "refresh"] \in Working /\ work'.pc = "refresh" /\ work'.n = work.n
          /\ work'.role = work.role /\ work.pc = "update" /\ UNCHANGED <<events, console>>
      BY <1>0, <1>9, <2>1 DEF Working, WorkingInv, Line!Update
    <3> QED BY <1>0, <2>1, <3>1 DEF WorkingInv
  <2> QED BY <1>7, <1>8, <1>9, <2>1 DEF Line!Update, Line!Reject
<1>10. CASE Line!Refresh
  <2>1. CASE session.exists = TRUE
    <3>1. /\ Line!Latest \in Working /\ Line!Latest.n = work.n /\ Line!Latest.role = work.role
          /\ Line!Latest.view = session.members /\ Line!Latest.revision = session.revision
      BY <1>0 DEF Line!Latest, Working, WorkingInv, SessionRow
    <3>2. work' = Line!Latest /\ work.pc = "refresh" /\ UNCHANGED <<events, console, session>>
      BY <1>10, <2>1 DEF Line!Refresh
    <3> QED BY <1>0, <3>1, <3>2 DEF WorkingInv, SessionRow
  <2>2. CASE session.exists = FALSE
    BY <1>8, <1>10, <2>2 DEF Line!Refresh, Line!Reject
  <2> QED BY <1>0, <2>1, <2>2 DEF WorkingInv, SessionRow
<1>11. CASE Line!Again
  BY <1>7, <1>8, <1>11 DEF Line!Again, Line!Reject
<1>12. CASE Line!Ingest
  BY <1>8, <1>12 DEF Line!Ingest, Line!Reject
<1>13. CASE Line!OpenForm
  BY <1>0, <1>13 DEF Line!OpenForm, WorkingInv, SessionRow
<1>14. ASSUME NEW members \in [User -> Line!Roles], Line!SaveForm(members) PROVE WorkingInv'
  <2> DEFINE to == [session EXCEPT !.members = members, !.revision = session.revision + 1]
  <2>0. session \in SessionRow /\ session.revision \in Nat /\ members \in Members
    BY <1>0 DEF WorkingInv, Members, SessionRow
  <2>3. session.revision + 1 \in Nat
    BY <2>0
  <2>4. to \in SessionRow
    BY ONLY <2>0, <2>3 DEF SessionRow
  <2>1. to \in SessionRow /\ to.revision = session.revision + 1 /\ to.exists = session.exists
    <3> to.revision = session.revision + 1
      BY ONLY <2>0 DEF SessionRow
    <3> to.exists = session.exists
      BY ONLY <2>0 DEF SessionRow
    <3> QED BY <2>4
  <2>2. session' \in {session, to} /\ console' = [console EXCEPT !.open = FALSE] /\ UNCHANGED <<events, work>>
    BY <1>14 DEF Line!SaveForm
  <2> HIDE DEF to
  <2>5. console' \in [open : BOOLEAN, members : Members, revision : Nat]
    BY <1>0, <2>2 DEF WorkingInv
  <2>6. work.revision \in Nat /\ work' = work /\ events' = events
    BY <1>0, <2>2 DEF WorkingInv, Working
  <2>7. CASE session' = session
    BY <1>0, <2>5, <2>6, <2>7 DEF WorkingInv
  <2>8. CASE session' = to
    BY <1>0, <2>0, <2>1, <2>5, <2>6, <2>8 DEF WorkingInv
  <2> QED BY <2>2, <2>7, <2>8
<1>15. CASE Line!Delete
  BY <1>0, <1>15, Nothing DEF Line!Delete, WorkingInv
<1> QED
  BY <1>2, <1>5, <1>6, <1>9, <1>10, <1>11, <1>12, <1>13, <1>14, <1>15 DEF Line!Next

\* Every step of the channel keeps both.
LEMMA ChannelStep == ChannelInv /\ [Line!Next]_channel => ChannelInv'
  BY TellingStep, WorkingStep DEF ChannelInv

\* OthersKept for one step.
SyncKeeps == Line!Syncs =>
               \A u \in User \ {Line!By} :
                 LET was == session.members[u]
                     is == session'.members[u]
                 IN  \/ is = was
                     \/ was = "owner" /\ is = "member" /\ session'.members[Line!By] = "owner"
                     \/ was = "member" /\ is = "owner" /\ Line!Owners(session.members) \subseteq {Line!By}

\* A synchronisation that is written was read from the session as it is.
LEMMA ChannelSafe == ChannelInv /\ [Line!Next]_channel => SyncKeeps
<1> SUFFICES ASSUME ChannelInv, [Line!Next]_channel, Line!Syncs PROVE SyncKeeps
  BY DEF SyncKeeps
<1>1. work.pc \in {"update", "again"} /\ work' # work /\ session' # session
  BY DEF Line!Syncs
<1>2. (Line!Update \/ Line!Again) /\ Line!Saved("ingest")
  BY <1>1 DEF Line!Next, Line!Write, Line!Push, Line!Activate, Line!Publish, Line!Open, Line!Refuse, Line!Lose,
     Line!Retry, Line!Receive, Line!Accept, Line!Update, Line!Refresh, Line!Again, Line!Ingest, Line!OpenForm,
     Line!SaveForm, Line!Delete, Line!Reject, Line!Saved, channel
<1>3. session.exists = TRUE /\ session.revision = work.revision
  BY <1>1, <1>2 DEF Line!Update, Line!Again, Line!Reject, ChannelInv, WorkingInv, SessionRow
<1>4. work.view = session.members /\ session'.members = Line!Desired
  BY <1>1, <1>2, <1>3 DEF ChannelInv, WorkingInv, SessionRow, Line!Saved
<1> QED BY <1>1, <1>4, DesiredMembers DEF SyncKeeps

(****************************************************************************)
(* Library: rows have their files, messages their attachments                *)
(****************************************************************************)

\* A row of the shelf of expressions.
ExpressionRow == [pic : Picture \cup {Null}, key : BOOLEAN, taken : BOOLEAN]
\* A message with a picture that is being stored.
Incoming == [pc : {"idle"}] \cup [pc : {"append", "collect"}, s : Session, p : Picture]
              \cup [pc : {"row"}, s : Session, p : Picture, to : Pictures!Names]
\* A turn that chose an expression.
Choosing == [pc : {"idle"}] \cup [pc : {"chosen", "published"}, s : Session, m : Pictures!Names,
                                  p : Picture \cup {Null}]
\* What a clearing has found.
Clearing == [pc : {"idle"}]
              \cup [pc : {"rows", "referenced", "collect"}, held : SUBSET Session, up : SUBSET Picture,
                 out : SUBSET (Picture \cup {Null})]
              \cup [pc : {"wipe", "purge"}, held : SUBSET Session]
\* A name no row uses.
Free(x) == x \in Pictures!Names /\ row[x] = Pictures!NoRow

\* Files, rows, holders and operations are what they are named.
LibraryTypes ==
  /\ source \in [Pictures!Names -> Picture \cup {Null}] /\ row \in [Pictures!Names -> ExpressionRow]
  /\ uploads \subseteq Picture /\ inbound \in [Session -> SUBSET Picture]
  /\ lifecycle \in {Null, "entry", "clear"} /\ persona \in {Null, "edit", "clear"}
  /\ shelf \in {Null, "edit", "entry"}
  /\ outbound \in [Session -> SUBSET (Picture \cup {Null})]
  /\ turn \in Choosing
  /\ edit.pc \in {"idle", "row", "rename", "old"} /\ entry \in Incoming /\ clear \in Clearing

\* Who is in the middle of something holds its locks.
Locked ==
  /\ edit.pc # "idle" => persona = "edit" /\ shelf = "edit"
  /\ entry.pc # "idle" => lifecycle = "entry"
  /\ entry.pc = "row" => shelf = "entry"
  /\ clear.pc # "idle" => lifecycle = "clear"
  /\ clear.pc \in {"wipe", "purge"} => persona = "clear"

\* The files a process has written or is about to remove are of no row, but for the
\* name a collected picture took, and the file of a row that is about to come is there.
ExpressionsInv ==
  /\ Pictures!RowHasFile
  /\ edit.pc = "row" => Free(edit.m) /\ source[edit.m] = edit.p /\ edit.p \in Picture
  /\ edit.pc = "rename" => /\ edit.m \in Pictures!Rows /\ Free(edit.to)
                           /\ source[edit.to] = source[edit.m]
  /\ edit.pc = "old" => Free(edit.m)
  /\ entry.pc = "row" /\ Free(entry.to) => source[entry.to] = entry.p
  /\ entry.pc = "row" /\ ~Free(entry.to) => row[entry.to].taken
  /\ clear.pc = "purge" => \A x \in Pictures!Names : row[x] = Pictures!NoRow

\* What a message brings is there, and what is about to be removed is of no message.
AttachmentsInv ==
  /\ Pictures!InboundKept
  /\ entry.pc = "append" => entry.p \in uploads
  /\ clear.pc = "collect" => \A s \in Session : inbound[s] \cap clear.up = {}
  /\ clear.pc = "purge" => \A s \in Session : inbound[s] = {}

\* All of it.
LibraryInv == LibraryTypes /\ Locked /\ ExpressionsInv /\ AttachmentsInv

\* There is no file and no row at first.
LEMMA LibraryInit == Pictures!Init => LibraryInv
<1> SUFFICES ASSUME Pictures!Init PROVE LibraryInv
  OBVIOUS
<1>1. \A x \in Pictures!Names : row[x] = Pictures!NoRow /\ source[x] = Null
  BY DEF Pictures!Init
<1>2. \A x \in Name, p \in Picture : <<x, p>> \in Pictures!Names
  BY DEF Pictures!Names
<1>3. Pictures!NoRow \in ExpressionRow /\ Pictures!NoRow.pic = Null
  BY DEF Pictures!NoRow, ExpressionRow
<1> QED BY <1>1, <1>2, <1>3 DEF Pictures!Init, Pictures!Idle, LibraryInv, LibraryTypes, Locked, ExpressionsInv,
     AttachmentsInv, Pictures!RowHasFile, Pictures!InboundKept, Pictures!Rows, Incoming, Clearing, Choosing

\* The files and rows of expressions, and who works on them, as they were.
LEMMA SameExpressions ==
  ASSUME LibraryInv, UNCHANGED <<source, row, edit>>, entry' = entry \/ entry'.pc # "row",
         clear'.pc = "purge" => clear.pc = "purge"
  PROVE  ExpressionsInv'
BY DEF LibraryInv, ExpressionsInv, Pictures!RowHasFile, Pictures!Rows, Free

\* Attachments and who works on them as they were, with more files perhaps.
LEMMA SameAttachments ==
  ASSUME LibraryInv, UNCHANGED <<inbound, entry, clear>>, uploads \subseteq uploads'
  PROVE  AttachmentsInv'
BY DEF LibraryInv, AttachmentsInv, Pictures!InboundKept

\* The names a collected picture may get are names.
LEMMA Nameable == \A x \in Name, p \in Picture : Pictures!UniqueName(x, p) \in Pictures!Names
  BY EdgesAssumption DEF Pictures!UniqueName, Pictures!Plain, Pictures!Names

\* A console's operation, under the locks of personas and expressions.
LEMMA ConsoleStep ==
  ASSUME LibraryInv, NEW x, NEW y, NEW p,
         \/ y \in Pictures!Names /\ p \in Picture /\ Pictures!UploadFile(y, p)
         \/ Pictures!UploadRow \/ Pictures!Rename \/ Pictures!RemoveOld
         \/ x \in Pictures!Names /\ y \in Pictures!Names /\ Pictures!RenameFile(x, y)
         \/ x \in Pictures!Names /\ Pictures!Delete(x)
  PROVE  LibraryInv'
<1> USE EdgesAssumption, Nameable
<1> USE DEF Pictures!Hold, Pictures!Release, Pictures!Untouched, Pictures!Idle, Pictures!WriteSource,
        Pictures!RemoveSource, Pictures!CreateRow, Pictures!RenameRow, Pictures!DeleteRow
<1>0. /\ UNCHANGED <<uploads, inbound, outbound, lifecycle, entry, turn, clear>>
      /\ Pictures!NoRow \in ExpressionRow /\ Pictures!NoRow.pic = Null
  BY DEF Pictures!UploadFile, Pictures!UploadRow, Pictures!RenameFile, Pictures!Rename, Pictures!Delete,
     Pictures!RemoveOld, Pictures!NoRow, ExpressionRow
<1>1. AttachmentsInv'
  BY <1>0, SameAttachments
<1>2. /\ entry.pc # "row" /\ entry'.pc # "row" /\ clear.pc \notin {"wipe", "purge"} /\ clear'.pc \notin {"wipe", "purge"}
  BY <1>0 DEF LibraryInv, LibraryTypes, Locked, Pictures!UploadFile, Pictures!UploadRow, Pictures!RenameFile,
     Pictures!Rename, Pictures!Delete, Pictures!RemoveOld
<1>3. LibraryTypes' /\ Locked'
  <2>1. CASE y \in Pictures!Names /\ p \in Picture /\ Pictures!UploadFile(y, p)
    BY <1>0, <1>2, <2>1 DEF LibraryInv, LibraryTypes, Locked, Pictures!UploadFile
  <2>5. CASE x \in Pictures!Names /\ y \in Pictures!Names /\ Pictures!RenameFile(x, y)
    <3>1. source[x] \in Picture \cup {Null}
      BY <2>5 DEF LibraryInv, LibraryTypes
    <3> QED BY <1>0, <1>2, <2>5, <3>1 DEF LibraryInv, LibraryTypes, Locked, Pictures!RenameFile
  <2>2. CASE Pictures!UploadRow
    <3>1. Free(edit.m) /\ edit.p \in Picture
      BY <2>2 DEF LibraryInv, ExpressionsInv, Pictures!UploadRow
    <3>2. [pic |-> edit.p, key |-> FALSE, taken |-> FALSE] \in ExpressionRow
      BY <3>1 DEF ExpressionRow
    <3>3. row' \in [Pictures!Names -> ExpressionRow] /\ source' \in [Pictures!Names -> Picture \cup {Null}]
      BY <2>2, <3>1, <3>2 DEF Pictures!UploadRow, LibraryInv, LibraryTypes
    <3> QED BY <1>0, <1>2, <2>2, <3>3 DEF LibraryInv, LibraryTypes, Locked, Pictures!UploadRow
  <2>3. CASE Pictures!Rename
    BY <1>0, <1>2, <2>3 DEF LibraryInv, LibraryTypes, Locked, ExpressionsInv, Pictures!Rename, Free, Pictures!Rows
  <2>4. CASE (x \in Pictures!Names /\ Pictures!Delete(x)) \/ Pictures!RemoveOld
    BY <1>0, <1>2, <2>4 DEF LibraryInv, LibraryTypes, Locked, ExpressionsInv, Pictures!Delete, Pictures!RemoveOld
  <2> QED BY <2>1, <2>2, <2>3, <2>4, <2>5
<1>4. ExpressionsInv'
  <2> USE DEF LibraryInv, LibraryTypes, ExpressionsInv, Pictures!RowHasFile, Pictures!Rows, Free
  <2>1. CASE y \in Pictures!Names /\ p \in Picture /\ Pictures!UploadFile(y, p)
    BY <1>2, <2>1 DEF Pictures!UploadFile
  <2>2. CASE Pictures!UploadRow
    BY <1>2, <2>2 DEF Pictures!UploadRow
  <2>3. CASE x \in Pictures!Names /\ y \in Pictures!Names /\ Pictures!RenameFile(x, y)
    BY <1>2, <2>3 DEF Pictures!RenameFile
  <2>4. CASE Pictures!Rename
    BY <1>0, <1>2, <2>4 DEF Pictures!Rename
  <2>5. CASE x \in Pictures!Names /\ Pictures!Delete(x)
    BY <1>2, <2>5 DEF Pictures!Delete
  <2>6. CASE Pictures!RemoveOld
    BY <1>2, <2>6 DEF Pictures!RemoveOld
  <2> QED BY <2>1, <2>2, <2>3, <2>4, <2>5, <2>6
<1> QED BY <1>1, <1>3, <1>4 DEF LibraryInv

\* A row whose file was written over stays a row, and is known as such.
LEMMA SetTaken ==
  ASSUME row \in [Pictures!Names -> ExpressionRow], NEW z \in Pictures!Names, row[z] # Pictures!NoRow,
         NEW rows, rows = [row EXCEPT ![z].taken = TRUE]
  PROVE  /\ rows \in [Pictures!Names -> ExpressionRow]
         /\ \A x \in Pictures!Names : x # z => rows[x] = row[x]
         /\ rows[z] # Pictures!NoRow /\ rows[z].taken = TRUE
<1> DEFINE t == [row[z] EXCEPT !.taken = TRUE]
<1>1. t \in ExpressionRow /\ t.taken = TRUE
  BY DEF ExpressionRow
<1>2. t # Pictures!NoRow
  BY <1>1 DEF Pictures!NoRow
<1>3. rows = [row EXCEPT ![z] = t]
  OBVIOUS
<1> HIDE DEF t
<1> QED BY <1>1, <1>2, <1>3

\* A message that comes with a picture, under the gate of the lifecycle.
LEMMA EntryStep ==
  ASSUME LibraryInv, NEW s, NEW p, NEW y,
         \/ s \in Session /\ p \in Picture /\ Pictures!Ingest(s, p)
         \/ Pictures!AppendInbound \/ Pictures!CollectRow
         \/ y \in Name /\ Pictures!CollectFile(y)
  PROVE  LibraryInv'
<1> USE EdgesAssumption, Nameable
<1> USE DEF Pictures!Idle, Pictures!WriteSource, Pictures!RemoveSource, Pictures!CreateRow, Pictures!files, Pictures!rows
<1>0. UNCHANGED <<uploads, outbound, persona, edit, turn, clear>>
  BY DEF Pictures!Ingest, Pictures!AppendInbound, Pictures!CollectFile, Pictures!CollectRow
<1>1. CASE s \in Session /\ p \in Picture /\ Pictures!Ingest(s, p)
  <2>0. /\ UNCHANGED <<source, row, inbound, shelf>> /\ entry = [pc |-> "idle"] /\ lifecycle = Null
        /\ \/ p \in uploads /\ lifecycle' = "entry" /\ entry' = [pc |-> "append", s |-> s, p |-> p]
           \/ UNCHANGED <<lifecycle, entry>>
    BY <1>1 DEF Pictures!Ingest, Pictures!Validated
  <2>1. ExpressionsInv'
    BY <1>0, <2>0, SameExpressions
  <2>2. LibraryTypes' /\ Locked'
    BY <1>0, <1>1, <2>0 DEF LibraryInv, LibraryTypes, Locked, Incoming
  <2>3. AttachmentsInv'
    BY <1>0, <2>0 DEF LibraryInv, AttachmentsInv, Pictures!InboundKept
  <2> QED BY <2>1, <2>2, <2>3 DEF LibraryInv
<1>2. CASE Pictures!AppendInbound
  <2>0. /\ UNCHANGED <<source, row, shelf>> /\ entry.pc = "append" /\ entry.p \in Picture /\ entry.s \in Session
        /\ entry.p \in uploads /\ lifecycle = "entry" /\ clear.pc = "idle"
        /\ inbound' = [inbound EXCEPT ![entry.s] = inbound[entry.s] \cup {entry.p}]
        /\ \/ entry' = [entry EXCEPT !.pc = "collect"] /\ UNCHANGED lifecycle
           \/ entry' = [pc |-> "idle"] /\ lifecycle' = Null
    BY <1>2 DEF Pictures!AppendInbound, LibraryInv, LibraryTypes, Incoming, AttachmentsInv, Locked
  <2>1. entry' \in Incoming /\ entry'.pc \in {"idle", "collect"} /\ (entry'.pc # "idle" => lifecycle' = "entry")
    BY <2>0 DEF Incoming, LibraryInv, LibraryTypes
  <2>2. ExpressionsInv'
    BY <1>0, <2>0, <2>1, SameExpressions
  <2>3. LibraryTypes' /\ Locked'
    BY <1>0, <2>0, <2>1 DEF LibraryInv, LibraryTypes, Locked
  <2>4. AttachmentsInv'
    BY <1>0, <2>0, <2>1 DEF LibraryInv, LibraryTypes, AttachmentsInv, Pictures!InboundKept
  <2> QED BY <2>2, <2>3, <2>4 DEF LibraryInv
<1>3. CASE y \in Name /\ Pictures!CollectFile(y)
  <2>0. entry.pc = "collect" /\ shelf = Null /\ edit.pc = "idle" /\ entry.p \in Picture /\ entry.s \in Session
        /\ UNCHANGED inbound /\ lifecycle = "entry" /\ clear.pc = "idle"
    BY <1>3 DEF Pictures!CollectFile, LibraryInv, LibraryTypes, Incoming, Locked
  <2>1. CASE entry' = Pictures!Idle /\ lifecycle' = Null /\ UNCHANGED <<shelf, source, row>>
    <3>1. ExpressionsInv'
      BY <1>0, <2>0, <2>1, SameExpressions
    <3>2. entry' \in Incoming
      BY <2>1 DEF Incoming
    <3>3. LibraryTypes' /\ Locked'
      BY <1>0, <2>0, <2>1, <3>2 DEF LibraryInv, LibraryTypes, Locked
    <3>4. AttachmentsInv'
      BY <1>0, <2>0, <2>1 DEF LibraryInv, AttachmentsInv, Pictures!InboundKept
    <3> QED BY <3>1, <3>3, <3>4 DEF LibraryInv
  <2>2. CASE /\ shelf' = "entry" /\ UNCHANGED lifecycle
             /\ source' = [source EXCEPT ![Pictures!UniqueName(y, entry.p)] = entry.p]
             /\ Pictures!Overwrites(Pictures!UniqueName(y, entry.p))
             /\ entry' = [pc |-> "row", s |-> entry.s, p |-> entry.p, to |-> Pictures!UniqueName(y, entry.p)]
    <3> DEFINE z == Pictures!UniqueName(y, entry.p)
    <3>0. /\ z \in Pictures!Names /\ source' = [source EXCEPT ![z] = entry.p]
          /\ entry' = [pc |-> "row", s |-> entry.s, p |-> entry.p, to |-> z]
          /\ row' = IF row[z] = Pictures!NoRow THEN row ELSE [row EXCEPT ![z].taken = TRUE]
      BY <1>3, <2>0, <2>2 DEF Pictures!Overwrites
    <3> HIDE DEF z
    <3>1. /\ row' \in [Pictures!Names -> ExpressionRow]
          /\ \A x \in Pictures!Names : x # z => row'[x] = row[x] /\ source'[x] = source[x]
          /\ source'[z] = entry.p
          /\ IF row[z] = Pictures!NoRow THEN row'[z] = Pictures!NoRow ELSE row'[z] # Pictures!NoRow /\ row'[z].taken = TRUE
      BY <3>0, SetTaken DEF LibraryInv, LibraryTypes
    <3>2. ExpressionsInv'
      BY <1>0, <2>0, <3>0, <3>1 DEF LibraryInv, LibraryTypes, ExpressionsInv, Free, Pictures!RowHasFile, Pictures!Rows
    <3>3. entry' \in Incoming
      BY <2>0, <3>0 DEF Incoming
    <3>4. LibraryTypes' /\ Locked'
      BY <1>0, <2>0, <2>2, <3>0, <3>1, <3>3 DEF LibraryInv, LibraryTypes, Locked
    <3>5. AttachmentsInv'
      BY <1>0, <2>0, <3>0 DEF LibraryInv, AttachmentsInv, Pictures!InboundKept
    <3> QED BY <3>2, <3>4, <3>5 DEF LibraryInv
  <2> QED BY <1>3, <2>1, <2>2 DEF Pictures!CollectFile
<1>4. CASE Pictures!CollectRow
  <2>0. entry.pc = "row" /\ shelf = "entry" /\ edit.pc = "idle" /\ lifecycle = "entry" /\ clear.pc = "idle"
        /\ UNCHANGED inbound /\ entry' = [pc |-> "idle"] /\ lifecycle' = Null /\ shelf' = Null
        /\ entry.to \in Pictures!Names /\ entry.p \in Picture
    BY <1>4 DEF Pictures!CollectRow, LibraryInv, LibraryTypes, Incoming, Locked, ExpressionsInv
  <2>1. LibraryTypes' /\ Locked'
    <3>1. entry' \in Incoming
      BY <2>0 DEF Incoming
    <3>2. row' \in [Pictures!Names -> ExpressionRow] /\ source' \in [Pictures!Names -> Picture \cup {Null}]
      <4>1. [pic |-> entry.p, key |-> TRUE, taken |-> FALSE] \in ExpressionRow
        BY <2>0 DEF ExpressionRow
      <4> QED BY <1>4, <2>0, <4>1 DEF Pictures!CollectRow, LibraryInv, LibraryTypes, Free
    <3> QED BY <1>0, <2>0, <3>1, <3>2 DEF LibraryInv, LibraryTypes, Locked
  <2>3. AttachmentsInv'
    BY <1>0, <2>0 DEF LibraryInv, AttachmentsInv, Pictures!InboundKept
  <2>2. ExpressionsInv'
    BY <1>0, <1>4, <2>0 DEF Pictures!CollectRow, LibraryInv, LibraryTypes, ExpressionsInv, Pictures!RowHasFile,
       Pictures!Rows, Free
  <2> QED BY <2>1, <2>2, <2>3 DEF LibraryInv
<1> QED BY <1>1, <1>2, <1>3, <1>4

\* A clearing, under that gate and the lock of the personas.
LEMMA ClearStep ==
  ASSUME LibraryInv, NEW s,
         \/ (s \in Session /\ Pictures!Clear(s)) \/ Pictures!ClearRows \/ Pictures!ReadReferences \/ Pictures!CollectGarbage
         \/ Pictures!Wipe \/ Pictures!WipeRows \/ Pictures!Purge
  PROVE  LibraryInv'
<1> USE EdgesAssumption
<1> USE DEF Pictures!Idle
<1> USE DEF Pictures!files, Pictures!rows, Pictures!locks
<1>1. CASE s \in Session /\ Pictures!Clear(s)
  <2>0. /\ UNCHANGED <<source, row, uploads, inbound, outbound, persona, shelf, edit, entry, turn>>
        /\ clear.pc = "idle" /\ lifecycle = Null /\ lifecycle' = "clear"
        /\ clear' = [pc |-> "rows", held |-> {s}, up |-> inbound[s], out |-> outbound[s]]
    BY <1>1 DEF Pictures!Clear
  <2>1. clear' \in Clearing /\ clear'.pc = "rows"
    BY <1>1, <2>0 DEF Clearing, LibraryInv, LibraryTypes
  <2> QED BY <2>0, <2>1, SameExpressions DEF LibraryInv, LibraryTypes, Locked, AttachmentsInv, Pictures!InboundKept
<1>6. CASE Pictures!Wipe
  <2>0. /\ UNCHANGED <<source, row, uploads, inbound, outbound, shelf, edit, entry, turn>>
        /\ clear.pc = "idle" /\ lifecycle = Null /\ lifecycle' = "clear" /\ persona = Null /\ persona' = "clear"
        /\ clear' = [pc |-> "wipe", held |-> Session]
    BY <1>6 DEF Pictures!Wipe
  <2>1. clear' \in Clearing /\ clear'.pc = "wipe"
    BY <2>0 DEF Clearing
  <2> QED BY <2>0, <2>1, SameExpressions DEF LibraryInv, LibraryTypes, Locked, AttachmentsInv, Pictures!InboundKept
<1>2. CASE Pictures!ClearRows
  <2>0. /\ UNCHANGED <<source, row, uploads, lifecycle, persona, shelf, edit, entry, turn>> /\ clear.pc = "rows"
        /\ inbound' = [t \in Session |-> IF t \in clear.held THEN {} ELSE inbound[t]]
        /\ outbound' = [t \in Session |-> IF t \in clear.held THEN {} ELSE outbound[t]]
        /\ clear' = [clear EXCEPT !.pc = "referenced"] /\ lifecycle = "clear" /\ entry.pc = "idle"
    BY <1>2 DEF Pictures!ClearRows, LibraryInv, Locked
  <2>1. clear' \in Clearing /\ clear'.pc = "referenced"
    BY <2>0 DEF Clearing, LibraryInv, LibraryTypes
  <2> QED BY <2>0, <2>1, SameExpressions DEF LibraryInv, LibraryTypes, Locked, AttachmentsInv, Pictures!InboundKept
<1>7. CASE Pictures!ReadReferences
  <2>0. /\ UNCHANGED <<source, row, uploads, inbound, outbound, lifecycle, persona, shelf, edit, entry, turn>>
        /\ clear.pc = "referenced"
        /\ clear' = [clear EXCEPT !.pc = "collect", !.up = {p \in clear.up : ~Pictures!Referenced(p)},
                                                    !.out = {p \in clear.out : ~Pictures!Shown(p)}]
    BY <1>7 DEF Pictures!ReadReferences
  <2>1. /\ clear' \in Clearing /\ clear'.pc = "collect"
        /\ clear'.up = {p \in clear.up : ~Pictures!Referenced(p)}
    BY <2>0 DEF Clearing, LibraryInv, LibraryTypes
  <2>2. \A t \in Session : inbound[t] \cap clear'.up = {}
    BY <2>1 DEF Pictures!Referenced
  <2> QED BY <2>0, <2>1, <2>2, SameExpressions DEF LibraryInv, LibraryTypes, Locked, AttachmentsInv, Pictures!InboundKept
<1>3. CASE Pictures!CollectGarbage
  <2>0. /\ UNCHANGED <<source, row, inbound, outbound, persona, shelf, edit, entry, turn>>
        /\ clear.pc = "collect" /\ lifecycle = "clear" /\ entry.pc = "idle"
        /\ uploads' = uploads \ clear.up /\ clear' = [pc |-> "idle"] /\ lifecycle' = Null
    BY <1>3 DEF Pictures!CollectGarbage, LibraryInv, Locked
  <2>1. clear' \in Clearing /\ clear'.pc = "idle"
    BY <2>0 DEF Clearing
  <2> QED BY <2>0, <2>1, SameExpressions DEF LibraryInv, LibraryTypes, Locked, AttachmentsInv, Pictures!InboundKept
<1>4. CASE Pictures!WipeRows
  <2>0. /\ UNCHANGED <<source, uploads, lifecycle, persona, shelf, edit, entry, turn>> /\ clear.pc = "wipe"
        /\ lifecycle = "clear" /\ persona = "clear" /\ entry.pc = "idle" /\ edit.pc = "idle"
        /\ row' = [x \in Pictures!Names |-> Pictures!NoRow] /\ Pictures!NoRow \in ExpressionRow
        /\ inbound' = [t \in Session |-> {}] /\ outbound' = [t \in Session |-> {}]
        /\ clear' = [clear EXCEPT !.pc = "purge"]
    BY <1>4 DEF Pictures!WipeRows, LibraryInv, LibraryTypes, Locked, ExpressionRow, Pictures!NoRow
  <2>1. clear' \in Clearing /\ clear'.pc = "purge"
    BY <2>0 DEF Clearing, LibraryInv, LibraryTypes
  <2> QED BY <2>0, <2>1, Nameable DEF LibraryInv, LibraryTypes, Locked, ExpressionsInv, AttachmentsInv,
        Pictures!InboundKept, Pictures!RowHasFile, Pictures!Rows
<1>5. CASE Pictures!Purge
  <2>0. /\ UNCHANGED <<row, inbound, outbound, shelf, edit, entry, turn>> /\ clear.pc = "purge"
        /\ lifecycle = "clear" /\ persona = "clear" /\ entry.pc = "idle" /\ edit.pc = "idle"
        /\ clear' = [pc |-> "idle"] /\ lifecycle' = Null /\ persona' = Null
        /\ uploads' = {} /\ source' = [x \in Pictures!Names |-> Null]
    BY <1>5 DEF Pictures!Purge, LibraryInv, LibraryTypes, Locked
  <2>1. clear' \in Clearing /\ clear'.pc = "idle"
    BY <2>0 DEF Clearing
  <2> QED BY <2>0, <2>1, Nameable DEF LibraryInv, LibraryTypes, Locked, ExpressionsInv, AttachmentsInv,
        Pictures!InboundKept, Pictures!RowHasFile, Pictures!Rows
<1> QED BY <1>1, <1>2, <1>3, <1>4, <1>5, <1>6, <1>7

\* Every operation on pictures, and a crash in any of them, keeps the invariant.
LEMMA LibraryStep == LibraryInv /\ [Pictures!Next]_library => LibraryInv'
<1> SUFFICES ASSUME LibraryInv, [Pictures!Next]_library PROVE LibraryInv'
  OBVIOUS
<1>1. ASSUME UNCHANGED <<source, row, inbound, lifecycle, persona, shelf, edit, entry, clear>>,
             outbound' \in [Session -> SUBSET (Picture \cup {Null})],
             turn' \in Choosing,
             uploads \subseteq uploads', uploads' \subseteq Picture
      PROVE  LibraryInv'
  <2>1. ExpressionsInv' /\ AttachmentsInv'
    BY <1>1, SameExpressions, SameAttachments
  <2> QED BY <1>1, <2>1 DEF LibraryInv, LibraryTypes, Locked
<1>2. ASSUME NEW p \in Picture, \/ Pictures!SaveAttachment(p) \/ Pictures!Understand(p) \/ Pictures!ReadPicture(p)
                                \/ Pictures!SaveAnalysis(p)
      PROVE  LibraryInv'
  BY <1>1, <1>2 DEF Pictures!SaveAttachment, Pictures!Understand, Pictures!ReadPicture, Pictures!SaveAnalysis,
     Pictures!files, Pictures!rows, Pictures!locks, Pictures!procs, LibraryInv, LibraryTypes
<1>3. ASSUME NEW s \in Session, NEW x \in Pictures!Names, Pictures!Choose(s, x) PROVE LibraryInv'
  <2>1. turn' \in Choosing
    BY <1>3 DEF Pictures!Choose, LibraryInv, LibraryTypes, ExpressionRow, Choosing
  <2> QED BY <1>1, <1>3, <2>1 DEF Pictures!Choose, Pictures!files, Pictures!rows, Pictures!locks, LibraryInv, LibraryTypes
<1>5. CASE Pictures!Publish \/ UNCHANGED library
  <2>1. turn' \in Choosing
    BY <1>5 DEF Pictures!Publish, Pictures!Idle, library, LibraryInv, LibraryTypes, Choosing
  <2> QED BY <1>1, <1>5, <2>1 DEF Pictures!Publish, library, Pictures!rows, Pictures!locks, LibraryInv, LibraryTypes
<1>6. CASE Pictures!Prepare
  <2>1. turn.p \in Picture \cup {Null} /\ turn' \in Choosing
    BY <1>6 DEF Pictures!Prepare, Pictures!Idle, LibraryInv, LibraryTypes, Choosing
  <2> QED BY <1>1, <1>6, <2>1 DEF Pictures!Prepare, Pictures!files, Pictures!locks, LibraryInv, LibraryTypes
<1>4. CASE Pictures!Crash
  <2>0. /\ UNCHANGED <<source, row, uploads, inbound, outbound>>
        /\ lifecycle' = Null /\ persona' = Null /\ shelf' = Null
        /\ edit'.pc = "idle" /\ turn' = [pc |-> "idle"] /\ entry' = [pc |-> "idle"] /\ clear' = [pc |-> "idle"]
    BY <1>4 DEF Pictures!Crash, Pictures!files, Pictures!rows, Pictures!Idle
  <2>1. entry' \in Incoming /\ clear' \in Clearing /\ turn' \in Choosing
    BY <2>0 DEF Incoming, Clearing, Choosing
  <2>2. LibraryTypes' /\ Locked'
    BY <2>0, <2>1 DEF LibraryInv, LibraryTypes, Locked
  <2>3. ExpressionsInv'
    BY <2>0 DEF LibraryInv, ExpressionsInv, Pictures!RowHasFile, Pictures!Rows
  <2>4. AttachmentsInv'
    BY <2>0 DEF LibraryInv, AttachmentsInv, Pictures!InboundKept
  <2> QED BY <2>2, <2>3, <2>4 DEF LibraryInv
<1> QED BY <1>2, <1>3, <1>4, <1>5, <1>6, ConsoleStep, EntryStep, ClearStep DEF Pictures!Next

(****************************************************************************)
(* GroupParticipation: an ordinary reply waits for the pause                 *)
(****************************************************************************)

\* What a turn took: its newest message, and whether one was addressed to the agent.
Batch == [newest : Int, forced : BOOLEAN]
\* A turn that decides.
Deciding == [pc : {"understand", "save"}, batch : Batch, snap : Nat, reply : BOOLEAN, idle : BOOLEAN]
\* The messages of a reply being sent.
BatchRow == [reply : Nat, bubble : Nat, retry : BOOLEAN, recovery : BOOLEAN]
\* One message of a reply.
Bubble == [status : {"prepared", "blocked", "sent", "failed", "unknown", "dispatching", "shown"},
           at : Nat \cup {Null}]
\* A turn that decided to reply.
Reply == [forced : BOOLEAN, bubble : Seq(Bubble), recorded : BOOLEAN]

\* A reply is on record when its first message is shown, and the pause counts
\* from then or later.
OnRecord(r, p) ==
  /\ r.recorded = TRUE => Len(r.bubble) >= 1 /\ r.bubble[1].status = "shown"
  /\ Len(r.bubble) >= 1 /\ r.bubble[1].status = "shown" =>
       r.recorded = TRUE /\ (r.forced = FALSE => p \in Nat /\ r.bubble[1].at <= p)
  /\ \A b \in 1..Len(r.bubble) : r.bubble[b].status \in {"sent", "shown"} => r.bubble[b].at \in Nat

\* Every reply is of that kind, and the pause counts from those on record.
RepliesInv == replies \in Seq(Reply) /\ \A i \in 1..Len(replies) : OnRecord(replies[i], policy.reply)

\* The clock, what is pending and the row of the policy.
PolicyTypes ==
  /\ now \in Nat /\ pending \in Batch \cup {Null}
  /\ DOMAIN policy = {"silent", "cooldown", "streak", "until", "reply", "last", "ewma"}
  /\ policy.cooldown \in Nat /\ policy.reply \in Nat \cup {Null}

\* The pause after the replies on record is over at that time.
Paused(t) == policy.reply = Null \/ t - policy.reply >= policy.cooldown

\* An ordinary turn that may answer found the pause over, and what the pause is
\* counted from does not move while a turn decides.
DecisionInv ==
  /\ decision.pc \in {"none", "understand", "save", "generate"}
  /\ decision.pc = "none" => decision = Group!NoTurn
  /\ decision.pc # "none" => batch = Null
  /\ decision.pc \in {"understand", "save"} =>
       /\ decision \in Deciding
       /\ decision.batch.forced = FALSE /\ (decision.pc = "understand" \/ decision.reply = TRUE)
            => Paused(decision.snap)
  /\ decision.pc = "generate" => /\ decision.reply \in 1..Len(replies)
                                 /\ Len(replies[decision.reply].bubble) = 0

\* A batch is sent from its first message, and goes on after that is on record.
BatchInv ==
  /\ batch # Null => /\ batch \in BatchRow /\ batch.reply \in 1..Len(replies)
                     /\ batch.bubble \in 1..Len(replies[batch.reply].bubble)
                     /\ batch.bubble > 1 => replies[batch.reply].recorded = TRUE
  /\ \A i \in left : i \in 1..Len(replies) /\ Len(replies[i].bubble) >= 1

\* All of it.
GroupInv == PolicyTypes /\ RepliesInv /\ DecisionInv /\ BatchInv

\* No reply is on record at first.
LEMMA GroupInit == Group!Init => GroupInv
<1> SUFFICES ASSUME Group!Init PROVE GroupInv
  OBVIOUS
<1>1. PICK c \in Cooldown : policy = [silent |-> FALSE, cooldown |-> c, streak |-> 0, until |-> Null,
                                      reply |-> Null, last |-> Null, ewma |-> Null]
  BY DEF Group!Init
<1>2. PolicyTypes
  BY <1>1, EdgesAssumption DEF Group!Init, PolicyTypes
<1>3. replies \in Seq(Reply) /\ Len(replies) = 0
  BY DEF Group!Init
<1>4. RepliesInv /\ BatchInv
  BY <1>3 DEF Group!Init, RepliesInv, BatchInv
<1>5. DecisionInv
  BY DEF Group!Init, DecisionInv, Group!NoTurn
<1> QED BY <1>2, <1>4, <1>5 DEF GroupInv

\* A later reply on record only lengthens the pause.
LEMMA Later ==
  ASSUME NEW r \in Reply, NEW p \in Nat \cup {Null}, NEW q \in Nat \cup {Null}, OnRecord(r, p),
         q = p \/ (q \in Nat /\ (p \in Nat => p <= q))
  PROVE  OnRecord(r, q)
<1>1. CASE q = p
  BY <1>1
<1>2. CASE q \in Nat /\ (p \in Nat => p <= q)
  <2>1. ASSUME r.forced = FALSE, p \in Nat, r.bubble[1].at <= p, Len(r.bubble) >= 1, r.bubble[1].status = "shown"
        PROVE  r.bubble[1].at <= q
    <3>1. 1 \in 1..Len(r.bubble)
      BY <2>1 DEF Reply
    <3>2. r.bubble[1].at \in Nat
      BY <2>1, <3>1 DEF OnRecord
    <3> QED BY <1>2, <2>1, <3>2
  <2> QED BY <1>2, <2>1 DEF OnRecord
<1> QED BY <1>1, <1>2

\* One reply changes, and the pause is not shortened.
LEMMA ReplyMoves ==
  ASSUME GroupInv, NEW i \in 1..Len(replies), NEW to \in Reply, replies' = [replies EXCEPT ![i] = to],
         OnRecord(to, policy'.reply), policy'.reply \in Nat \cup {Null},
         \/ policy'.reply = policy.reply
         \/ policy'.reply \in Nat /\ (policy.reply \in Nat => policy.reply <= policy'.reply)
  PROVE  /\ RepliesInv' /\ Len(replies') = Len(replies) /\ replies'[i] = to
         /\ \A j \in 1..Len(replies) : j # i => replies'[j] = replies[j]
<1>1. replies \in Seq(Reply)
  BY DEF GroupInv, RepliesInv
<1>2. replies' \in Seq(Reply) /\ Len(replies') = Len(replies) /\ replies'[i] = to
      /\ \A j \in 1..Len(replies) : j # i => replies'[j] = replies[j]
  BY <1>1, ExceptSeq
<1>3. ASSUME NEW j \in 1..Len(replies) PROVE OnRecord(replies'[j], policy'.reply)
  <2>1. CASE j = i
    BY <1>2, <2>1
  <2>2. CASE j # i
    <3>1. replies'[j] = replies[j] /\ replies[j] \in Reply /\ OnRecord(replies[j], policy.reply)
          /\ policy.reply \in Nat \cup {Null}
      BY <1>1, <1>2, <2>2 DEF GroupInv, RepliesInv, PolicyTypes
    <3> QED BY <3>1, Later
  <2> QED BY <2>1, <2>2
<1> QED BY <1>2, <1>3 DEF RepliesInv

\* The message being sent changes.
LEMMA BubbleMoves ==
  ASSUME GroupInv, batch # Null, NEW b \in Bubble
  PROVE  LET r == replies[batch.reply]
             to == [r EXCEPT !.bubble = [r.bubble EXCEPT ![batch.bubble] = b]]
         IN /\ Group!Set(b) = [replies EXCEPT ![batch.reply] = to] /\ to \in Reply
            /\ to.forced = r.forced /\ to.recorded = r.recorded
            /\ Len(to.bubble) = Len(r.bubble) /\ to.bubble[batch.bubble] = b
            /\ \A k \in 1..Len(r.bubble) : k # batch.bubble => to.bubble[k] = r.bubble[k]
            /\ batch.reply \in 1..Len(replies) /\ r \in Reply /\ OnRecord(r, policy.reply)
            /\ r.bubble[batch.bubble] \in Bubble /\ Len(r.bubble) \in Nat
<1> DEFINE r == replies[batch.reply]
           bb == [r.bubble EXCEPT ![batch.bubble] = b]
           to == [r EXCEPT !.bubble = bb]
<1>1. /\ batch.reply \in 1..Len(replies) /\ replies \in Seq(Reply) /\ r \in Reply /\ r.bubble \in Seq(Bubble)
      /\ batch.bubble \in 1..Len(r.bubble) /\ OnRecord(r, policy.reply) /\ Len(r.bubble) \in Nat
  <2>1. /\ batch.reply \in 1..Len(replies) /\ replies \in Seq(Reply) /\ batch.bubble \in 1..Len(r.bubble)
    BY DEF GroupInv, RepliesInv, BatchInv
  <2>2. r \in Reply /\ OnRecord(r, policy.reply)
    BY <2>1 DEF GroupInv, RepliesInv
  <2>3. r.bubble \in Seq(Bubble)
    BY <2>2 DEF Reply
  <2> QED BY <2>1, <2>2, <2>3
<1>2. /\ bb \in Seq(Bubble) /\ Len(bb) = Len(r.bubble) /\ bb[batch.bubble] = b
      /\ \A k \in 1..Len(r.bubble) : k # batch.bubble => bb[k] = r.bubble[k]
  BY <1>1, ExceptSeq
<1>3. Group!Set(b) = [replies EXCEPT ![batch.reply] = to]
  BY DEF Group!Set
<1>6. r.bubble[batch.bubble] \in Bubble
  BY <1>1
<1> HIDE DEF bb
<1>4. to \in Reply /\ to.forced = r.forced /\ to.recorded = r.recorded /\ to.bubble = bb
  BY <1>1, <1>2 DEF Reply
<1> QED BY <1>1, <1>2, <1>3, <1>4, <1>6 DEF bb

\* What a start finds to recover has messages.
LEMMA LeftKeeps ==
  ASSUME GroupInv, RepliesInv',
         \/ left' = left /\ Len(replies') = Len(replies)
            /\ \A j \in 1..Len(replies) : Len(replies'[j].bubble) >= Len(replies[j].bubble)
         \/ left' = {i \in DOMAIN replies' : Group!Recoverable(replies'[i])}
  PROVE  \A j \in left' : j \in 1..Len(replies') /\ Len(replies'[j].bubble) >= 1
<1> SUFFICES ASSUME NEW j \in left' PROVE j \in 1..Len(replies') /\ Len(replies'[j].bubble) >= 1
  OBVIOUS
<1>1. CASE /\ left' = left /\ Len(replies') = Len(replies)
           /\ \A k \in 1..Len(replies) : Len(replies'[k].bubble) >= Len(replies[k].bubble)
  <2>1. j \in 1..Len(replies) /\ Len(replies[j].bubble) >= 1
    BY <1>1 DEF GroupInv, BatchInv
  <2>2. replies \in Seq(Reply) /\ replies' \in Seq(Reply)
    BY DEF GroupInv, RepliesInv
  <2>3. replies[j] \in Reply /\ replies'[j] \in Reply
    BY <1>1, <2>1, <2>2
  <2>4. Len(replies[j].bubble) \in Nat /\ Len(replies'[j].bubble) \in Nat
    BY <2>3 DEF Reply
  <2> QED BY <1>1, <2>1, <2>4
<1>2. CASE left' = {i \in DOMAIN replies' : Group!Recoverable(replies'[i])}
  <2>1. replies' \in Seq(Reply)
    BY DEF RepliesInv
  <2>2. j \in 1..Len(replies') /\ Group!Recoverable(replies'[j])
    BY <1>2, <2>1
  <2>3. replies'[j].bubble \in Seq(Bubble)
    <3>1. replies'[j] \in Reply
      BY <2>1, <2>2
    <3> QED BY <3>1 DEF Reply
  <2>4. DOMAIN replies'[j].bubble # {}
    BY <2>2 DEF Group!Recoverable, Group!Statuses
  <2> QED BY <2>2, <2>3, <2>4
<1> QED BY <1>1, <1>2

\* Nothing about the replies and the pause changes.
LEMMA RestKeeps ==
  ASSUME GroupInv, UNCHANGED replies, PolicyTypes', policy'.reply = policy.reply,
         left' = left \/ left' = {i \in DOMAIN replies' : Group!Recoverable(replies'[i])},
         DecisionInv', batch' = Null \/ batch' = batch
  PROVE  GroupInv'
<1>1. RepliesInv'
  BY DEF GroupInv, RepliesInv
<1>2. \A j \in left' : j \in 1..Len(replies') /\ Len(replies'[j].bubble) >= 1
  <2>1. CASE left' = left
    BY <2>1 DEF GroupInv, BatchInv
  <2> QED BY <1>1, <2>1, LeftKeeps
<1> QED BY <1>1, <1>2 DEF GroupInv, BatchInv

\* A turn that does not go on.
LEMMA NoDecision == ASSUME decision' = Group!NoTurn PROVE DecisionInv'
  BY DEF DecisionInv, Group!NoTurn

\* The user sets another pause between two turns only.
LEMMA ConfigureKeeps == ASSUME GroupInv, Group!Configure PROVE GroupInv'
<1>1. PICK c \in Cooldown, s \in BOOLEAN : policy' = [policy EXCEPT !.cooldown = c, !.silent = s]
  BY DEF Group!Configure
<1>2. decision = Group!NoTurn /\ decision' = decision /\ batch' = batch /\ UNCHANGED <<now, pending, replies, left>>
  BY DEF Group!Configure, Group!Free
<1>3. PolicyTypes' /\ policy'.reply = policy.reply
  BY <1>1, <1>2, EdgesAssumption DEF GroupInv, PolicyTypes
<1>4. DecisionInv'
  BY <1>2, NoDecision
<1> QED BY <1>2, <1>3, <1>4, RestKeeps

\* The gate lets an ordinary turn pass only when the pause is over.
LEMMA DecideKeeps == ASSUME GroupInv, Group!Decide PROVE GroupInv'
<1>1. PICK m \in Group!Message, worth \in BOOLEAN, long \in BOOLEAN :
        LET b == Group!Together(pending, m)
            gated == ~b.forced /\ Group!Gated(b.newest)
            speak == b.forced \/ (~gated /\ worth)
        IN /\ b # Null /\ (long => ~gated /\ (worth = b.forced))
           /\ decision' = [pc |-> IF long THEN "understand" ELSE "save",
                           batch |-> b, snap |-> now, reply |-> speak, idle |-> ~speak /\ ~gated]
  BY DEF Group!Decide, Group!Score
<1> DEFINE b == Group!Together(pending, m)
           gated == ~b.forced /\ Group!Gated(b.newest)
           speak == b.forced \/ (~gated /\ worth)
<1>2. batch = Null /\ batch' = batch /\ pending' = Null /\ UNCHANGED <<now, policy, replies, left>>
  BY DEF Group!Decide, Group!Free
<1>3. b \in Batch
  <2>1. m \in Batch \cup {Null} /\ pending \in Batch \cup {Null}
    BY DEF Group!Message, Batch, GroupInv, PolicyTypes
  <2>2. \A i, j \in Int : Group!Most(i, j) \in Int
    BY DEF Group!Most
  <2>3. CASE m \in Batch /\ pending \in Batch /\ b = [newest |-> Group!Most(pending.newest, m.newest), forced |-> pending.forced \/ m.forced]
    BY <2>2, <2>3 DEF Batch
  <2>4. CASE b = m \/ b = pending
    BY <1>1, <2>1, <2>4
  <2> QED BY <2>1, <2>3, <2>4 DEF Group!Together
<1>4. PolicyTypes'
  BY <1>2 DEF GroupInv, PolicyTypes
<1>5. speak \in BOOLEAN /\ (~speak /\ ~gated) \in BOOLEAN /\ now \in Nat
  BY <1>3 DEF Batch, GroupInv, PolicyTypes
<1>6. decision' = [pc |-> IF long THEN "understand" ELSE "save", batch |-> b, snap |-> now, reply |-> speak,
                   idle |-> ~speak /\ ~gated]
  BY <1>1
<1>7. b.forced = FALSE /\ (long \/ speak) => ~gated
  BY <1>1, <1>3 DEF Batch
<1>8. b.forced = FALSE /\ ~gated => Paused(now)
  BY <1>5 DEF Group!Gated, Group!Cooling, Paused, GroupInv, PolicyTypes
<1> HIDE DEF b, gated, speak
<1>9. decision' \in Deciding /\ decision'.batch = b /\ decision'.snap = now /\ decision'.reply = speak
      /\ (decision'.pc = "understand" => long)
  BY <1>3, <1>5, <1>6 DEF Deciding
<1>10. DecisionInv'
  BY <1>2, <1>7, <1>8, <1>9 DEF DecisionInv, Deciding, Paused
<1> QED BY <1>2, <1>4, <1>10, RestKeeps

\* A model changes whether to answer, not when that was decided.
LEMMA UnderstandKeeps == ASSUME GroupInv, Group!Understand PROVE GroupInv'
<1>1. /\ decision.pc = "understand" /\ decision \in Deciding /\ batch = Null /\ batch' = batch
      /\ decision.batch.forced = FALSE => Paused(decision.snap)
      /\ UNCHANGED <<now, policy, pending, replies, left>>
  BY DEF Group!Understand, GroupInv, DecisionInv
<1>2. PICK worth \in BOOLEAN :
        decision' = IF decision.batch.forced THEN [decision EXCEPT !.pc = "save"]
                    ELSE [decision EXCEPT !.pc = "save", !.reply = worth, !.idle = ~worth]
  BY DEF Group!Understand
<1>3. decision' \in Deciding /\ decision'.batch = decision.batch /\ decision'.snap = decision.snap
      /\ decision'.pc = "save"
  BY <1>1, <1>2 DEF Deciding, Batch
<1>4. PolicyTypes' /\ DecisionInv'
  BY <1>1, <1>3 DEF GroupInv, PolicyTypes, DecisionInv, Paused
<1> QED BY <1>1, <1>4, RestKeeps

\* The transaction of a turn moves the back-off, never the pause.
LEMMA Saving ==
  ASSUME GroupInv, Group!Save
  PROVE  /\ decision \in Deciding /\ batch = Null /\ policy'.reply = policy.reply /\ PolicyTypes'
         /\ UNCHANGED <<now, pending, batch, left>>
<1>1. decision \in Deciding /\ batch = Null /\ UNCHANGED <<now, pending, batch, left>>
  BY DEF Group!Save, GroupInv, DecisionInv
<1>2. policy' = Group!Advanced
  BY DEF Group!Save
<1>3. /\ DOMAIN policy' = DOMAIN policy /\ policy'.reply = policy.reply /\ policy'.cooldown = policy.cooldown
  BY <1>2 DEF Group!Advanced, GroupInv, PolicyTypes
<1> QED BY <1>1, <1>3 DEF GroupInv, PolicyTypes

\* A turn that answers adds a reply with no messages yet.
LEMMA SaveKeeps == ASSUME GroupInv, Group!Save PROVE GroupInv'
<1>1. /\ decision \in Deciding /\ batch = Null /\ policy'.reply = policy.reply /\ PolicyTypes'
      /\ UNCHANGED <<now, pending, batch, left>>
  BY Saving
<1>2. CASE decision' = Group!NoTurn /\ UNCHANGED replies
  BY <1>1, <1>2, NoDecision, RestKeeps
<1>3. CASE /\ replies' = Append(replies, [forced |-> decision.batch.forced, bubble |-> <<>>, recorded |-> FALSE])
           /\ decision' = [pc |-> "generate", reply |-> Len(replies) + 1, retry |-> FALSE]
  <2> DEFINE r == [forced |-> decision.batch.forced, bubble |-> <<>>, recorded |-> FALSE]
  <2>1. r \in Reply /\ Len(r.bubble) = 0 /\ r.recorded = FALSE
    BY <1>1, EmptySeq DEF Reply, Deciding, Batch
  <2>2. replies \in Seq(Reply) /\ Len(replies) \in Nat /\ replies' = Append(replies, r)
    BY <1>3 DEF GroupInv, RepliesInv
  <2> HIDE DEF r
  <2>3. /\ replies' \in Seq(Reply) /\ Len(replies') = Len(replies) + 1 /\ replies'[Len(replies) + 1] = r
        /\ \A i \in 1..Len(replies) : replies'[i] = replies[i]
    BY <2>1, <2>2
  <2>4. OnRecord(r, policy'.reply)
    BY <2>1 DEF OnRecord
  <2>5. \A i \in 1..Len(replies') : i = Len(replies) + 1 \/ i \in 1..Len(replies)
    BY <2>2, <2>3
  <2>6. RepliesInv'
    BY <1>1, <2>3, <2>4, <2>5 DEF GroupInv, RepliesInv
  <2>7. DecisionInv'
    BY <1>1, <1>3, <2>1, <2>2, <2>3 DEF DecisionInv
  <2>8. BatchInv'
    BY <1>1, <2>2, <2>3 DEF GroupInv, BatchInv
  <2> QED BY <1>1, <2>6, <2>7, <2>8 DEF GroupInv
<1> QED BY <1>2, <1>3 DEF Group!Save

\* A turn that fails gives back what it took.
LEMMA TurnFailsKeeps == ASSUME GroupInv, Group!TurnFails PROVE GroupInv'
<1>1. PolicyTypes'
  BY DEF Group!TurnFails, GroupInv, PolicyTypes, DecisionInv, Deciding
<1> QED BY <1>1, NoDecision, RestKeeps DEF Group!TurnFails

\* The messages of a reply are prepared once.
LEMMA GenerateKeeps == ASSUME GroupInv, Group!Generate PROVE GroupInv'
<1>1. /\ decision.pc = "generate" /\ decision' = Group!NoTurn /\ batch = Null
      /\ decision.reply \in 1..Len(replies) /\ Len(replies[decision.reply].bubble) = 0
      /\ UNCHANGED <<now, policy, pending, left>> /\ PolicyTypes'
  BY DEF Group!Generate, GroupInv, PolicyTypes, DecisionInv
<1>2. CASE UNCHANGED <<replies, batch>>
  BY <1>1, <1>2, NoDecision, RestKeeps
<1>3. ASSUME NEW k \in 1..Bubbles,
             replies' = [replies EXCEPT ![decision.reply].bubble = Group!Prepared(k)],
             batch' = [reply |-> decision.reply, bubble |-> 1, retry |-> FALSE, recovery |-> FALSE]
      PROVE  GroupInv'
  <2> DEFINE i == decision.reply
             p == Group!Prepared(k)
             to == [replies[i] EXCEPT !.bubble = p]
  <2>0. k \in Nat /\ k >= 1
    OBVIOUS
  <2>1. p \in Seq(Bubble) /\ Len(p) = k /\ p[1].status = "prepared"
        /\ \A b \in 1..k : p[b].status \in {"prepared", "blocked"}
    <3>1. \A b \in 1..k : [status |-> IF b = 1 THEN "prepared" ELSE "blocked", at |-> Null] \in Bubble
      BY DEF Bubble
    <3>2. p \in [1..k -> Bubble] /\ p[1].status = "prepared"
          /\ \A b \in 1..k : p[b].status \in {"prepared", "blocked"}
      BY <2>0, <3>1 DEF Group!Prepared
    <3> HIDE DEF p
    <3> QED BY <2>0, <3>2
  <2>2. replies[i] \in Reply /\ OnRecord(replies[i], policy.reply) /\ replies' = [replies EXCEPT ![i] = to]
    BY <1>1, <1>3 DEF GroupInv, RepliesInv
  <2> HIDE DEF p
  <2>3. to \in Reply /\ to.bubble = p /\ to.recorded = replies[i].recorded
    BY <2>1, <2>2 DEF Reply
  <2> HIDE DEF to
  <2>4. to.recorded = FALSE
    <3>1. replies[i].recorded \in BOOLEAN /\ ~(Len(replies[i].bubble) >= 1)
      BY <1>1, <2>2 DEF Reply
    <3>2. replies[i].recorded # TRUE
      BY <2>2, <3>1 DEF OnRecord
    <3> QED BY <2>3, <3>1, <3>2
  <2>5. OnRecord(to, policy'.reply)
    BY <2>0, <2>1, <2>3, <2>4 DEF OnRecord
  <2>6. /\ RepliesInv' /\ Len(replies') = Len(replies) /\ replies'[i] = to
        /\ \A j \in 1..Len(replies) : j # i => replies'[j] = replies[j]
    <3>1. policy'.reply = policy.reply /\ policy'.reply \in Nat \cup {Null}
      BY <1>1 DEF PolicyTypes
    <3> QED BY <1>1, <2>2, <2>3, <2>5, <3>1, ReplyMoves
  <2>7. BatchInv'
    <3>1. i \in Nat
      <4>1. replies \in Seq(Reply)
        BY DEF GroupInv, RepliesInv
      <4> QED BY <1>1, <4>1
    <3>2. batch' \in BatchRow /\ batch'.reply = i /\ batch'.bubble = 1
      BY <1>3, <3>1 DEF BatchRow
    <3>3. Len(replies'[i].bubble) = k
      BY <2>1, <2>3, <2>6
    <3>4. \A j \in left : j \in 1..Len(replies') /\ Len(replies'[j].bubble) >= 1
      BY <1>1, <2>0, <2>6, <3>3 DEF GroupInv, BatchInv
    <3> QED BY <1>1, <2>0, <2>6, <3>2, <3>3, <3>4 DEF BatchInv
  <2> QED BY <1>1, <2>6, <2>7, NoDecision DEF GroupInv
<1> QED BY <1>2, <1>3 DEF Group!Generate

\* The message being sent changes, and the pause counts from its reply at the latest.
LEMMA SendingKeeps ==
  ASSUME GroupInv, batch # Null, NEW b \in Bubble, NEW rec \in BOOLEAN,
         UNCHANGED <<now, pending, decision>>, PolicyTypes',
         left' = left \/ left' = {i \in DOMAIN replies' : Group!Recoverable(replies'[i])},
         replies' = [replies EXCEPT ![batch.reply] =
                       [replies[batch.reply] EXCEPT !.bubble = [@ EXCEPT ![batch.bubble] = b], !.recorded = rec]],
         replies[batch.reply].recorded = TRUE => rec = TRUE,
         b.status \in {"sent", "shown"} => b.at \in Nat,
         batch.bubble = 1 => (rec = TRUE <=> b.status = "shown"),
         rec = TRUE /\ replies[batch.reply].recorded = FALSE =>
           batch.bubble = 1 /\ (replies[batch.reply].forced = FALSE => policy'.reply \in Nat /\ b.at <= policy'.reply),
         replies[batch.reply].recorded = TRUE /\ batch.bubble = 1 => b = replies[batch.reply].bubble[1],
         \/ policy'.reply = policy.reply
         \/ policy'.reply \in Nat /\ (policy.reply \in Nat => policy.reply <= policy'.reply),
         \/ batch' = Null \/ batch' = batch
         \/ /\ batch' = [batch EXCEPT !.bubble = batch.bubble + 1] /\ rec = TRUE
            /\ batch.bubble < Len(replies[batch.reply].bubble)
  PROVE  GroupInv'
<1> DEFINE i == batch.reply
           r == replies[i]
           bb == [r.bubble EXCEPT ![batch.bubble] = b]
           to == [r EXCEPT !.bubble = bb, !.recorded = rec]
<1>1. /\ i \in 1..Len(replies) /\ r \in Reply /\ OnRecord(r, policy.reply) /\ r.bubble \in Seq(Bubble)
      /\ Len(r.bubble) \in Nat /\ batch.bubble \in 1..Len(r.bubble) /\ batch \in BatchRow
      /\ batch.bubble > 1 => r.recorded = TRUE
  <2>1. /\ i \in 1..Len(replies) /\ replies \in Seq(Reply) /\ batch.bubble \in 1..Len(r.bubble) /\ batch \in BatchRow
        /\ batch.bubble > 1 => r.recorded = TRUE
    BY DEF GroupInv, RepliesInv, BatchInv
  <2>2. r \in Reply /\ OnRecord(r, policy.reply)
    BY <2>1 DEF GroupInv, RepliesInv
  <2>3. r.bubble \in Seq(Bubble)
    BY <2>2 DEF Reply
  <2> QED BY <2>1, <2>2, <2>3
<1>2. /\ bb \in Seq(Bubble) /\ Len(bb) = Len(r.bubble) /\ bb[batch.bubble] = b
      /\ \A k \in 1..Len(r.bubble) : k # batch.bubble => bb[k] = r.bubble[k]
  BY <1>1, ExceptSeq
<1>3. replies' = [replies EXCEPT ![i] = to]
  OBVIOUS
<1> HIDE DEF bb
<1>4. to \in Reply /\ to.forced = r.forced /\ to.bubble = bb /\ to.recorded = rec
  BY <1>1, <1>2 DEF Reply
<1>5. ASSUME NEW k \in 1..Len(bb), bb[k].status \in {"sent", "shown"} PROVE bb[k].at \in Nat
  BY <1>1, <1>2, <1>5 DEF OnRecord
<1>6. 1 \in 1..Len(bb) /\ (batch.bubble = 1 \/ bb[1] = r.bubble[1])
  BY <1>1, <1>2
<1>7. policy'.reply \in Nat \cup {Null} /\ policy.reply \in Nat \cup {Null} /\ OnRecord(r, policy'.reply)
  BY <1>1, Later DEF GroupInv, PolicyTypes
<1>8. rec = TRUE <=> bb[1].status = "shown"
  <2>1. CASE batch.bubble = 1
    BY <1>2, <2>1
  <2>2. CASE batch.bubble # 1
    <3>1. batch.bubble > 1 /\ bb[1] = r.bubble[1]
      BY <1>1, <1>6, <2>2
    <3> QED BY <1>1, <3>1 DEF OnRecord
  <2> QED BY <2>1, <2>2
<1>9. rec = TRUE /\ r.forced = FALSE => policy'.reply \in Nat /\ bb[1].at <= policy'.reply
  <2>1. CASE r.recorded = FALSE
    BY <1>2, <2>1
  <2>2. CASE r.recorded = TRUE
    <3>1. bb[1] = r.bubble[1]
      BY <1>2, <1>6, <2>2
    <3> QED BY <1>1, <1>7, <2>2, <3>1 DEF OnRecord
  <2> QED BY <1>1, <2>1, <2>2 DEF Reply
<1> HIDE DEF to
<1>10. OnRecord(to, policy'.reply)
  BY <1>4, <1>5, <1>6, <1>8, <1>9 DEF OnRecord
<1>11. /\ RepliesInv' /\ Len(replies') = Len(replies) /\ replies'[i] = to
       /\ \A j \in 1..Len(replies) : j # i => replies'[j] = replies[j]
  <2>1. \/ policy'.reply = policy.reply
        \/ policy'.reply \in Nat /\ (policy.reply \in Nat => policy.reply <= policy'.reply)
    OBVIOUS
  <2> QED BY <1>1, <1>3, <1>4, <1>7, <1>10, <2>1, ReplyMoves
<1>12. Len(replies'[i].bubble) = Len(r.bubble) /\ replies'[i].recorded = rec
  BY <1>2, <1>4, <1>11
<1>13. DecisionInv'
  BY DEF GroupInv, DecisionInv
<1>14. BatchInv'
  <2>1. \A j \in left' : j \in 1..Len(replies') /\ Len(replies'[j].bubble) >= 1
    <3>1. CASE left' = left
      BY <1>11, <1>12, <3>1 DEF GroupInv, BatchInv
    <3>2. CASE left' = {k \in DOMAIN replies' : Group!Recoverable(replies'[k])}
      BY <1>11, <3>2, LeftKeeps
    <3> QED BY <3>1, <3>2
  <2>2. CASE batch' = Null
    BY <2>1, <2>2 DEF BatchInv
  <2>3. CASE batch' = batch
    BY <1>1, <1>11, <1>12, <2>1, <2>3 DEF BatchInv
  <2>4. CASE batch' = [batch EXCEPT !.bubble = batch.bubble + 1] /\ rec = TRUE /\ batch.bubble < Len(r.bubble)
    <3>1. batch' \in BatchRow /\ batch'.reply = i /\ batch'.bubble = batch.bubble + 1
      BY <1>1, <2>4 DEF BatchRow
    <3> QED BY <1>1, <1>11, <1>12, <2>1, <2>4, <3>1 DEF BatchInv
  <2> QED BY <2>2, <2>3, <2>4
<1> QED BY <1>11, <1>13, <1>14 DEF GroupInv

\* What the message being sent is.
LEMMA Current ==
  ASSUME GroupInv, batch # Null
  PROVE  /\ batch.reply \in 1..Len(replies) /\ replies[batch.reply] \in Reply
         /\ OnRecord(replies[batch.reply], policy.reply) /\ policy.reply \in Nat \cup {Null}
         /\ batch.bubble \in 1..Len(replies[batch.reply].bubble) /\ batch \in BatchRow
         /\ Group!Current \in Bubble
         /\ Len(replies[batch.reply].bubble) \in Nat
         /\ replies[batch.reply].recorded \in BOOLEAN
         /\ batch.bubble > 1 => replies[batch.reply].recorded = TRUE
         /\ batch.bubble = 1 => Group!Current = replies[batch.reply].bubble[1]
<1>1. /\ batch.reply \in 1..Len(replies) /\ replies \in Seq(Reply)
      /\ batch.bubble \in 1..Len(replies[batch.reply].bubble) /\ batch \in BatchRow
      /\ batch.bubble > 1 => replies[batch.reply].recorded = TRUE
      /\ policy.reply \in Nat \cup {Null}
  BY DEF GroupInv, RepliesInv, BatchInv, PolicyTypes
<1>2. replies[batch.reply] \in Reply /\ OnRecord(replies[batch.reply], policy.reply)
  BY <1>1 DEF GroupInv, RepliesInv
<1>3. replies[batch.reply].bubble \in Seq(Bubble) /\ replies[batch.reply].recorded \in BOOLEAN
  BY <1>2 DEF Reply
<1> QED BY <1>1, <1>2, <1>3 DEF Group!Current

\* What is not on record stays so when its message is sent or given up.
LEMMA NotShown ==
  ASSUME GroupInv, batch # Null, NEW b \in Bubble, UNCHANGED <<now, policy, pending, decision>>,
         left' = left \/ left' = {i \in DOMAIN replies' : Group!Recoverable(replies'[i])},
         replies' = Group!Set(b), Group!Current.status # "shown", b.status # "shown",
         b.status = "sent" => b.at \in Nat, batch' = Null \/ batch' = batch
  PROVE  GroupInv'
<1> DEFINE r == replies[batch.reply]
           rec == r.recorded
<1>1. /\ batch.reply \in 1..Len(replies) /\ r \in Reply /\ OnRecord(r, policy.reply)
      /\ batch.bubble \in 1..Len(r.bubble) /\ Len(r.bubble) \in Nat /\ rec \in BOOLEAN
      /\ batch.bubble = 1 => Group!Current = r.bubble[1]
  BY Current
<1>2. batch.bubble = 1 => rec = FALSE
  BY <1>1 DEF OnRecord
<1>3. replies' = [replies EXCEPT ![batch.reply] =
                   [replies[batch.reply] EXCEPT !.bubble = [@ EXCEPT ![batch.bubble] = b], !.recorded = rec]]
  <2>1. [r EXCEPT !.bubble = [r.bubble EXCEPT ![batch.bubble] = b]]
        = [r EXCEPT !.bubble = [r.bubble EXCEPT ![batch.bubble] = b], !.recorded = rec]
    BY <1>1 DEF Reply
  <2> QED BY <2>1 DEF Group!Set
<1>4. PolicyTypes' /\ policy'.reply = policy.reply
  BY DEF GroupInv, PolicyTypes
<1>5. UNCHANGED <<now, pending, decision>>
      /\ (left' = left \/ left' = {i \in DOMAIN replies' : Group!Recoverable(replies'[i])})
  OBVIOUS
<1>6. batch.bubble = 1 => (rec = TRUE <=> b.status = "shown")
  BY <1>2
<1>7. r.recorded = TRUE /\ batch.bubble = 1 => b = r.bubble[1]
  BY <1>2
<1>8. b.status \in {"sent", "shown"} => b.at \in Nat
  OBVIOUS
<1> QED BY <1>1, <1>3, <1>4, <1>5, <1>6, <1>7, <1>8, SendingKeeps

\* A message is handed to the platform.
LEMMA SendKeeps == ASSUME GroupInv, Group!Send PROVE GroupInv'
<1>1. PICK s \in {"sent", "failed", "unknown"} :
        /\ replies' = Group!Set([status |-> s, at |-> IF s = "sent" THEN now ELSE Null])
        /\ batch' = IF s = "sent" THEN batch ELSE Null
  BY DEF Group!Send
<1> DEFINE b == [status |-> s, at |-> IF s = "sent" THEN now ELSE Null]
<1>2. batch # Null /\ UNCHANGED <<now, policy, pending, decision, left>> /\ Group!Current.status # "shown"
  BY DEF Group!Send
<1>3. b \in Bubble /\ b.status # "shown" /\ (b.status = "sent" => b.at \in Nat)
  BY DEF Bubble, GroupInv, PolicyTypes
<1>4. replies' = Group!Set(b) /\ (batch' = Null \/ batch' = batch)
  BY <1>1
<1> HIDE DEF b
<1> QED BY <1>2, <1>3, <1>4, NotShown

\* A message that failed or is in doubt ends its batch.
LEMMA HaltKeeps == ASSUME GroupInv, Group!Halt PROVE GroupInv'
<1> DEFINE c == Group!Current
           b == [c EXCEPT !.status = IF c.status = "dispatching" THEN "unknown" ELSE c.status]
<1>1. batch # Null /\ batch' = Null /\ UNCHANGED <<now, policy, pending, decision, left>>
      /\ c.status \in {"unknown", "dispatching", "failed"} /\ replies' = Group!Set(b)
  BY DEF Group!Halt
<1>2. c \in Bubble
  BY <1>1, Current
<1> HIDE DEF c
<1>3. b \in Bubble /\ b.status # "shown" /\ b.status # "sent"
  BY <1>1, <1>2 DEF Bubble
<1> HIDE DEF b
<1> QED BY <1>1, <1>3, NotShown DEF c

\* A sent message goes on record, and the first of a reply starts the pause.
LEMMA CommitKeeps == ASSUME GroupInv, Group!Commit PROVE GroupInv'
<1> DEFINE r == replies[batch.reply]
           c == Group!Current
           b == [c EXCEPT !.status = "shown"]
<1>1. /\ batch # Null /\ UNCHANGED <<now, pending, decision, left>> /\ c.status \in {"sent", "shown"}
      /\ policy' = IF r.recorded \/ r.forced THEN policy ELSE Group!Record(c.at)
      /\ replies' = [Group!Set(b) EXCEPT ![batch.reply].recorded = TRUE]
      /\ batch' = IF batch.bubble < Len(r.bubble) THEN [batch EXCEPT !.bubble = @ + 1] ELSE Null
  BY DEF Group!Commit, Group!Recorded
<1>2. /\ batch.reply \in 1..Len(replies) /\ r \in Reply /\ OnRecord(r, policy.reply)
      /\ batch.bubble \in 1..Len(r.bubble) /\ Len(r.bubble) \in Nat /\ r.recorded \in BOOLEAN
      /\ batch.bubble = 1 => c = r.bubble[1]
      /\ batch.bubble > 1 => r.recorded = TRUE
      /\ c \in Bubble /\ policy.reply \in Nat \cup {Null} /\ c = r.bubble[batch.bubble]
  BY <1>1, Current DEF Group!Current
<1>3. c.at \in Nat
  BY <1>1, <1>2 DEF OnRecord
<1>4. b \in Bubble /\ b.status = "shown" /\ b.at = c.at /\ (c.status = "shown" => b = c)
  BY <1>2 DEF Bubble
<1>5. replies \in Seq(Reply)
  BY DEF GroupInv, RepliesInv
<1>6. replies' = [replies EXCEPT ![batch.reply] =
                   [replies[batch.reply] EXCEPT !.bubble = [@ EXCEPT ![batch.bubble] = b], !.recorded = TRUE]]
  <2>1. batch.reply \in DOMAIN replies
    BY <1>2, <1>5
  <2> HIDE DEF b
  <2> QED BY <1>1, <2>1 DEF Group!Set
<1>7. /\ PolicyTypes'
      /\ \/ policy'.reply = policy.reply
         \/ policy'.reply \in Nat /\ (policy.reply \in Nat => policy.reply <= policy'.reply)
      /\ r.recorded = FALSE /\ r.forced = FALSE => policy'.reply \in Nat /\ c.at <= policy'.reply
  <2>1. CASE policy' = policy /\ (r.recorded = TRUE \/ r.forced = TRUE)
    BY <1>1, <2>1 DEF GroupInv, PolicyTypes
  <2>2. CASE policy' = Group!Record(c.at)
    <3>1. /\ DOMAIN policy' = DOMAIN policy /\ policy'.cooldown = policy.cooldown
          /\ policy'.reply = IF policy.reply = Null THEN c.at ELSE Group!Most(policy.reply, c.at)
      BY <2>2 DEF Group!Record, GroupInv, PolicyTypes
    <3>2. policy'.reply \in Nat /\ c.at <= policy'.reply /\ (policy.reply \in Nat => policy.reply <= policy'.reply)
      BY <1>2, <1>3, <3>1, EdgesAssumption DEF Group!Most
    <3> QED BY <1>1, <3>1, <3>2 DEF GroupInv, PolicyTypes
  <2> QED BY <1>1, <1>2, <2>1, <2>2 DEF Reply
<1>8. r.recorded = TRUE /\ batch.bubble = 1 => b = r.bubble[1]
  BY <1>2, <1>4 DEF OnRecord
<1>9. r.recorded = FALSE => batch.bubble = 1
  BY <1>2
<1> HIDE DEF b, c
<1>10. /\ UNCHANGED <<now, pending, decision, left>> /\ TRUE \in BOOLEAN
       /\ b.status \in {"sent", "shown"} => b.at \in Nat
       /\ batch.bubble = 1 => (TRUE = TRUE <=> b.status = "shown")
       /\ TRUE = TRUE /\ r.recorded = FALSE =>
           batch.bubble = 1 /\ (r.forced = FALSE => policy'.reply \in Nat /\ b.at <= policy'.reply)
  BY <1>1, <1>3, <1>4, <1>7, <1>9
<1>11. \/ batch' = Null \/ batch' = batch
       \/ /\ batch' = [batch EXCEPT !.bubble = batch.bubble + 1] /\ TRUE = TRUE
          /\ batch.bubble < Len(r.bubble)
  BY <1>1
<1> QED BY <1>1, <1>4, <1>6, <1>7, <1>8, <1>10, <1>11, SendingKeeps

\* By hand, a reply is generated or sent again from its first message.
LEMMA RetryKeeps == ASSUME GroupInv, NEW i, i \in DOMAIN replies, Group!Retry(i) PROVE GroupInv'
<1>1. /\ decision = Group!NoTurn /\ batch = Null /\ UNCHANGED <<now, policy, pending, replies, left>>
  BY DEF Group!Retry, Group!Free
<1>2. i \in 1..Len(replies) /\ replies \in Seq(Reply) /\ replies[i].bubble \in Seq(Bubble)
  <2>1. replies \in Seq(Reply) /\ i \in 1..Len(replies)
    BY DEF GroupInv, RepliesInv
  <2>2. replies[i] \in Reply
    BY <2>1
  <2> QED BY <2>1, <2>2 DEF Reply
<1>3. PolicyTypes' /\ RepliesInv'
  BY <1>1 DEF GroupInv, PolicyTypes, RepliesInv
<1>4. CASE replies[i].bubble = <<>> /\ decision' = [pc |-> "generate", reply |-> i, retry |-> TRUE] /\ UNCHANGED batch
  <2>1. Len(replies[i].bubble) = 0
    BY <1>4
  <2>2. DecisionInv'
    BY <1>1, <1>2, <1>4, <2>1 DEF DecisionInv
  <2> QED BY <1>1, <1>3, <1>4, <2>2, RestKeeps
<1>5. CASE /\ replies[i].bubble # <<>> /\ UNCHANGED decision
           /\ batch' = [reply |-> i, bubble |-> 1, retry |-> TRUE, recovery |-> FALSE]
  <2>1. Len(replies[i].bubble) \in Nat /\ Len(replies[i].bubble) >= 1
    BY <1>2, <1>5, EmptySeq
  <2>2. batch' \in BatchRow /\ batch'.reply = i /\ batch'.bubble = 1
    BY <1>2, <1>5 DEF BatchRow
  <2>3. BatchInv'
    BY <1>1, <1>2, <2>1, <2>2 DEF GroupInv, BatchInv
  <2>4. DecisionInv'
    BY <1>1, <1>5, NoDecision
  <2> QED BY <1>3, <2>3, <2>4 DEF GroupInv
<1> QED BY <1>4, <1>5 DEF Group!Retry

\* A start takes up what was left.
LEMMA RecoverKeeps == ASSUME GroupInv, NEW i, Group!Recover(i) PROVE GroupInv'
<1>1. /\ decision = Group!NoTurn /\ batch = Null /\ UNCHANGED <<now, policy, pending, decision, replies>>
      /\ i \in left /\ left' = left \ {i}
      /\ batch' = [reply |-> i, bubble |-> 1, retry |-> FALSE, recovery |-> TRUE]
  BY DEF Group!Recover, Group!Free
<1>2. i \in 1..Len(replies) /\ replies \in Seq(Reply) /\ Len(replies[i].bubble) >= 1
  BY <1>1 DEF GroupInv, RepliesInv, BatchInv
<1>3. Len(replies[i].bubble) \in Nat
  BY <1>2 DEF Reply
<1>4. PolicyTypes' /\ RepliesInv' /\ DecisionInv'
  BY <1>1, NoDecision DEF GroupInv, PolicyTypes, RepliesInv
<1>5. batch' \in BatchRow /\ batch'.reply = i /\ batch'.bubble = 1
  BY <1>1, <1>2 DEF BatchRow
<1>6. BatchInv'
  BY <1>1, <1>2, <1>3, <1>5 DEF GroupInv, BatchInv
<1> QED BY <1>4, <1>6 DEF GroupInv

\* An interruption or a crash ends the turn and the batch.
LEMMA CutKeeps ==
  ASSUME GroupInv, Group!Cut, left' = left \/ left' = {i \in DOMAIN replies' : Group!Recoverable(replies'[i])}
  PROVE  GroupInv'
<1>1. /\ decision' = Group!NoTurn /\ batch' = Null /\ UNCHANGED <<now, policy>>
      /\ pending' = IF decision.pc \in {"understand", "save"} THEN decision.batch ELSE pending
  BY DEF Group!Cut
<1>2. CASE UNCHANGED replies
  <2>1. PolicyTypes'
    BY <1>1 DEF GroupInv, PolicyTypes, DecisionInv, Deciding
  <2> QED BY <1>1, <1>2, <2>1, NoDecision, RestKeeps
<1>3. CASE /\ batch # Null /\ Group!Current.status \in {"prepared", "blocked"}
           /\ replies' = Group!Set([Group!Current EXCEPT !.status = "dispatching"])
  <2>1. decision = Group!NoTurn /\ decision.pc = "none"
    BY <1>3 DEF GroupInv, DecisionInv
  <2>2. UNCHANGED <<now, policy, pending, decision>>
    BY <1>1, <2>1
  <2> DEFINE b == [Group!Current EXCEPT !.status = "dispatching"]
  <2>3. Group!Current \in Bubble
    BY <1>3, Current
  <2>4. b \in Bubble /\ b.status = "dispatching"
    BY <2>3 DEF Bubble
  <2>5. replies' = Group!Set(b)
    BY <1>3
  <2> HIDE DEF b
  <2> QED BY <1>1, <1>3, <2>2, <2>4, <2>5, NotShown
<1> QED BY <1>2, <1>3 DEF Group!Cut

\* Every step of the group keeps the invariant.
LEMMA GroupStep == ASSUME GroupInv, [Group!Next]_group PROVE GroupInv'
<1>0. ASSUME UNCHANGED <<policy, pending, decision, replies, batch, left>>, now' = now \/ now' = now + 1
      PROVE  GroupInv'
  <2>1. PolicyTypes'
    BY <1>0 DEF GroupInv, PolicyTypes
  <2>2. RepliesInv'
    BY <1>0 DEF GroupInv, RepliesInv
  <2>3. DecisionInv'
    BY <1>0 DEF GroupInv, DecisionInv, Paused
  <2>4. BatchInv'
    BY <1>0 DEF GroupInv, BatchInv
  <2> QED BY <2>1, <2>2, <2>3, <2>4 DEF GroupInv
<1>1. CASE UNCHANGED group
  BY <1>0, <1>1 DEF group
<1>2. CASE Group!Tick
  BY <1>0, <1>2 DEF Group!Tick
<1>3. CASE Group!Interrupt
  BY <1>3, CutKeeps DEF Group!Interrupt
<1>4. CASE Group!Crash
  BY <1>4, CutKeeps DEF Group!Crash
<1>5. CASE \E i \in DOMAIN replies : Group!Retry(i) \/ Group!Recover(i)
  BY <1>5, RetryKeeps, RecoverKeeps
<1> QED BY <1>1, <1>2, <1>3, <1>4, <1>5, ConfigureKeeps, DecideKeeps, UnderstandKeeps, SaveKeeps,
           TurnFailsKeeps, GenerateKeeps, SendKeeps, HaltKeeps, CommitKeeps DEF Group!Next

\* PauseKept for one step.
PauseRule ==
  Len(replies') > Len(replies) /\ ~replies'[Len(replies')].forced =>
    \A i \in Group!Ordinary(replies) : \A b \in DOMAIN replies[i].bubble :
       b = 1 /\ replies[i].bubble[b].status = "shown"
         => decision.snap - replies[i].bubble[b].at >= policy.cooldown

\* Only the transaction of a turn adds a reply.
LEMMA OnlySaveAdds ==
  ASSUME GroupInv, [Group!Next]_group, Len(replies') > Len(replies) PROVE Group!Save
<1>1. replies \in Seq(Reply)
  BY DEF GroupInv, RepliesInv
<1>2. \A j, x : Len([replies EXCEPT ![j] = x]) = Len(replies)
  BY <1>1
<1>3. ~(Len(replies) > Len(replies))
  BY <1>1
<1>4. replies' # replies
  BY <1>3
<1>5. ASSUME NEW x, replies' = Group!Set(x) PROVE FALSE
  BY <1>2, <1>3, <1>5 DEF Group!Set
<1>6. ~Group!Send /\ ~Group!Halt /\ ~Group!Cut
  BY <1>4, <1>5 DEF Group!Send, Group!Halt, Group!Cut
<1>7. ~Group!Generate
  <2>1. SUFFICES ASSUME Group!Generate PROVE FALSE
    OBVIOUS
  <2>2. PICK x : replies' = [replies EXCEPT ![decision.reply].bubble = x]
    BY <1>4, <2>1 DEF Group!Generate
  <2>3. PICK z : replies' = [replies EXCEPT ![decision.reply] = z]
    BY <2>2
  <2> QED BY <1>2, <1>3, <2>3
<1>8. ~Group!Commit
  <2>1. SUFFICES ASSUME Group!Commit PROVE FALSE
    OBVIOUS
  <2>2. PICK x : replies' = [Group!Set(x) EXCEPT ![batch.reply].recorded = TRUE]
    BY <2>1 DEF Group!Commit
  <2>3. PICK y : replies' = [[replies EXCEPT ![batch.reply].bubble = y] EXCEPT ![batch.reply].recorded = TRUE]
    BY <2>2 DEF Group!Set
  <2>4. PICK z : replies' = [replies EXCEPT ![batch.reply] = z]
    BY <2>3
  <2> QED BY <1>2, <1>3, <2>4
<1> QED BY <1>4, <1>6, <1>7, <1>8 DEF Group!Next, group, Group!Tick, Group!Configure, Group!Decide,
           Group!Understand, Group!TurnFails, Group!Interrupt, Group!Crash, Group!Retry, Group!Recover

\* The step that adds an ordinary reply is a turn that found the pause over.
LEMMA PauseSafe == ASSUME GroupInv, [Group!Next]_group PROVE PauseRule
<1> SUFFICES ASSUME Len(replies') > Len(replies), ~replies'[Len(replies')].forced,
                    NEW i \in Group!Ordinary(replies), 1 \in DOMAIN replies[i].bubble,
                    replies[i].bubble[1].status = "shown"
             PROVE  decision.snap - replies[i].bubble[1].at >= policy.cooldown
  BY DEF PauseRule
<1>1. Group!Save /\ replies \in Seq(Reply)
  BY OnlySaveAdds DEF GroupInv, RepliesInv
<1>2. /\ decision.pc = "save" /\ decision \in Deciding /\ decision.reply
      /\ replies' = Append(replies, [forced |-> decision.batch.forced, bubble |-> <<>>, recorded |-> FALSE])
  <2>1. ~(Len(replies) > Len(replies))
    BY <1>1
  <2> QED BY <1>1, <2>1 DEF Group!Save, GroupInv, DecisionInv
<1>3. decision.batch.forced = FALSE /\ decision.reply = TRUE
  BY <1>1, <1>2 DEF Deciding, Batch
<1>4. Paused(decision.snap) /\ decision.snap \in Nat
  BY <1>2, <1>3 DEF GroupInv, DecisionInv, Deciding
<1>5. i \in 1..Len(replies) /\ replies[i].forced = FALSE /\ replies[i] \in Reply /\ OnRecord(replies[i], policy.reply)
  <2>1. i \in 1..Len(replies) /\ ~replies[i].forced
    BY <1>1 DEF Group!Ordinary
  <2>2. replies[i] \in Reply /\ OnRecord(replies[i], policy.reply)
    BY <1>1, <2>1 DEF GroupInv, RepliesInv
  <2> QED BY <2>1, <2>2 DEF Reply
<1>6. Len(replies[i].bubble) >= 1 /\ 1 \in 1..Len(replies[i].bubble)
  BY <1>5 DEF Reply
<1>7. policy.reply \in Nat /\ replies[i].bubble[1].at <= policy.reply /\ replies[i].bubble[1].at \in Nat
  BY <1>5, <1>6 DEF OnRecord
<1> QED BY <1>4, <1>7, EdgesAssumption DEF Paused, GroupInv, PolicyTypes

(****************************************************************************)
(* Workspace: a restore leaves one of two states, references resolve         *)
(****************************************************************************)

\* A directory, or a copy of one, has something or nothing for every item.
Whole(d) == d = [i \in Lock!Item |-> d[i]]

\* Directories and counts are what they are named, and only the application has tasks.
LockTypes ==
  /\ Whole(data)
  /\ DOMAIN lock_n = {"edits", "restores", "failures", "crashes"}
  /\ lock_n.edits \in Nat /\ lock_n.restores \in Nat /\ lock_n.crashes \in Nat
  /\ "pc" \in DOMAIN task
  /\ task = Lock!Idle \/ holder = "app"
  /\ job = Lock!Idle \/ /\ DOMAIN job = {"pc", "items", "left"} /\ Whole(job.items) /\ job.left \subseteq Lock!Item
                        /\ job.pc \in {"copy", "publish", "move", "install"}

\* What a restore moved aside is what there was, and what it put is the backup.
RestoreInv ==
  /\ job.pc \in {"move", "install"} =>
       /\ holder = "restore" /\ task = Lock!Idle /\ lock_n.restores > 0 /\ Whole(seen) /\ backup # Null
       /\ \A i \in Lock!Item \ job.left : job.pc = "move" => job.items[i] = seen[i]
  /\ job.pc = "move" => \A i \in job.left : data[i] = seen[i]
  /\ job.pc = "install" => job.items = seen /\ \A i \in job.left : data[i] = backup[i]
  /\ backup # Null => Whole(backup)

\* A credential or none for every name.
Credentials == [Secret -> Nat \cup {Null}]
\* What a directory keeps of credentials, if it has them at all.
Keyed(d) == d.secrets \in Credentials \cup {Null}
\* Wherever the credentials are kept or copied to, they are credentials.
KeysInv ==
  /\ refs \subseteq Secret /\ Keyed(data)
  /\ backup # Null => Keyed(backup)
  /\ job # Lock!Idle => Keyed(job.items)
  /\ job.pc \in {"move", "install"} => Keyed(seen)

\* What the settings refer to is there.
RefersTo(secrets) == secrets \in Credentials /\ \A k \in refs : secrets[k] # Null
\* The application has what its settings refer to.  While it writes credentials, it
\* had that before, and each one is the old or the new.
SecretsInv ==
  /\ KeysInv
  /\ holder = "app" => /\ data.secrets \in Credentials
                       /\ task.pc # "secrets" => RefersTo(data.secrets)
  /\ task.pc = "secrets" =>
       /\ DOMAIN task = {"pc", "want", "left", "old"} /\ task.want \in Credentials
       /\ task.left \subseteq Secret /\ RefersTo(task.old)
       /\ \A k \in Secret : data.secrets[k] = IF k \in task.left THEN task.old[k] ELSE task.want[k]

\* Who holds the lock, and what backups and restores have done.
DiskInv == LockTypes /\ RestoreInv

\* There are a new directory, no backup and no references at first.
LEMMA DiskInit == Lock!Init => DiskInv /\ SecretsInv
<1> SUFFICES ASSUME Lock!Init PROVE DiskInv /\ SecretsInv
  OBVIOUS
<1>1. data = [db |-> 0, image |-> Null, secrets |-> [k \in Secret |-> Null]]
  BY DEF Lock!Init
<1>2. Whole(data) /\ data.secrets \in Credentials
  BY <1>1 DEF Whole, Lock!Item, Credentials
<1>3. task = Lock!Idle /\ job = Lock!Idle /\ task.pc = "idle" /\ job.pc = "idle" /\ "pc" \in DOMAIN task
      /\ backup = Null /\ refs = {}
  BY DEF Lock!Init, Lock!Idle
<1>4. DOMAIN lock_n = {"edits", "restores", "failures", "crashes"}
      /\ lock_n.edits \in Nat /\ lock_n.restores \in Nat /\ lock_n.crashes \in Nat
  BY DEF Lock!Init
<1>5. holder = Null /\ Null # "app" /\ job.pc \notin {"move", "install"} /\ task.pc # "secrets"
  BY <1>3, EdgesAssumption DEF Lock!Init
<1>6. SecretsInv
  BY <1>2, <1>3, <1>5 DEF SecretsInv, KeysInv, Keyed
<1>7. DiskInv
  BY <1>2, <1>3, <1>4, <1>5 DEF DiskInv, LockTypes, RestoreInv
<1> QED BY <1>6, <1>7

\* The application writes: no restore is under way.
LEMMA Writing ==
  ASSUME DiskInv, holder \in {"app", Null} PROVE job.pc \notin {"move", "install"}
  BY EdgesAssumption DEF DiskInv, RestoreInv

\* A bounded count goes up by one, and the others stand.
LEMMA Counted ==
  ASSUME DiskInv, NEW c, c \in {"edits", "restores", "failures", "crashes"}, NEW most, Lock!Count(c, most)
  PROVE  /\ DOMAIN lock_n' = DOMAIN lock_n
         /\ lock_n'.edits \in Nat /\ lock_n'.restores \in Nat /\ lock_n'.crashes \in Nat
         /\ lock_n'.restores >= lock_n.restores /\ (c # "restores" => lock_n'.restores = lock_n.restores)
         /\ (c = "restores" => lock_n'.restores > 0) /\ (c = "crashes" => lock_n'.crashes # lock_n.crashes)
<1>1. lock_n' = [lock_n EXCEPT ![c] = @ + 1] /\ DOMAIN lock_n = {"edits", "restores", "failures", "crashes"}
      /\ lock_n.edits \in Nat /\ lock_n.restores \in Nat /\ lock_n.crashes \in Nat
  BY DEF Lock!Count, DiskInv, LockTypes
<1>2. CASE c = "edits"
  BY <1>1, <1>2
<1>3. CASE c = "restores"
  BY <1>1, <1>3
<1>4. CASE c = "failures"
  BY <1>1, <1>4
<1>5. CASE c = "crashes"
  BY <1>1, <1>5
<1> QED BY <1>2, <1>3, <1>4, <1>5

\* The application writes one thing of its own.
AppWrites ==
  /\ holder = "app" /\ UNCHANGED <<holder, backup, job, seen>>
  /\ "pc" \in DOMAIN task' /\ Whole(data')
  /\ lock_n' = lock_n \/ \E c \in {"edits", "failures"} : \E most : Lock!Count(c, most)

\* What the application writes leaves backups and restores alone.
LEMMA AppKeeps == ASSUME DiskInv, AppWrites PROVE DiskInv'
<1>1. job.pc \notin {"move", "install"}
  BY Writing DEF AppWrites
<1>2. /\ DOMAIN lock_n' = DOMAIN lock_n
      /\ lock_n'.edits \in Nat /\ lock_n'.restores \in Nat /\ lock_n'.crashes \in Nat
  <2>1. CASE lock_n' = lock_n
    BY <2>1 DEF DiskInv, LockTypes
  <2> QED BY <2>1, Counted DEF AppWrites
<1>3. LockTypes'
  BY <1>2 DEF AppWrites, DiskInv, LockTypes
<1>4. RestoreInv'
  BY <1>1 DEF AppWrites, DiskInv, RestoreInv
<1> QED BY <1>3, <1>4 DEF DiskInv

\* One item of a directory is replaced.
LEMMA Exchanged ==
  ASSUME NEW d, Whole(d), NEW x
  PROVE  /\ \A i \in Lock!Item : Whole([d EXCEPT ![i] = x]) /\ [d EXCEPT ![i] = x][i] = x
         /\ \A i, j \in Lock!Item : i # j => [d EXCEPT ![i] = x][j] = d[j]
BY DEF Whole

\* A task of the application is under way.
LEMMA TaskIsOurs ==
  ASSUME DiskInv, task.pc # "idle" PROVE holder = "app" /\ "pc" \in DOMAIN task
  BY DEF DiskInv, LockTypes, Lock!Idle

\* What the application writes of data, character and choice.
Persona == \/ Lock!WriteDatabase \/ Lock!UpdatePersona \/ Lock!ReplaceConfig \/ Lock!SavePortrait
           \/ Lock!UpdatePortrait \/ Lock!ClearBound \/ Lock!DeletePortrait \/ Lock!RemovePortrait
           \/ Lock!Activate \/ Lock!PersistSelection
\* What it writes of settings and credentials.
Settings == Lock!Persist \/ Lock!WriteSettings \/ \E k \in Secret : Lock!PutSecret(k)

\* Such a step leaves credentials and references as they are.
LEMMA PersonaWrites ==
  ASSUME DiskInv, Persona PROVE AppWrites /\ data'.secrets = data.secrets /\ refs' = refs
                                /\ task.pc # "secrets" /\ task'.pc # "secrets"
<1>1. Lock!Idle.pc = "idle" /\ "pc" \in DOMAIN Lock!Idle
  BY DEF Lock!Idle
<1>2. Whole(data) /\ {"db", "image", "secrets"} = Lock!Item
  BY DEF DiskInv, LockTypes, Lock!Item
<1>3. Whole(data') /\ data'.secrets = data.secrets /\ refs' = refs
  <2>1. \A x : Whole([data EXCEPT !.db = x]) /\ [data EXCEPT !.db = x].secrets = data.secrets
    BY <1>2, Exchanged
  <2>2. \A x : Whole([data EXCEPT !.image = x]) /\ [data EXCEPT !.image = x].secrets = data.secrets
    BY <1>2, Exchanged
  <2> QED BY <1>2, <2>1, <2>2 DEF Persona, Lock!WriteDatabase, Lock!UpdatePersona, Lock!ReplaceConfig, Lock!SavePortrait,
       Lock!UpdatePortrait, Lock!ClearBound, Lock!DeletePortrait, Lock!RemovePortrait, Lock!Activate,
       Lock!PersistSelection, Lock!RestorePortrait
<1>4. "pc" \in DOMAIN task' /\ task.pc # "secrets" /\ task'.pc # "secrets"
  <2>1. "pc" \in DOMAIN task
    BY DEF DiskInv, LockTypes
  <2> QED BY <1>1, <2>1 DEF Persona, Lock!WriteDatabase, Lock!UpdatePersona, Lock!ReplaceConfig, Lock!SavePortrait,
       Lock!UpdatePortrait, Lock!ClearBound, Lock!DeletePortrait, Lock!RemovePortrait, Lock!Activate,
       Lock!PersistSelection, Lock!Edit, Lock!Step, Lock!Failure
<1>5. /\ holder = "app" /\ UNCHANGED <<holder, backup, job, seen>>
      /\ lock_n' = lock_n \/ \E c \in {"edits", "failures"} : \E most : Lock!Count(c, most)
  BY TaskIsOurs DEF Persona, Lock!WriteDatabase, Lock!UpdatePersona, Lock!ReplaceConfig, Lock!SavePortrait,
       Lock!UpdatePortrait, Lock!ClearBound, Lock!DeletePortrait, Lock!RemovePortrait, Lock!Activate,
       Lock!PersistSelection, Lock!Edit, Lock!Step, Lock!Failure, Lock!others
<1> QED BY <1>3, <1>4, <1>5 DEF AppWrites

\* Such a step is one of the application.
LEMMA SettingsWrites == ASSUME DiskInv, Settings PROVE AppWrites
<1>1. Lock!Idle.pc = "idle" /\ "pc" \in DOMAIN Lock!Idle
  BY DEF Lock!Idle
<1>2. Whole(data) /\ "secrets" \in Lock!Item
  BY DEF DiskInv, LockTypes, Lock!Item
<1>3. Whole(data') /\ "pc" \in DOMAIN task'
  <2>1. \A x : Whole([data EXCEPT !.secrets = x])
    BY <1>2, Exchanged
  <2>2. "pc" \in DOMAIN task
    BY DEF DiskInv, LockTypes
  <2> QED BY <1>1, <1>2, <2>1, <2>2 DEF Settings, Lock!Persist, Lock!WriteSettings, Lock!PutSecret, Lock!Failure
<1>4. /\ holder = "app" /\ UNCHANGED <<holder, backup, job, seen>>
      /\ lock_n' = lock_n \/ \E c \in {"edits", "failures"} : \E most : Lock!Count(c, most)
  BY TaskIsOurs DEF Settings, Lock!Persist, Lock!WriteSettings, Lock!PutSecret, Lock!Edit, Lock!Step,
     Lock!Failure, Lock!others
<1> QED BY <1>3, <1>4 DEF AppWrites

\* Credentials come before their references, and a failure puts them back.
LEMMA SettingsKeep ==
  ASSUME DiskInv, SecretsInv, Settings PROVE SecretsInv'
<1>1. holder = "app" /\ UNCHANGED <<holder, backup, job, seen>> /\ job.pc \notin {"move", "install"}
  BY SettingsWrites, Writing DEF AppWrites
<1>2. \A x : [data EXCEPT !.secrets = x].secrets = x
  BY Exchanged DEF DiskInv, LockTypes, Lock!Item
<1>3. Null \notin Nat /\ data.secrets \in Credentials /\ refs \subseteq Secret
  BY <1>1, EdgesAssumption DEF SecretsInv, KeysInv
<1>4. KeysInv' <=> refs' \subseteq Secret /\ Keyed(data)'
  BY <1>1 DEF SecretsInv, KeysInv, Keyed
<1>5. ASSUME Lock!Persist PROVE SecretsInv'
  <2>1. PICK want \in Lock!Want :
          task' = [pc |-> "secrets", want |-> want, left |-> Secret, old |-> data.secrets]
    BY <1>5 DEF Lock!Persist
  <2>2. lock_n.edits \in Nat
    BY DEF DiskInv, LockTypes
  <2>3. want \in Credentials
    BY <2>2 DEF Lock!Want, Credentials
  <2>4. UNCHANGED <<data, refs>> /\ task.pc # "secrets"
    BY <1>5 DEF Lock!Persist, Lock!Edit, Lock!Idle
  <2>5. RefersTo(data.secrets)
    BY <1>1, <2>4 DEF SecretsInv
  <2>6. KeysInv'
    BY <1>3, <1>4, <2>4 DEF Keyed
  <2> QED BY <1>1, <1>3, <2>1, <2>3, <2>4, <2>5, <2>6 DEF SecretsInv, RefersTo
<1>6. ASSUME NEW k \in Secret, Lock!PutSecret(k) PROVE SecretsInv'
  <2> DEFINE s == [data.secrets EXCEPT ![k] = task.want[k]]
  <2>1. /\ task.pc = "secrets" /\ data' = [data EXCEPT !.secrets = s] /\ refs' = refs
        /\ task' = [task EXCEPT !.left = task.left \ {k}]
    BY <1>6 DEF Lock!PutSecret, Lock!Step
  <2>2. /\ DOMAIN task = {"pc", "want", "left", "old"} /\ task.want \in Credentials
        /\ task.left \subseteq Secret /\ RefersTo(task.old)
        /\ \A j \in Secret : data.secrets[j] = IF j \in task.left THEN task.old[j] ELSE task.want[j]
    BY <2>1 DEF SecretsInv
  <2>3. s \in Credentials /\ s[k] = task.want[k] /\ \A j \in Secret : j = k \/ s[j] = data.secrets[j]
    BY <1>3, <2>2 DEF Credentials
  <2> HIDE DEF s
  <2>4. data'.secrets = s
    BY <1>2, <2>1
  <2>5. /\ DOMAIN task' = DOMAIN task /\ task'.pc = "secrets" /\ task'.want = task.want /\ task'.old = task.old
        /\ task'.left = task.left \ {k}
    BY <2>1, <2>2
  <2>6. \A j \in Secret : s[j] = IF j \in task'.left THEN task'.old[j] ELSE task'.want[j]
    BY <2>2, <2>3, <2>5
  <2>7. KeysInv'
    BY <1>3, <1>4, <2>1, <2>3, <2>4 DEF Keyed
  <2>8. RefersTo(task.old)'
    BY <2>1, <2>2, <2>5 DEF RefersTo
  <2> QED BY <2>2, <2>3, <2>4, <2>5, <2>6, <2>7, <2>8 DEF SecretsInv
<1>7. ASSUME Lock!WriteSettings PROVE SecretsInv'
  <2>1. task.pc = "secrets" /\ task' = Lock!Idle /\ task'.pc # "secrets"
    BY <1>7 DEF Lock!WriteSettings, Lock!Step, Lock!Failure, Lock!Idle
  <2>2. /\ task.want \in Credentials /\ RefersTo(task.old)
        /\ \A j \in Secret : data.secrets[j] = IF j \in task.left THEN task.old[j] ELSE task.want[j]
    BY <2>1 DEF SecretsInv
  <2>3. CASE task.left = {} /\ refs' = {k \in Secret : task.want[k] # Null} /\ UNCHANGED data
    <3>1. RefersTo(data.secrets)' /\ refs' \subseteq Secret /\ data' = data
      BY <1>3, <2>2, <2>3 DEF RefersTo
    <3> QED BY <1>3, <1>4, <2>1, <3>1 DEF SecretsInv, Keyed
  <2>4. CASE data' = [data EXCEPT !.secrets = task.old] /\ UNCHANGED refs
    <3>1. data'.secrets = task.old
      BY <1>2, <2>4
    <3>2. RefersTo(data.secrets)' /\ data'.secrets \in Credentials
      BY <2>2, <2>4, <3>1 DEF RefersTo
    <3> QED BY <1>3, <1>4, <2>1, <2>4, <3>2 DEF SecretsInv, Keyed
  <2> QED BY <1>7, <2>3, <2>4 DEF Lock!WriteSettings
<1> QED BY <1>5, <1>6, <1>7 DEF Settings

\* A start makes a database that is missing, and keeps credentials that are there.
LEMMA StartKeeps ==
  ASSUME DiskInv, SecretsInv, Lock!Start PROVE DiskInv' /\ SecretsInv'
<1>1. /\ holder = Null /\ holder' = "app" /\ UNCHANGED <<refs, backup, task, job, seen, lock_n>>
      /\ data' = [data EXCEPT !.db = IF @ = Null THEN 0 ELSE @,
                              !.secrets = IF @ = Null THEN [k \in Secret |-> Null] ELSE @]
  BY DEF Lock!Start
<1>2. job.pc \notin {"move", "install"}
  BY <1>1, Writing
<1>3. Whole(data') /\ data'.secrets = IF data.secrets = Null THEN [k \in Secret |-> Null] ELSE data.secrets
  BY <1>1 DEF Whole, Lock!Item, DiskInv, LockTypes
<1>4. DiskInv'
  BY <1>1, <1>2, <1>3 DEF DiskInv, LockTypes, RestoreInv
<1>5. job # Lock!Idle => job.pc \notin {"move", "install"}
  BY <1>2
<1>6. data'.secrets \in Credentials /\ RefersTo(data.secrets)'
  <2>1. Lock!Resolved /\ refs' = refs
    BY <1>1 DEF Lock!Start, Lock!Startable
  <2>2. CASE data.secrets = Null
    <3>1. refs = {} /\ data'.secrets = [k \in Secret |-> Null]
      BY <1>3, <2>1, <2>2 DEF Lock!Resolved
    <3> QED BY <2>1, <3>1 DEF RefersTo, Credentials
  <2>3. CASE data.secrets # Null
    <3>1. data'.secrets = data.secrets /\ data.secrets \in Credentials
      BY <1>3, <2>3 DEF SecretsInv, KeysInv, Keyed
    <3> QED BY <2>1, <3>1 DEF RefersTo, Lock!Resolved
  <2> QED BY <2>2, <2>3
<1>7. task.pc # "secrets"
  BY <1>1, EdgesAssumption DEF DiskInv, LockTypes, Lock!Idle
<1>8. KeysInv'
  BY <1>1, <1>2, <1>6 DEF SecretsInv, KeysInv, Keyed
<1>9. SecretsInv'
  BY <1>1, <1>6, <1>7, <1>8 DEF SecretsInv, RefersTo
<1> QED BY <1>4, <1>9

\* What the settings refer to is disturbed only by what writes credentials.
LEMMA SecretsStand ==
  ASSUME SecretsInv, KeysInv', refs' = refs,
         holder' = "app" => holder = "app" /\ data'.secrets = data.secrets,
         \/ task' = task /\ (task.pc = "secrets" => data'.secrets = data.secrets)
         \/ task'.pc # "secrets" /\ (holder' = "app" => task.pc # "secrets")
  PROVE  SecretsInv'
BY DEF SecretsInv, RefersTo

\* What a backup does.
Backing == \/ Lock!CreateBackup \/ Lock!CopyDatabase \/ Lock!Verified \/ Lock!Publish \/ Lock!BackupFails
           \/ \E i \in Lock!Item : Lock!Copy(i)

\* A backup or restore under way knows its items.
LEMMA JobIs ==
  ASSUME DiskInv, job.pc \in {"copy", "publish", "move", "install"}
  PROVE  /\ DOMAIN job = {"pc", "items", "left"} /\ Whole(job.items) /\ job.left \subseteq Lock!Item
         /\ job # Lock!Idle
BY DEF DiskInv, LockTypes, Lock!Idle

\* One item is copied.
LEMMA CopiedKeeps ==
  ASSUME DiskInv, NEW i, i \in Lock!Item, Lock!Copied(i) PROVE DiskInv'
<1>1. /\ job.pc = "copy" /\ UNCHANGED <<holder, data, refs, backup, task, seen, lock_n>>
      /\ job' = [job EXCEPT !.items[i] = data[i], !.left = @ \ {i}]
  BY DEF Lock!Copied, Lock!files
<1>2. DOMAIN job = {"pc", "items", "left"} /\ Whole(job.items) /\ job.left \subseteq Lock!Item
  BY <1>1, JobIs
<1>3. /\ DOMAIN job' = {"pc", "items", "left"} /\ job'.pc = "copy" /\ job'.left = job.left \ {i}
      /\ job'.items = [job.items EXCEPT ![i] = data[i]]
  BY <1>1, <1>2
<1>4. Whole(job'.items)
  BY <1>2, <1>3, Exchanged
<1> QED BY <1>1, <1>2, <1>3, <1>4 DEF DiskInv, LockTypes, RestoreInv

\* A backup writes nothing of the workspace.
LEMMA BackingKeeps == ASSUME DiskInv, Backing PROVE DiskInv'
<1>1. CASE Lock!CreateBackup
  <2>1. /\ holder = Null /\ job' = [pc |-> "copy", items |-> Lock!NoItem, left |-> Lock!Item]
        /\ UNCHANGED <<data, backup, task, lock_n>> /\ task = Lock!Idle
    BY <1>1, EdgesAssumption DEF Lock!CreateBackup, Lock!Begin, Lock!files, DiskInv, LockTypes
  <2>2. Whole(job'.items)
    BY <2>1 DEF Whole, Lock!NoItem
  <2> QED BY <2>1, <2>2 DEF DiskInv, LockTypes, RestoreInv
<1>2. CASE Lock!CopyDatabase \/ \E i \in Lock!Item : Lock!Copy(i)
  BY <1>2, CopiedKeeps DEF Lock!CopyDatabase, Lock!Copy, Lock!Item
<1>3. CASE Lock!Verified
  <2>1. /\ job.pc = "copy" /\ job' = [job EXCEPT !.pc = "publish"]
        /\ holder' = IF holder = "backup" THEN Null ELSE holder
        /\ UNCHANGED <<data, backup, task, seen, lock_n>>
    BY <1>3 DEF Lock!Verified, Lock!files
  <2>2. DOMAIN job = {"pc", "items", "left"} /\ Whole(job.items) /\ job.left \subseteq Lock!Item
    BY <2>1, JobIs
  <2>3. DOMAIN job' = DOMAIN job /\ job'.items = job.items /\ job'.left = job.left /\ job'.pc = "publish"
    BY <2>1, <2>2
  <2> QED BY <2>1, <2>2, <2>3 DEF DiskInv, LockTypes, RestoreInv
<1>4. CASE Lock!Publish
  <2>1. /\ job.pc = "publish" /\ job' = Lock!Idle /\ backup' = job.items /\ job'.pc = "idle"
        /\ UNCHANGED <<holder, data, task, seen, lock_n>>
    BY <1>4 DEF Lock!Publish, Lock!files, Lock!Idle
  <2>2. Whole(job.items)
    BY <2>1, JobIs
  <2> QED BY <2>1, <2>2 DEF DiskInv, LockTypes, RestoreInv
<1>5. CASE Lock!BackupFails
  <2>1. /\ job.pc \in {"copy", "publish"} /\ job' = Lock!Idle /\ job'.pc = "idle"
        /\ holder' = IF holder = "backup" THEN Null ELSE holder
        /\ UNCHANGED <<data, backup, task, seen>>
    BY <1>5 DEF Lock!BackupFails, Lock!files, Lock!Idle
  <2>2. DOMAIN lock_n' = {"edits", "restores", "failures", "crashes"}
        /\ lock_n'.edits \in Nat /\ lock_n'.restores \in Nat /\ lock_n'.crashes \in Nat
    BY <1>5, Counted DEF Lock!BackupFails, DiskInv, LockTypes
  <2> QED BY <2>1, <2>2 DEF DiskInv, LockTypes, RestoreInv
<1> QED BY <1>1, <1>2, <1>3, <1>4, <1>5 DEF Backing

\* Nor does it touch what the settings refer to.
LEMMA BackingStands == ASSUME DiskInv, SecretsInv, Backing PROVE SecretsInv'
<1>1. /\ UNCHANGED <<data, refs, task>> /\ (holder' = "app" => holder = "app")
  BY EdgesAssumption DEF Backing, Lock!CreateBackup, Lock!Begin, Lock!CopyDatabase, Lock!Verified, Lock!Publish,
     Lock!BackupFails, Lock!Copy, Lock!Copied, Lock!files
<1>2. KeysInv'
  <2>1. CASE Lock!CreateBackup
    <3>1. job' = [pc |-> "copy", items |-> Lock!NoItem, left |-> Lock!Item] /\ UNCHANGED backup
      BY <2>1 DEF Lock!CreateBackup, Lock!Begin
    <3>2. Keyed(Lock!NoItem)
      BY DEF Keyed, Lock!NoItem, Lock!Item
    <3> QED BY <1>1, <3>1, <3>2 DEF SecretsInv, KeysInv, Keyed
  <2>2. ASSUME NEW i \in Lock!Item, Lock!Copied(i) PROVE KeysInv'
    <3>1. /\ job.pc = "copy" /\ UNCHANGED <<backup, seen>> /\ DOMAIN job = {"pc", "items", "left"} /\ Whole(job.items)
          /\ job # Lock!Idle /\ job' = [job EXCEPT !.items[i] = data[i], !.left = @ \ {i}]
      BY <2>2, JobIs DEF Lock!Copied
    <3>2. job'.pc = "copy" /\ job'.items = [job.items EXCEPT ![i] = data[i]]
      BY <3>1
    <3>3. \A j \in Lock!Item : job'.items[j] = IF i = j THEN data[i] ELSE job.items[j]
      <4>1. /\ Whole([job.items EXCEPT ![i] = data[i]]) /\ [job.items EXCEPT ![i] = data[i]][i] = data[i]
            /\ \A j \in Lock!Item : i # j => [job.items EXCEPT ![i] = data[i]][j] = job.items[j]
        BY <2>2, <3>1, Exchanged
      <4> QED BY <3>2, <4>1
    <3>4. job'.items.secrets = IF i = "secrets" THEN data.secrets ELSE job.items.secrets
      BY <3>3 DEF Lock!Item
    <3> QED BY <1>1, <3>1, <3>2, <3>4 DEF SecretsInv, KeysInv, Keyed
  <2>3. CASE Lock!Verified
    <3>1. /\ job.pc = "copy" /\ UNCHANGED <<backup, seen>> /\ DOMAIN job = {"pc", "items", "left"}
          /\ job # Lock!Idle /\ job' = [job EXCEPT !.pc = "publish"]
      BY <2>3, JobIs DEF Lock!Verified
    <3>2. job'.pc = "publish" /\ job'.items = job.items
      BY <3>1
    <3> QED BY <1>1, <3>1, <3>2 DEF SecretsInv, KeysInv, Keyed
  <2>4. CASE Lock!Publish
    <3>1. job # Lock!Idle /\ job' = Lock!Idle /\ job'.pc = "idle" /\ backup' = job.items
      BY <2>4, JobIs DEF Lock!Publish, Lock!Idle
    <3> QED BY <1>1, <3>1 DEF SecretsInv, KeysInv, Keyed
  <2>5. CASE Lock!BackupFails
    <3>1. job' = Lock!Idle /\ job'.pc = "idle" /\ backup' = backup
      BY <2>5 DEF Lock!BackupFails, Lock!Idle
    <3> QED BY <1>1, <3>1 DEF SecretsInv, KeysInv, Keyed
  <2> QED BY <2>1, <2>2, <2>3, <2>4, <2>5 DEF Backing, Lock!CopyDatabase, Lock!Copy, Lock!Item
<1>3. task.pc = "secrets" => data'.secrets = data.secrets
  BY <1>1
<1> QED BY <1>1, <1>2, <1>3, SecretsStand

\* A restore begins with the lock and with everything in place.
LEMMA BeginRestore == ASSUME DiskInv, SecretsInv, Lock!RestoreBackup PROVE DiskInv' /\ SecretsInv'
<1>1. /\ holder = Null /\ holder' = "restore" /\ seen' = data /\ backup # Null
      /\ job' = [pc |-> "move", items |-> Lock!NoItem, left |-> Lock!Item]
      /\ UNCHANGED <<data, refs, backup, task>> /\ task = Lock!Idle
  BY EdgesAssumption DEF Lock!RestoreBackup, Lock!Begin, Lock!files, DiskInv, LockTypes
<1>2. Whole(job'.items)
  BY <1>1 DEF Whole, Lock!NoItem
<1>3. /\ DOMAIN lock_n' = {"edits", "restores", "failures", "crashes"} /\ lock_n'.restores > 0
      /\ lock_n'.edits \in Nat /\ lock_n'.restores \in Nat /\ lock_n'.crashes \in Nat
      /\ lock_n'.restores >= lock_n.restores
  BY Counted DEF Lock!RestoreBackup, DiskInv, LockTypes
<1>4. DiskInv'
  BY <1>1, <1>2, <1>3 DEF DiskInv, LockTypes, RestoreInv
<1>5. KeysInv'
  <2>1. Keyed(Lock!NoItem)
    BY DEF Keyed, Lock!NoItem, Lock!Item
  <2> QED BY <1>1, <2>1 DEF SecretsInv, KeysInv, Keyed
<1> QED BY <1>1, <1>4, <1>5, SecretsStand

\* One item is moved aside.
LEMMA MoveKeeps == ASSUME DiskInv, SecretsInv, NEW i, i \in Lock!Item, Lock!Move(i) PROVE DiskInv' /\ SecretsInv'
<1>1. /\ job.pc = "move" /\ i \in job.left /\ data' = [data EXCEPT ![i] = Null]
      /\ job' = [job EXCEPT !.items[i] = data[i], !.left = @ \ {i},
                            !.pc = IF job.left = {i} THEN "install" ELSE @]
      /\ UNCHANGED <<holder, refs, backup, task, seen, lock_n>>
  BY DEF Lock!Move
<1>2. DOMAIN job = {"pc", "items", "left"} /\ Whole(job.items) /\ job.left \subseteq Lock!Item
  BY <1>1, JobIs
<1>3. /\ DOMAIN job' = {"pc", "items", "left"} /\ job'.left = job.left \ {i}
      /\ job'.items = [job.items EXCEPT ![i] = data[i]]
      /\ job'.pc = IF job.left = {i} THEN "install" ELSE "move"
  BY <1>1, <1>2
<1>4. Whole(job'.items) /\ Whole(data') /\ job'.items[i] = data[i]
      /\ \A j \in Lock!Item : j # i => job'.items[j] = job.items[j] /\ data'[j] = data[j]
  <2>1. Whole(data)
    BY DEF DiskInv, LockTypes
  <2>2. /\ Whole([data EXCEPT ![i] = Null])
        /\ \A j \in Lock!Item : i # j => [data EXCEPT ![i] = Null][j] = data[j]
    BY <2>1, Exchanged
  <2>3. /\ Whole([job.items EXCEPT ![i] = data[i]]) /\ [job.items EXCEPT ![i] = data[i]][i] = data[i]
        /\ \A j \in Lock!Item : i # j => [job.items EXCEPT ![i] = data[i]][j] = job.items[j]
    BY <1>2, Exchanged
  <2> QED BY <1>1, <1>3, <2>2, <2>3
<1>5. data[i] = seen[i] /\ \A j \in Lock!Item \ job.left : job.items[j] = seen[j]
  BY <1>1 DEF DiskInv, RestoreInv
<1>6. \A j \in Lock!Item \ job'.left : job'.items[j] = seen[j]
  BY <1>3, <1>4, <1>5
<1>7. /\ holder = "restore" /\ task = Lock!Idle /\ lock_n.restores > 0 /\ Whole(seen) /\ backup # Null
      /\ \A j \in job.left : data[j] = seen[j]
      /\ Whole(backup)
  BY <1>1 DEF DiskInv, RestoreInv
<1>8. job'.pc = "install" => job'.left = {} /\ job'.items = seen
  <2>1. SUFFICES ASSUME job.left = {i} PROVE job'.left = {} /\ job'.items = seen
    BY <1>3
  <2>2. job'.left = {}
    BY <1>3, <2>1
  <2>3. \A j \in Lock!Item : job'.items[j] = seen[j]
    BY <1>6, <2>2
  <2> QED BY <1>4, <1>7, <2>2, <2>3 DEF Whole
<1>9. LockTypes'
  BY <1>1, <1>2, <1>3, <1>4 DEF DiskInv, LockTypes
<1>10. \A j \in job'.left : data'[j] = seen[j]
  BY <1>2, <1>3, <1>4, <1>7
<1>11. RestoreInv'
  BY <1>1, <1>3, <1>6, <1>7, <1>8, <1>10 DEF RestoreInv
<1>12. KeysInv'
  <2>1. /\ data'.secrets = IF i = "secrets" THEN Null ELSE data.secrets
        /\ job'.items.secrets = IF i = "secrets" THEN data.secrets ELSE job.items.secrets
    <3>1. data'[i] = Null
      BY <1>1, Exchanged DEF DiskInv, LockTypes
    <3> QED BY <1>4, <3>1 DEF Lock!Item
  <2>2. job # Lock!Idle
    BY <1>1, JobIs
  <2> QED BY <1>1, <2>1, <2>2 DEF SecretsInv, KeysInv, Keyed
<1>13. holder' # "app" /\ task'.pc # "secrets"
  BY <1>1, <1>7 DEF Lock!Idle
<1> QED BY <1>1, <1>9, <1>11, <1>12, <1>13, SecretsStand DEF DiskInv

\* One item of the backup is put in place.
LEMMA InstallKeeps ==
  ASSUME DiskInv, SecretsInv, NEW i, i \in Lock!Item, Lock!Install(i) PROVE DiskInv' /\ SecretsInv'
<1>1. /\ job.pc = "install" /\ data' = [data EXCEPT ![i] = backup[i]]
      /\ job' = [job EXCEPT !.left = @ \cup {i}]
      /\ UNCHANGED <<holder, refs, backup, task, seen, lock_n>>
  BY DEF Lock!Install
<1>2. DOMAIN job = {"pc", "items", "left"} /\ Whole(job.items) /\ job.left \subseteq Lock!Item
  BY <1>1, JobIs
<1>3. /\ DOMAIN job' = {"pc", "items", "left"} /\ job'.left = job.left \cup {i}
      /\ job'.items = job.items /\ job'.pc = "install"
  BY <1>1, <1>2
<1>4. Whole(data') /\ data'[i] = backup[i] /\ \A j \in Lock!Item : j # i => data'[j] = data[j]
  <2>1. Whole(data)
    BY DEF DiskInv, LockTypes
  <2>2. /\ Whole([data EXCEPT ![i] = backup[i]]) /\ [data EXCEPT ![i] = backup[i]][i] = backup[i]
        /\ \A j \in Lock!Item : i # j => [data EXCEPT ![i] = backup[i]][j] = data[j]
    BY <2>1, Exchanged
  <2> QED BY <1>1, <2>2
<1>5. LockTypes'
  BY <1>1, <1>2, <1>3, <1>4 DEF DiskInv, LockTypes
<1>6. /\ holder = "restore" /\ task = Lock!Idle /\ lock_n.restores > 0 /\ Whole(seen) /\ backup # Null
      /\ \A j \in job.left : data[j] = backup[j]
      /\ Whole(backup) /\ job.items = seen
  BY <1>1 DEF DiskInv, RestoreInv
<1>7. RestoreInv'
  BY <1>1, <1>2, <1>3, <1>4, <1>6 DEF RestoreInv
<1>8. KeysInv'
  <2>1. data'.secrets = IF i = "secrets" THEN backup.secrets ELSE data.secrets
    BY <1>4 DEF Lock!Item
  <2>2. job # Lock!Idle
    BY <1>1, JobIs
  <2> QED BY <1>1, <1>3, <1>6, <2>1, <2>2 DEF SecretsInv, KeysInv, Keyed
<1>9. holder' # "app" /\ task'.pc # "secrets"
  BY <1>1, <1>6 DEF Lock!Idle
<1> QED BY <1>1, <1>5, <1>7, <1>8, <1>9, SecretsStand DEF DiskInv

\* What a failed restore puts back is what there was.
LEMMA RolledBackIs ==
  ASSUME DiskInv, job.pc \in {"move", "install"} PROVE Lock!RolledBack = seen
<1>1. job.left \subseteq Lock!Item
  BY JobIs
<1>2. \A i \in Lock!Item : Lock!RolledBack[i] = seen[i]
  BY <1>1 DEF Lock!RolledBack, DiskInv, RestoreInv
<1>3. Whole(seen) /\ Whole(Lock!RolledBack)
  BY DEF DiskInv, RestoreInv, Whole, Lock!RolledBack
<1> QED BY <1>2, <1>3 DEF Whole

\* A finished restore leaves the backup.
LEMMA InstalledIs ==
  ASSUME DiskInv, job.pc = "install", job.left = Lock!Item PROVE data = backup
BY DEF DiskInv, LockTypes, RestoreInv, Whole

\* Either way nothing is mixed.
LEMMA RestoreEnding ==
  ASSUME DiskInv, Lock!RestoreEnds
  PROVE  data' \in {backup, seen} /\ UNCHANGED <<backup, seen>>
BY RolledBackIs, InstalledIs DEF Lock!RestoreEnds

\* The end of a restore gives the lock back.
LEMMA EndKeeps == ASSUME DiskInv, SecretsInv, Lock!RestoreEnds PROVE DiskInv' /\ SecretsInv'
<1>1. /\ job.pc \in {"move", "install"} /\ holder' = Null /\ job' = Lock!Idle /\ job'.pc = "idle"
      /\ UNCHANGED <<refs, backup, task, seen>> /\ data' \in {backup, seen}
  BY RestoreEnding DEF Lock!RestoreEnds, Lock!Idle
<1>2. Whole(data') /\ task = Lock!Idle
  BY <1>1 DEF DiskInv, RestoreInv
<1>3. /\ DOMAIN lock_n' = {"edits", "restores", "failures", "crashes"} /\ lock_n'.restores >= lock_n.restores
      /\ lock_n'.edits \in Nat /\ lock_n'.restores \in Nat /\ lock_n'.crashes \in Nat
  <2>1. CASE lock_n' = lock_n
    BY <2>1 DEF DiskInv, LockTypes
  <2> QED BY <2>1, Counted DEF Lock!RestoreEnds, DiskInv, LockTypes
<1>4. DiskInv'
  BY <1>1, <1>2, <1>3 DEF DiskInv, LockTypes, RestoreInv
<1>5. KeysInv'
  <2>1. Keyed(seen) /\ Keyed(backup)
    BY <1>1 DEF DiskInv, RestoreInv, SecretsInv, KeysInv
  <2> QED BY <1>1, <2>1 DEF SecretsInv, KeysInv, Keyed
<1>6. holder' # "app" /\ task'.pc # "secrets"
  BY <1>1, <1>2, EdgesAssumption DEF Lock!Idle
<1> QED BY <1>1, <1>4, <1>5, <1>6, SecretsStand

\* A process that dies leaves the files and gives the lock back.
LEMMA CrashKeeps == ASSUME DiskInv, SecretsInv, Lock!Crash PROVE DiskInv' /\ SecretsInv'
<1>1. /\ holder' = Null /\ task' = Lock!Idle /\ job' = Lock!Idle /\ job'.pc = "idle" /\ task'.pc = "idle"
      /\ "pc" \in DOMAIN task' /\ UNCHANGED <<data, refs, backup, seen>>
  BY DEF Lock!Crash, Lock!files, Lock!Idle
<1>2. /\ DOMAIN lock_n' = {"edits", "restores", "failures", "crashes"} /\ lock_n'.restores >= lock_n.restores
      /\ lock_n'.edits \in Nat /\ lock_n'.restores \in Nat /\ lock_n'.crashes \in Nat
  BY Counted DEF Lock!Crash, DiskInv, LockTypes
<1>3. DiskInv'
  BY <1>1, <1>2 DEF DiskInv, LockTypes, RestoreInv
<1>4. KeysInv' /\ holder' # "app" /\ task'.pc # "secrets"
  BY <1>1, EdgesAssumption DEF SecretsInv, KeysInv, Keyed
<1> QED BY <1>1, <1>3, <1>4, SecretsStand

\* The steps, by who takes them.
LEMMA DiskMoves ==
  ASSUME Lock!Next
  PROVE  \/ Persona \/ Settings \/ Backing \/ Lock!Start \/ Lock!Stop \/ Lock!RestoreBackup \/ Lock!RestoreEnds
         \/ Lock!Crash \/ \E i \in Lock!Item : Lock!Move(i) \/ Lock!Install(i)
BY DEF Lock!Next, Persona, Settings, Backing

\* Writing settings keeps the types.
LEMMA SettingsDisk == ASSUME DiskInv, Settings PROVE DiskInv'
  BY SettingsWrites, AppKeeps

\* Writing character, data or choice keeps everything.
LEMMA PersonaKeeps == ASSUME DiskInv, SecretsInv, Persona PROVE DiskInv' /\ SecretsInv'
<1>1. DiskInv'
  BY PersonaWrites, AppKeeps
<1>2. KeysInv'
  BY PersonaWrites DEF AppWrites, SecretsInv, KeysInv, Keyed
<1>3. refs' = refs /\ holder = "app" /\ data'.secrets = data.secrets /\ task.pc # "secrets" /\ task'.pc # "secrets"
  BY PersonaWrites DEF AppWrites
<1> QED BY <1>1, <1>2, <1>3, SecretsStand

\* A stop gives the lock back.
LEMMA StopKeeps == ASSUME DiskInv, SecretsInv, Lock!Stop PROVE DiskInv' /\ SecretsInv'
<1>1. /\ holder = "app" /\ holder' = Null /\ task = Lock!Idle
      /\ UNCHANGED <<data, refs, backup, task, job, seen, lock_n>>
  BY DEF Lock!Stop, Lock!files
<1>2. job.pc \notin {"move", "install"}
  BY <1>1, Writing
<1>3. DiskInv'
  BY <1>1, <1>2 DEF DiskInv, LockTypes, RestoreInv
<1>4. KeysInv' /\ holder' # "app" /\ task'.pc # "secrets"
  BY <1>1, EdgesAssumption DEF SecretsInv, KeysInv, Keyed, Lock!Idle
<1> QED BY <1>1, <1>3, <1>4, SecretsStand

\* Every step on the workspace keeps both invariants.
LEMMA DiskStep ==
  ASSUME DiskInv, SecretsInv, [Lock!Next]_disk PROVE DiskInv' /\ SecretsInv'
<1>1. CASE UNCHANGED disk
  <2>1. DiskInv'
    BY <1>1 DEF disk, DiskInv, LockTypes, RestoreInv
  <2>2. SecretsInv'
    BY <1>1 DEF disk, SecretsInv, RefersTo, KeysInv, Keyed
  <2> QED BY <2>1, <2>2
<1>2. CASE Lock!Next
  BY <1>2, DiskMoves, PersonaKeeps, SettingsDisk, SettingsKeep, BackingKeeps, BackingStands, StartKeeps, StopKeeps,
     BeginRestore, EndKeeps, CrashKeeps, MoveKeeps, InstallKeeps
<1> QED BY <1>1, <1>2

\* A reference has its credential, but for one that is being cleared.
LEMMA SecretsSafe == ASSUME SecretsInv PROVE Lock!ReferencesResolve
BY DEF SecretsInv, KeysInv, RefersTo, Lock!ReferencesResolve, Lock!Clearing

\* RestoredOrKept for one step.
RestoreRule == job.pc \in {"move", "install"} /\ job' = Lock!Idle /\ lock_n'.crashes = lock_n.crashes
               => data' \in {backup, seen}

\* A restore that did not crash ended in RestoreEnds.
LEMMA RestoreSafe == ASSUME DiskInv, [Lock!Next]_disk PROVE RestoreRule
<1> SUFFICES ASSUME job.pc \in {"move", "install"}, job' = Lock!Idle, lock_n'.crashes = lock_n.crashes
             PROVE  data' \in {backup, seen}
  BY DEF RestoreRule
<1>1. job' # job /\ job'.pc = "idle" /\ DOMAIN job = {"pc", "items", "left"} /\ holder = "restore" /\ task = Lock!Idle
  BY JobIs DEF Lock!Idle, DiskInv, RestoreInv
<1>2. ~Lock!Crash
  BY Counted DEF Lock!Crash
<1>3. ~Persona /\ ~Settings
  BY <1>1, PersonaWrites, SettingsWrites DEF AppWrites
<1>4. ~Backing /\ ~Lock!Start /\ ~Lock!Stop /\ ~Lock!RestoreBackup
  BY <1>1, EdgesAssumption DEF Backing, Lock!Start, Lock!Stop, Lock!RestoreBackup, Lock!Begin, Lock!CreateBackup,
     Lock!CopyDatabase, Lock!Verified, Lock!Publish, Lock!BackupFails, Lock!Copy, Lock!Copied
<1>5. ASSUME NEW i \in Lock!Item PROVE ~Lock!Move(i) /\ ~Lock!Install(i)
  BY <1>1 DEF Lock!Move, Lock!Install
<1>6. Lock!RestoreEnds
  BY <1>1, <1>2, <1>3, <1>4, <1>5, DiskMoves DEF disk
<1> QED BY <1>6, RestoreEnding

(****************************************************************************)
(* Composed                                                                 *)
(****************************************************************************)

\* All invariants together.
EdgesInv == SendingInv /\ ToolsInv /\ ModelInv /\ FoundryInv /\ ServiceInv /\ ChannelInv /\ LibraryInv /\ GroupInv
            /\ DiskInv /\ SecretsInv

\* A step is one of one part, and the other parts stutter.
LEMMA EachPart ==
  ASSUME [Next]_vars
  PROVE  /\ [Line!Next]_channel /\ [Sender!Next]_sending /\ [Tools!Next]_tools /\ [Group!Next]_group
         /\ [Pictures!Next]_library /\ [Lock!Next]_disk /\ [Model!Next]_model /\ [Service!Next]_service
         /\ [Foundry!Next]_foundry
BY DEF Next, OfLine, OfSender, OfTools, OfGroup, OfPictures, OfLock, OfModel, OfService, OfFoundry, vars

\* Every part starts in its invariant.
LEMMA EdgesInit == Init => EdgesInv
BY SendingInit, ToolsInit, ModelInit, FoundryInit, ServiceInit, ChannelInit, LibraryInit, GroupInit, DiskInit
   DEF Init, EdgesInv

\* Every part keeps its invariant.
LEMMA EdgesStep == EdgesInv /\ [Next]_vars => EdgesInv'
BY EachPart, SendingStep, ToolsStep, ModelStep, FoundryStep, ServiceStep, ChannelStep, LibraryStep, GroupStep, DiskStep
   DEF EdgesInv

\* The invariants of all parts hold for any values of the constants.
THEOREM Invariant == Spec => []EdgesInv
BY EdgesInit, EdgesStep, PTL DEF Spec

\* Sending: never more tokens asked for than gaps and losses made necessary.
THEOREM OneTokenAsked == Spec => []SharedRefresh
<1>1. EdgesInv => SharedRefresh
  BY DEF EdgesInv, SendingInv, SharedRefresh
<1> QED BY <1>1, Invariant, PTL

\* ToolTurn: one run of the tool loop changes the group at most once, in the first
\* run of a turn and in each that a retry by hand starts.
THEOREM ActedOnce == Spec => []OnceALoop
<1>1. EdgesInv => OnceALoop
  BY DEF EdgesInv, ToolsInv, OnceALoop, Tools!OnceALoop
<1> QED BY <1>1, Invariant, PTL

\* ModelProvider: no two attempts of a call are shown.
THEOREM ShownOnce == Spec => []SaidOnce
<1>1. EdgesInv => SaidOnce
  BY ModelSafe DEF EdgesInv, SaidOnce
<1> QED BY <1>1, Invariant, PTL

\* SkillFoundry: what runs is the revision that was tested and confirmed.
THEOREM OnlyReviewedRuns == Spec => []RunsReviewed
<1>1. EdgesInv => RunsReviewed
  BY DEF EdgesInv, FoundryInv, RunsReviewed
<1> QED BY <1>1, Invariant, PTL

\* ManagedService: a service that works is not declared failed by an answer that
\* nobody waits for.
THEOREM ServiceJudgedRight == Spec => []NeverMisjudged
<1>1. EdgesInv => NeverMisjudged
  BY DEF EdgesInv, ServiceInv, NeverMisjudged
<1> QED BY <1>1, Invariant, PTL

\* Library: every row of an expression has its file, whatever dies in between, unless
\* a collected picture took its name.
THEOREM RowsHaveFiles == Spec => []RowHasFile
<1>1. EdgesInv => RowHasFile
  BY DEF EdgesInv, LibraryInv, ExpressionsInv, RowHasFile
<1> QED BY <1>1, Invariant, PTL

\* Library: no collection removes the attachment of a message that was kept.
THEOREM AttachmentsKept == Spec => []InboundKept
<1>1. EdgesInv => InboundKept
  BY DEF EdgesInv, LibraryInv, AttachmentsInv, InboundKept
<1> QED BY <1>1, Invariant, PTL

\* Workspace: in every state of the application, and so in every state a crash can
\* leave, what the settings refer to is there or is being cleared by the user.
THEOREM ReferencesHold == Spec => []ReferencesResolve
<1>1. EdgesInv => ReferencesResolve
  BY SecretsSafe DEF EdgesInv, ReferencesResolve
<1> QED BY <1>1, Invariant, PTL

\* Workspace: a restore that ends leaves the backup or what there was.
THEOREM RestoreWhole == Spec => RestoredOrKept
<1>1. EdgesInv /\ [Next]_vars => [RestoreRule]_Lock!vars
  BY EachPart, RestoreSafe DEF EdgesInv
<1> QED BY <1>1, Invariant, PTL DEF Spec, RestoredOrKept, Lock!RestoredOrKept, RestoreRule

\* Channel: the synchronisation of one sender makes nobody else a member and removes
\* nobody, and moves no role but the ownership, to the sender or from it.
THEOREM MembersStand == Spec => OthersKept
<1>1. EdgesInv /\ [Next]_vars => [SyncKeeps]_Line!vars
  BY EachPart, ChannelSafe DEF EdgesInv
<1> QED BY <1>1, Invariant, PTL DEF Spec, OthersKept, Line!OthersKept, SyncKeeps

\* GroupParticipation: an ordinary reply waits for the pause after every reply on
\* record.
THEOREM PauseHolds == Spec => PauseKept
<1>1. EdgesInv /\ [Next]_vars => [PauseRule]_Group!vars
  BY EachPart, PauseSafe DEF EdgesInv
<1> QED BY <1>1, Invariant, PTL DEF Spec, PauseKept, Group!PauseKept, PauseRule
=============================================================================
