-------------------------- MODULE OutboundCallProofs --------------------------
(****************************************************************************)
(* What every chain may rely on about a call of deliver(), for any number   *)
(* of messages and callers: a step of a call, or of another writer of the   *)
(* rows, keeps CallInv as long as no other call is about the row it writes, *)
(* and is a step of Delivery or a stutter.                                  *)
(****************************************************************************)
EXTENDS OutboundCall, TLAPS

LEMMA CallInitInv == CallInit => CallInv
  BY NoMsgAssumption
     DEF CallInit, CallInv, CallTypeOK, Status, Pc, Idle, Suspended, InFlight, At, RowMeans

-------------------------------------------------------------------------------
(* Framing *)

\* CallInv is about the calls and their rows only.
LEMMA CallsUntouched == CallInv /\ UNCHANGED callVars => CallInv'
  BY DEF callVars, CallInv, CallTypeOK, Suspended, RowMeans, InFlight, At

\* No call is about a message of M, except those of W.
Untouched(W, M) == \A v \in Worker \ W : InFlight(v) => call[v].msg \notin M

\* The step moves only workers of W and writes only rows of M.
Confined(W, M) ==
  /\ \A v \in Worker \ W : call'[v] = call[v]
  /\ \A n \in Message \ M : /\ attempt'[n] = attempt[n]
                            /\ sends'[n] = sends[n]
                            /\ arrived'[n] = arrived[n]
                            /\ retries'[n] = retries[n]

\* It is enough to look at the workers a step moves and the rows it writes.
LEMMA Frame ==
  ASSUME CallInv, NEW W \in SUBSET Worker, NEW M \in SUBSET Message,
         Untouched(W, M), Confined(W, M), CallTypeOK',
         \A w \in W : Suspended(w)',
         \A m \in M : RowMeans(m)',
         history' \subseteq history \cup M,
         \A m \in history' \cap M : attempt'[m] = "SENT"
  PROVE  CallInv'
<1>1. ASSUME NEW v \in Worker \ W
      PROVE  Suspended(v)'
  <2>1. CASE InFlight(v)
    <3>1. call[v].msg \in Message \ M /\ call'[v] = call[v] /\ Suspended(v)
      BY <2>1 DEF Untouched, Confined, CallInv, Suspended
    <3> QED BY <3>1 DEF Suspended, InFlight, At, Confined
  <2>2. CASE ~InFlight(v)
    BY <2>2 DEF Confined, Suspended, InFlight, At
  <2> QED BY <2>1, <2>2
<1>2. \A n \in Message \ M : RowMeans(n)'
  BY DEF Confined, CallInv, RowMeans
<1>3. \A m \in history' : attempt'[m] = "SENT"
  BY DEF Confined, CallInv, CallTypeOK
<1> QED BY <1>1, <1>2, <1>3 DEF CallInv

-------------------------------------------------------------------------------
(* The steps of a call *)

\* A call that can take a step works on a message.
LEMMA StepBusy ==
  ASSUME NEW w \in Worker, CallInv, Step(w)
  PROVE  InFlight(w) /\ call[w].msg \in Message
<1>1. InFlight(w)
  BY DEF Step, Look, Doubt, Prepare, Dispatch, Send, Settle, Commit, At, InFlight
<1> QED BY <1>1 DEF CallInv, Suspended

\* The platform confirms what arrived, refuses what did not, or says nothing.
LEMMA SendOutcome ==
  ASSUME NEW w \in Worker, CallInv, Send(w)
  PROVE  LET m == call[w].msg IN
         \E status \in Outcome, copies \in {0, 1} :
           /\ call' = [call EXCEPT ![w].pc = "settle", ![w].receipt = status]
           /\ arrived' = [arrived EXCEPT ![m] = @ + copies]
           /\ status = "SENT" => copies = 1
           /\ status = "FAILED" => copies = 0
<1> DEFINE m == call[w].msg
<1>1. PICK r \in SendResult :
        /\ call' = [call EXCEPT ![w].pc = "settle", ![w].receipt = r[1]]
        /\ arrived' = [arrived EXCEPT ![m] = @ + r[2]]
  BY DEF Send
<1>2. /\ r[1] \in Outcome /\ r[2] \in {0, 1}
      /\ r[1] = "SENT" => r[2] = 1
      /\ r[1] = "FAILED" => r[2] = 0
  BY DEF SendResult, Outcome
<1> QED BY <1>1, <1>2

LEMMA StepType ==
  ASSUME NEW w \in Worker, CallInv, Step(w)
  PROVE  CallTypeOK'
<1> DEFINE m == call[w].msg
<1>1. m \in Message /\ Suspended(w) /\ CallTypeOK
  BY StepBusy DEF CallInv
<1> USE DEF CallTypeOK
<1>2. CASE Look(w)
  BY <1>1, <1>2 DEF Look, Goto, Return, Pc
<1>3. CASE Doubt(w)
  BY <1>1, <1>3 DEF Doubt, SaveDelivery, Return, Pc, Status
<1>4. CASE Prepare(w)
  BY <1>1, <1>4 DEF Prepare, SaveDelivery, Goto, Pc, Status
<1>5. CASE Dispatch(w)
  BY <1>1, <1>5 DEF Dispatch, SaveDelivery, Goto, Pc, Status
<1>6. CASE Send(w)
  <2>1. PICK status \in Outcome, copies \in {0, 1} :
          /\ call' = [call EXCEPT ![w].pc = "settle", ![w].receipt = status]
          /\ arrived' = [arrived EXCEPT ![m] = @ + copies]
    BY <1>6, SendOutcome
  <2>2. arrived' \in [Message -> Nat] /\ sends' \in [Message -> Nat]
    BY <1>1, <1>6, <2>1 DEF Send
  <2>3. status \in Status
    BY DEF Outcome, Status
  <2>4. call' \in [Worker -> [pc : Pc, msg : Message \cup {NoMsg}, receipt : Status]]
    BY <1>1, <2>1, <2>3 DEF Pc
  <2> QED BY <1>1, <1>6, <2>2, <2>4 DEF Send
<1>7. CASE Settle(w)
  BY <1>1, <1>7 DEF Settle, SaveDelivery, Goto, Return, Suspended, At, Outcome, Status, Pc
<1>8. CASE Commit(w)
  BY <1>1, <1>8 DEF Commit, Return, Pc, Status
<1> QED BY <1>2, <1>3, <1>4, <1>5, <1>6, <1>7, <1>8 DEF Step

\* What a step of the call of w does to the world.
LEMMA StepEffect ==
  ASSUME NEW w \in Worker, CallInv, Step(w)
  PROVE  LET m == call[w].msg IN
         /\ Confined({w}, {m}) /\ retries' = retries
         /\ history \subseteq history'
         /\ history' \subseteq history \cup {m}
         /\ m \in history' => attempt'[m] = "SENT"
         /\ attempt[m] = "SENT" => attempt'[m] = "SENT"
         /\ InFlight(w)' => call'[w].msg = m
         /\ ~InFlight(w)' =>
              /\ call'[w].pc = "done" /\ call'[w].receipt = attempt'[m]
              /\ attempt'[m] \notin {"NONE", "PREPARED", "DISPATCHING"}
              /\ attempt'[m] = "SENT" => m \in history'
         /\ sends'[m] # sends[m] => attempt[m] = "DISPATCHING" /\ sends[m] = retries[m]
<1> DEFINE m == call[w].msg
<1>1. m \in Message /\ Suspended(w) /\ RowMeans(m) /\ CallTypeOK /\ InFlight(w)
  BY StepBusy DEF CallInv
<1>2. m \in history => attempt[m] = "SENT"
  BY DEF CallInv
<1> USE DEF CallTypeOK, Confined, InFlight, At
<1>3. CASE Look(w)
  <2>1. UNCHANGED <<attempt, history, retries, sends, arrived>> /\ m \in DOMAIN attempt
    BY <1>1, <1>3 DEF Look
  <2>2. CASE attempt[m] = "NONE" \/ attempt[m] = "PREPARED" \/ attempt[m] = "DISPATCHING"
             \/ attempt[m] = "SENT"
    <3>1. PICK pc \in {"prepare", "dispatch", "doubt", "commit"} : Goto(w, pc)
      BY <2>2, <1>3 DEF Look
    <3> QED BY <1>1, <1>2, <2>1, <3>1 DEF Goto
  <2>3. CASE attempt[m] \notin {"NONE", "PREPARED", "DISPATCHING", "SENT"}
    <3>1. Return(w, attempt[m])
      BY <2>3, <1>3 DEF Look
    <3> QED BY <1>1, <1>2, <2>1, <2>3, <3>1 DEF Return
  <2> QED BY <2>2, <2>3
<1>4. CASE Doubt(w)
  BY <1>1, <1>2, <1>4 DEF Doubt, SaveDelivery, Return, Suspended
<1>5. CASE Prepare(w)
  BY <1>1, <1>2, <1>5 DEF Prepare, SaveDelivery, Goto, Suspended
<1>6. CASE Dispatch(w)
  BY <1>1, <1>2, <1>6 DEF Dispatch, SaveDelivery, Goto, Suspended
<1>7. CASE Send(w)
  <2>1. PICK status \in Outcome, copies \in {0, 1} :
          /\ call' = [call EXCEPT ![w].pc = "settle", ![w].receipt = status]
          /\ arrived' = [arrived EXCEPT ![m] = @ + copies]
    BY <1>7, SendOutcome
  <2> QED BY <1>1, <1>2, <1>7, <2>1 DEF Send, Suspended
<1>8. CASE Settle(w)
  BY <1>1, <1>2, <1>8 DEF Settle, SaveDelivery, Goto, Return, Suspended, Outcome
<1>9. CASE Commit(w)
  BY <1>1, <1>2, <1>9 DEF Commit, Return, Suspended
<1> QED BY <1>3, <1>4, <1>5, <1>6, <1>7, <1>8, <1>9 DEF Step

\* A call takes no row back to before it was ready, nor away from the user.
LEMMA StepWrites ==
  ASSUME NEW w \in Worker, CallInv, Step(w)
  PROVE  LET m == call[w].msg IN
         attempt'[m] = attempt[m] \/ attempt'[m] \notin {"NONE", "BLOCKED", "DROPPED"}
<1>1. call[w].msg \in Message /\ Suspended(w) /\ CallTypeOK
  BY StepBusy DEF CallInv
<1> QED
  BY <1>1 DEF Step, Look, Doubt, Prepare, Dispatch, Send, Settle, Commit, SaveDelivery,
     Suspended, At, Outcome, CallTypeOK

\* The step keeps the invariant when no other call is about its message: this is
\* what the session locks are for.
LEMMA StepInv ==
  ASSUME NEW w \in Worker, CallInv, Step(w), Untouched({w}, {call[w].msg})
  PROVE  CallInv'
<1> PICK m \in Message : m = call[w].msg
  BY StepBusy
<1>1. Suspended(w) /\ RowMeans(m) /\ CallTypeOK /\ CallTypeOK'
  BY StepBusy, StepType DEF CallInv
<1>2. /\ Confined({w}, {m}) /\ retries' = retries
      /\ history' \subseteq history \cup {m}
      /\ m \in history' => attempt'[m] = "SENT"
      /\ InFlight(w)' => call'[w].msg = m
  BY StepEffect
<1>3. Suspended(w)' /\ RowMeans(m)'
  <2> USE DEF CallTypeOK, At, Suspended, RowMeans, InFlight
  <2>1. CASE Look(w)
    BY <1>1, <1>2, <2>1 DEF Look, Goto, Return
  <2>2. CASE Doubt(w)
    BY <1>1, <1>2, <2>2 DEF Doubt, SaveDelivery, Return
  <2>3. CASE Prepare(w)
    BY <1>1, <1>2, <2>3 DEF Prepare, SaveDelivery, Goto
  <2>4. CASE Dispatch(w)
    BY <1>1, <1>2, <2>4 DEF Dispatch, SaveDelivery, Goto
  <2>5. CASE Send(w)
    <3>1. PICK status \in Outcome, copies \in {0, 1} :
            /\ call' = [call EXCEPT ![w].pc = "settle", ![w].receipt = status]
            /\ arrived' = [arrived EXCEPT ![m] = @ + copies]
            /\ status = "SENT" => copies = 1
            /\ status = "FAILED" => copies = 0
      BY <2>5, SendOutcome
    <3>2. arrived[m] = 0 /\ sends'[m] = retries'[m] + 1 /\ attempt'[m] = "DISPATCHING"
      BY <1>1, <2>5 DEF Send
    <3>3. /\ call'[w].pc = "settle" /\ call'[w].msg = m /\ call'[w].receipt = status
          /\ arrived'[m] = copies
      BY <1>1, <3>1, <3>2
    <3>4. RowMeans(m)'
      BY <1>1, <3>2, <3>3
    <3>5. Suspended(w)'
      BY <3>1, <3>2, <3>3
    <3> QED BY <3>4, <3>5
  <2>6. CASE Settle(w)
    BY <1>1, <1>2, <2>6 DEF Settle, SaveDelivery, Goto, Return, Outcome
  <2>7. CASE Commit(w)
    BY <1>1, <1>2, <2>7 DEF Commit, Return
  <2> QED BY <2>1, <2>2, <2>3, <2>4, <2>5, <2>6, <2>7 DEF Step
<1> QED BY <1>1, <1>2, <1>3, Frame

-------------------------------------------------------------------------------
(* The beginning and the end of a call, and the other writers of the rows *)

LEMMA BeginInv ==
  ASSUME NEW w \in Worker, NEW m \in Message, CallInv, Begin(w, m)
  PROVE  CallInv'
<1>1. CallTypeOK'
  BY DEF CallInv, CallTypeOK, Begin, Pc, Status
<1>2. Suspended(w)'
  BY DEF CallInv, CallTypeOK, Begin, Suspended, InFlight, At
<1>3. Confined({w}, {}) /\ Untouched({w}, {})
  BY DEF CallInv, CallTypeOK, Begin, Confined, Untouched
<1> QED BY <1>1, <1>2, <1>3, Frame DEF Begin

LEMMA AbandonInv ==
  ASSUME NEW w \in Worker, CallInv, Abandon(w)
  PROVE  CallInv'
<1>1. CallTypeOK'
  BY DEF CallInv, CallTypeOK, Abandon, Idle, Pc, Status
<1>2. Suspended(w)'
  BY DEF CallInv, CallTypeOK, Abandon, Idle, Suspended, InFlight, At
<1>3. Confined({w}, {}) /\ Untouched({w}, {})
  BY DEF CallInv, CallTypeOK, Abandon, Confined, Untouched
<1> QED BY <1>1, <1>2, <1>3, Frame DEF Abandon

LEMMA StoppedInv ==
  ASSUME CallInv, call' = [w \in Worker |-> Idle],
         UNCHANGED <<attempt, history, retries, sends, arrived>>
  PROVE  CallInv'
  BY DEF CallInv, CallTypeOK, Suspended, RowMeans, InFlight, At, Idle, Pc, Status

LEMMA BatchInv ==
  ASSUME NEW first \in Message, NEW rest \in SUBSET Message, CallInv,
         PrepareBatch(first, rest), Untouched({}, rest \cup {first})
  PROVE  CallInv'
<1>1. CallTypeOK'
  BY DEF CallInv, CallTypeOK, PrepareBatch, Status
<1>2. \A m \in rest \cup {first} : RowMeans(m)'
  BY DEF CallInv, CallTypeOK, PrepareBatch, RowMeans
<1>3. Confined({}, rest \cup {first})
  BY DEF CallInv, CallTypeOK, PrepareBatch, Confined
<1>4. \A m \in history' : attempt'[m] = "SENT"
  BY DEF CallInv, CallTypeOK, PrepareBatch
<1> QED BY <1>1, <1>2, <1>3, <1>4, Frame DEF PrepareBatch

LEMMA PromoteInv ==
  ASSUME NEW m \in Message, CallInv, PromoteBlocked(m), Untouched({}, {m})
  PROVE  CallInv'
<1>1. CallTypeOK' /\ RowMeans(m)' /\ Confined({}, {m})
  BY DEF CallInv, CallTypeOK, PromoteBlocked, SaveDelivery, RowMeans, Confined, Status
<1>2. \A n \in history' : attempt'[n] = "SENT"
  BY DEF CallInv, CallTypeOK, PromoteBlocked, SaveDelivery
<1> QED BY <1>1, <1>2, Frame DEF PromoteBlocked

LEMMA RetryInv ==
  ASSUME NEW m \in Message, CallInv, RetryFailed(m), Untouched({}, {m})
  PROVE  CallInv'
<1>1. CallTypeOK' /\ RowMeans(m)' /\ Confined({}, {m})
  BY DEF CallInv, CallTypeOK, RetryFailed, SaveDelivery, RowMeans, Confined, Status
<1>2. \A n \in history' : attempt'[n] = "SENT"
  BY DEF CallInv, CallTypeOK, RetryFailed, SaveDelivery
<1> QED BY <1>1, <1>2, Frame DEF RetryFailed

LEMMA DropInv ==
  ASSUME NEW m \in Message, CallInv, DropPrepared(m), Untouched({}, {m})
  PROVE  CallInv'
<1>1. CallTypeOK' /\ RowMeans(m)' /\ Confined({}, {m})
  BY DEF CallInv, CallTypeOK, DropPrepared, SaveDelivery, RowMeans, Confined, Status
<1>2. \A n \in history' : attempt'[n] = "SENT"
  BY DEF CallInv, CallTypeOK, DropPrepared, SaveDelivery
<1> QED BY <1>1, <1>2, Frame DEF DropPrepared

-------------------------------------------------------------------------------
(* Each of these steps is a step of Delivery *)

LEMMA CallInitRefines == CallInit => D!DInit
  BY DEF CallInit, D!DInit

\* A step that writes no row, sends nothing and shows nothing is a stutter.
LEMMA Stutter ==
  UNCHANGED <<attempt, history, retries, sends, arrived>> => UNCHANGED D!dvars
  BY DEF D!dvars

LEMMA StepRefines ==
  ASSUME NEW w \in Worker, CallInv, Step(w)
  PROVE  D!DNext \/ UNCHANGED D!dvars
<1> DEFINE m == call[w].msg
<1>1. m \in Message /\ Suspended(w) /\ RowMeans(m) /\ CallTypeOK
  BY StepBusy DEF CallInv
<1>2. CASE Look(w)
  BY <1>2, Stutter DEF Look
<1>3. CASE Doubt(w)
  <2>1. D!Resolve(m, "UNKNOWN")
    BY <1>1, <1>3 DEF Doubt, SaveDelivery, Suspended, At, D!Resolve
  <2> QED BY <1>1, <2>1 DEF D!DNext
<1>4. CASE Prepare(w)
  <2>1. D!Register({m}, {})
    BY <1>1, <1>4 DEF Prepare, SaveDelivery, Suspended, At, D!Register, CallTypeOK
  <2> QED BY <1>1, <2>1 DEF D!DNext
<1>5. CASE Dispatch(w)
  <2>1. D!Start(m)
    BY <1>1, <1>5 DEF Dispatch, SaveDelivery, Suspended, At, D!Start
  <2> QED BY <1>1, <2>1 DEF D!DNext
<1>6. CASE Send(w)
  <2>1. arrived' \in {arrived, [arrived EXCEPT ![m] = @ + 1]}
    <3>1. PICK copies \in {0, 1} : arrived' = [arrived EXCEPT ![m] = @ + copies]
      BY <1>6, SendOutcome
    <3>2. CASE copies = 0
      BY <1>1, <3>1, <3>2 DEF CallTypeOK
    <3> QED BY <3>1, <3>2
  <2>2. attempt[m] = "DISPATCHING" /\ sends[m] < retries[m] + 1
    BY <1>1, <1>6 DEF Send, Suspended, At, CallTypeOK
  <2>3. D!Emit(m)
    BY <1>1, <1>6, <2>1, <2>2 DEF Send, D!Emit
  <2> QED BY <1>1, <2>3 DEF D!DNext
<1>7. CASE Settle(w)
  <2>1. call[w].receipt \in {"SENT", "FAILED", "UNKNOWN"}
    BY <1>1, <1>7 DEF Settle, Suspended, Outcome
  <2>2. D!Resolve(m, call[w].receipt)
    BY <1>1, <1>7 DEF Settle, SaveDelivery, Suspended, At, D!Resolve
  <2> QED BY <1>1, <2>1, <2>2 DEF D!DNext
<1>8. CASE Commit(w)
  <2>1. D!Show(m)
    BY <1>1, <1>8 DEF Commit, Suspended, At, D!Show
  <2> QED BY <1>1, <2>1 DEF D!DNext
<1> QED BY <1>2, <1>3, <1>4, <1>5, <1>6, <1>7, <1>8 DEF Step

LEMMA BatchRefines ==
  ASSUME NEW first \in Message, NEW rest \in SUBSET Message, CallInv,
         first \notin rest, PrepareBatch(first, rest)
  PROVE  D!DNext
<1> DEFINE ready == {n \in {first} : attempt[n] = "NONE"}
           held == {n \in rest : attempt[n] = "NONE"}
<1>1. D!Register(ready, held)
  BY DEF D!Register, PrepareBatch, CallInv, CallTypeOK
<1>2. ready \in SUBSET Message /\ held \in SUBSET Message
  OBVIOUS
<1> QED BY <1>1, <1>2 DEF D!DNext

LEMMA PromoteRefines ==
  ASSUME NEW m \in Message, PromoteBlocked(m)
  PROVE  D!DNext
<1>1. D!Open(m)
  BY DEF PromoteBlocked, SaveDelivery, D!Open
<1> QED BY <1>1 DEF D!DNext

LEMMA RetryRefines ==
  ASSUME NEW m \in Message, CallInv, RetryFailed(m)
  PROVE  D!DNext
<1>1. [n \in Message |-> retries'[n] + 1]
        = [[n \in Message |-> retries[n] + 1] EXCEPT ![m] = @ + 1]
  BY DEF RetryFailed, CallInv, CallTypeOK
<1>2. D!Regrant(m)
  BY <1>1 DEF RetryFailed, SaveDelivery, D!Regrant
<1> QED BY <1>2 DEF D!DNext

LEMMA DropRefines ==
  ASSUME NEW m \in Message, DropPrepared(m)
  PROVE  D!DNext
<1>1. D!Withdraw(m)
  BY DEF DropPrepared, SaveDelivery, D!Withdraw
<1> QED BY <1>1 DEF D!DNext

-------------------------------------------------------------------------------
(* What the promise alone gives, read on the rows of the calls: any chain    *)
(* shown to implement Delivery inherits it.                                  *)

\* The promise starts in its own invariant.
LEMMA DInitInv == D!DInit => D!DInv
  BY DEF D!DInit, D!DInv, D!DTypeOK, D!Stage, D!SendsGranted, D!AtMostOnce, D!ShownArrived

\* No step of the promise leaves it.
LEMMA DNextInv == D!DInv /\ [D!DNext]_(D!dvars) => D!DInv'
<1> SUFFICES ASSUME D!DInv, [D!DNext]_(D!dvars)
             PROVE  D!DInv'
  OBVIOUS
<1> USE DEF D!DInv, D!DTypeOK, D!Stage, D!SendsGranted, D!AtMostOnce, D!ShownArrived
<1>1. ASSUME NEW ready \in SUBSET Message, NEW held \in SUBSET Message,
             D!Register(ready, held)
      PROVE  D!DInv'
  BY <1>1 DEF D!Register
<1>2. ASSUME NEW m \in Message, D!Open(m) PROVE D!DInv'
  BY <1>2 DEF D!Open
<1>3. ASSUME NEW m \in Message, D!Regrant(m) PROVE D!DInv'
  <2>1. \A n \in Message : retries'[n] + 1 = IF n = m THEN retries[n] + 1 + 1 ELSE retries[n] + 1
    <3>1. [n \in Message |-> retries'[n] + 1] = [[n \in Message |-> retries[n] + 1] EXCEPT ![m] = @ + 1]
      BY <1>3 DEF D!Regrant
    <3> QED BY ONLY <3>1, m \in Message
  <2>2. \A n \in Message : retries[n] + 1 \in Nat
    OBVIOUS
  <2>3. \A n \in Message : retries'[n] + 1 \in Nat /\ retries'[n] + 1 >= retries[n] + 1
    BY <2>1, <2>2
  <2> QED BY <1>3, <2>1, <2>2, <2>3 DEF D!Regrant
<1>4. ASSUME NEW m \in Message, D!Withdraw(m) PROVE D!DInv'
  BY <1>4 DEF D!Withdraw
<1>5. ASSUME NEW m \in Message, D!Start(m) PROVE D!DInv'
  BY <1>5 DEF D!Start
<1>6. ASSUME NEW m \in Message, D!Emit(m) PROVE D!DInv'
  BY <1>6 DEF D!Emit
<1>7. ASSUME NEW m \in Message, D!Show(m) PROVE D!DInv'
  BY <1>7 DEF D!Show
<1>8. ASSUME NEW m \in Message, NEW outcome \in {"SENT", "FAILED", "UNKNOWN"},
             D!Resolve(m, outcome)
      PROVE  D!DInv'
  BY <1>8 DEF D!Resolve
<1>9. CASE UNCHANGED D!dvars
  BY <1>9 DEF D!dvars
<1> QED
  BY <1>1, <1>2, <1>3, <1>4, <1>5, <1>6, <1>7, <1>8, <1>9 DEF D!DNext

\* At most one arrival, shown only what arrived, tried only when granted.
THEOREM DeliverySafe == D!DSpec => [](D!AtMostOnce /\ D!ShownArrived /\ D!SendsGranted)
<1>1. D!DInv => D!AtMostOnce /\ D!ShownArrived /\ D!SendsGranted
  BY DEF D!DInv
<1> QED BY <1>1, DInitInv, DNextInv, PTL DEF D!DSpec
===============================================================================
