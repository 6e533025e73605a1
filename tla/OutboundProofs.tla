---------------------------- MODULE OutboundProofs ----------------------------
(* Proofs about the outbound coordinator, for any number of messages,       *)
(* sessions, retries and crashes.                                           *)
EXTENDS Outbound, OutboundCallProofs

LEMMA InitInv == Init => IInv
<1> SUFFICES ASSUME Init
             PROVE  IInv
  OBVIOUS
<1>1. CallInv
  BY CallInitInv DEF Init
<1>2. TypeOK
  BY <1>1 DEF Init, TypeOK, CallInv
<1>3. \A w \in Worker : Owned(w) /\ Registered(w)
  BY DEF Init, CallInit, Idle, Owned, Registered, InFlight, At
<1> QED BY <1>1, <1>2, <1>3 DEF IInv, Init

\* Two coroutines inside deliver() never share a message: two sessions have
\* different messages, and recover() only runs while sessions send replies.
LEMMA Exclusive == IInv => SingleDeliverer
  BY OutboundAssumption DEF IInv, SingleDeliverer, Owned, InFlight

\* The step moves only workers of W, erases no row, and leaves the process
\* where it is.
Moves(W) ==
  /\ \A v \in Worker \ W : call'[v] = call[v]
  /\ \A n \in Message : attempt[n] # "NONE" => attempt'[n] # "NONE"
  /\ phase' = phase /\ todo' \subseteq todo /\ crashes' = crashes

\* When such a step keeps the part about the calls, the workers it moves decide.
LEMMA Carry ==
  ASSUME IInv, CallInv', NEW W \in SUBSET Worker, Moves(W),
         \A w \in W : Owned(w)' /\ Registered(w)'
  PROVE  IInv'
<1>1. TypeOK'
  BY DEF IInv, TypeOK, CallInv, Moves
<1>2. ASSUME NEW v \in Worker \ W
      PROVE  Owned(v)' /\ Registered(v)'
  <2>1. call'[v] = call[v] /\ Owned(v) /\ Registered(v) /\ Suspended(v)
    BY <1>2 DEF IInv, CallInv, Moves
  <2>2. Owned(v)'
    BY <2>1 DEF Owned, InFlight, Moves
  <2>3. Registered(v)'
    BY <2>1 DEF Registered, At, Suspended, InFlight, Moves
  <2> QED BY <2>2, <2>3
<1>3. \A m \in todo' : m \notin Reactive /\ attempt'[m] # "NONE"
  BY DEF IInv, TypeOK, Moves
<1> QED BY <1>1, <1>2, <1>3 DEF IInv

-------------------------------------------------------------------------------
(* The calls *)

LEMMA ResumeKeeps ==
  ASSUME IInv, NEW w \in Worker, Resume(w)
  PROVE  IInv'
<1> PICK m \in Message : m = call[w].msg
  BY StepBusy DEF IInv, Resume
<1>1. CallInv /\ Step(w) /\ InFlight(w) /\ Owned(w) /\ Registered(w) /\ Suspended(w)
  BY StepBusy DEF IInv, CallInv, Resume
<1>2. Untouched({w}, {m})
  BY <1>1, Exclusive DEF IInv, SingleDeliverer, Untouched
<1>3. CallInv'
  BY <1>1, <1>2, StepInv
<1>4. /\ \A v \in Worker \ {w} : call'[v] = call[v]
      /\ \A n \in Message \ {m} : attempt'[n] = attempt[n]
      /\ InFlight(w)' => call'[w].msg = m
  BY <1>1, StepEffect DEF Confined
<1>5. Owned(w)'
  BY <1>1, <1>4 DEF Owned, Resume, InFlight
<1>6. attempt[m] # "NONE" => attempt'[m] # "NONE"
  BY <1>1 DEF Step, Look, Doubt, Prepare, Dispatch, Send, Settle, Commit, SaveDelivery,
              Suspended, At, Outcome, IInv, CallInv, CallTypeOK
<1>7. Registered(w)'
  <2>1. ~At(w, "look")'
    BY <1>1 DEF Step, Look, Doubt, Prepare, Dispatch, Send, Settle, Commit, At, Goto,
                Return, IInv, CallInv, CallTypeOK
  <2>2. At(w, "prepare")' => At(w, "look") /\ attempt[m] = "NONE"
    BY <1>1 DEF Step, Look, Doubt, Prepare, Dispatch, Send, Settle, Commit, At, Goto,
                Return, IInv, CallInv, CallTypeOK
  <2>3. At(w, "prepare")' => call'[w].msg = m
    BY <1>4 DEF At, InFlight
  <2> QED BY <1>1, <2>1, <2>2, <2>3 DEF Registered, At
<1>8. Moves({w})
  BY <1>4, <1>6 DEF Moves, Resume
<1> QED BY <1>3, <1>5, <1>7, <1>8, Carry

\* The worker w, which may take up m, calls deliver().
LEMMA BeginKeeps ==
  ASSUME IInv, NEW w \in Worker, NEW m \in Message, Begin(w, m),
         phase' = phase, todo' \subseteq todo, crashes' = crashes,
         phase # "down", attempt[m] = "NONE" => Origin[m] = "scheduled",
         w = Recovery => phase = "booting" /\ m \notin Reactive,
         w # Recovery => SessionOf[m] = w /\ (phase = "booting" => m \in Reactive)
  PROVE  IInv'
<1>1. CallInv'
  BY BeginInv DEF IInv
<1>2. call' = [call EXCEPT ![w] = [pc |-> "look", msg |-> m, receipt |-> "NONE"]]
      /\ attempt' = attempt /\ call'[w].pc = "look" /\ call'[w].msg = m
  BY DEF Begin, IInv, CallInv, CallTypeOK
<1>3. Owned(w)' /\ Registered(w)'
  BY <1>2 DEF Owned, Registered, InFlight, At, Reactive
<1>4. Moves({w})
  BY <1>2 DEF Moves, IInv, CallInv, CallTypeOK
<1> QED BY <1>1, <1>3, <1>4, Carry

LEMMA DeliverKeeps ==
  ASSUME IInv, NEW m \in Message, Deliver(m)
  PROVE  IInv'
<1>1. SessionOf[m] \in Worker /\ SessionOf[m] # Recovery
  BY OutboundAssumption
<1>2. Origin[m] \in {"reactive", "scheduled", "proactive"}
  BY OutboundAssumption
<1>3. phase # "down" /\ (phase = "booting" => m \in Reactive)
  BY DEF Deliver, Holds, Running
<1> QED BY <1>1, <1>2, <1>3, BeginKeeps DEF Deliver

LEMMA RecoverBeginKeeps ==
  ASSUME IInv, NEW m \in Message, RecoverBegin(m)
  PROVE  IInv'
<1>1. Recovery \in Worker
  BY OutboundAssumption
<1>2. m \notin Reactive /\ attempt[m] # "NONE"
  BY DEF RecoverBegin, IInv
<1> QED BY <1>1, <1>2, BeginKeeps DEF RecoverBegin

LEMMA InterruptKeeps ==
  ASSUME IInv, NEW s \in Session, Interrupt(s)
  PROVE  IInv'
<1>1. s \in Worker
  BY OutboundAssumption
<1>2. CallInv'
  BY <1>1, AbandonInv DEF IInv, Interrupt
<1>3. Owned(s)' /\ Registered(s)'
  BY <1>1 DEF Interrupt, Abandon, Idle, Owned, Registered, InFlight, At, IInv, CallInv,
             CallTypeOK
<1>4. Moves({s})
  BY DEF Interrupt, Abandon, Moves, IInv, CallInv, CallTypeOK
<1> QED BY <1>1, <1>2, <1>3, <1>4, Carry

-------------------------------------------------------------------------------
(* The other writers of the rows, under a free session lock *)

\* A chain that holds the lock of m's session is alone with m.
LEMMA HoldsAlone ==
  ASSUME IInv, NEW m \in Message, Holds(m), NEW v \in Worker, InFlight(v)
  PROVE  \/ SessionOf[call[v].msg] # SessionOf[m]
         \/ call[v].msg \notin Reactive /\ m \in Reactive
<1>1. Owned(v)
  BY DEF IInv
<1>2. CASE v = Recovery
  BY <1>1, <1>2 DEF Owned, Holds, Running
<1>3. CASE v # Recovery
  BY <1>1, <1>3 DEF Owned, Holds, Free, InFlight
<1> QED BY <1>2, <1>3

\* Rows change, no worker moves.
LEMMA RowsKeep ==
  ASSUME IInv, CallInv', UNCHANGED <<call, phase, todo, crashes>>,
         \A n \in Message : attempt[n] # "NONE" => attempt'[n] # "NONE"
  PROVE  IInv'
<1>1. Moves({})
  BY DEF Moves
<1> QED BY <1>1, Carry

LEMMA PromoteKeeps ==
  ASSUME IInv, NEW m \in Message, Promote(m)
  PROVE  IInv'
<1>1. Untouched({}, {m})
  BY HoldsAlone DEF Promote, Untouched
<1>2. CallInv'
  BY <1>1, PromoteInv DEF Promote, IInv
<1> QED
  BY <1>2, RowsKeep DEF Promote, PromoteBlocked, SaveDelivery, IInv, CallInv, CallTypeOK

LEMMA RetryKeeps ==
  ASSUME IInv, NEW m \in Message, Retry(m)
  PROVE  IInv'
<1>1. Untouched({}, {m})
  BY HoldsAlone DEF Retry, Untouched
<1>2. CallInv'
  BY <1>1, RetryInv DEF Retry, IInv
<1> QED
  BY <1>2, RowsKeep DEF Retry, RetryFailed, SaveDelivery, IInv, CallInv, CallTypeOK

LEMMA DropKeeps ==
  ASSUME IInv, NEW m \in Message, Drop(m)
  PROVE  IInv'
<1>1. phase = "ready" /\ Free(SessionOf[m])
  BY DEF Drop, Holds, Running, Reactive
<1>2. Untouched({}, {m})
  BY <1>1 DEF IInv, Owned, Free, InFlight, Untouched
<1>3. CallInv'
  BY <1>2, DropInv DEF Drop, IInv
<1> QED
  BY <1>3, RowsKeep DEF Drop, DropPrepared, SaveDelivery, IInv, CallInv, CallTypeOK

\* A new batch writes only rows that no call is about.
LEMMA BatchKeeps ==
  ASSUME IInv, NEW first \in Message, NEW rest \in SUBSET Message,
         PrepareBatch(first, rest), UNCHANGED <<phase, todo, crashes>>,
         Untouched({}, rest \cup {first})
  PROVE  IInv'
<1>1. CallInv'
  BY BatchInv DEF IInv
<1> QED BY <1>1, RowsKeep DEF PrepareBatch, IInv, CallInv, CallTypeOK

LEMMA PrepareRepliesKeeps ==
  ASSUME IInv, NEW m \in Message, NEW rest \in SUBSET (Message \ {m}),
         PrepareReplies(m, rest)
  PROVE  IInv'
<1>1. Untouched({}, rest \cup {m})
  BY HoldsAlone DEF PrepareReplies, Untouched
<1> QED BY <1>1, BatchKeeps DEF PrepareReplies

\* It needs no session lock: a call about a message without a row is of a
\* scheduled one.
LEMMA PrepareProactiveKeeps ==
  ASSUME IInv, NEW m \in Message, PrepareProactive(m)
  PROVE  IInv'
<1>1. ASSUME NEW v \in Worker, InFlight(v), call[v].msg = m
      PROVE  FALSE
  <2>1. attempt[m] = "NONE" /\ Origin[m] = "proactive"
    BY DEF PrepareProactive
  <2>2. Registered(v) /\ Suspended(v) /\ call[v].pc \in Pc
    BY DEF IInv, CallInv, CallTypeOK
  <2>3. call[v].pc \in {"look", "doubt", "prepare", "dispatch", "send", "settle", "commit"}
    BY <1>1, <2>2 DEF InFlight, Pc
  <2> QED BY <1>1, <2>1, <2>2, <2>3 DEF Suspended, Registered, At
<1>2. Untouched({}, {m})
  BY <1>1 DEF Untouched
<1> QED BY <1>2, BatchKeeps DEF PrepareProactive

-------------------------------------------------------------------------------
(* The life of the process *)

LEMMA BootKeeps == IInv /\ Boot => IInv'
<1> SUFFICES ASSUME IInv, Boot
             PROVE  IInv'
  OBVIOUS
<1>1. CallInv' /\ TypeOK'
  BY CallsUntouched DEF Boot, Recoverable, IInv, CallInv, TypeOK
<1>2. \A w \in Worker : ~InFlight(w)
  BY DEF Boot, IInv, Owned
<1>3. \A w \in Worker : Owned(w)' /\ Registered(w)'
  BY <1>2 DEF Boot, callVars, Owned, Registered, InFlight, At
<1>4. \A m \in todo' : m \notin Reactive /\ attempt'[m] # "NONE"
  BY DEF Boot, callVars, Recoverable
<1> QED BY <1>1, <1>3, <1>4 DEF IInv

LEMMA ReadyKeeps == IInv /\ Ready => IInv'
<1> SUFFICES ASSUME IInv, Ready
             PROVE  IInv'
  OBVIOUS
<1>1. CallInv' /\ TypeOK'
  BY CallsUntouched DEF Ready, IInv, CallInv, TypeOK
<1>2. ~InFlight(Recovery)
  BY DEF Ready, Free, InFlight
<1>3. \A w \in Worker : Owned(w)' /\ Registered(w)'
  BY <1>2 DEF Ready, callVars, IInv, Owned, Registered, InFlight, At
<1> QED BY <1>1, <1>3 DEF IInv, Ready

LEMMA CrashKeeps == IInv /\ Crash => IInv'
<1> SUFFICES ASSUME IInv, Crash
             PROVE  IInv'
  OBVIOUS
<1>1. CallInv'
  BY StoppedInv DEF Crash, IInv
<1>2. TypeOK'
  BY <1>1 DEF Crash, IInv, TypeOK, CallInv
<1>3. \A w \in Worker : Owned(w)' /\ Registered(w)'
  BY DEF Crash, Idle, Owned, Registered, InFlight, At
<1> QED BY <1>1, <1>2, <1>3 DEF IInv, Crash

\* A step that touches no call, or that only shortens todo.
LEMMA UntouchedInv ==
  IInv /\ UNCHANGED <<callVars, phase, crashes>> /\ todo' \subseteq todo => IInv'
<1> SUFFICES ASSUME IInv, UNCHANGED <<callVars, phase, crashes>>, todo' \subseteq todo
             PROVE  IInv'
  OBVIOUS
<1>1. CallInv'
  BY CallsUntouched DEF IInv
<1>2. Moves({})
  BY DEF Moves, callVars
<1> QED BY <1>1, <1>2, Carry

-------------------------------------------------------------------------------
(* The theorems *)

\* Every step of the coordinator, of a chain and of the process keeps the
\* inductive invariant.
LEMMA NextInv == IInv /\ [Next]_vars => IInv'
<1> SUFFICES ASSUME IInv, [Next]_vars
             PROVE  IInv'
  OBVIOUS
<1>1. CASE Boot
  BY <1>1, BootKeeps
<1>2. CASE Ready
  BY <1>2, ReadyKeeps
<1>3. CASE Crash
  BY <1>3, CrashKeeps
<1>4. ASSUME NEW m \in Message, RecoverSkip(m)
      PROVE  IInv'
  BY <1>4, UntouchedInv DEF RecoverSkip
<1>5. ASSUME NEW m \in Message, RecoverBegin(m)
      PROVE  IInv'
  BY <1>5, RecoverBeginKeeps
<1>6. ASSUME NEW m \in Message, Deliver(m)
      PROVE  IInv'
  BY <1>6, DeliverKeeps
<1>7. ASSUME NEW m \in Message, Promote(m)
      PROVE  IInv'
  BY <1>7, PromoteKeeps
<1>8. ASSUME NEW m \in Message, Retry(m)
      PROVE  IInv'
  BY <1>8, RetryKeeps
<1>9. ASSUME NEW m \in Message, PrepareProactive(m)
      PROVE  IInv'
  BY <1>9, PrepareProactiveKeeps
<1>10. ASSUME NEW m \in Message, Drop(m)
      PROVE  IInv'
  BY <1>10, DropKeeps
<1>11. ASSUME NEW m \in Message, NEW rest \in SUBSET (Message \ {m}),
              PrepareReplies(m, rest)
       PROVE  IInv'
  BY <1>11, PrepareRepliesKeeps
<1>12. ASSUME NEW w \in Worker, Resume(w)
       PROVE  IInv'
  BY <1>12, ResumeKeeps
<1>13. ASSUME NEW s \in Session, Interrupt(s)
       PROVE  IInv'
  BY <1>13, InterruptKeeps
<1>14. CASE UNCHANGED vars
  BY <1>14, UntouchedInv DEF vars
<1> QED
  BY <1>1, <1>2, <1>3, <1>4, <1>5, <1>6, <1>7, <1>8, <1>9, <1>10, <1>11, <1>12,
     <1>13, <1>14 DEF Next

\* The inductive invariant holds in every state the program reaches.
THEOREM Invariant == Spec => []IInv
  BY InitInv, NextInv, PTL DEF Spec

\* No recipient gets a message twice, through crashes, exceptions and retries.
THEOREM NoDuplicate == Spec => []AtMostOnce
<1>1. IInv => AtMostOnce
  BY DEF IInv, CallInv, RowMeans, AtMostOnce
<1> QED BY <1>1, Invariant, PTL

\* The visible history never claims more than what reached the recipient.
THEOREM HistoryIsTruthful == Spec => []HistoryTruthful
<1>1. IInv => HistoryTruthful
  BY DEF IInv, CallInv, CallTypeOK, RowMeans, HistoryTruthful
<1> QED BY <1>1, Invariant, PTL

\* Session locks and the order of start-up suffice to keep two coroutines from
\* delivering one message.
THEOREM OneDeliverer == Spec => []SingleDeliverer
  BY Exclusive, Invariant, PTL

-------------------------------------------------------------------------------
(* The coordinator implements Delivery *)

LEMMA NextRefines == IInv /\ [Next]_vars => [D!DNext]_(D!dvars)
<1> SUFFICES ASSUME IInv, [Next]_vars
             PROVE  D!DNext \/ UNCHANGED D!dvars
  OBVIOUS
<1>1. CASE Boot \/ Ready \/ Crash \/ UNCHANGED vars
  BY <1>1, Stutter DEF Boot, Ready, Crash, vars, callVars
<1>2. ASSUME NEW m \in Message, RecoverSkip(m) \/ RecoverBegin(m) \/ Deliver(m)
      PROVE  UNCHANGED D!dvars
  BY <1>2, Stutter DEF RecoverSkip, RecoverBegin, Deliver, Begin, callVars
<1>3. ASSUME NEW m \in Message, Promote(m) \/ Retry(m) \/ Drop(m)
      PROVE  D!DNext
  BY <1>3, PromoteRefines, RetryRefines, DropRefines DEF Promote, Retry, Drop, IInv
<1>4. ASSUME NEW m \in Message, PrepareProactive(m)
      PROVE  D!DNext
  BY <1>4, BatchRefines DEF PrepareProactive, IInv
<1>5. ASSUME NEW m \in Message, NEW rest \in SUBSET (Message \ {m}),
             PrepareReplies(m, rest)
      PROVE  D!DNext
  BY <1>5, BatchRefines DEF PrepareReplies, IInv
<1>6. ASSUME NEW w \in Worker, Resume(w)
      PROVE  D!DNext \/ UNCHANGED D!dvars
  BY <1>6, StepRefines DEF Resume, IInv
<1>7. ASSUME NEW s \in Session, Interrupt(s)
      PROVE  UNCHANGED D!dvars
  BY <1>7, Stutter DEF Interrupt, Abandon
<1> QED
  BY <1>1, <1>2, <1>3, <1>4, <1>5, <1>6, <1>7 DEF Next

\* The coordinator, with its crashes, its recovery and its concurrent chains,
\* does only what Delivery allows.
THEOREM Refinement == Spec => ImplementsDelivery
<1>1. Init => D!DInit
  BY CallInitRefines DEF Init
<1>2. IInv /\ [Next]_vars => [D!DNext]_(D!dvars)
  BY NextRefines
<1> QED BY <1>1, <1>2, Invariant, PTL DEF Spec, ImplementsDelivery, D!DSpec

\* What Delivery never does to a closed message, the coordinator never does.
THEOREM ClosedForGood == Spec => ClosedStaysClosed
<1> DEFINE Keeps == \A m \in Message :
             attempt[m] \in {"SENT", "UNKNOWN", "DROPPED"} => attempt'[m] = attempt[m]
<1>1. CallTypeOK /\ [D!DNext]_(D!dvars) => Keeps
  BY DEF CallTypeOK, D!DNext, D!dvars, D!Register, D!Open, D!Regrant, D!Withdraw,
         D!Start, D!Emit, D!Resolve, D!Show
<1>2. IInv /\ [Next]_vars => [Keeps]_vars
  BY <1>1, NextRefines DEF IInv, CallInv
<1> QED BY <1>2, Invariant, PTL DEF Spec, ClosedStaysClosed

===============================================================================
