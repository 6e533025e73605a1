-------------------------------- MODULE MCLive --------------------------------
(***************************************************************************)
(* What must happen in the end, on small instances of the coordinator, the *)
(* reactive chain and the delaying filter.  They share no state here: a    *)
(* behaviour is one of one part, and the constant Parts says which.        *)
(***************************************************************************)
EXTENDS DelayedReply, TLC

CONSTANTS Parts, NoMsg,
          r1, t1, p1, s1, Recovery, MaxRetry, MaxCrash,
          Inbound, NoInbound, Absent, Waiting, Holder, MaxTurn, MaxBubble, MaxStop,
          MaxClear, MaxRepeat

VARIABLES part, attempt, history, call, retries, sends, reached, life, todo, crashes,
          attemptR, historyR, callR, retriesR, sendsR, reachedR, owner,
          action, memrun, up, arriving, timer, queue, turn, batches, stopped,
          bounded, cleared, quiet, excused, spentR

Replies == {r1, t1, p1}

Sends == INSTANCE Outbound
  WITH Message <- Replies, Session <- {s1}, Worker <- {s1, Recovery},
       SessionOf <- [m \in Replies |-> s1],
       Origin <- r1 :> "reactive" @@ t1 :> "scheduled" @@ p1 :> "proactive",
       arrived <- reached, phase <- life
Turns == INSTANCE ReactiveTurn
  WITH Message <- (1 .. MaxTurn) \X (1 .. MaxBubble), Worker <- {Holder},
       attempt <- attemptR, history <- historyR, call <- callR,
       retries <- retriesR, sends <- sendsR, arrived <- reachedR,
       spent <- spentR

sending == <<attempt, history, call, retries, sends, reached, life, todo, crashes>>
turns == <<attemptR, historyR, callR, retriesR, sendsR, reachedR, owner,
           action, memrun, up, arriving, timer, queue, turn, batches, stopped,
           bounded, cleared, quiet, excused, spentR>>
all == <<part, sending, turns, vars>>

LiveInit == part \in Parts /\ Sends!Init /\ Turns!Init /\ Init

OfSends(A) == part = "sends" /\ A /\ UNCHANGED <<part, turns, vars>>
OfTurns(A) == part = "turns" /\ A /\ UNCHANGED <<part, sending, vars>>
OfFilter(A) == part = "filter" /\ A /\ UNCHANGED <<part, sending, turns>>

LiveNext == \/ OfSends(Sends!Next) \/ OfTurns(Turns!Next) \/ OfFilter(Next)

(* The fairness of the three modules.  The properties of DelayedReply keep *)
(* their names.                                                            *)
LiveSpec ==
  /\ LiveInit /\ [][LiveNext]_all
  /\ WF_all(OfSends(Sends!Boot)) /\ WF_all(OfSends(Sends!Ready))
  /\ WF_all(OfSends(\E m \in Replies : Sends!RecoverSkip(m) \/ Sends!RecoverBegin(m)))
  /\ \A w \in {s1, Recovery} : WF_all(OfSends(Sends!Resume(w)))
  /\ WF_all(OfTurns(Turns!TurnStep)) /\ WF_all(OfTurns(Turns!StartStep))
  /\ WF_all(OfTurns(Turns!IngestStep)) /\ WF_all(OfTurns(Turns!ClearStep))
  /\ WF_all(OfTurns(Turns!Fire))
  /\ WF_all(OfTurns(Turns!Boot))
  /\ \A t \in 1 .. MaxTurn : WF_all(OfTurns(Turns!FinishMemory(t)))
  /\ WF_all(OfFilter(Tick)) /\ \A r \in Route : WF_all(OfFilter(Fire(r)))
  /\ WF_all(OfFilter(\E f \in flushes : Submit(f)))
  /\ WF_all(OfFilter(StopBegin)) /\ WF_all(OfFilter(StopFlush))
  /\ WF_all(OfFilter(StopEnd))

---------------------------------------------------------------------------
(* Outbound: a send that was under way gets an outcome.                    *)
SendResolved == Sends!SendResolved
(* Outbound: a message that was sent gets into the history.                *)
SentCommitted == Sends!SentCommitted
(* ReactiveTurn: a decided reply is shown, can be retried or is in doubt.  *)
ReplyAccounted == Turns!ReplyAccounted
=============================================================================
