---------------------------- MODULE ModelProvider ----------------------------
(****************************************************************************)
(* Model calls and the providers they use while an operator reconfigures    *)
(* the model and the runtime stops.  A call leases the provider it finds,    *)
(* makes its attempts through a gate that limits concurrency, paces starts   *)
(* and cools down after a 429, and records every attempt; a replaced         *)
(* provider is retired by a task that waits for its leases and then closes   *)
(* it; stop() drains those tasks before the store is closed.                 *)
(*                                                                          *)
(* Every reconfiguration makes one provider and one gate: they share a       *)
(* number.  Time is counted in ticks.                                        *)
(****************************************************************************)
EXTENDS Naturals, FiniteSets

CONSTANTS Call, Kinds,        \* calls; what they are: "complete", "stream", "other"
          Generation,         \* 1..n
          MaxAttempts, MaxConcurrency, Gap,
          MaxCool, MaxFaults  \* bounds

VARIABLES
  owner,    \* the generation the services were given
  prov,     \* "unborn", "active", "retiring" or "closed"
  gate,     \* by generation: cool, next (ticks to wait), streak
  call,     \* pc, kind, gen, n (attempt), seen (visible output), out
  conf,     \* the reconfiguration that holds the lifecycle lock: pc, gen
  phase,    \* the runtime: ready, and the steps of stop()
  failed,   \* a step that must precede the hand-over of the workspace failed
  workspace,\* the workspace lock is held
  faults, shown \* bound; which attempts of a call the consumer has seen (ghost)

vars == <<owner, prov, gate, call, conf, phase, failed, workspace, faults, shown>>

Quiet == [pc |-> "off", kind |-> "none", gen |-> 0, n |-> 0, seen |-> FALSE, out |-> "none"]
Open == [cool |-> 0, next |-> 0, streak |-> 0]

Init ==
  /\ owner = 1 /\ prov = [g \in Generation |-> IF g = 1 THEN "active" ELSE "unborn"]
  /\ gate = [g \in Generation |-> Open] /\ call = [c \in Call |-> Quiet]
  /\ conf = [pc |-> "idle", gen |-> 0] /\ phase = "ready"
  /\ failed = FALSE /\ workspace = TRUE /\ faults = MaxFaults /\ shown = [c \in Call |-> {}]

Leases(g) == {c \in Call : call[c].gen = g /\ call[c].pc \notin {"off", "held"}}
Slots(g) == {c \in Call : call[c].gen = g /\ call[c].kind # "other" /\ call[c].pc \in {"pace", "run"}}
At(c, pc) == call' = [call EXCEPT ![c].pc = pc]
Ends(c) == call' = [call EXCEPT ![c] = Quiet] /\ shown' = [shown EXCEPT ![c] = {}]

(********************************** calls ***********************************)
\* A service takes the provider it has been given and uses it some time later.
Take(c, kind) ==
  /\ phase = "ready" /\ call[c].pc = "off"
  /\ call' = [call EXCEPT ![c] = [Quiet EXCEPT !.pc = "held", !.kind = kind, !.gen = owner, !.n = 1]]
  /\ UNCHANGED <<owner, prov, gate, conf, phase, failed, workspace, faults, shown>>

\* _lease: a provider that is not active refuses.
Lease(c) ==
  /\ call[c].pc = "held"
  /\ IF prov[call[c].gen] = "active" THEN At(c, "slot") /\ UNCHANGED shown ELSE Ends(c)
  /\ UNCHANGED <<owner, prov, gate, conf, phase, failed, workspace, faults>>

\* ModelRequestGate.slot: the semaphore; embeddings and images have no gate.
Slot(c) ==
  LET g == call[c].gen IN
  /\ call[c].pc = "slot"
  /\ IF call[c].kind = "other" THEN At(c, "run")
     ELSE Cardinality(Slots(g)) < MaxConcurrency /\ At(c, "pace")
  /\ UNCHANGED <<owner, prov, gate, conf, phase, failed, workspace, faults, shown>>

Wait(g) == IF gate[g].cool > gate[g].next THEN gate[g].cool ELSE gate[g].next

\* _wait_for_start: again and again until neither holds it back.
Pace(c) ==
  LET g == call[c].gen IN
  /\ call[c].pc = "pace" /\ Wait(g) = 0
  /\ At(c, "run") /\ gate' = [gate EXCEPT ![g].next = Gap]
  /\ UNCHANGED <<owner, prov, conf, phase, failed, workspace, faults, shown>>

Tick ==
  /\ \E g \in Generation : Wait(g) > 0
  /\ gate' = [g \in Generation |-> [gate[g] EXCEPT !.cool = IF @ > 0 THEN @ - 1 ELSE 0,
                                                   !.next = IF @ > 0 THEN @ - 1 ELSE 0]]
  /\ UNCHANGED <<owner, prov, call, conf, phase, failed, workspace, faults, shown>>

\* A stream emits something visible.
Emit(c) ==
  /\ call[c].pc = "run" /\ call[c].kind = "stream"
  /\ call' = [call EXCEPT ![c].seen = TRUE]
  /\ shown' = [shown EXCEPT ![c] = @ \cup {call[c].n}]
  /\ UNCHANGED <<owner, prov, gate, conf, phase, failed, workspace, faults>>

Backoff(n) == IF n >= MaxCool THEN MaxCool ELSE n

\* The provider answers: "ok"; "limited" (429); "retry" (a timeout or another
\* passing fault); "fatal" (authentication, quota, contract, cancellation).
Answer(c, out) ==
  LET g == call[c].gen IN
  /\ call[c].pc = "run"
  /\ IF out = "ok" THEN UNCHANGED faults ELSE faults > 0 /\ faults' = faults - 1
  /\ call' = [call EXCEPT ![c].pc = "record", ![c].out = out]
  /\ gate' = IF call[c].kind = "other" \/ out \in {"retry", "fatal"} THEN gate
             ELSE IF out = "ok" THEN [gate EXCEPT ![g].streak = 0]
             ELSE LET cool == Backoff(gate[g].streak + 1) IN
                  [gate EXCEPT ![g] = [@ EXCEPT !.streak = Backoff(@ + 1),
                                                !.cool = IF cool > @ THEN cool ELSE @]]
  /\ UNCHANGED <<owner, prov, conf, phase, failed, workspace, shown>>

\* A mutant for SaidOnce: what has been seen is forgotten.
RetryAnyway(c) == call[c].out \in {"limited", "retry"} /\ call[c].n < MaxAttempts
Retries(c) == call[c].out \in {"limited", "retry"} /\ ~call[c].seen /\ call[c].n < MaxAttempts

\* Whatever the outcome, the attempt is written; then the next one, or the end.
Record(c) ==
  /\ call[c].pc = "record"
  /\ IF Retries(c)
     THEN /\ call' = [call EXCEPT ![c].pc = "slot", ![c].n = @ + 1, ![c].seen = FALSE, ![c].out = "none"]
          /\ UNCHANGED shown
     ELSE Ends(c)
  /\ UNCHANGED <<owner, prov, gate, conf, phase, failed, workspace, faults>>

\* A task is cancelled while it waits for its turn: that is an attempt, too.
Cancel(c) ==
  /\ faults > 0 /\ faults' = faults - 1
  /\ call[c].pc \in {"slot", "pace"} /\ call' = [call EXCEPT ![c].pc = "record", ![c].out = "fatal"]
  /\ UNCHANGED <<owner, prov, gate, conf, phase, failed, workspace, shown>>

(****************************** reconfiguration *****************************)
\* Under the lifecycle lock: the new provider is given to every owner, and the
\* old one retired; _finish_retirement waits for its leases.
Reconfigure ==
  /\ phase = "ready" /\ conf.pc = "idle" /\ owner + 1 \in Generation
  /\ owner' = owner + 1
  /\ prov' = [prov EXCEPT ![owner] = "retiring", ![owner + 1] = "active"]
  /\ conf' = [pc |-> "wait", gen |-> owner]
  /\ UNCHANGED <<gate, call, phase, failed, workspace, faults, shown>>

Close(g) ==
  /\ prov[g] = "retiring" /\ Leases(g) = {} /\ prov' = [prov EXCEPT ![g] = "closed"]
  /\ UNCHANGED <<owner, gate, call, conf, phase, failed, workspace, faults, shown>>

\* The request ends with the retirement; cancelled, it leaves that to its task.
Reconfigured ==
  /\ conf.pc = "wait"
  /\ \/ prov[conf.gen] = "closed" /\ UNCHANGED faults
     \/ faults > 0 /\ faults' = faults - 1
  /\ conf' = [pc |-> "idle", gen |-> 0]
  /\ UNCHANGED <<owner, prov, gate, call, phase, failed, workspace, shown>>

(********************************** stop() **********************************)
\* With the lifecycle lock: the writers stop - a step that fails leaves its
\* calls running -, retirements are drained, the provider and the store closed.
Stop ==
  /\ phase = "ready" /\ conf.pc = "idle" /\ phase' = "writers"
  /\ UNCHANGED <<owner, prov, gate, call, conf, failed, workspace, faults, shown>>

Retiring == {g \in Generation : prov[g] = "retiring"}
Busy == {c \in Call : call[c].pc # "off"}

Drained == Retiring = {}

StopStep ==
  \/ /\ phase = "writers" /\ phase' = "drain"
     /\ \/ Busy = {} /\ UNCHANGED <<failed, faults>>
        \/ faults > 0 /\ faults' = faults - 1 /\ failed' = TRUE
     /\ UNCHANGED <<prov, workspace>>
  \/ phase = "drain" /\ Drained /\ phase' = "close" /\ UNCHANGED <<prov, failed, workspace, faults>>
  \/ /\ phase = "close" /\ phase' = "closing"
     /\ prov' = [prov EXCEPT ![owner] = "retiring"] /\ UNCHANGED <<failed, workspace, faults>>
  \/ /\ phase = "closing" /\ Drained /\ phase' = "closed"
     /\ UNCHANGED <<prov, failed, workspace, faults>>
  \/ /\ phase = "closed" /\ phase' = "stopped"
     /\ workspace' = failed /\ UNCHANGED <<prov, failed, faults>>

Stopping == StopStep /\ UNCHANGED <<owner, gate, call, conf, shown>>

Proceed(c) ==
  \/ Lease(c) \/ Slot(c) \/ Pace(c) \/ Record(c)
  \/ \E out \in {"ok", "limited", "retry", "fatal"} : Answer(c, out)

Next ==
  \/ \E c \in Call : (\E k \in Kinds : Take(c, k)) \/ Proceed(c) \/ Emit(c) \/ Cancel(c)
  \/ Tick \/ Reconfigure \/ (\E g \in Generation : Close(g)) \/ Reconfigured \/ Stop \/ Stopping

Spec == Init /\ [][Next]_vars

\* A provider answers (a hard timeout sees to it), time passes, the semaphore
\* is FIFO; nobody has to reconfigure or to stop.
FairSpec ==
  /\ Spec /\ WF_vars(Tick) /\ WF_vars(Stopping)
  /\ \A c \in Call : SF_vars(Proceed(c))
  /\ \A g \in Generation : WF_vars(Close(g))

(******************************** properties ********************************)
TypeOK ==
  /\ owner \in Generation /\ prov \in [Generation -> {"unborn", "active", "retiring", "closed"}]
  /\ \A c \in Call : call[c].pc \in {"off", "held", "slot", "pace", "run", "record"}
  /\ \A g \in Generation : Cardinality(Slots(g)) <= MaxConcurrency

\* A client is closed when nobody uses it: not in the middle of an answer, nor
\* between an attempt and its retry.
ClosedUnused == \A g \in Generation : prov[g] = "closed" => Leases(g) = {}

\* A call starts at a provider only when its gate is not cooling: also when the
\* 429 of another call came while it was waiting for its turn.
CoolingHeard ==
  [][\A c \in Call : call[c].pc = "pace" /\ call'[c].pc = "run" => gate[call[c].gen].cool = 0]_vars

\* Nothing that was shown to the consumer of a stream is followed by the output
\* of another attempt.
SaidOnce == \A c \in Call : \A i, j \in shown[c] : i = j

\* An attempt is recorded while the store is open, unless a writer could not be
\* stopped; then the workspace is not handed over.
RecordsLand ==
  /\ phase \in {"closed", "stopped"} => Busy \subseteq {c \in Call : call[c].pc = "held"}
  /\ ~workspace => Busy = {}

\* Every replaced provider is closed, though the request that replaced it may
\* have been cancelled.
RetiredCloses == \A g \in Generation : prov[g] = "retiring" ~> prov[g] = "closed"

\* "进程级模型请求门禁：限制并发、平滑启动速率，并共享 429 冷却" (model_attempts.py:82).
GateOfProcess == Cardinality(UNION {Slots(g) : g \in Generation}) <= MaxConcurrency
===============================================================================
