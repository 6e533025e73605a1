----------------------------- MODULE PluginHost -----------------------------
(***************************************************************************)
(* The plugin host (plugins/_host/manager.py): generations of plugins that *)
(* are loaded, activated, published and retired while calls use them, and  *)
(* the requests of the console that reload them, roll them back or change  *)
(* the groups OneBot listens to (api/app.py).                              *)
(*                                                                         *)
(* A lock is held exactly while its holder is at certain places, so the    *)
(* publish lock, the lifecycle lock of a generation and the lock of the    *)
(* plugin settings are predicates on tasks.  The server ends its requests  *)
(* before it ends the runtime: Stop and requests exclude each other.       *)
(***************************************************************************)
EXTENDS Integers, FiniteSets, SequencesExt

CONSTANTS Plugins,     \* the plugins of a generation, in the order of activation
          MaxGen,      \* bound: generation numbers
          Op,          \* requests of the console, each made once
          Kinds,       \* what they may ask: "reload", "rollback", "groups"
          Call,        \* slots for calls of plugins
          Runtime,     \* the task that starts and stops the host
          MaxFaults    \* bound: plugin methods that raise

VARIABLES snap,      \* [prepared, accepting, running, started, options] of each generation
          up,        \* the plugins of each generation that hold a connection or a task
          history,   \* generations the manager knows
          current,   \* the published generation
          wanted,    \* the plugin options, in the settings file and in the manager
          task,      \* requests, the retirement of each generation, and the runtime
          call,      \* the generation each call has leased, 0 for none
          faults
vars == <<snap, up, history, current, wanted, task, call, faults>>

Gen == 1..MaxGen
Default == "default"
Task == Op \cup Gen \cup {Runtime}
Fresh(o) == [prepared |-> FALSE, accepting |-> FALSE, running |-> FALSE, started |-> <<>>,
             options |-> o]
Idle == [pc |-> "idle", kind |-> "none", gen |-> 0, left |-> <<>>, failed |-> <<>>,
         todo |-> <<>>, prev |-> Default]

TypeOK == /\ snap \in [Gen -> [prepared : BOOLEAN, accepting : BOOLEAN, running : BOOLEAN,
                               started : Seq(Range(Plugins)), options : Op \cup {Default}]]
          /\ up \in [Gen -> SUBSET Range(Plugins)]
          /\ history \subseteq Gen /\ current \in history
          /\ wanted \in Op \cup {Default}
          /\ call \in [Call -> Gen \cup {0}]
          /\ faults \in 0..MaxFaults
          /\ \A t \in Task : task[t].gen \in Gen \cup {0} /\ task[t].pc # "lost"

Init == /\ snap = [g \in Gen |-> Fresh(Default)] /\ up = [g \in Gen |-> {}]
        /\ history = {1} /\ current = 1 /\ wanted = Default
        /\ task = [t \in Task |-> Idle] /\ call = [c \in Call |-> 0] /\ faults = 0

Leases(g) == {c \in Call : call[c] = g}
Drained(g) == Leases(g) = {}

(* _publish_lock, the lifecycle_lock of g, platform_plugin_config_lock.    *)
Publishing == \E t \in Op \cup Gen : task[t].pc \in {"prepare", "locked", "activate", "ready",
                                                     "undo", "again", "publish", "stopping"}
Busy(g) == \E t \in Task : task[t].gen = g
                /\ task[t].pc \in {"activate", "ready", "undo", "again", "stopping"}
Saving == \E o \in Op : task[o].kind = "groups" /\ task[o].pc \notin {"idle", "done", "failed"}

At(t, pc) == task' = [task EXCEPT ![t].pc = pc]
Fault == faults < MaxFaults /\ faults' = faults + 1

---------------------------------------------------------------------------
(* A call rents the generation that accepts: outgoing text, tool guards,   *)
(* channels and callbacks the current one, an event that its own channel   *)
(* brings in, or a task such an event left behind, the generation of the   *)
(* channel.  It is refused when that one does not accept.                  *)
Lease(c, g) == /\ call[c] = 0 /\ snap[g].accepting
               /\ call' = [call EXCEPT ![c] = g]
               /\ UNCHANGED <<snap, up, history, current, wanted, task, faults>>

Release(c) == /\ call[c] # 0
              /\ call' = [call EXCEPT ![c] = 0]
              /\ UNCHANGED <<snap, up, history, current, wanted, task, faults>>

---------------------------------------------------------------------------
(* The start of the runtime, and what the console asks.                    *)
Start == /\ task[Runtime].pc = "idle"
         /\ task' = [task EXCEPT ![Runtime].pc = "prepare", ![Runtime].kind = "start",
                                 ![Runtime].gen = 1]
         /\ UNCHANGED <<snap, up, history, current, wanted, call, faults>>

Serving == task[Runtime].pc = "up"

Ask(o, k) == /\ Serving /\ task[o].pc = "idle"
             /\ k = "groups" => ~Saving
             /\ task' = [task EXCEPT ![o].pc = "queued", ![o].kind = k, ![o].prev = wanted]
             /\ wanted' = IF k = "groups" THEN o ELSE wanted
             /\ UNCHANGED <<snap, up, history, current, call, faults>>

Candidate(o) == LET g == Max(history) + 1 IN
                   /\ task[o].pc = "queued" /\ task[o].kind # "rollback" /\ ~Publishing
                   /\ g \in Gen
                   /\ snap' = [snap EXCEPT ![g] = Fresh(wanted)]
                   /\ task' = [task EXCEPT ![o].pc = "prepare", ![o].gen = g]
                   /\ UNCHANGED <<up, history, current, wanted, call, faults>>

(* The newest other generation with nothing left to clean up, or the one   *)
(* that was named.                                                         *)
RollbackTo(o, g) == /\ task[o].pc = "queued" /\ task[o].kind = "rollback" /\ ~Publishing
                    /\ g \in history \ {current} /\ snap[g].started = <<>>
                    /\ snap[g].prepared /\ ~Busy(g)
                    /\ task' = [task EXCEPT ![o].pc = "activate", ![o].gen = g,
                                            ![o].left = Plugins]
                    /\ UNCHANGED <<snap, up, history, current, wanted, call, faults>>
RollbackNone(o) == /\ task[o].pc = "queued" /\ task[o].kind = "rollback" /\ ~Publishing
                   /\ At(o, "failed")
                   /\ UNCHANGED <<snap, up, history, current, wanted, call, faults>>

---------------------------------------------------------------------------
(* prepare and activate, for the runtime's start and for requests.         *)
Active == Op \cup {Runtime}

(* What a request does when it fails: a candidate that still holds         *)
(* something is handed to the manager, and the old groups are restored.    *)
Kept(t, s) == IF task[t].kind \in {"reload", "groups"} /\ s # <<>>
              THEN history \cup {task[t].gen} ELSE history
GiveUp(t, s) == /\ history' = Kept(t, s)
                /\ wanted' = IF task[t].kind = "groups" THEN task[t].prev ELSE wanted

Prepare(t) == LET g == task[t].gen IN
    /\ task[t].pc = "prepare" /\ ~Busy(g)
    /\ \/ /\ snap' = [snap EXCEPT ![g].prepared = TRUE]
          /\ task' = [task EXCEPT ![t].pc = "activate", ![t].left = Plugins]
          /\ UNCHANGED <<history, wanted, faults>>
       \/ /\ Fault /\ At(t, "failed") /\ GiveUp(t, <<>>)
          /\ UNCHANGED snap
    /\ UNCHANGED <<up, current, call>>

(* The loop that closes what was started, from the last one back.          *)
Closing(t, g, pc, started) ==
    /\ snap' = [snap EXCEPT ![g].started = <<>>, ![g].running = FALSE]
    /\ task' = [task EXCEPT ![t].pc = pc, ![t].left = Reverse(started), ![t].failed = <<>>]

(* A plugin is registered before it is called, so that one that opens a    *)
(* connection and then raises is closed as well.                           *)
Activate(t) == LET g == task[t].gen  p == Head(task[t].left) IN
    /\ task[t].pc = "activate" /\ task[t].left # <<>>
    /\ \/ /\ up' = [up EXCEPT ![g] = @ \cup {p}]
          /\ snap' = [snap EXCEPT ![g].started = Append(@, p)]
          /\ task' = [task EXCEPT ![t].left = Tail(@),
                                  ![t].pc = IF Len(task[t].left) = 1 THEN "ready" ELSE @]
          /\ UNCHANGED faults
       \/ /\ Fault
          /\ \E opened \in SUBSET {p} : up' = [up EXCEPT ![g] = @ \cup opened]
          /\ Closing(t, g, "undo", Append(snap[g].started, p))
    /\ UNCHANGED <<history, current, wanted, call>>

Ready(t) == LET g == task[t].gen IN
    /\ task[t].pc = "ready"
    /\ \/ /\ snap' = [snap EXCEPT ![g].running = TRUE]
          /\ At(t, "publish")
          /\ UNCHANGED faults
       \/ Fault /\ Closing(t, g, "undo", snap[g].started)
    /\ UNCHANGED <<up, history, current, wanted, call>>

(* start() only opens the admission of the first generation.               *)
Accept == /\ task[Runtime].pc = "publish"
          /\ snap' = [snap EXCEPT ![1].accepting = TRUE]
          /\ At(Runtime, "up")
          /\ UNCHANGED <<up, history, current, wanted, call, faults>>

(* Routes, the pointer and both admissions change in one critical section; *)
(* the old generation is retired by a task of its own.                     *)
Switched(g) == [snap EXCEPT ![current].accepting = FALSE, ![g].accepting = TRUE]
Publish(o) == LET g == task[o].gen IN
    /\ task[o].pc = "publish"
    /\ snap' = Switched(g)
    /\ current' = g /\ history' = history \cup {g}
    /\ task' = [task EXCEPT ![o].pc = "done",
                            ![current] = [Idle EXCEPT !.gen = current,
                                          !.pc = IF task[current].pc = "idle" THEN "drain"
                                                 ELSE "lost"]]
    /\ UNCHANGED <<up, wanted, call, faults>>

---------------------------------------------------------------------------
(* _deactivate_started: one plugin after another, whatever they raise.     *)
Loops == {"undo", "again", "stopping"}
Close(t) == LET g == task[t].gen  p == Head(task[t].left) IN
    /\ task[t].pc \in Loops /\ task[t].left # <<>>
    /\ \/ /\ up' = [up EXCEPT ![g] = @ \ {p}]
          /\ task' = [task EXCEPT ![t].left = Tail(@)]
          /\ UNCHANGED faults
       \/ /\ Fault
          /\ task' = [task EXCEPT ![t].left = Tail(@), ![t].failed = Append(@, p)]
          /\ UNCHANGED up
    /\ UNCHANGED <<snap, history, current, wanted, call>>

Forgotten(t) == <<>>
Remaining(t) == Reverse(task[t].failed)

(* A failed activation raises; hot_reload then stops the candidate, which  *)
(* tries once more what could not be closed.                               *)
Undone(t) == LET g == task[t].gen IN
    /\ task[t].pc = "undo" /\ task[t].left = <<>>
    /\ IF task[t].kind \in {"reload", "groups"}
       THEN /\ Closing(t, g, "again", Remaining(t))
            /\ UNCHANGED <<history, wanted>>
       ELSE /\ snap' = [snap EXCEPT ![g].started = Remaining(t)]
            /\ task' = [task EXCEPT ![t].pc = "failed", ![t].failed = <<>>]
            /\ GiveUp(t, <<>>)
    /\ UNCHANGED <<up, current, call, faults>>

StoppedAgain(o) == LET g == task[o].gen IN
    /\ task[o].pc = "again" /\ task[o].left = <<>>
    /\ snap' = [snap EXCEPT ![g].started = Remaining(o)]
    /\ task' = [task EXCEPT ![o].pc = "failed", ![o].failed = <<>>]
    /\ GiveUp(o, Remaining(o))
    /\ UNCHANGED <<up, current, call, faults>>

---------------------------------------------------------------------------
RetireOnce(g) == /\ task[g].pc = "drain"
                 /\ task' = [task EXCEPT ![g] = IF Drained(g) THEN [@ EXCEPT !.pc = "relock"] ELSE Idle]
                 /\ UNCHANGED <<snap, up, history, current, wanted, call, faults>>
(* _retire_after_drain(g): wait, take the publish lock, look again, stop.  *)
Retire(g) == /\ task[g].pc = "drain" /\ Drained(g)
             /\ At(g, "relock")
             /\ UNCHANGED <<snap, up, history, current, wanted, call, faults>>

Retiring(g) == /\ task[g].pc = "relock" /\ ~Publishing
               /\ IF g = current THEN task' = [task EXCEPT ![g] = Idle] /\ UNCHANGED snap
                  ELSE ~Busy(g) /\ Closing(g, g, "stopping", snap[g].started)
               /\ UNCHANGED <<up, history, current, wanted, call, faults>>

Retired(g) == /\ task[g].pc = "stopping" /\ task[g].left = <<>>
              /\ snap' = [snap EXCEPT ![g].started = Remaining(g)]
              /\ task' = [task EXCEPT ![g] = Idle]
              /\ UNCHANGED <<up, history, current, wanted, call, faults>>

---------------------------------------------------------------------------
(* stop(): retirements are cancelled (one that is closing a plugin records *)
(* it as failed and goes on), then every known generation is drained and   *)
(* stopped in turn.                                                        *)
Interrupted(g) == CASE task[g].pc \in {"drain", "relock"} -> Idle
                    [] task[g].pc = "stopping" /\ task[g].left # <<>> ->
                         [task[g] EXCEPT !.left = Tail(@), !.failed = Append(@, Head(task[g].left))]
                    [] OTHER -> task[g]
Stop == /\ Serving /\ \A o \in Op : task[o].pc \in {"idle", "done", "failed"}
        /\ task' = [t \in Task |->
                      IF t \in Gen THEN Interrupted(t)
                      ELSE IF t = Runtime THEN [task[t] EXCEPT !.pc = "gather", !.kind = "stop"]
                      ELSE task[t]]
        /\ UNCHANGED <<snap, up, history, current, wanted, call, faults>>

Gathered == /\ task[Runtime].pc = "gather" /\ \A g \in Gen : task[g].pc = "idle"
            /\ task' = [task EXCEPT ![Runtime].pc = "next",
                                    ![Runtime].todo = SetToSortSeq(history, <)]
            /\ UNCHANGED <<snap, up, history, current, wanted, call, faults>>

CloseAdmission == LET todo == task[Runtime].todo IN
    /\ task[Runtime].pc = "next" /\ todo # <<>>
    /\ snap' = [snap EXCEPT ![Head(todo)].accepting = FALSE]
    /\ task' = [task EXCEPT ![Runtime].pc = "drain", ![Runtime].gen = Head(todo),
                            ![Runtime].todo = Tail(todo)]
    /\ UNCHANGED <<up, history, current, wanted, call, faults>>

StopDrained == LET g == task[Runtime].gen IN
    /\ task[Runtime].pc = "drain" /\ Drained(g) /\ ~Busy(g)
    /\ Closing(Runtime, g, "stopping", snap[g].started)
    /\ UNCHANGED <<up, history, current, wanted, call, faults>>

StopOne == /\ task[Runtime].pc = "stopping" /\ task[Runtime].left = <<>>
           /\ snap' = [snap EXCEPT ![task[Runtime].gen].started = Remaining(Runtime)]
           /\ task' = [task EXCEPT ![Runtime].pc = "next", ![Runtime].failed = <<>>]
           /\ UNCHANGED <<up, history, current, wanted, call, faults>>

Stopped == task[Runtime].pc = "next" /\ task[Runtime].todo = <<>>

Next == \/ \E c \in Call : Release(c) \/ \E g \in Gen : Lease(c, g)
        \/ Start \/ Accept \/ Stop \/ Gathered \/ CloseAdmission \/ StopDrained \/ StopOne
        \/ \E o \in Op : \/ \E k \in Kinds : Ask(o, k)
                         \/ \E g \in Gen : RollbackTo(o, g)
                         \/ Candidate(o) \/ RollbackNone(o) \/ Publish(o) \/ StoppedAgain(o)
        \/ \E t \in Active : Prepare(t) \/ Activate(t) \/ Ready(t) \/ Undone(t)
        \/ \E t \in Task : Close(t)
        \/ \E g \in Gen : Retire(g) \/ Retiring(g) \/ Retired(g)

Spec == Init /\ [][Next]_vars
(* Calls return, and the event loop runs every task that is ready.         *)
FairSpec == /\ Spec
            /\ \A c \in Call : WF_vars(Release(c))
            /\ \A o \in Op : /\ WF_vars(Publish(o)) /\ WF_vars(StoppedAgain(o))
                             /\ WF_vars(Candidate(o) \/ \E g \in Gen : RollbackTo(o, g))
            /\ \A t \in Active : WF_vars(Prepare(t) \/ Activate(t) \/ Ready(t) \/ Undone(t))
            /\ \A t \in Task : WF_vars(Close(t))
            /\ \A g \in Gen : WF_vars(Retire(g)) /\ SF_vars(Retiring(g)) /\ WF_vars(Retired(g))

---------------------------------------------------------------------------
(* A generation that a call has leased is complete: none of its plugins is *)
(* closed, by a retirement, a failed activation or the end of the program, *)
(* until the call returns.                                                 *)
InUse == \A g \in Gen : Leases(g) # {} => up[g] = Range(Plugins)

(* Calls are let into one generation at a time, and that is the published  *)
(* one, ready and running.                                                 *)
OneAccepts == \A g \in Gen : snap[g].accepting => g = current /\ snap[g].running

(* What a plugin holds open always has somebody who will close it: the     *)
(* task that works on its generation, or the list of a generation that the *)
(* manager knows and stop() goes through - also after an activation or a   *)
(* clean-up that failed in the middle.                                     *)
Owned == \A g \in Gen : \A p \in up[g] :
            \/ p \in Range(snap[g].started)
               /\ (g \in history \/ \E t \in Task : task[t].gen = g /\ task[t].pc # "failed")
            \/ \E t \in Task : task[t].gen = g /\ p \in Range(task[t].left) \cup Range(task[t].failed)

(* After stop() nothing of any generation is left open, except plugins     *)
(* whose own stop raised, and those are still on the list for a retry.     *)
NothingLeft == Stopped => \A g \in Gen : /\ up[g] \subseteq Range(snap[g].started)
                                         /\ snap[g].started # <<>> => faults > 0

(* A replaced generation does not go on running: once the calls that use   *)
(* it return it is closed, whatever its plugins answer, unless it is       *)
(* published again or the program stops.                                   *)
RetiredCloses == \A g \in Gen :
    (g # current /\ snap[g].running) ~> (~snap[g].running \/ g = current \/ ~Serving)

(* "以新 generation 原子热切换" (api/app.py): when no request is under way *)
(* and none rolled back, the running generation has the saved groups.      *)
GroupsInForce == (Serving /\ \A o \in Op : task[o].pc \in {"idle", "done", "failed"})
                    => snap[current].options = wanted
=============================================================================
