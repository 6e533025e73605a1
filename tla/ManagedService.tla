--------------------------- MODULE ManagedService ---------------------------
(***************************************************************************)
(* One child process of a plugin and the JSON-lines channel to it          *)
(* (ManagedServiceClient of plugins/_host/managed_services.py): requests   *)
(* share one pipe, answers come back in any order, and a request that      *)
(* timed out or was cancelled leaves its id behind so that a late answer   *)
(* is recognised.  The service answers what it read, once; it may crash,   *)
(* and with Hangs it may stop reading.                                     *)
(***************************************************************************)
EXTENDS Integers, Sequences, FiniteSets

CONSTANTS Request,        \* requests, each made once
          MaxPending,     \* MAX_PENDING_REQUESTS
          MaxAbandoned,   \* MAX_ABANDONED_REQUESTS
          Hangs           \* may the service stop reading its input?

VARIABLES process,     \* "none", "starting", "alive", "gone" (exited), "closed" (None again)
          hung,        \* the service reads no more
          reader,      \* the reader task: "none", "reading", "ended", "unknown" (protocol error)
          stop,        \* stop(): "no", "notice" (drains), "wait" (for the exit), "over"
          pipe,        \* requests written and not read yet, and the shutdown line
          owed,        \* requests the service read and has not answered
          answers,     \* answers the reader has not read
          req,         \* [pc, future, big] of each request
          abandoned    \* _abandoned
vars == <<process, hung, reader, stop, pipe, owed, answers, req, abandoned>>

Shutdown == "shutdown"
Pending == {r \in Request : req[r].pc \in {"queue", "drain", "await", "closing"}}

TypeOK == /\ process \in {"none", "starting", "alive", "gone", "closed"} /\ hung \in BOOLEAN
          /\ reader \in {"none", "reading", "ended", "unknown"}
          /\ stop \in {"no", "notice", "wait", "over"}
          /\ pipe \in Seq(Request \cup {Shutdown})
          /\ owed \subseteq Request /\ answers \subseteq Request
          /\ req \in [Request -> [pc : {"idle", "queue", "drain", "await", "closing", "done"},
                                  future : {"open", "answered", "failed"}, big : BOOLEAN]]
          /\ abandoned \subseteq Request /\ Cardinality(abandoned) <= MaxAbandoned

Init == /\ process = "none" /\ hung = FALSE /\ reader = "none" /\ stop = "no"
        /\ pipe = <<>> /\ owed = {} /\ answers = {} /\ abandoned = {}
        /\ req = [r \in Request |-> [pc |-> "idle", future |-> "open", big |-> FALSE]]

Running == process = "alive" /\ reader = "reading"

(* The transport holds back a writer while more than its mark is unread.   *)
Full == \E i \in DOMAIN pipe : pipe[i] # Shutdown /\ req[pipe[i]].big

Failed(rs) == [r \in Request |-> IF r \in rs /\ req[r].future = "open"
                                 THEN [req[r] EXCEPT !.future = "failed"] ELSE req[r]]

BeginStop == /\ stop' = IF stop = "no" THEN "notice" ELSE stop
             /\ pipe' = IF process = "gone" THEN pipe ELSE Append(pipe, Shutdown)

---------------------------------------------------------------------------
Start == /\ process = "none"
         /\ process' = "starting"
         /\ UNCHANGED <<hung, reader, stop, pipe, owed, answers, req, abandoned>>

(* The ready line, or none in time, or another one: then stop() and raise. *)
Handshake == /\ process = "starting" /\ stop = "no"
             /\ \/ process' = "alive" /\ reader' = "reading" /\ UNCHANGED <<stop, pipe>>
                \/ BeginStop /\ UNCHANGED <<process, reader>>
             /\ UNCHANGED <<hung, owed, answers, req, abandoned>>

Ask(r) == /\ req[r].pc = "idle" /\ Running /\ Cardinality(Pending) < MaxPending
          /\ \E big \in BOOLEAN :
               req' = [req EXCEPT ![r] = [pc |-> "queue", future |-> "open", big |-> big]]
          /\ UNCHANGED <<process, hung, reader, stop, pipe, owed, answers, abandoned>>

(* The write lock is held while the pipe drains.                           *)
Write(r) == /\ req[r].pc = "queue" /\ \A q \in Request : req[q].pc # "drain"
            /\ IF process = "closed"
               THEN req' = [req EXCEPT ![r].pc = "done"] /\ UNCHANGED pipe
               ELSE /\ req' = [req EXCEPT ![r].pc = "drain"]
                    /\ pipe' = IF process = "alive" THEN Append(pipe, r) ELSE pipe
            /\ UNCHANGED <<process, hung, reader, stop, owed, answers, abandoned>>

Drain(r) == /\ req[r].pc = "drain"
            /\ \/ process = "alive" /\ ~Full /\ req' = [req EXCEPT ![r].pc = "await"]
               \/ process # "alive" /\ req' = [req EXCEPT ![r].pc = "done"]
            /\ UNCHANGED <<process, hung, reader, stop, pipe, owed, answers, abandoned>>

Resume(r) == /\ req[r].pc = "await" /\ req[r].future # "open"
             /\ req' = [req EXCEPT ![r].pc = "done"]
             /\ UNCHANGED <<process, hung, reader, stop, pipe, owed, answers, abandoned>>

Forget(r) == /\ req' = [req EXCEPT ![r].pc = "done"]
             /\ UNCHANGED <<stop, pipe, abandoned>>
(* _remember_abandoned: kept while there is room; without room the channel *)
(* is closed.                                                              *)
Abandon(r) == IF Cardinality(abandoned) >= MaxAbandoned
              THEN /\ req' = [Failed(Pending) EXCEPT ![r].pc = "closing"]
                   /\ IF process = "closed" THEN UNCHANGED <<stop, pipe>> ELSE BeginStop
                   /\ UNCHANGED abandoned
              ELSE /\ abandoned' = abandoned \cup {r}
                   /\ req' = [req EXCEPT ![r].pc = "done"]
                   /\ UNCHANGED <<stop, pipe>>

(* Only the wait for the answer has a time-out; a caller may cancel at any *)
(* time, also when the answer is there and has not been picked up.         *)
TimeOut(r) == /\ req[r].pc = "await" /\ req[r].future = "open"
              /\ Abandon(r)
              /\ UNCHANGED <<process, hung, reader, owed, answers>>
Cancel(r) == /\ req[r].pc \in {"queue", "drain", "await"}
             /\ Abandon(r)
             /\ UNCHANGED <<process, hung, reader, owed, answers>>
Closed(r) == /\ req[r].pc = "closing" /\ process = "closed"
             /\ req' = [req EXCEPT ![r].pc = "done"]
             /\ UNCHANGED <<process, hung, reader, stop, pipe, owed, answers, abandoned>>

---------------------------------------------------------------------------
(* The reader task.                                                        *)
Recognised(r) == \/ /\ r \in abandoned
                    /\ abandoned' = abandoned \ {r}
                    /\ UNCHANGED <<req, reader>>
                 \/ /\ r \notin abandoned /\ r \in Pending
                    /\ req' = [req EXCEPT ![r].future = IF @ = "open" THEN "answered" ELSE @]
                    /\ UNCHANGED <<abandoned, reader>>
                 \/ /\ r \notin abandoned /\ r \notin Pending
                    /\ reader' = "unknown" /\ req' = Failed(Pending)
                    /\ UNCHANGED abandoned

Read(r) == /\ reader = "reading" /\ r \in answers
           /\ answers' = answers \ {r}
           /\ Recognised(r)
           /\ UNCHANGED <<process, hung, stop, pipe, owed>>

EndOfFile == /\ reader = "reading" /\ process = "gone" /\ answers = {}
             /\ reader' = "ended"
             /\ req' = IF stop = "no" THEN Failed(Pending) ELSE req
             /\ UNCHANGED <<process, hung, stop, pipe, owed, answers, abandoned>>

---------------------------------------------------------------------------
(* stop().                                                                 *)
Stop == /\ process \in {"alive", "gone"} /\ stop = "no"
        /\ BeginStop
        /\ UNCHANGED <<process, hung, reader, owed, answers, req, abandoned>>

Notified == /\ stop = "notice" /\ (process = "gone" \/ ~Full)
            /\ stop' = "wait"
            /\ UNCHANGED <<process, hung, reader, pipe, owed, answers, req, abandoned>>

(* The exit is awaited for a bounded time; then terminate and kill.        *)
Ended == /\ stop = "wait"
         /\ process' = "closed" /\ reader' = "none" /\ stop' = "over"
         /\ req' = Failed(Pending) /\ abandoned' = {}
         /\ pipe' = <<>> /\ owed' = {} /\ answers' = {}
         /\ UNCHANGED hung

---------------------------------------------------------------------------
(* The service.                                                            *)
Serve == /\ process \in {"starting", "alive"} /\ ~hung /\ pipe # <<>>
         /\ pipe' = Tail(pipe)
         /\ IF Head(pipe) = Shutdown THEN process' = "gone" /\ UNCHANGED owed
            ELSE owed' = owed \cup {Head(pipe)} /\ UNCHANGED process
         /\ UNCHANGED <<hung, reader, stop, answers, req, abandoned>>
Reply(r) == /\ process = "alive" /\ ~hung /\ r \in owed
            /\ owed' = owed \ {r} /\ answers' = answers \cup {r}
            /\ UNCHANGED <<process, hung, reader, stop, pipe, req, abandoned>>
Crash == /\ process = "alive"
         /\ process' = "gone"
         /\ UNCHANGED <<hung, reader, stop, pipe, owed, answers, req, abandoned>>
Hang == /\ Hangs /\ process = "alive" /\ ~hung
        /\ hung' = TRUE
        /\ UNCHANGED <<process, reader, stop, pipe, owed, answers, req, abandoned>>

Next == \/ Start \/ Handshake \/ EndOfFile \/ Stop \/ Notified \/ Ended
        \/ Serve \/ Crash \/ Hang
        \/ \E r \in Request : \/ Ask(r) \/ Write(r) \/ Drain(r) \/ Resume(r) \/ TimeOut(r)
                              \/ Cancel(r) \/ Closed(r) \/ Read(r) \/ Reply(r)

Spec == Init /\ [][Next]_vars
(* Timers fire, the event loop runs what is ready, and a service that is   *)
(* not hung reads its input.                                               *)
FairSpec == /\ Spec
            /\ WF_vars(Handshake) /\ WF_vars(Serve) /\ WF_vars(EndOfFile)
            /\ WF_vars(Notified) /\ WF_vars(Ended)
            /\ \A r \in Request : /\ WF_vars(Drain(r)) /\ WF_vars(Resume(r))
                                  /\ WF_vars(TimeOut(r) \/ Resume(r)) /\ WF_vars(Closed(r))
                                  /\ SF_vars(Write(r))

---------------------------------------------------------------------------
(* "绝不误判合法响应" (_remember_abandoned): whatever was cancelled, timed  *)
(* out or crowded out meanwhile, no answer of a living service is taken    *)
(* for one to an unknown request, which would end a channel in use.        *)
NeverMisjudged == reader = "unknown" => process # "alive" \/ stop # "no"

(* Every request ends, answered or with an error, also when the service    *)
(* crashes or its answer is late and when the channel is closed under it.  *)
RequestEnds == \A r \in Request : req[r].pc = "queue" ~> (req[r].pc = "done" \/ hung)

(* "超时后终止，确保子进程不泄漏" (stop): stop() ends, after a kill if need *)
(* be, whatever the service does.                                          *)
StopEnds == stop = "notice" ~> stop = "over"

(* "有界记录迟到响应": only requests whose answer is still to come take a   *)
(* place in the bounded record of late answers.                            *)
OnlyLate == reader = "reading" /\ process = "alive" =>
    \A r \in abandoned : r \in owed \cup answers \/ \E i \in DOMAIN pipe : pipe[i] = r
=============================================================================
