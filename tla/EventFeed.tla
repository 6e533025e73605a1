------------------------------ MODULE EventFeed ------------------------------
(***************************************************************************)
(* How the console keeps up with the server: the event hub with its        *)
(* bounded history and queues (application/events.py), the socket that     *)
(* replays and forwards (api/app.py), the client that reconnects and takes *)
(* snapshots (realtime/eventSocket.ts, App.vue), and a page that loads at  *)
(* events and snapshots (LearningResourcesView.vue).                       *)
(*                                                                         *)
(* The state a view shows is a count of committed changes.  Every change   *)
(* publishes one event, after its commit; REST reads it at any later time. *)
(***************************************************************************)
EXTENDS Integers, Sequences, SequencesExt

CONSTANTS History, Queue, Wire,              \* sizes: hub history, subscriber queue, transport
          MaxChanges, MaxDrops, MaxRestarts  \* bounds

VARIABLES store, owed,      \* committed changes; those whose event is still to come
          stream, seq,      \* the hub of this process: its id and _event_seq
          server,           \* the socket's handler: [pc, replay, queue, overflowed, replayed]
          wire,             \* frames on their way to the client
          client,           \* [running, socket, timer, count, stream, last, asked]
          pull,             \* the snapshot: "none", "asked", "read" by the server
          page,             \* the learning page: [shows, timer, sessions, load, read, error]
          drops
vars == <<store, owed, stream, seq, server, wire, client, pull, page, drops>>

Unread == -1
NoCursor == [stream |-> -1, last |-> 0]
Off == [pc |-> "none", replay |-> <<>>, queue |-> <<>>, overflowed |-> FALSE, replayed |-> 0]

Init == /\ store = 0 /\ owed = 0 /\ stream = 0 /\ seq = 0 /\ server = Off /\ wire = <<>>
        /\ client = [running |-> FALSE, socket |-> "none", timer |-> FALSE, count |-> 0,
                     stream |-> -1, last |-> 0, asked |-> NoCursor]
        /\ pull = "none"
        /\ page = [shows |-> 0, timer |-> FALSE, sessions |-> TRUE, load |-> "none",
                   read |-> Unread, error |-> FALSE]
        /\ drops = 0

---------------------------------------------------------------------------
(* The hub and the socket's handler.                                       *)
Event(n) == [kind |-> "change", seq |-> n, stream |-> stream]
ResyncFrame == [kind |-> "resync", seq |-> seq, stream |-> stream]

Change == /\ store < MaxChanges
          /\ store' = store + 1 /\ owed' = owed + 1
          /\ UNCHANGED <<stream, seq, server, wire, client, pull, page, drops>>

(* A full queue is emptied for one last frame, and takes no more events.   *)
Enqueued(e) ==
    IF server.pc = "none" \/ server.overflowed THEN server
    ELSE IF Len(server.queue) = Queue
    THEN [server EXCEPT !.queue = <<[e EXCEPT !.kind = "resync"]>>, !.overflowed = TRUE]
    ELSE [server EXCEPT !.queue = Append(@, e)]

Publish == /\ owed > 0
           /\ owed' = owed - 1 /\ seq' = seq + 1
           /\ server' = Enqueued(Event(seq + 1))
           /\ UNCHANGED <<store, stream, wire, client, pull, page, drops>>

(* replay: what the cursor misses, or that it cannot be told.              *)
Oldest == IF seq > History THEN seq - History + 1 ELSE 1
Replayable(c) == c.stream = stream /\ c.last <= seq /\ (seq > 0 => c.last >= Oldest - 1)
Replayed(c) == [i \in 1..(seq - c.last) |-> Event(c.last + i)]

(* accept, subscribe and replay run without a pause between them.          *)
Subscribed(c) == IF c = NoCursor THEN [Off EXCEPT !.pc = "live"]
                 ELSE IF Replayable(c)
                 THEN [Off EXCEPT !.pc = "live", !.replay = Replayed(c),
                                  !.replayed = IF seq > c.last THEN seq ELSE 0]
                 ELSE [Off EXCEPT !.pc = "refuse"]
Accept == /\ client.socket = "connecting" /\ server.pc = "none" /\ wire = <<>>
          /\ server' = Subscribed(client.asked)
          /\ wire' = <<[kind |-> "accept", seq |-> 0, stream |-> stream]>>
          /\ UNCHANGED <<store, owed, stream, seq, client, pull, page, drops>>

Close == [kind |-> "close", seq |-> 0, stream |-> stream]
Refuse == /\ server.pc = "refuse"
          /\ wire' = wire \o <<ResyncFrame, Close>>
          /\ server' = Off
          /\ UNCHANGED <<store, owed, stream, seq, client, pull, page, drops>>

Replay == /\ server.pc = "live" /\ server.replay # <<>> /\ Len(wire) < Wire
          /\ wire' = Append(wire, Head(server.replay))
          /\ server' = [server EXCEPT !.replay = Tail(@)]
          /\ UNCHANGED <<store, owed, stream, seq, client, pull, page, drops>>

Forward == LET e == Head(server.queue) IN
    /\ server.pc = "live" /\ server.replay = <<>> /\ server.queue # <<>> /\ Len(wire) < Wire
    /\ IF e.kind = "resync" THEN wire' = wire \o <<e, Close>> /\ server' = Off
       ELSE /\ wire' = IF e.seq <= server.replayed THEN wire ELSE Append(wire, e)
            /\ server' = [server EXCEPT !.queue = Tail(@)]
    /\ UNCHANGED <<store, owed, stream, seq, client, pull, page, drops>>

(* The network fails, or the process starts anew: what it was asked is     *)
(* lost, and events that were not published never are.  The client notices *)
(* an open connection that ended without a word only after a while.        *)
Severed == [client EXCEPT !.socket = IF @ = "connecting" THEN "lost" ELSE @]
Drop == /\ drops < MaxDrops /\ client.socket \in {"connecting", "open"}
        /\ drops' = drops + 1
        /\ client' = Severed /\ server' = Off /\ wire' = <<>>
        /\ UNCHANGED <<store, owed, stream, seq, pull, page>>

Restart == /\ stream < MaxRestarts
           /\ stream' = stream + 1 /\ seq' = 0 /\ owed' = 0
           /\ client' = Severed /\ server' = Off /\ wire' = <<>>
           /\ UNCHANGED <<store, pull, page, drops>>

---------------------------------------------------------------------------
(* The client.  App.vue loads what it shows before it starts the socket.   *)
Connected(c) == [c EXCEPT !.socket = "connecting", !.timer = FALSE,
                          !.count = IF @ < 2 THEN @ + 1 ELSE @,
                          !.asked = [stream |-> c.stream, last |-> c.last]]
Start == /\ client.count = 0
         /\ client' = Connected([client EXCEPT !.running = TRUE])
         /\ UNCHANGED <<store, owed, stream, seq, server, wire, pull, page, drops>>

(* refreshSnapshot: none while one is under way.                           *)
Pulled(p) == IF p = "none" THEN "asked" ELSE p

Abandoned(c) == [c EXCEPT !.socket = "none"]
Disconnected(c) == [c EXCEPT !.socket = "none", !.timer = TRUE]

Opened == /\ client' = [client EXCEPT !.socket = "open"]
          /\ pull' = IF client.count > 1 THEN Pulled(pull) ELSE pull
          /\ UNCHANGED page

(* onmessage: a frame with an old number is dropped, unless it says that   *)
(* events were lost; a new stream asks for a snapshot as well.             *)
Fresh(e) == ~(client.stream = e.stream /\ e.seq <= client.last)
Lost(e) == \/ e.kind = "resync"
           \/ Fresh(e) /\ client.stream # -1 /\ client.stream # e.stream
Handled(e) ==
    /\ client' = IF Fresh(e) THEN [client EXCEPT !.stream = e.stream, !.last = e.seq] ELSE client
    /\ pull' = IF Lost(e) THEN Pulled(pull) ELSE pull
    /\ IF e.kind = "change" /\ Fresh(e)
       THEN page' = [page EXCEPT !.timer = TRUE]
       ELSE UNCHANGED page

Receive == LET e == Head(wire) IN
    /\ client.running /\ wire # <<>>
    /\ wire' = Tail(wire)
    /\ CASE e.kind = "accept" -> Opened
         [] e.kind = "close" -> client' = Disconnected(client) /\ UNCHANGED <<pull, page>>
         [] OTHER -> Handled(e)
    /\ UNCHANGED <<store, owed, stream, seq, server, drops>>

Notice == /\ \/ client.socket = "lost"
             \/ client.socket = "open" /\ server.pc = "none" /\ wire = <<>>
          /\ client' = Disconnected(client)
          /\ UNCHANGED <<store, owed, stream, seq, server, wire, pull, page, drops>>

Reconnect == /\ client.running /\ client.timer
             /\ client' = Connected(client)
             /\ UNCHANGED <<store, owed, stream, seq, server, wire, pull, page, drops>>

(* The page becomes visible, or the network is back.                       *)
Recover == /\ client.running /\ drops < MaxDrops
           /\ drops' = drops + 1
           /\ IF client.socket = "open"
              THEN pull' = Pulled(pull) /\ UNCHANGED <<client, server, wire>>
              ELSE /\ client' = Connected([client EXCEPT !.socket = "none"])
                   /\ server' = Off /\ wire' = <<>> /\ UNCHANGED pull
           /\ UNCHANGED <<store, owed, stream, seq, page>>

Stop == /\ client.running
        /\ client' = [client EXCEPT !.running = FALSE, !.socket = "none", !.timer = FALSE]
        /\ server' = Off /\ wire' = <<>>
        /\ UNCHANGED <<store, owed, stream, seq, pull, page, drops>>

---------------------------------------------------------------------------
(* The snapshot of the chat store; then, also when it failed, the pages    *)
(* are told to load theirs.                                                *)
ReadSnapshot == /\ pull = "asked"
                /\ pull' = "read"
                /\ UNCHANGED <<store, owed, stream, seq, server, wire, client, page, drops>>
Snapshot == /\ pull # "none"
            /\ pull' = "none"
            /\ page' = [page EXCEPT !.sessions = TRUE, !.error = FALSE]
            /\ UNCHANGED <<store, owed, stream, seq, server, wire, client, drops>>

---------------------------------------------------------------------------
(* The learning page: the timer joins events, and only the answer of the   *)
(* last load counts.                                                       *)
Load(p) == [p EXCEPT !.load = "asked", !.read = Unread, !.error = FALSE]

TimerFires == /\ page.timer
              /\ page' = Load([page EXCEPT !.timer = FALSE])
              /\ UNCHANGED <<store, owed, stream, seq, server, wire, client, pull, drops>>
Sessions == /\ page.sessions
            /\ \/ page' = Load([page EXCEPT !.sessions = FALSE])
               \/ page' = [page EXCEPT !.sessions = FALSE, !.error = TRUE]
            /\ UNCHANGED <<store, owed, stream, seq, server, wire, client, pull, drops>>
ReadPage == /\ page.load = "asked"
            /\ page' = [page EXCEPT !.load = "read", !.read = store]
            /\ UNCHANGED <<store, owed, stream, seq, server, wire, client, pull, drops>>
ShowPage == /\ page.load # "none"
            /\ \/ page.load = "read" /\ page' = [page EXCEPT !.shows = page.read, !.load = "none"]
               \/ page' = [page EXCEPT !.load = "none", !.error = TRUE]
            /\ UNCHANGED <<store, owed, stream, seq, server, wire, client, pull, drops>>

Serve == Accept \/ Refuse \/ Replay \/ Forward
Client == Receive \/ Notice \/ Reconnect
Answers == \/ ReadSnapshot \/ Snapshot \/ TimerFires \/ Sessions \/ ReadPage \/ ShowPage
Next == \/ Change \/ Publish \/ Serve \/ Drop \/ Restart
        \/ Start \/ Client \/ Recover \/ Stop \/ Answers

Spec == Init /\ [][Next]_vars
(* The event loops of both sides go on, and REST requests are answered.    *)
FairSpec == /\ Spec /\ WF_vars(Publish) /\ WF_vars(Serve) /\ WF_vars(Client)
            /\ WF_vars(ReadSnapshot) /\ WF_vars(Snapshot)
            /\ WF_vars(TimerFires) /\ WF_vars(Sessions) /\ WF_vars(ReadPage) /\ WF_vars(ShowPage)

---------------------------------------------------------------------------
TypeOK == /\ owed <= store /\ store <= MaxChanges /\ seq <= store /\ stream \in 0..MaxRestarts
          /\ server.pc \in {"none", "live", "refuse"} /\ Len(server.queue) <= Queue
          /\ client.socket \in {"none", "connecting", "lost", "open"}
          /\ pull \in {"none", "asked", "read"} /\ page.load \in {"none", "asked", "read"}
          /\ page.shows <= store

Caught == /\ client.running /\ client.socket = "open" /\ server.pc = "live"
          /\ server.replay = <<>> /\ server.queue = <<>> /\ wire = <<>> /\ owed = 0
Settled == /\ Caught /\ pull = "none"
           /\ ~page.timer /\ ~page.sessions /\ page.load = "none"

(* "断线后有界退避，页面恢复时主动补连，并在重连成功后补拉 REST 快照"        *)
(* (EventSocketClient): after a reconnection, and whatever was lost, timed *)
(* badly or overflowed since, a page at rest that shows no error shows     *)
(* what is stored.                                                         *)
PageCurrent == Settled /\ client.count > 1 /\ ~page.error => page.shows = store

(* A running console always comes to rest again: it reconnects, no resync  *)
(* leads to the next for ever, and every load ends.                        *)
ComesToRest == client.running ~> (Settled \/ ~client.running)

(* The same as PageCurrent from the first connection on.                   *)
FirstCurrent == Settled /\ ~page.error => page.shows = store

(* "也必须立刻补拉权威快照" (eventSocket.ts): a resync frame leads to a      *)
(* snapshot that is read after it.                                         *)
ResyncPulls == [][Receive /\ Head(wire).kind = "resync" => pull' = "asked"]_vars
=============================================================================
