-------------------------------- MODULE MCHost ------------------------------
(***************************************************************************)
(* The host of the plugins, and the events that keep the pages of the      *)
(* console current.  They share no state: a behaviour is one of one part,  *)
(* and the constant Parts says which are checked.                          *)
(***************************************************************************)
EXTENDS Integers, Sequences, TLC

CONSTANTS Parts,
          Plugins, MaxGen, Op, Kinds, Call, Runtime, MaxFaults,
          History, Queue, Wire, MaxChanges, MaxDrops, MaxRestarts

VARIABLES part,
          snap, up, history, current, wanted, task, call, faults,
          store, owed, stream, seq, server, wire, client, pull, page, drops

Host == INSTANCE PluginHost
Events == INSTANCE EventFeed

host == <<snap, up, history, current, wanted, task, call, faults>>
events == <<store, owed, stream, seq, server, wire, client, pull, page, drops>>
vars == <<part, host, events>>

TwoPlugins == <<"filter", "onebot">>
AnyKind == {"reload", "rollback", "groups"}
NoRollback == {"reload", "groups"}

Init == part \in Parts /\ Host!Init /\ Events!Init

OfHost(A) == /\ part = "host" /\ A
             /\ UNCHANGED <<part, events>>
OfEvents(A) == /\ part = "events" /\ A
               /\ UNCHANGED <<part, host>>

Next == OfHost(Host!Next) \/ OfEvents(Events!Next)

(* The fairness of PluginHost and of EventFeed.                            *)
Spec == /\ Init /\ [][Next]_vars
        /\ \A c \in Call : WF_vars(OfHost(Host!Release(c)))
        /\ \A o \in Op : /\ WF_vars(OfHost(Host!Publish(o)))
                         /\ WF_vars(OfHost(Host!StoppedAgain(o)))
                         /\ WF_vars(OfHost(Host!Candidate(o) \/ \E g \in Host!Gen : Host!RollbackTo(o, g)))
        /\ \A t \in Host!Active : WF_vars(OfHost(Host!Prepare(t) \/ Host!Activate(t)
                                                   \/ Host!Ready(t) \/ Host!Undone(t)))
        /\ \A t \in Host!Task : WF_vars(OfHost(Host!Close(t)))
        /\ \A g \in Host!Gen : /\ WF_vars(OfHost(Host!Retire(g)))
                               /\ SF_vars(OfHost(Host!Retiring(g)))
                               /\ WF_vars(OfHost(Host!Retired(g)))
        /\ WF_vars(OfEvents(Events!Publish)) /\ WF_vars(OfEvents(Events!Serve))
        /\ WF_vars(OfEvents(Events!Client)) /\ WF_vars(OfEvents(Events!ReadSnapshot))
        /\ WF_vars(OfEvents(Events!Snapshot)) /\ WF_vars(OfEvents(Events!TimerFires))
        /\ WF_vars(OfEvents(Events!Sessions)) /\ WF_vars(OfEvents(Events!ReadPage))
        /\ WF_vars(OfEvents(Events!ShowPage))

---------------------------------------------------------------------------
(* PluginHost: a leased generation is complete until the call returns.     *)
InUse == Host!InUse
(* PluginHost: calls are let into the published generation only.           *)
OneAccepts == Host!OneAccepts
(* PluginHost: what a plugin holds open has somebody who will close it.    *)
Owned == Host!Owned
(* PluginHost: after stop() nothing is left open but what raised.          *)
NothingLeft == Host!NothingLeft
(* PluginHost: a replaced generation is closed once its calls return.      *)
RetiredCloses == part = "host" => Host!RetiredCloses
(* PluginHost: the generation in force has the saved groups.               *)
GroupsInForce == Host!GroupsInForce
(* EventFeed: a page that waits for nothing shows what is stored.          *)
PageCurrent == Events!PageCurrent
(* EventFeed: every page comes to rest.                                    *)
ComesToRest == part = "events" => Events!ComesToRest
=============================================================================
