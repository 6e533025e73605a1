---------------------------- MODULE MCBackground ----------------------------
(***************************************************************************)
(* What goes on beside the chat: what is learned from the messages of a    *)
(* group, the research of drift, the feeds, the graph that finds what      *)
(* behaviour was learned, the index of learned expressions that an         *)
(* embedding model builds, and the filter that holds messages back.  They  *)
(* share no state here: a behaviour is one of one part, and the constant   *)
(* Parts says which are checked.                                           *)
(***************************************************************************)
EXTENDS Integers, Sequences, FiniteSets, TLC

CONSTANTS Parts,
          Msg, Jargon, Expression, Behavior, Run, Turn, Task, Limit,
          MaxAttempts, MaxLevel, Enough, MaxDays, MaxLife, MaxFaults, MaxAsks,
          MaxActs,
          Items, Fact, MaxResumes, Window, MaxRuns, MaxMessages, MaxClears,
          MaxDriftFaults, MaxOdd,
          Feed, Poll, Url, MaxEntries, Untitled, MaxVersions, MaxEdits, MaxFailures,
          Pattern, Domain, Need, Key, Scene, Null, MaxDepth, MaxSaves,
          MaxStarts,
          Expr, User, Address, Marker, MaxGen, MaxEras,
          Route, Id, NoId, MessageDelay, TypingDelay, MaxArrivals, MaxRaises

ASSUME BackgroundAssumption ==
  /\ {"mt", "life", "free"} \cap (Run \cup Task) = {} /\ Turn \subseteq Nat
  /\ IsFiniteSet(Msg) /\ MaxAttempts \in Nat /\ MaxLevel \in Nat /\ Enough \in Nat
  /\ MaxResumes \in Nat
  /\ Url \subseteq Nat \ {0} /\ MaxVersions \in Nat \ {0}
  /\ Key \subseteq Nat /\ Null \notin Key /\ IsFiniteSet(Domain) /\ MaxDepth \in Nat
  /\ MessageDelay \in Nat \ {0} /\ TypingDelay \in Nat /\ MessageDelay <= TypingDelay
  /\ MaxArrivals \in Nat /\ MaxRaises \in Nat /\ NoId \notin Id

VARIABLES part,
          sess, msg, run, job, row, sel, fb, mt, turn, life, lock, left,
          asked,
          up, enabled, messages, last, pending, idle, rested, item, pool,
          runs, pc, me, seen, draft, auto, clears, faults,
          version, feed, stories, poll, edit, want, edits, failures,
          graph, pattern, saves, starts,
          backend, cache, user, rebuilding, probe, there, vec, centre, eras,
          arrived, batch, flushes, stopq, phase, core, raised

Social == INSTANCE SocialLearning
Research == INSTANCE Drift WITH MaxFaults <- MaxDriftFaults
Sources == INSTANCE Feeds WITH row <- feed, pool <- stories
Behaviour == INSTANCE BehaviorGraph WITH None <- Null
Index == INSTANCE ExpressionIndex WITH conf <- backend, lock <- rebuilding,
         left <- eras
Delay == INSTANCE DelayedReply

social == <<sess, msg, run, job, row, sel, fb, mt, turn, life, lock, left,
            asked>>
drift == <<up, enabled, messages, last, pending, idle, rested, item, pool,
           runs, pc, me, seen, draft, auto, clears, faults>>
feeds == <<version, feed, stories, poll, edit, want, edits, failures>>
behaviour == <<graph, pattern, saves, starts>>
index == <<backend, cache, user, rebuilding, probe, there, vec, centre, eras>>
filter == <<arrived, batch, flushes, stopq, phase, core, raised>>
vars == <<part, social, drift, feeds, behaviour, index, filter>>

Init == /\ part \in Parts
        /\ Social!Init /\ Research!Init /\ Sources!Init /\ Behaviour!Init
        /\ Index!Init /\ Delay!Init
        /\ (part # "index" => backend.marker = "m")

OfSocial(A) == /\ part = "social" /\ A
               /\ UNCHANGED <<part, drift, feeds, behaviour, index, filter>>
OfResearch(A) == /\ part = "drift" /\ A
                 /\ UNCHANGED <<part, social, feeds, behaviour, index, filter>>
OfSources(A) == /\ part = "feeds" /\ A
                /\ UNCHANGED <<part, social, drift, behaviour, index, filter>>
OfBehaviour(A) == /\ part = "behaviour" /\ A
                  /\ UNCHANGED <<part, social, drift, feeds, index, filter>>
OfIndex(A) == /\ part = "index" /\ A
              /\ UNCHANGED <<part, social, drift, feeds, behaviour, filter>>
OfFilter(A) == /\ part = "filter" /\ A
               /\ UNCHANGED <<part, social, drift, feeds, behaviour, index>>

Next == \/ OfSocial(Social!Next) \/ OfResearch(Research!Next)
        \/ OfSources(Sources!Next) \/ OfBehaviour(Behaviour!Next)
        \/ OfIndex(Index!Next) \/ OfFilter(Delay!Next)

Spec == Init /\ [][Next]_vars

(* Of the bounds of a part a behaviour uses up some, not all.              *)
Acts == (MaxLife - left.life) + (MaxFaults - left.faults)
          + (MaxDays - left.days) + (MaxAsks - left.asks)
Within == /\ Acts <= MaxActs
          /\ messages + clears + faults <= MaxOdd + 1 /\ edits + failures <= MaxOdd
          /\ saves + starts <= MaxSaves

Alike == Permutations(Pattern)

---------------------------------------------------------------------------
(* SocialLearning: maintenance writes over the rows it has read; status,    *)
(* level, evidence and inference are what they were, the decay may not be.  *)
ReadStillTrue == Social!ReadStillTrue
(* SocialLearning: nothing is learned from a message that is gone.         *)
LearnedFromKept == Social!LearnedFromKept
(* SocialLearning: a selection nobody followed up is judged.               *)
ExpiredHeard == Social!ExpiredHeard
(* SocialLearning: the locks are not held in a circle.                     *)
Unstuck == Social!Unstuck
(* SocialLearning: a selection is asked about so many times at most.       *)
FeedbackBounded == Social!FeedbackBounded
(* SocialLearning: no evidence decays for periods that did not pass.       *)
DecayOwed == Social!DecayOwed
(* SocialLearning: an evaluation that ends moves the window on.            *)
WindowMoves == Social!WindowMoves
(* Drift: runs continue by themselves as often as the settings say.        *)
BudgetKept == Research!BudgetKept
(* Drift: a story is told by one candidate only.                           *)
AggregatedOnce == Research!AggregatedOnce
(* Drift: cleared messages are no snapshot of a run.                       *)
ReferencesGone == Research!ReferencesGone
(* Drift: a candidate is made on the newest state of the chat.             *)
FreshResult == Research!FreshResult
(* Feeds: what was parsed of what a validator stands for is in the pool.   *)
NothingMissed == Sources!NothingMissed
(* Feeds: a row has the settings the user gave it last.                    *)
UserSettingsStand == Sources!UserSettingsStand
(* BehaviorGraph: a pattern is found by the domains it has.                *)
Recalled == Behaviour!Recalled
(* ExpressionIndex: a ranking compares vectors of one backend.             *)
OneBackend == Index!OneBackend
(* ExpressionIndex: what a ranking uses as an index is one.                *)
WholeIndex == Index!WholeIndex
(* ExpressionIndex: no profile of a replaced provider is in the cache.     *)
CacheCurrent == Index!CacheCurrent
(* DelayedReply: typing does not put a batch off for ever.                 *)
WaitBounded == Delay!WaitBounded
=============================================================================
