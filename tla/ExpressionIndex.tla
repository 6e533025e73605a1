--------------------------- MODULE ExpressionIndex ---------------------------
(****************************************************************************)
(* The derived vector index of a session's expressions: turns, refreshes     *)
(* after learning and the backfill at start complete the missing vectors and *)
(* publish a clustering, while the operator switches the embedding provider  *)
(* and a lifecycle operation erases.  A vector carries the marker of the     *)
(* backend that made it, a clustering the marker and the set it was made of. *)
(****************************************************************************)
EXTENDS Naturals, FiniteSets

CONSTANTS Expr,         \* the expressions of the session
          User,         \* coroutines that want the index
          Address, Marker,  \* what settings name; what a backend really is
          MaxGen, MaxFaults, MaxEras   \* bounds

None == "none"

VARIABLES
  conf,    \* the provider in force: gen, addr (the signature), marker
  cache,   \* _embedding_profile and its signature: gen, marker, addr
  user,    \* pc, cand (the list it works for), gen, marker, addr, todo
  lock,    \* the holder of the index lock
  probe,   \* the holder of the profile lock
  there,   \* the expressions in the table
  vec,     \* their vectors: marker, fp (clustering), label
  centre,  \* the published centres: fp, labels
  left     \* what the bounds leave

vars == <<conf, cache, user, lock, probe, there, vec, centre, left>>

NoCache == [gen |-> 0, marker |-> None, addr |-> None]
Off == [pc |-> "off", cand |-> {}, gen |-> 0, marker |-> None, addr |-> None, todo |-> {}]
NoVec == [marker |-> None, fp |-> <<>>, label |-> 0]
NoCentre == [fp |-> <<>>, labels |-> {}]

Init ==
  /\ \E a \in Address, m \in Marker : conf = [gen |-> 1, addr |-> a, marker |-> m]
  /\ cache = NoCache /\ user = [u \in User |-> Off]
  /\ lock = None /\ probe = None /\ there = {} /\ vec = [e \in Expr |-> NoVec]
  /\ centre = NoCentre /\ left = [faults |-> MaxFaults, eras |-> MaxEras]

Known(m, cand) == {e \in cand : vec[e].marker = m}
Goto(u, pc) == user' = [user EXCEPT ![u].pc = pc]

\* A commit of a learning run adds an expression (not under the index lock).
Learned(e) ==
  /\ e \notin there /\ there' = there \cup {e}
  /\ UNCHANGED <<conf, cache, user, lock, probe, vec, centre, left>>

\* The list of candidates is read before the lock is asked for; it holds some
\* of the expressions (a turn reads fewer than a refresh).
Want(u, cand) ==
  /\ user[u].pc = "off" /\ cand # {} /\ cand \subseteq there
  /\ user' = [user EXCEPT ![u] = [Off EXCEPT !.pc = "lock", !.cand = cand]]
  /\ UNCHANGED <<conf, cache, lock, probe, there, vec, centre, left>>

Enter(u) ==
  /\ user[u].pc = "lock" /\ lock = None /\ lock' = u
  /\ user' = [user EXCEPT ![u] = [@ EXCEPT !.pc = "profile", !.addr = conf.addr, !.gen = conf.gen, !.marker = conf.marker]]
  /\ UNCHANGED <<conf, cache, probe, there, vec, centre, left>>

Usable(addr) == cache.gen # 0 /\ cache.addr = addr

\* _embedding_profile_for_expressions: the cached profile of this signature, or
\* a probe of the provider that was in force when the lock was asked for.
Profile(u) ==
  /\ user[u].pc = "profile" /\ probe = None
  /\ IF Usable(user[u].addr)
     THEN /\ user' = [user EXCEPT ![u] = [@ EXCEPT !.pc = "load", !.gen = cache.gen, !.marker = cache.marker]]
          /\ UNCHANGED probe
     ELSE probe' = u /\ Goto(u, "probe")
  /\ UNCHANGED <<conf, cache, lock, there, vec, centre, left>>

Probed(u) ==
  /\ user[u].pc = "probe" /\ probe' = None /\ Goto(u, "load")
  /\ cache' = [gen |-> user[u].gen, marker |-> user[u].marker, addr |-> user[u].addr]
  /\ UNCHANGED <<conf, lock, there, vec, centre, left>>

Missing(u) == user[u].cand \ Known(user[u].marker, user[u].cand)

Load(u) ==
  /\ user[u].pc = "load"
  /\ user' = [user EXCEPT ![u] = [@ EXCEPT !.todo = Missing(u), !.pc = IF Missing(u) = {} THEN "cluster" ELSE "embed"]]
  /\ UNCHANGED <<conf, cache, lock, probe, there, vec, centre, left>>

Renewed(u, b) == [e \in Expr |-> IF e \in b THEN [NoVec EXCEPT !.marker = user[u].marker] ELSE vec[e]]

\* One batch: embedded by the provider of the profile, and saved; the save fails
\* as a whole if an expression is gone by now.
Embed(u) ==
  /\ user[u].pc = "embed"
  /\ \E b \in (SUBSET user[u].todo) \ {{}} :
       IF b \subseteq there
       THEN /\ vec' = Renewed(u, b)
            /\ user' = [user EXCEPT ![u].todo = @ \ b, ![u].pc = IF user[u].todo = b THEN "cluster" ELSE "embed"]
            /\ UNCHANGED lock
       ELSE user' = [user EXCEPT ![u] = Off] /\ lock' = None /\ UNCHANGED vec
  /\ UNCHANGED <<conf, cache, probe, there, centre, left>>

Fp(u) == <<user[u].marker, user[u].cand>>
Labels(cand) == {l \in [cand -> 1..Cardinality(cand)] : \E k \in 1..Cardinality(cand) : {l[e] : e \in cand} = 1..k}

\* A mutant for WholeIndex: the assignments are looked at, the centres are not.
Assigned(u) == \A e \in user[u].cand : vec[e].fp = Fp(u)
Reusable(u) == Assigned(u) /\ centre.fp = Fp(u)

\* The stored clustering of exactly this set, or a new one, published at once.
Cluster(u) ==
  /\ user[u].pc = "cluster"
  /\ lock' = None
  /\ IF Reusable(u) THEN Goto(u, "use") /\ UNCHANGED <<vec, centre>>
     ELSE IF \A e \in user[u].cand : vec[e].marker = user[u].marker
     THEN /\ \E l \in Labels(user[u].cand) :
               /\ vec' = [e \in Expr |-> IF e \in user[u].cand
                                         THEN [vec[e] EXCEPT !.fp = Fp(u), !.label = l[e]] ELSE vec[e]]
               /\ centre' = [fp |-> Fp(u), labels |-> {l[e] : e \in user[u].cand}]
          /\ Goto(u, "use")
     ELSE user' = [user EXCEPT ![u] = Off] /\ UNCHANGED <<vec, centre>>
  /\ UNCHANGED <<conf, cache, probe, there, left>>

\* A turn embeds its text with the provider of the profile, and ranks.
Use(u) ==
  /\ user[u].pc = "use" /\ user' = [user EXCEPT ![u] = Off]
  /\ UNCHANGED <<conf, cache, lock, probe, there, vec, centre, left>>

\* A provider that does not answer, or a cancellation: the locks are released.
Fails(u) ==
  /\ user[u].pc \in {"probe", "embed"} /\ left.faults > 0
  /\ left' = [left EXCEPT !.faults = @ - 1]
  /\ user' = [user EXCEPT ![u] = Off] /\ lock' = None
  /\ probe' = IF probe = u THEN None ELSE probe
  /\ UNCHANGED <<conf, cache, there, vec, centre>>

\* set_embedding_provider, called by the reconfiguration: no lock is taken.
Switch(a, m) ==
  /\ conf.gen < MaxGen
  /\ conf' = [gen |-> conf.gen + 1, addr |-> a, marker |-> m]
  /\ cache' = NoCache
  /\ UNCHANGED <<user, lock, probe, there, vec, centre, left>>

\* Clearing the memory or deleting the session, with the index lock held.
Erase ==
  /\ lock = None /\ left.eras > 0 /\ left' = [left EXCEPT !.eras = @ - 1]
  /\ there' = {} /\ vec' = [e \in Expr |-> NoVec] /\ centre' = NoCentre
  /\ UNCHANGED <<conf, cache, user, lock, probe>>

Step(u) == Enter(u) \/ Profile(u) \/ Probed(u) \/ Load(u) \/ Embed(u) \/ Cluster(u) \/ Use(u)

Next ==
  \/ \E e \in Expr : Learned(e)
  \/ \E u \in User : (\E cand \in SUBSET Expr : Want(u, cand)) \/ Step(u) \/ Fails(u)
  \/ \E a \in Address, m \in Marker : Switch(a, m)
  \/ Erase

Spec == Init /\ [][Next]_vars

(********************************* properties *******************************)
TypeOK ==
  /\ conf.gen \in 1..MaxGen /\ cache.gen <= conf.gen
  /\ there \subseteq Expr /\ lock \in User \cup {None} /\ probe \in User \cup {None}
  /\ \A u \in User : lock = u <=> user[u].pc \in {"profile", "probe", "load", "embed", "cluster"}

\* A clustering never mixes vectors of two backends, however often the provider
\* was switched and the completion broken off half way.
OneBackend ==
  \A e \in Expr : vec[e].fp # <<>> => vec[e].fp[1] = vec[e].marker

\* Whoever ranks with an index has a place for every candidate and a centre for
\* every place: of one and the same publication, though others publish for
\* other sets in between.
WholeIndex ==
  [][\A u \in User : user[u].pc = "cluster" /\ user'[u].pc = "use" =>
       /\ centre'.fp = <<user[u].marker, user[u].cand>>
       /\ \A e \in user[u].cand : vec'[e].fp = centre'.fp /\ vec'[e].label \in centre'.labels]_vars

\* There is no vector of an erased expression, though lists read before the
\* erasing are still being worked through.
NoOrphanVectors == \A e \in Expr : vec[e].marker # None => e \in there

\* "热切换表达索引使用的 embedding Provider，并废弃旧 profile 缓存"
\* (social_learning.py:292): what is cached is of the provider in force, so that
\* nobody goes on with a retired one.
CacheCurrent == cache.gen # 0 /\ cache.addr = conf.addr => cache.gen = conf.gen
=============================================================================
