---------------------------- MODULE BehaviorGraph ----------------------------
(***************************************************************************)
(* The graph through which a learned behaviour is found again: every tag   *)
(* of a scene is an alias of a tag cluster, known by its key; a pattern    *)
(* and a scene cluster hold a distribution over keys.  Evidence whose      *)
(* group of tags joins two tag clusters merges them, and every             *)
(* distribution has to follow.  Distributions are taken by their support;  *)
(* how much two of them overlap is left open when they share a key.        *)
(***************************************************************************)
EXTENDS Naturals, Sequences, SequencesExt, FiniteSets

CONSTANTS Pattern, Domain, Need,   \* tags of the two kinds that matter here
          Key, Scene, None,
          MaxDepth,                \* how far a query spreads
          MaxSaves, MaxStarts      \* bounds

VARIABLES graph,     \* [alias, scene, path]
          pattern,   \* [groups, flat, cluster, active] of each, or NoRow
          saves, starts

vars == <<graph, pattern, saves, starts>>

Tag == Domain \cup Need
Group == ((SUBSET Domain) \cup (SUBSET Need)) \ {{}}
NoRow == [groups |-> <<>>, flat |-> {}, cluster |-> None, active |-> FALSE]
Empty == [alias |-> [t \in Tag |-> None], scene |-> [c \in Scene |-> {}], path |-> [p \in Pattern |-> {}]]

Init == graph = Empty /\ pattern = [p \in Pattern |-> NoRow] /\ saves = 0 /\ starts = 0

Known == {p \in Pattern : pattern[p] # NoRow}
Keys(g, tags) == {g.alias[t] : t \in tags} \ {None}
Tags(groups) == UNION {groups[i] : i \in DOMAIN groups}

---------------------------------------------------------------------------
(* Evidence of one pattern, in one transaction: group by group its tags    *)
(* become aliases of one cluster, then the pattern gets a scene.           *)
(* Mutant: the scenes are left with the keys that are gone.                *)
Forgotten(keys, old, new) == IF keys \cap old = {} THEN keys ELSE keys \ old
Rewritten(keys, old, new) == IF keys \cap old = {} THEN keys ELSE (keys \ old) \cup {new}

Absorb(g, tags, fresh) ==
  LET found == Keys(g, tags)
      key == IF found = {} THEN fresh ELSE CHOOSE k \in found : \A other \in found : k <= other
      old == found \ {key}
  IN [alias |-> [t \in Tag |-> IF t \in tags \/ g.alias[t] \in old THEN key ELSE g.alias[t]],
      scene |-> [c \in Scene |-> Rewritten(g.scene[c], old, key)],
      path |-> [p \in Pattern |-> Rewritten(g.path[p], old, key)]]
AbsorbAll(g, groups, fresh) ==
  LET After[i \in 0..Len(groups)] ==
        IF i = 0 THEN g ELSE Absorb(After[i - 1], groups[i], fresh[i])
  IN After[Len(groups)]

(* New keys are random, so the least of several may be any of them.        *)
Unused(g) == Key \ Keys(g, Tag)
Fresh(g, groups) == {f \in [DOMAIN groups -> Unused(g)] : IsInjective(f)}

Similar(g, domain) == {c \in Scene : g.scene[c] \cap domain # {}}
Same(g, domain) == {c \in Scene : Cardinality(domain) = 1 /\ g.scene[c] = domain}
Scenes(g, domain) == Similar(g, domain) \cup
                     IF Same(g, domain) = {} THEN {c \in Scene : g.scene[c] = {}} ELSE {}

Upsert(p, row) ==
  \E f \in Fresh(graph, row.groups) :
    LET g == AbsorbAll(graph, row.groups, f)
        domain == Keys(g, Tags(row.groups) \cap Domain)
        placed == [g EXCEPT !.path[p] = Keys(g, Tags(row.groups))]
    IN IF domain = {}
       THEN graph' = placed /\ pattern' = [pattern EXCEPT ![p] = [row EXCEPT !.cluster = None]]
       ELSE \E c \in Scenes(g, domain) :
              /\ graph' = [placed EXCEPT !.scene[c] = @ \cup domain]
              /\ pattern' = [pattern EXCEPT ![p] = [row EXCEPT !.cluster = c]]

(* A pattern that failed too often stays out of use whatever is learned.   *)
Revived(p) == {TRUE, pattern[p].active}
Save(p, groups) ==
  /\ saves < MaxSaves /\ saves' = saves + 1 /\ UNCHANGED starts
  /\ \E active \in Revived(p) :
       Upsert(p, [pattern[p] EXCEPT !.groups = groups, !.active = active])

(* Evidence may come without groups, and leaves the graph alone then.      *)
SaveFlat(p, flat) ==
  /\ saves < MaxSaves /\ saves' = saves + 1 /\ UNCHANGED <<graph, starts>>
  /\ \E active \in Revived(p) :
       pattern' = [pattern EXCEPT ![p] = [@ EXCEPT !.groups = <<>>, !.flat = flat, !.active = active]]

(* At a start, rows that have no scene get one, one row after another.     *)
FlatGroups(row) == IF row.groups # <<>> THEN row.groups
                   ELSE SetToSeq({{t} : t \in row.flat})
Backfill(p) ==
  /\ starts < MaxStarts /\ starts' = starts + 1 /\ UNCHANGED saves
  /\ p \in Known /\ pattern[p].cluster = None /\ FlatGroups(pattern[p]) # <<>>
  /\ Upsert(p, [pattern[p] EXCEPT !.groups = FlatGroups(pattern[p])])

(* Feedback and decay take a pattern out of use.                           *)
Disable(p) == /\ pattern[p].active /\ pattern' = [pattern EXCEPT ![p].active = FALSE]
              /\ UNCHANGED <<graph, saves, starts>>

Next == \E p \in Pattern : \/ \E g \in Group : Save(p, <<g>>) \/ \E h \in Group \ {g} : Save(p, <<g, h>>)
                           \/ \E flat \in SUBSET Domain : SaveFlat(p, flat)
                           \/ Backfill(p) \/ Disable(p)

Spec == Init /\ [][Next]_vars

---------------------------------------------------------------------------
(* What a scene that was described by a group of tags recalls.             *)
Active == {p \in Pattern : pattern[p].active /\ pattern[p].cluster # None}
InUse == {graph.scene[pattern[p].cluster] : p \in Active}
QueryKeys(tags) == LET known == Keys(graph, tags) IN IF known = {} THEN tags ELSE known
Expand(keys) ==
  LET Reach[d \in 0..MaxDepth] ==
        IF d = 0 THEN keys
        ELSE Reach[d - 1] \cup UNION {s \in InUse : s \cap Reach[d - 1] # {}}
  IN Reach[MaxDepth]
Found(tags) == {p \in Active : graph.scene[pattern[p].cluster] \cap Expand(QueryKeys(tags)) # {}}

(* "避免旧 key 变成孤岛": whatever merges came since, an active behaviour   *)
(* is recalled by each of the tags that its scene was described with.      *)
Recalled == \A p \in Active : \A t \in Domain \cap Tags(pattern[p].groups) : p \in Found({t})
=============================================================================
