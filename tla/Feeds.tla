--------------------------------- MODULE Feeds ---------------------------------
(***************************************************************************)
(* The RSS and Atom feeds of one private chat.  A poll takes a copy of the *)
(* row, asks the server for what changed since the copy's validators, puts *)
(* every item into the pool of candidates and only then saves the copy.    *)
(* Polls of the scheduler and of POST .../refresh, edits and deletions     *)
(* interleave at every await.  The scheduler waits for its polls before it *)
(* starts the next ones, but a refresh does not wait for anybody: a poll   *)
(* may start at any time.                                                  *)
(***************************************************************************)
EXTENDS Integers, FiniteSets

CONSTANTS Feed, Poll, Url,
          MaxEntries,   \* how many entries of a document are looked at
          Untitled,     \* stories whose entry has no title
          MaxVersions, MaxEdits, MaxFailures

VARIABLES version,      \* how often the document at each address has changed
          row,          \* rows of feed_sources
          pool,         \* story |-> feeds named as its sources, {} if absent
          poll,         \* the coroutines in poll_feed
          edit,         \* the copy update_feed works on
          want,         \* the address and the switch as the user last set them
          edits, failures

vars == <<version, row, pool, poll, edit, want, edits, failures>>

(* A document in its version v has one entry more than in the version      *)
(* before, the newest first; every address carries story 0.  Validators    *)
(* are mere version numbers, as dates of modification are, so those of two *)
(* addresses may coincide.                                                 *)
Entries(u, v) == IF v = 0 THEN {} ELSE {0} \cup {10 * u + k : k \in 1..v}
Story == UNION {Entries(u, MaxVersions) : u \in Url}

(* parse_feed takes the first entries, and of those the ones with a title; *)
(* the validator stands for the whole document all the same.               *)
First(u, v) == {s \in Entries(u, v) : Cardinality({t \in Entries(u, v) : t > s}) < MaxEntries}
Stories(u, v) == First(u, v) \ Untitled

Gone == [url |-> 0, etag |-> 0, enabled |-> FALSE, due |-> FALSE]
Deleted == [Gone EXCEPT !.url = -1]
NoPoll == [at |-> "none", feed |-> 0, copy |-> Gone, got |-> 0, todo |-> {}, refs |-> {}, story |-> 0]
NoEdit == [feed |-> 0, copy |-> Gone]
Live(f) == row[f].url > 0
Settings(r) == [url |-> r.url, enabled |-> r.enabled]

Init == /\ version = [u \in Url |-> 1]
        /\ row = [f \in Feed |-> Gone] /\ want = [f \in Feed |-> Settings(Gone)]
        /\ pool = [s \in Story |-> {}]
        /\ poll = [p \in Poll |-> NoPoll] /\ edit = NoEdit /\ edits = 0 /\ failures = 0

(* MaxEdits bounds what the sites and the user change together.            *)
Publish(u) == /\ version[u] < MaxVersions /\ version' = [version EXCEPT ![u] = @ + 1]
              /\ edits < MaxEdits /\ edits' = edits + 1
              /\ UNCHANGED <<row, pool, poll, edit, want, failures>>

Later(f) == /\ Live(f) /\ ~row[f].due /\ row' = [row EXCEPT ![f].due = TRUE]
            /\ UNCHANGED <<version, pool, poll, edit, want, edits, failures>>

---------------------------------------------------------------------------
(* A row is written whole; a deleted feed and an address another feed of   *)
(* the chat has make the write raise.                                      *)
Writable(f, r) == Live(f) /\ \A g \in Feed \ {f} : row[g].url # r.url

Create(f, u) == /\ row[f] = Gone /\ \A g \in Feed : row[g].url # u
                /\ row' = [row EXCEPT ![f] = [url |-> u, etag |-> 0, enabled |-> TRUE, due |-> TRUE]]
                /\ want' = [want EXCEPT ![f] = [url |-> u, enabled |-> TRUE]]
                /\ edits < MaxEdits /\ edits' = edits + 1
                /\ UNCHANGED <<version, pool, poll, edit, failures>>

(* update_feed reads the row, resolves the address, and saves its copy.    *)
BeginUpdate(f) == /\ Live(f) /\ edit = NoEdit /\ edits < MaxEdits /\ edits' = edits + 1
                  /\ edit' = [feed |-> f, copy |-> row[f]]
                  /\ UNCHANGED <<version, row, pool, poll, want, failures>>

Revised(r, u, on) ==
  IF u = r.url THEN [r EXCEPT !.enabled = on]
               ELSE [url |-> u, etag |-> 0, enabled |-> on, due |-> TRUE]

Update(u, on) == /\ edit # NoEdit /\ edit' = NoEdit
                 /\ LET f == edit.feed  r == Revised(edit.copy, u, on)
                    IN IF Writable(f, r)
                       THEN row' = [row EXCEPT ![f] = r] /\ want' = [want EXCEPT ![f] = Settings(r)]
                       ELSE UNCHANGED <<row, want>>
                 /\ UNCHANGED <<version, pool, poll, edits, failures>>

Delete(f) == /\ Live(f) /\ row' = [row EXCEPT ![f] = Deleted]
             /\ want' = [want EXCEPT ![f] = Settings(Deleted)]
             /\ edits < MaxEdits /\ edits' = edits + 1
             /\ UNCHANGED <<version, pool, poll, edit, failures>>

---------------------------------------------------------------------------
(* poll_feed.                                                              *)

Started(p, f) == /\ poll[p] = NoPoll
                 /\ poll' = [poll EXCEPT ![p] = [NoPoll EXCEPT !.at = "fetch", !.feed = f, !.copy = row[f]]]
                 /\ UNCHANGED <<version, row, pool, edit, want, edits, failures>>

Due(p, f) == row[f].enabled /\ row[f].due /\ Started(p, f)

Refresh(p, f) == Live(f) /\ Started(p, f)

NotModified(p) ==
  /\ poll[p].at = "fetch" /\ poll[p].copy.etag = version[poll[p].copy.url]
  /\ poll' = [poll EXCEPT ![p].at = "store", ![p].got = poll[p].copy.etag]
  /\ UNCHANGED <<version, row, pool, edit, want, edits, failures>>

(* The document, with or without a validator.                              *)
Fetched(p, v) ==
  /\ poll[p].at = "fetch" /\ poll[p].copy.etag # version[poll[p].copy.url]
  /\ v \in {0, version[poll[p].copy.url]}
  /\ poll' = [poll EXCEPT ![p].at = "store", ![p].got = v,
                          ![p].todo = Stories(poll[p].copy.url, version[poll[p].copy.url])]
  /\ UNCHANGED <<version, row, pool, edit, want, edits, failures>>

(* The stories of the document in its order: a new one is inserted, of one *)
(* that is there the sources are read.                                     *)
Insert(p, s) ==
  /\ poll[p].at = "store" /\ s \in poll[p].todo /\ \A t \in poll[p].todo : t <= s
  /\ IF pool[s] = {}
     THEN /\ pool' = [pool EXCEPT ![s] = {poll[p].feed}]
          /\ poll' = [poll EXCEPT ![p].todo = @ \ {s}]
     ELSE /\ poll' = [poll EXCEPT ![p].at = "merge", ![p].refs = pool[s], ![p].story = s]
          /\ UNCHANGED pool
  /\ UNCHANGED <<version, row, edit, want, edits, failures>>

Merge(p) ==
  /\ poll[p].at = "merge"
  /\ pool' = IF poll[p].feed \in poll[p].refs THEN pool
             ELSE [pool EXCEPT ![poll[p].story] = poll[p].refs \cup {poll[p].feed}]
  /\ poll' = [poll EXCEPT ![p].at = "store", ![p].todo = @ \ {poll[p].story}, ![p].refs = {}, ![p].story = 0]
  /\ UNCHANGED <<version, row, edit, want, edits, failures>>

(* Mutant: the row may be saved before the stories are in the pool.        *)
Answered(p) == poll[p].at = "store"

Stored(p) == poll[p].at = "store" /\ poll[p].todo = {}

(* The copy becomes the row; when that raises, the handler's second try    *)
(* raises as well and the poll ends in the exception.                      *)
Ended(p, r) == /\ row' = IF Writable(poll[p].feed, r) THEN [row EXCEPT ![poll[p].feed] = r] ELSE row
               /\ poll' = [poll EXCEPT ![p] = NoPoll]

Save(p) == /\ Stored(p) /\ Ended(p, [poll[p].copy EXCEPT !.etag = poll[p].got, !.due = FALSE])
           /\ UNCHANGED <<version, pool, edit, want, edits, failures>>

(* The request or a write fails: the validators of the row stay.           *)
Fail(p) == /\ failures < MaxFailures /\ failures' = failures + 1
           /\ poll[p] # NoPoll /\ Ended(p, [poll[p].copy EXCEPT !.due = FALSE])
           /\ UNCHANGED <<version, pool, edit, want, edits>>

Crash == /\ \E p \in Poll : poll[p] # NoPoll
         /\ failures < MaxFailures /\ failures' = failures + 1
         /\ poll' = [p \in Poll |-> NoPoll] /\ edit' = NoEdit
         /\ UNCHANGED <<version, row, pool, want, edits>>

Next == \/ \E u \in Url : Publish(u)
        \/ \E f \in Feed : \/ Later(f) \/ BeginUpdate(f) \/ Delete(f)
                           \/ \E u \in Url : Create(f, u)
                           \/ \E p \in Poll : Due(p, f) \/ Refresh(p, f)
        \/ \E u \in Url, on \in BOOLEAN : Update(u, on)
        \/ \E p \in Poll : \/ NotModified(p) \/ Merge(p) \/ Save(p) \/ Fail(p)
                           \/ \E v \in 0..MaxVersions : Fetched(p, v)
                           \/ \E s \in Story : Insert(p, s)
        \/ Crash

Spec == Init /\ [][Next]_vars

---------------------------------------------------------------------------
(* A validator is saved only with every story parse_feed took from the     *)
(* document it stands for: of what was parsed, nothing is left to a        *)
(* conditional request that will be told "not modified".  It says nothing  *)
(* of entries behind the first MaxEntries or without a title, which are    *)
(* vouched for unread.                                                     *)
NothingMissed == \A f \in Feed : Stories(row[f].url, row[f].etag) \subseteq {s \in Story : pool[s] # {}}

(* A story names every feed that brought it.                               *)
Sourced == \A f \in Feed : \A s \in Stories(row[f].url, row[f].etag) : f \in pool[s]

(* What the user set stands until the user changes it.                     *)
UserSettingsStand == \A f \in Feed : Settings(row[f]) = want[f]
=============================================================================
