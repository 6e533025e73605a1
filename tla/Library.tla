------------------------------- MODULE Library -------------------------------
(***************************************************************************)
(* Pictures on the disk and the rows that refer to them: attachments of    *)
(* messages and published media, both stored under the hash of their       *)
(* content; the expressions of a character, a row and a source file each;  *)
(* and what a vision model said of a picture.  Turns, ingestion, the       *)
(* console and the deletion of data work on them at the same time, under   *)
(* three locks: one for the life cycle of data, one for the personas and   *)
(* one for the expressions of the character.  The process may die at any   *)
(* point.  Portraits, and expressions bound to one, are left out.  A name  *)
(* is one that a model gives, or <<name, picture>>, the one a collected    *)
(* expression falls back on when the first is taken: the console's user    *)
(* may choose either, and name and picture stand for an expression's id.   *)
(***************************************************************************)
EXTENDS Integers, FiniteSets

CONSTANTS Picture, Session, Name, None,
          Slots,                       \* MAX_EXPRESSIONS_PER_CHARACTER
          MaxUploads, MaxEdits, MaxTurns, MaxClears, MaxLooks, MaxCrashes   \* bounds

VARIABLES uploads, media,      \* the content-addressed files
          source,              \* the source file of each name
          row,                 \* the expressions: [pic, key, taken] or NoRow
          known,               \* image_analyses
          inbound, outbound,   \* pictures that rows of a session refer to
          form,                \* uploads of which no message was sent yet
          lifecycle, persona, shelf,   \* who holds the three locks
          edit, entry, turn, clear, look,   \* the processes
          erased,              \* pictures deleted with all data, and not seen since
          n

files == <<uploads, media, source>>
rows == <<row, known, inbound, outbound>>
locks == <<lifecycle, persona, shelf>>
procs == <<edit, entry, turn, clear, look>>
vars == <<files, rows, form, locks, procs, erased, n>>

Names == Name \X (Picture \cup {None})
Plain(x) == <<x, None>>
NoRow == [pic |-> None, key |-> FALSE, taken |-> FALSE]
Idle == [pc |-> "idle"]
Start == [uploads |-> 0, edits |-> 0, turns |-> 0, clears |-> 0, looks |-> 0, crashes |-> 0]

Init == /\ uploads = {} /\ media = {} /\ source = [m \in Names |-> None]
        /\ row = [m \in Names |-> NoRow] /\ known = {}
        /\ inbound = [s \in Session |-> {}] /\ outbound = [s \in Session |-> {}]
        /\ form = {} /\ lifecycle = None /\ persona = None /\ shelf = None
        /\ edit = Idle /\ entry = Idle /\ turn = Idle /\ clear = Idle
        /\ look = [p \in Picture |-> "idle"] /\ erased = {} /\ n = Start

Count(c, most) == n[c] < most /\ n' = [n EXCEPT ![c] = @ + 1]
Rows == {m \in Names : row[m] # NoRow}
WriteSource(m, p) == source' = [source EXCEPT ![m] = p]
RemoveSource(m) == source' = [source EXCEPT ![m] = None]
CreateRow(m, p, key) == row' = [row EXCEPT ![m] = [pic |-> p, key |-> key, taken |-> FALSE]]
RenameRow(m, to) == row' = [row EXCEPT ![to] = row[m], ![m] = NoRow]
DeleteRow(m) == row' = [row EXCEPT ![m] = NoRow]

---------------------------------------------------------------------------
(* A client uploads an attachment, and sends it in a message later.  A     *)
(* file that is there is not written again.                                *)
SaveAttachment(p) == /\ Count("uploads", MaxUploads)
                     /\ uploads' = uploads \cup {p} /\ form' = form \cup {p} /\ erased' = erased \ {p}
                     /\ UNCHANGED <<media, source, rows, locks, procs>>

(* Ingestion holds the lock of the life cycle from the check of the file   *)
(* to the end of the collection of an expression.                          *)
Validated(p) == p \in uploads
Ingest(s, p) ==
  /\ entry = Idle /\ lifecycle = None /\ p \in form /\ form' = form \ {p}
  /\ IF Validated(p) THEN lifecycle' = "entry" /\ entry' = [pc |-> "append", s |-> s, p |-> p]
     ELSE UNCHANGED <<lifecycle, entry>>
  /\ UNCHANGED <<files, rows, persona, shelf, edit, turn, clear, look, erased, n>>

AppendInbound == /\ entry.pc = "append"
                 /\ inbound' = [inbound EXCEPT ![entry.s] = @ \cup {entry.p}]
                 /\ \/ entry' = [entry EXCEPT !.pc = "collect"] /\ UNCHANGED lifecycle
                    \/ entry' = Idle /\ lifecycle' = None
                 /\ UNCHANGED <<files, row, known, outbound, form, persona, shelf, edit, turn, clear, look, erased, n>>

(* An expression is collected once what it shows is known, or the wait for *)
(* it was too long; one picture is collected once.  Nobody looks whether   *)
(* the second name is free: when it is not, the file of its row is written  *)
(* over (taken, which no code reads), the new row is refused, and the file  *)
(* removed.                                                                *)
Collected(p) == \E m \in Rows : row[m].pic = p /\ row[m].key
Overwrites(m) == row' = IF row[m] = NoRow THEN row ELSE [row EXCEPT ![m].taken = TRUE]
UniqueName(x, p) == IF row[Plain(x)] = NoRow THEN Plain(x) ELSE <<x, p>>
CollectFile(x) ==
  /\ entry.pc = "collect" /\ shelf = None
  /\ IF Collected(entry.p) \/ Cardinality(Rows) >= Slots
     THEN entry' = Idle /\ lifecycle' = None /\ UNCHANGED <<shelf, source, row>>
     ELSE /\ shelf' = "entry" /\ UNCHANGED lifecycle
          /\ WriteSource(UniqueName(x, entry.p), entry.p) /\ Overwrites(UniqueName(x, entry.p))
          /\ entry' = [pc |-> "row", s |-> entry.s, p |-> entry.p, to |-> UniqueName(x, entry.p)]
  /\ UNCHANGED <<uploads, media, known, inbound, outbound, form, persona, edit, turn, clear, look, erased, n>>

CollectRow == /\ entry.pc = "row"
              /\ \/ row[entry.to] = NoRow /\ CreateRow(entry.to, entry.p, TRUE) /\ UNCHANGED source
                 \/ RemoveSource(entry.to) /\ UNCHANGED row
              /\ entry' = Idle /\ lifecycle' = None /\ shelf' = None
              /\ UNCHANGED <<uploads, media, known, inbound, outbound, form, persona, edit, turn, clear, look, erased, n>>

---------------------------------------------------------------------------
(* The task that has a picture described goes on when nobody waits for it. *)
Understand(p) == /\ look[p] = "idle" /\ Count("looks", MaxLooks)
                 /\ \/ entry.pc = "collect" /\ entry.p = p
                    \/ \E s \in Session : p \in inbound[s]
                 /\ look' = [look EXCEPT ![p] = "read"]
                 /\ UNCHANGED <<files, rows, form, locks, edit, entry, turn, clear, erased>>

ReadPicture(p) == /\ look[p] = "read"
                  /\ look' = [look EXCEPT ![p] = IF p \notin known /\ p \in uploads THEN "answer" ELSE "idle"]
                  /\ UNCHANGED <<files, rows, form, locks, edit, entry, turn, clear, erased, n>>

SaveAnalysis(p) == /\ look[p] = "answer"
                   /\ \/ known' = known \cup {p}
                      \/ UNCHANGED known
                   /\ look' = [look EXCEPT ![p] = "idle"]
                   /\ UNCHANGED <<files, row, inbound, outbound, form, locks, edit, entry, turn, clear, erased, n>>

---------------------------------------------------------------------------
(* The console, or the tool that makes a picture: the file is written      *)
(* before the row, and removed after it.                                   *)
Hold == edit = Idle /\ persona = None /\ shelf = None /\ persona' = "edit" /\ shelf' = "edit"
Release == edit' = Idle /\ persona' = None /\ shelf' = None
Untouched == UNCHANGED <<uploads, media, known, inbound, outbound, form, lifecycle, entry, turn, clear, look, erased>>

UploadFile(m, p) == /\ Hold /\ row[m] = NoRow /\ Cardinality(Rows) < Slots /\ Count("edits", MaxEdits)
                    /\ WriteSource(m, p) /\ edit' = [pc |-> "row", m |-> m, p |-> p]
                    /\ UNCHANGED row /\ Untouched

UploadRow == /\ edit.pc = "row"
             /\ \/ CreateRow(edit.m, edit.p, FALSE) /\ UNCHANGED source
                \/ RemoveSource(edit.m) /\ UNCHANGED row
             /\ Release /\ UNCHANGED n /\ Untouched

RenameFile(m, to) == /\ Hold /\ m \in Rows /\ row[to] = NoRow /\ source[m] # None
                     /\ Count("edits", MaxEdits)
                     /\ WriteSource(to, source[m]) /\ edit' = [pc |-> "rename", m |-> m, to |-> to]
                     /\ UNCHANGED row /\ Untouched

Rename == /\ edit.pc = "rename"
          /\ \/ RenameRow(edit.m, edit.to) /\ edit' = [pc |-> "old", m |-> edit.m]
                /\ UNCHANGED <<source, persona, shelf>>
             \/ RemoveSource(edit.to) /\ Release /\ UNCHANGED row
          /\ UNCHANGED n /\ Untouched

(* Mutant: the file goes before the row.                                   *)
DeleteFileFirst(m) == /\ Hold /\ m \in Rows /\ Count("edits", MaxEdits)
                      /\ RemoveSource(m) /\ edit' = [pc |-> "old", m |-> m]
                      /\ UNCHANGED row /\ Untouched
Delete(m) == /\ Hold /\ m \in Rows /\ Count("edits", MaxEdits)
             /\ DeleteRow(m) /\ edit' = [pc |-> "old", m |-> m]
             /\ UNCHANGED source /\ Untouched

RemoveOld == /\ edit.pc = "old" /\ RemoveSource(edit.m) /\ Release
             /\ UNCHANGED <<row, n>> /\ Untouched

---------------------------------------------------------------------------
(* A turn chooses an expression, then, under the locks, makes sure that it *)
(* is still that one and publishes it; the outbound row comes later.       *)
Choose(s, m) == /\ turn = Idle /\ m \in Rows /\ persona = None /\ Count("turns", MaxTurns)
                /\ ~(clear # Idle /\ s \in clear.held)
                /\ turn' = [pc |-> "chosen", s |-> s, m |-> m, p |-> row[m].pic]
                /\ UNCHANGED <<files, rows, form, locks, edit, entry, clear, look, erased>>

PublishExpression(p) == media' = media \cup {p}
Publish == /\ turn.pc = "chosen" /\ persona = None /\ shelf = None
           /\ IF row[turn.m].pic = turn.p /\ source[turn.m] = turn.p
              THEN PublishExpression(turn.p) /\ turn' = [turn EXCEPT !.pc = "published"]
              ELSE turn' = Idle /\ UNCHANGED media
           /\ UNCHANGED <<uploads, source, rows, form, locks, edit, entry, clear, look, erased, n>>

Prepare == /\ turn.pc = "published"
           /\ outbound' = [outbound EXCEPT ![turn.s] = @ \cup {turn.p}] /\ turn' = Idle
           /\ UNCHANGED <<files, row, known, inbound, form, locks, edit, entry, clear, look, erased, n>>

---------------------------------------------------------------------------
(* The content of a session is deleted, then the files it alone referred   *)
(* to.  The references are read from the database, a moment before.        *)
Busy(S) == turn # Idle /\ turn.s \in S
ReferencedHere(p) == \E s \in clear.held : p \in inbound[s]
Referenced(p) == \E s \in Session : p \in inbound[s]
Shown(p) == \E s \in Session : p \in outbound[s]

Clear(s) == /\ clear = Idle /\ lifecycle = None /\ ~Busy({s}) /\ Count("clears", MaxClears)
            /\ lifecycle' = "clear"
            /\ clear' = [pc |-> "rows", held |-> {s}, up |-> inbound[s], out |-> outbound[s]]
            /\ UNCHANGED <<files, rows, form, persona, shelf, edit, entry, turn, look, erased>>

ClearRows == /\ clear.pc = "rows"
             /\ inbound' = [s \in Session |-> IF s \in clear.held THEN {} ELSE inbound[s]]
             /\ outbound' = [s \in Session |-> IF s \in clear.held THEN {} ELSE outbound[s]]
             /\ clear' = [clear EXCEPT !.pc = "referenced"]
             /\ UNCHANGED <<files, row, known, form, locks, edit, entry, turn, look, erased, n>>

ReadReferences == /\ clear.pc = "referenced"
                  /\ clear' = [clear EXCEPT !.pc = "collect", !.up = {p \in @ : ~Referenced(p)},
                                                              !.out = {p \in @ : ~Shown(p)}]
                  /\ UNCHANGED <<files, rows, form, locks, edit, entry, turn, look, erased, n>>

CollectGarbage == /\ clear.pc = "collect"
                  /\ uploads' = uploads \ clear.up /\ media' = media \ clear.out
                  /\ clear' = Idle /\ lifecycle' = None
                  /\ UNCHANGED <<source, rows, form, persona, shelf, edit, entry, turn, look, erased, n>>

(* All local data of the user, under every lock but the last.              *)
Wipe == /\ clear = Idle /\ lifecycle = None /\ persona = None /\ turn = Idle /\ Count("clears", MaxClears)
        /\ lifecycle' = "clear" /\ persona' = "clear"
        /\ clear' = [pc |-> "wipe", held |-> Session]
        /\ UNCHANGED <<files, rows, form, shelf, edit, entry, turn, look, erased>>

WipeRows == /\ clear.pc = "wipe" /\ clear' = [clear EXCEPT !.pc = "purge"]
            /\ row' = [m \in Names |-> NoRow] /\ known' = {}
            /\ inbound' = [s \in Session |-> {}] /\ outbound' = [s \in Session |-> {}]
            /\ UNCHANGED <<files, form, locks, edit, entry, turn, look, erased, n>>

Purge == /\ clear.pc = "purge" /\ clear' = Idle /\ lifecycle' = None /\ persona' = None
         /\ uploads' = {} /\ media' = {} /\ source' = [m \in Names |-> None]
         /\ erased' = Picture
         /\ UNCHANGED <<rows, form, shelf, edit, entry, turn, look, n>>

Crash == /\ Count("crashes", MaxCrashes)
         /\ lifecycle' = None /\ persona' = None /\ shelf' = None
         /\ edit' = Idle /\ entry' = Idle /\ turn' = Idle /\ clear' = Idle
         /\ look' = [p \in Picture |-> "idle"]
         /\ UNCHANGED <<files, rows, form, erased>>

Next == \/ \E p \in Picture : SaveAttachment(p) \/ Understand(p) \/ ReadPicture(p) \/ SaveAnalysis(p)
        \/ \E s \in Session, p \in Picture : Ingest(s, p)
        \/ \E x \in Name : CollectFile(x)
        \/ \E m \in Names : \/ Delete(m) \/ \E to \in Names : RenameFile(m, to)
                           \/ \E p \in Picture : UploadFile(m, p)
        \/ \E s \in Session, m \in Names : Choose(s, m)
        \/ AppendInbound \/ CollectRow \/ UploadRow \/ Rename \/ RemoveOld \/ Publish \/ Prepare
        \/ \E s \in Session : Clear(s)
        \/ ClearRows \/ ReadReferences \/ CollectGarbage \/ Wipe \/ WipeRows \/ Purge \/ Crash

Spec == Init /\ [][Next]_vars

---------------------------------------------------------------------------
(* Whatever was under way when the process died, an expression that is     *)
(* listed has its source file, with the content its row tells: unless its  *)
(* name was the second choice of a picture collected meanwhile.            *)
RowHasFile == \A m \in Rows : ~row[m].taken => source[m] = row[m].pic

(* "生成稳定且不冲突的本地文件名" (_unique_collected_name): a collected      *)
(* picture leaves the file of every other expression alone.                *)
NeverTaken == \A m \in Rows : ~row[m].taken

(* A message that was accepted keeps its attachment: also when the same    *)
(* picture was in a session whose content is deleted meanwhile.            *)
InboundKept == \A s \in Session : inbound[s] \subseteq uploads

(* What an outbound row refers to can be sent.                             *)
OutboundKept == \A s \in Session : outbound[s] \subseteq media

(* "不触碰未提交上传" (garbage_collect_history_files): when one session's  *)
(* content is deleted, uploads not yet sent in a message remain.           *)
UploadsKept == [][form' = form /\ clear.pc = "collect" => form \cap uploads \subseteq uploads']_vars

(* Nothing that was derived from a deleted picture comes back.             *)
StaysErased == known \cap erased = {}
=============================================================================
