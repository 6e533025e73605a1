------------------------------- MODULE Channel -------------------------------
(***************************************************************************)
(* A platform plugin that listens (plugins/qq, plugins/onebot) and what    *)
(* becomes of an event: the connection with its retries and the resumption *)
(* of the QQ gateway, the admission by the host, the session and its       *)
(* members (plugins/_host/ingress.py), and the store.  One group session,  *)
(* one connection, one console.                                            *)
(***************************************************************************)
EXTENDS Integers, Sequences, FiniteSets, SequencesExt

CONSTANTS User,
          Resumes,       \* QQ resumes its gateway session, OneBot has none
          MaxAttempts,   \* max_reconnect_attempts
          MaxEvents, MaxDrops, MaxForms, MaxFaults   \* bounds

VARIABLES events,     \* what the platform has to tell: <<[by, role]>>
          platform,   \* the gateway session there: [known, sent] (sent: the last it pushed)
          link,       \* the task: [pc, attempts, seen (failures since it last was connected)]
          resume,     \* _gateway_session_id and _gateway_seq: [known, seq]
          inbox,      \* numbers of the events on the socket
          admitted,   \* does the host admit events of this generation?
          work,       \* the event in progress: [pc, n, view, revision, role]
          session,    \* [exists, members, revision]
          form,       \* what the console has open: the same, and how often it saved
          stored,     \* numbers of the events stored, in this order
          drops, forms, faults
vars == <<events, platform, link, resume, inbox, admitted, work, session, form, stored,
          drops, forms, faults>>

Roles == {"none", "member", "owner"}
None == [u \in User |-> "none"]
NoWork == [pc |-> "none", n |-> 0, view |-> None, revision |-> 0, role |-> "none"]
NoSession == [exists |-> FALSE, members |-> None, revision |-> 0]

TypeOK == /\ \A i \in DOMAIN events : events[i].by \in User /\ events[i].role \in Roles
          /\ platform.sent \in 0..Len(events) /\ resume.seq \in 0..Len(events)
          /\ link.pc \in {"off", "opening", "live", "wait", "dead"}
          /\ link.attempts \in 0..(MaxAttempts + 1)
          /\ work.pc \in {"none", "read", "update", "refresh", "again", "ingest"}
          /\ session.members \in [User -> Roles]
          /\ session.exists => Cardinality({u \in User : session.members[u] = "owner"}) = 1

Init == /\ events = <<>> /\ platform = [known |-> FALSE, sent |-> 0]
        /\ link = [pc |-> "off", attempts |-> 0, seen |-> 0]
        /\ resume = [known |-> FALSE, seq |-> 0] /\ inbox = <<>> /\ admitted = FALSE
        /\ work = NoWork /\ session = NoSession
        /\ form = [open |-> FALSE, members |-> None, revision |-> 0] /\ stored = <<>>
        /\ drops = 0 /\ forms = 0 /\ faults = 0

---------------------------------------------------------------------------
(* The platform, external: somebody writes; a session it knows is told     *)
(* what happened since, and sometimes what it has been told already.       *)
Write(u, role) == /\ Len(events) < MaxEvents
                  /\ events' = Append(events, [by |-> u, role |-> role])
                  /\ UNCHANGED <<platform, link, resume, inbox, admitted, work, session, form,
                                 stored, drops, forms, faults>>

Push == /\ link.pc = "live" /\ platform.sent < Len(events)
        /\ platform' = [platform EXCEPT !.sent = @ + 1]
        /\ inbox' = Append(inbox, platform.sent + 1)
        /\ UNCHANGED <<events, link, resume, admitted, work, session, form, stored,
                       drops, forms, faults>>

---------------------------------------------------------------------------
(* activate, ready, the publication of the generation, deactivate.         *)
Activate == /\ link.pc = "off"
            /\ link' = [pc |-> "opening", attempts |-> 0, seen |-> 0]
            /\ UNCHANGED <<events, platform, resume, inbox, admitted, work, session, form,
                           stored, drops, forms, faults>>

Publish == /\ link.pc = "live" /\ ~admitted
           /\ admitted' = TRUE
           /\ UNCHANGED <<events, platform, link, resume, inbox, work, session, form, stored,
                          drops, forms, faults>>

(* The gateway resumes the session it is told, or starts a new one; then   *)
(* what happened meanwhile is gone.                                        *)
Open == /\ link.pc = "opening"
        /\ link' = [link EXCEPT !.pc = "live", !.seen = 0]
        /\ IF Resumes /\ resume.known /\ platform.known
           THEN /\ \E from \in 0..resume.seq : platform' = [platform EXCEPT !.sent = from]
                /\ UNCHANGED resume
           ELSE /\ platform' = [known |-> TRUE, sent |-> Len(events)]
                /\ resume' = [known |-> TRUE, seq |-> Len(events)]
        /\ UNCHANGED <<events, inbox, admitted, work, session, form, stored, drops, forms, faults>>

(* Failures are counted together until a connection ends in good order.    *)
Failed == [pc |-> IF link.attempts = MaxAttempts THEN "dead" ELSE "wait",
           attempts |-> link.attempts + 1, seen |-> link.seen + 1]
Refuse == /\ link.pc = "opening" /\ drops < MaxDrops
          /\ drops' = drops + 1
          /\ link' = Failed
          /\ UNCHANGED <<events, platform, resume, inbox, admitted, work, session, form, stored,
                         forms, faults>>

Lose == /\ link.pc = "live" /\ work = NoWork /\ drops < MaxDrops
        /\ drops' = drops + 1
        /\ \/ link' = Failed /\ UNCHANGED <<platform, resume>>
           \/ /\ link' = [link EXCEPT !.pc = "opening", !.attempts = 0]    \* opcode 7, a close frame
              /\ UNCHANGED <<platform, resume>>
           \/ /\ link' = [link EXCEPT !.pc = "opening", !.attempts = 0]    \* opcode 9
              /\ platform' = [known |-> FALSE, sent |-> 0]
              /\ resume' = [known |-> FALSE, seq |-> 0]
        /\ inbox' = <<>>
        /\ UNCHANGED <<events, admitted, work, session, form, stored, forms, faults>>

Retry == /\ link.pc = "wait"
         /\ link' = [link EXCEPT !.pc = "opening"]
         /\ UNCHANGED <<events, platform, resume, inbox, admitted, work, session, form, stored,
                        drops, forms, faults>>

---------------------------------------------------------------------------
(* One event after another, each to its end.  What is not admitted, and    *)
(* what normalises to nothing, is left.                                    *)
Receive == LET n == Head(inbox) IN
    /\ link.pc = "live" /\ work = NoWork /\ inbox # <<>>
    /\ inbox' = Tail(inbox)
    /\ resume' = [resume EXCEPT !.seq = n]
    /\ work' = IF admitted THEN [NoWork EXCEPT !.pc = "read", !.n = n] ELSE NoWork
    /\ UNCHANGED <<events, platform, link, admitted, session, form, stored, drops, forms, faults>>

By == events[work.n].by
Only(u) == [None EXCEPT ![u] = "owner"]
Owners(members) == {u \in User : members[u] = "owner"}

(* accept: a new session belongs to the sender; a member that is known     *)
(* with this role is not written.                                          *)
Role(view) == LET role == events[work.n].role IN
    IF role = "owner" \/ view[By] = "owner" \/ Owners(view) = {} THEN "owner" ELSE role
Accept == /\ work.pc = "read"
          /\ IF ~session.exists
             THEN /\ session' = [session EXCEPT !.exists = TRUE, !.members = Only(By)]
                  /\ work' = [work EXCEPT !.pc = "ingest"]
             ELSE /\ work' = [work EXCEPT !.view = session.members, !.revision = session.revision,
                                !.role = Role(session.members),
                                !.pc = IF session.members[By] = Role(session.members)
                                       THEN "ingest" ELSE "update"]
                  /\ UNCHANGED session
          /\ UNCHANGED <<events, platform, link, resume, inbox, admitted, form, stored,
                         drops, forms, faults>>

(* The sender with the role, and nobody else an owner beside it; without   *)
(* an owner the first of the list becomes one.                             *)
Placed(members, role) ==
    [u \in User |-> IF u = By THEN role
                    ELSE IF role = "owner" /\ members[u] = "owner" THEN "member" ELSE members[u]]
First(members) == CHOOSE u \in User : members[u] # "none"
Normal(members) == IF Owners(members) = {} THEN [members EXCEPT ![First(members)] = "owner"]
                   ELSE members
Desired == Normal(Placed(work.view, work.role))

Reject == /\ link' = [link EXCEPT !.pc = "dead"] /\ work' = NoWork /\ UNCHANGED session
Saved(pc) == /\ session' = [session EXCEPT !.members = Desired, !.revision = @ + 1]
             /\ work' = [work EXCEPT !.pc = pc] /\ UNCHANGED link

Update == /\ work.pc = "update"
          /\ CASE ~session.exists -> Reject
               [] session.exists /\ session.revision = work.revision -> Saved("ingest")
               [] OTHER -> work' = [work EXCEPT !.pc = "refresh"] /\ UNCHANGED <<session, link>>
          /\ UNCHANGED <<events, platform, resume, inbox, admitted, form, stored,
                         drops, forms, faults>>

(* A conflict can only come from the console: the latest members, with the *)
(* role that was found before.                                             *)
Stale == [work EXCEPT !.revision = session.revision, !.pc = "again"]
Latest == [work EXCEPT !.revision = session.revision, !.pc = "again",
                       !.view = session.members]
Refresh == /\ work.pc = "refresh"
           /\ IF session.exists THEN work' = Latest /\ UNCHANGED <<session, link>> ELSE Reject
           /\ UNCHANGED <<events, platform, resume, inbox, admitted, form, stored,
                          drops, forms, faults>>
Again == /\ work.pc = "again"
         /\ IF session.exists /\ session.revision = work.revision THEN Saved("ingest") ELSE Reject
         /\ UNCHANGED <<events, platform, resume, inbox, admitted, form, stored,
                        drops, forms, faults>>

(* ingest: the sender must be a member; an event that is stored already is *)
(* a duplicate.  What the host raises here ends the connection as a        *)
(* failure, what the core rejects ends the task.                           *)
Appended == IF work.n \in Range(stored) THEN stored ELSE Append(stored, work.n)
Ingest == /\ work.pc = "ingest"
          /\ \/ /\ session.exists /\ session.members[By] # "none"
                /\ stored' = Appended /\ work' = NoWork
                /\ UNCHANGED <<link, inbox, session, faults>>
             \/ /\ ~session.exists \/ session.members[By] = "none"
                /\ Reject /\ UNCHANGED <<stored, inbox, faults>>
             \/ /\ faults < MaxFaults /\ faults' = faults + 1
                /\ link' = Failed /\ inbox' = <<>> /\ work' = NoWork
                /\ UNCHANGED <<stored, session>>
          /\ UNCHANGED <<events, platform, resume, admitted, form, drops, forms>>

---------------------------------------------------------------------------
(* The console: a form shows the members, and is saved with its revision.  *)
OpenForm == /\ session.exists /\ ~form.open /\ forms < MaxForms
            /\ form' = [open |-> TRUE, members |-> session.members, revision |-> session.revision]
            /\ UNCHANGED <<events, platform, link, resume, inbox, admitted, work, session, stored,
                           drops, forms, faults>>
SaveForm(members) == /\ form.open /\ members # None /\ Cardinality(Owners(members)) = 1
                     /\ session' = IF session.exists /\ session.revision = form.revision
                                   THEN [session EXCEPT !.members = members, !.revision = @ + 1]
                                   ELSE session
                     /\ form' = [form EXCEPT !.open = FALSE]
                     /\ forms' = forms + 1
                     /\ UNCHANGED <<events, platform, link, resume, inbox, admitted, work, stored,
                                    drops, faults>>
Delete == /\ session.exists /\ forms < MaxForms
          /\ session' = NoSession
          /\ stored' = <<>>
          /\ forms' = forms + 1
          /\ UNCHANGED <<events, platform, link, resume, inbox, admitted, work, form, drops, faults>>

Next == \/ \E u \in User, role \in {"member", "owner"} : Write(u, role)
        \/ Push \/ Activate \/ Publish \/ Open \/ Refuse \/ Lose \/ Retry
        \/ Receive \/ Accept \/ Update \/ Refresh \/ Again \/ Ingest
        \/ OpenForm \/ (\E members \in [User -> Roles] : SaveForm(members)) \/ Delete

Spec == Init /\ [][Next]_vars
(* The task runs, and the platform pushes.                                 *)
FairSpec == /\ Spec /\ WF_vars(Push) /\ WF_vars(Open) /\ WF_vars(Retry) /\ WF_vars(Publish)
            /\ WF_vars(Receive \/ Accept \/ Update \/ Refresh \/ Again \/ Ingest)

---------------------------------------------------------------------------
(* "Gateway 重连补发不会重复入库" (plugins/qq/README.md): whatever is told   *)
(* again after a reconnection, an event is stored once.                    *)
StoredOnce == IsInjective(stored)

(* The synchronisation of a sender undoes nothing the console saved in     *)
(* between: all others stay members or not, as they were.  Only ownership   *)
(* moves, from another to the sender, or to another when the sender alone   *)
(* had it.                                                                 *)
Syncs == work.pc \in {"update", "again"} /\ work' # work /\ session' # session
OthersKept == [][Syncs =>
                    \A u \in User \ {By} :
                      LET was == session.members[u]
                          is == session'.members[u]
                      IN  \/ is = was
                          \/ was = "owner" /\ is = "member" /\ session'.members[By] = "owner"
                          \/ was = "member" /\ is = "owner" /\ Owners(session.members) \subseteq {By}]_vars

(* "Gateway 会保存 Session 与序列号并优先 Resume" (README): an event whose   *)
(* handling failed with the connection is told again after the resumption. *)
ToldAgain == \A n \in 1..MaxEvents :
    (n \in Range(inbox) /\ admitted) ~>
        (n \in Range(stored) \/ link.pc = "dead" \/ ~platform.known \/ ~session.exists)

(* "不能因此撤销核心 owner" (ingress.py): a message of an ordinary member   *)
(* does not move the ownership the console has given.                      *)
OwnerStands == [][Syncs /\ events[work.n].role = "member" /\ Owners(session.members) # {}
                    => Owners(session'.members) = Owners(session.members)]_vars

(* "连续 8 次重连失败后明确离线" (plugins/qq/README.md): the task gives up   *)
(* after failures in a row, and only then.                                 *)
OfflineAfterFailures == link.pc = "dead" => link.seen > MaxAttempts
=============================================================================
