------------------------------ MODULE MCEdges -------------------------------
(***************************************************************************)
(* The edges of the system: the task of a platform's connection, the sends *)
(* of a platform, a turn with tools, when the agent speaks in a group, the *)
(* pictures, the lock of the workspace, the calls of the models, a service *)
(* that serves a plugin from a process of its own, and the foundry of skills. *)
(* They share no state here: a behaviour is one of one part, and the constant *)
(* Parts says which are checked.                                           *)
(***************************************************************************)
EXTENDS Integers, Sequences, FiniteSets, TLC

CONSTANTS Parts,
          User, Resumes, MaxAttempts, MaxEvents, MaxDrops, MaxForms,
          MaxLineFaults,
          Platform, Outgoing, Null, MaxRetries, MaxGaps, MaxLosses,
          MaxRounds, MaxCalls, Repetitions, MaxCycle, Failures, Outcome,
          MaxRoleChanges, MaxLoops,
          Cooldown, QuietTime, Bubbles, Lag, MaxTime, MaxDecisions, MaxChanges,
          MaxManual, MaxFaults, MaxOdd,
          Picture, Session, Name, Capacity, MaxUploads, MaxEdits, MaxTurns,
          MaxClears, MaxLooks, MaxCrashes, MaxOps,
          Secret, MaxWrites, MaxRestores, MaxFailures, MaxStops,
          Call, Kinds, Generation, MaxTries, MaxConcurrency, Gap, MaxCool,
          MaxModelFaults,
          Request, MaxPending, MaxAbandoned, Hangs,
          Job, Part, Foreign, Same, MaxScripts, MaxDeaths, MaxTouches

Token == [of : Nat, fresh : BOOLEAN]
ASSUME EdgesAssumption ==
  /\ Cooldown \subseteq Nat /\ MaxLoops \in Nat \ {0}
  /\ Null \notin Nat \cup Outgoing \cup Token \cup Job \cup Picture
                 \cup {"app", "backup", "restore", "edit", "entry", "clear"}
  /\ Null \notin [Secret -> Nat \cup {Null}]

VARIABLES part,
          events, gateway, link, resume, inbox, admitted, work, session,
          console, stored, drops, forms, faults,
          platform, token, sender, accepted, send, status, reached, sends,
          at, round, todo, made, loaded, claimed, result, late, ended,
          failures, history, observed, audit, role, held, tries, acted, changes,
          now, policy, pending, decision, replies, batch, left, group_n,
          uploads, media, source, row, known, inbound, outbound, form,
          lifecycle, persona, shelf, edit, entry, turn, clear, look, erased,
          library_n,
          holder, data, prompt, config, refs, choice, backup, task, job, seen,
          lock_n,
          owner, prov, gate, call, conf, phase, failed, workspace,
          model_faults, shown,
          process, hung, reader, stop, pipe, owed, answers, req, abandoned,
          build, written, staging, target, handled, confirmed, ran, crashes,
          touched

Line == INSTANCE Channel WITH MaxFaults <- MaxLineFaults, platform <- gateway,
        form <- console
Sender == INSTANCE Sending WITH Message <- Outgoing, None <- Null,
          holder <- sender, m <- sends
Tools == INSTANCE ToolTurn WITH Result <- Outcome, MaxFailures <- Failures,
         seen <- observed
Group == INSTANCE GroupParticipation WITH None <- Null, Quiet <- QuietTime,
         MaxRetries <- MaxManual,
         MaxTurns <- MaxDecisions, turn <- decision, sending <- batch,
         n <- group_n
Pictures == INSTANCE Library WITH None <- Null, Slots <- Capacity,
            n <- library_n
Lock == INSTANCE Workspace WITH None <- Null, MaxEdits <- MaxWrites, MaxCrashes <- MaxStops,
        n <- lock_n
Model == INSTANCE ModelProvider WITH MaxAttempts <- MaxTries,
         MaxFaults <- MaxModelFaults, faults <- model_faults
Service == INSTANCE ManagedService
Foundry == INSTANCE SkillFoundry WITH None <- Null, MaxCrashes <- MaxDeaths,
           MaxChanges <- MaxTouches, job <- build, draft <- written,
           at <- handled, changes <- touched

channel == <<events, gateway, link, resume, inbox, admitted, work, session,
             console, stored, drops, forms, faults>>
sending == <<platform, token, sender, accepted, send, status, reached, sends>>
tools == <<at, round, todo, made, loaded, claimed, result, late, ended,
           failures, history, observed, audit, role, held, tries, acted, changes>>
group == <<now, policy, pending, decision, replies, batch, left, group_n>>
library == <<uploads, media, source, row, known, inbound, outbound, form,
             lifecycle, persona, shelf, edit, entry, turn, clear, look,
             erased, library_n>>
disk == <<holder, data, prompt, config, refs, choice, backup, task, job, seen,
          lock_n>>
model == <<owner, prov, gate, call, conf, phase, failed, workspace,
           model_faults, shown>>
service == <<process, hung, reader, stop, pipe, owed, answers, req,
             abandoned>>
foundry == <<build, written, staging, target, handled, confirmed, ran,
             crashes, touched>>
vars == <<part, channel, sending, tools, group, library, disk, model, service,
          foundry>>

Init == /\ part \in Parts
        /\ Line!Init /\ Sender!Init /\ Tools!Init /\ Group!Init
        /\ Pictures!Init /\ Lock!Init /\ Model!Init /\ Service!Init
        /\ Foundry!Init
        /\ (part # "sending" => platform = "qq")

OfLine(A) == /\ part = "channel" /\ A
             /\ UNCHANGED <<part, sending, tools, group, library, disk, model,
                            service, foundry>>
OfSender(A) == /\ part = "sending" /\ A
               /\ UNCHANGED <<part, channel, tools, group, library, disk,
                              model, service, foundry>>
OfTools(A) == /\ part = "tools" /\ A
              /\ UNCHANGED <<part, channel, sending, group, library, disk,
                             model, service, foundry>>
OfGroup(A) == /\ part = "group" /\ A
              /\ UNCHANGED <<part, channel, sending, tools, library, disk,
                             model, service, foundry>>
OfPictures(A) == /\ part = "library" /\ A
                 /\ UNCHANGED <<part, channel, sending, tools, group, disk,
                                model, service, foundry>>
OfLock(A) == /\ part = "disk" /\ A
             /\ UNCHANGED <<part, channel, sending, tools, group, library,
                            model, service, foundry>>
OfModel(A) == /\ part = "model" /\ A
              /\ UNCHANGED <<part, channel, sending, tools, group, library,
                             disk, service, foundry>>
OfService(A) == /\ part = "service" /\ A
                /\ UNCHANGED <<part, channel, sending, tools, group, library,
                               disk, model, foundry>>
OfFoundry(A) == /\ part = "foundry" /\ A
                /\ UNCHANGED <<part, channel, sending, tools, group, library,
                               disk, model, service>>

Next == \/ OfLine(Line!Next) \/ OfSender(Sender!Next)
        \/ OfTools(Tools!Next) \/ OfGroup(Group!Next)
        \/ OfPictures(Pictures!Next) \/ OfLock(Lock!Next)
        \/ OfModel(Model!Next) \/ OfService(Service!Next)
        \/ OfFoundry(Foundry!Next)

(* The fairness of Channel and of ManagedService; nothing is promised of   *)
(* the others.                                                             *)
Spec == /\ Init /\ [][Next]_vars
        /\ WF_vars(OfLine(Line!Push)) /\ WF_vars(OfLine(Line!Open))
        /\ WF_vars(OfLine(Line!Retry)) /\ WF_vars(OfLine(Line!Publish))
        /\ WF_vars(OfLine(Line!Receive \/ Line!Accept \/ Line!Update
                          \/ Line!Refresh \/ Line!Again \/ Line!Ingest))
        /\ WF_vars(OfService(Service!Handshake)) /\ WF_vars(OfService(Service!Serve))
        /\ WF_vars(OfService(Service!EndOfFile))
        /\ WF_vars(OfService(Service!Notified)) /\ WF_vars(OfService(Service!Ended))
        /\ \A r \in Request :
             /\ WF_vars(OfService(Service!Drain(r))) /\ WF_vars(OfService(Service!Resume(r)))
             /\ WF_vars(OfService(Service!TimeOut(r) \/ Service!Resume(r)))
             /\ WF_vars(OfService(Service!Closed(r))) /\ SF_vars(OfService(Service!Write(r)))

(* A behaviour uses up some of the bounds, not all of them: so many        *)
(* disturbances of a group, and so many operations on pictures.            *)
Within == /\ group_n.changes + group_n.retries + group_n.faults <= MaxOdd
          /\ library_n.uploads + library_n.edits + library_n.turns
               + library_n.clears + library_n.looks + library_n.crashes <= MaxOps

---------------------------------------------------------------------------
(* Channel: a message is stored once, however often it is told.            *)
StoredOnce == Line!StoredOnce
(* Channel: the synchronisation of one sender leaves the other members,    *)
(* but for who is the owner.                                               *)
OthersKept == Line!OthersKept
(* Channel: a message of a member does not move the ownership.             *)
OwnerStands == Line!OwnerStands
(* Channel: the task gives up after failures in a row only.                *)
OfflineAfterFailures == Line!OfflineAfterFailures
(* Channel: an event whose handling failed is told again.                  *)
ToldAgain == part = "channel" => Line!ToldAgain
(* Sending: one token is asked for, however many need one.                 *)
SharedRefresh == Sender!SharedRefresh
(* Sending: what was delivered is not told to have failed.                 *)
ReachedOnce == Sender!ReachedOnce
(* Sending: a token the platform accepts stays in the cache.               *)
GoodTokenKept == Sender!GoodTokenKept
(* ToolTurn: a run of the tool loop changes the group at most once.        *)
OnceALoop == Tools!OnceALoop
(* ToolTurn: the breaker trips exactly at a cycle or a row of failures.    *)
TripsExactly == Tools!TripsExactly
(* ToolTurn: no call of a run that is over is left open in the audit.      *)
AuditSettled == Tools!AuditSettled
(* GroupParticipation: an ordinary reply waits for the pause.              *)
PauseKept == Group!PauseKept
(* GroupParticipation: one reply ends the back-off once.                   *)
ResetOnce == Group!ResetOnce
(* GroupParticipation: turns without quiet time leave the back-off.        *)
BackoffStands == Group!BackoffStands
(* GroupParticipation: a late record leaves later idle turns.              *)
LateReset == Group!LateReset
(* Library: a listed expression has its source file, but for the names     *)
(* that a collected picture took.                                          *)
RowHasFile == Pictures!RowHasFile
(* Library: a collected picture takes no name that is in use.              *)
NeverTaken == Pictures!NeverTaken
(* Library: an accepted message keeps its attachment.                      *)
InboundKept == Pictures!InboundKept
(* Library: what an outbound row refers to can be sent.                    *)
OutboundKept == Pictures!OutboundKept
(* Library: uploads not yet sent survive the collection.                   *)
UploadsKept == Pictures!UploadsKept
(* Library: what is known of a deleted picture stays gone.                 *)
StaysErased == Pictures!StaysErased
(* Workspace: a backup is the data of one moment.                          *)
BackupWhole == Lock!BackupWhole
(* Workspace: a restore leaves the backup, or what there was.              *)
RestoredOrKept == Lock!RestoredOrKept
(* Workspace: a reference of the settings has its credential, unless that  *)
(* is being cleared.                                                       *)
ReferencesResolve == Lock!ReferencesResolve
(* Workspace: a process that dies leaves references that resolve.          *)
ReferencesStand == Lock!ReferencesStand
(* Workspace: a character can be read, whatever happened.                  *)
PersonaReadable == Lock!PersonaReadable
(* Workspace: a restored workspace can be started.                         *)
RestoredStarts == Lock!RestoredStarts
(* Workspace: the character in use is the one on disk.                     *)
ChoiceKept == Lock!ChoiceKept
(* ModelProvider: a provider in use is not closed.                         *)
ClosedUnused == Model!ClosedUnused
(* ModelProvider: what was shown is not said again.                        *)
SaidOnce == Model!SaidOnce
(* ModelProvider: attempts are recorded while the store is open.           *)
RecordsLand == Model!RecordsLand
(* ModelProvider: no request starts during a cooldown.                     *)
CoolingHeard == Model!CoolingHeard
(* ModelProvider: the limit of requests is the process's.                  *)
GateOfProcess == Model!GateOfProcess
(* ManagedService: a late answer never passes for a breach.                *)
NeverMisjudged == Service!NeverMisjudged
(* ManagedService: every request ends.                                     *)
RequestEnds == part = "service" => Service!RequestEnds
(* ManagedService: stop() ends.                                            *)
StopEnds == part = "service" => Service!StopEnds
(* ManagedService: what is recorded as late is still owed.                 *)
OnlyLate == Service!OnlyLate
(* SkillFoundry: what runs was tested and confirmed.                       *)
RunsReviewed == Foundry!RunsReviewed
(* SkillFoundry: a skill that is there is not overwritten.                 *)
NeverOverwrites == Foundry!NeverOverwrites
(* SkillFoundry: only an installation has a copy in installing/.           *)
StagingOnlyInstalling == Foundry!StagingOnlyInstalling
(* SkillFoundry: an interrupted installation can be taken up.              *)
InstallRecovers == Foundry!InstallRecovers
(* SkillFoundry: an intact installed skill can be executed.                *)
Executable == Foundry!Executable
(* SkillFoundry: an interrupted build does not stay in the middle.         *)
BuildEnds == Foundry!BuildEnds
=============================================================================
