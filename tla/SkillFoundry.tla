---------------------------- MODULE SkillFoundry ----------------------------
(***************************************************************************)
(* The skill foundry (plugins/skill_foundry/controller.py): jobs that      *)
(* build a skill, test its scripts, freeze a revision, wait for the        *)
(* confirmation of their owner and install it.  The service works one      *)
(* request at a time; it may die between any two writes, and the user may  *)
(* change or remove files under it.  All jobs here build a skill of one    *)
(* name.  A directory is its content: nothing, a part of a copy, what a    *)
(* job generates, or something foreign.                                    *)
(***************************************************************************)
EXTENDS Integers, FiniteSets

CONSTANTS Job, None, Part, Foreign,
          Same,         \* do the jobs generate the same files?
          MaxScripts,   \* scripts of a job (8 in the code)
          MaxCrashes, MaxChanges    \* bounds: deaths of the service, changes from outside

VARIABLES job,        \* job.json: [state, scripts, tested, frozen]
          draft, staging,   \* the draft/ and installing/ directories of each job
          target,     \* the directory of the skill under skills/
          at,         \* the request in progress: [pc, job]
          confirmed,  \* the revisions whose phrase an owner sent
          ran,        \* the last script execution: [job, source]
          crashes, changes
vars == <<job, draft, staging, target, at, confirmed, ran, crashes, changes>>

Made == CHOOSE j \in Job : TRUE
Content(j) == IF Same THEN Made ELSE j
Tree == Job \cup {None, Part, Foreign}
States == {"NONE", "DRAFT", "GENERATING", "VALIDATING", "TESTING", "REVIEW_PENDING",
           "INSTALLING", "INSTALLED", "REJECTED", "FAILED"}

TypeOK == /\ job \in [Job -> [state : States, scripts : 0..MaxScripts, tested : Tree, frozen : Tree]]
          /\ draft \in [Job -> Tree] /\ staging \in [Job -> Tree] /\ target \in Tree
          /\ at.job \in Job \cup {None}
          /\ confirmed \subseteq Tree
          /\ ran.job \in Job \cup {None} /\ ran.source \in Tree
          /\ crashes \in 0..MaxCrashes /\ changes \in 0..MaxChanges

Rest == [pc |-> "rest", job |-> None]
Init == /\ job = [j \in Job |-> [state |-> "NONE", scripts |-> 0, tested |-> None, frozen |-> None]]
        /\ draft = [j \in Job |-> None] /\ staging = [j \in Job |-> None] /\ target = None
        /\ at = Rest /\ confirmed = {} /\ ran = [job |-> None, source |-> None]
        /\ crashes = 0 /\ changes = 0

Goto(j, pc) == at' = [pc |-> pc, job |-> j]
At(j, pc) == at = [pc |-> pc, job |-> j]
Resting == at = Rest
Save(j, s) == job' = [job EXCEPT ![j].state = s]

---------------------------------------------------------------------------
(* create, begin, add_script, finalize: a draft, and perhaps its build.    *)
Started(j, build) == IF build THEN Save(j, "GENERATING") /\ Goto(j, "generate")
                   ELSE Save(j, "DRAFT") /\ UNCHANGED at

Begin(j) == /\ Resting /\ job[j].state = "NONE"
            /\ \E build \in BOOLEAN : Started(j, build)
            /\ UNCHANGED <<draft, staging, target, confirmed, ran, crashes, changes>>

AddScript(j) == /\ Resting /\ job[j].state = "DRAFT" /\ job[j].scripts < MaxScripts
                /\ \E build \in BOOLEAN :
                     /\ job' = [job EXCEPT ![j].scripts = @ + 1,
                                           ![j].state = IF build THEN "GENERATING" ELSE "DRAFT"]
                     /\ IF build THEN Goto(j, "generate") ELSE UNCHANGED at
                /\ UNCHANGED <<draft, staging, target, confirmed, ran, crashes, changes>>

Finalize(j) == /\ Resting /\ job[j].state = "DRAFT"
               /\ Started(j, TRUE)
               /\ UNCHANGED <<draft, staging, target, confirmed, ran, crashes, changes>>

(* _build_job: what a step raises ends the job.                            *)
Fail(j) == Save(j, "FAILED") /\ at' = Rest

Generate(j) == /\ At(j, "generate")
               /\ \/ /\ draft[j] = None
                     /\ draft' = [draft EXCEPT ![j] = Content(j)]
                     /\ Save(j, "VALIDATING") /\ Goto(j, "validate")
                  \/ /\ \E left \in {draft[j], Part} : draft' = [draft EXCEPT ![j] = left]
                     /\ Fail(j)
               /\ UNCHANGED <<staging, target, confirmed, ran, crashes, changes>>

Validate(j) == /\ At(j, "validate")
               /\ \/ draft[j] \notin {None, Part} /\ Save(j, "TESTING") /\ Goto(j, "test")
                  \/ draft[j] # Content(j) /\ Fail(j)
               /\ UNCHANGED <<draft, staging, target, confirmed, ran, crashes, changes>>

Test(j) == /\ At(j, "test")
           /\ \/ /\ draft[j] \notin {None, Part}
                 /\ job' = [job EXCEPT ![j].tested = draft[j]]
                 /\ Goto(j, "freeze")
              \/ Fail(j)
           /\ UNCHANGED <<draft, staging, target, confirmed, ran, crashes, changes>>

Freeze(j) == /\ At(j, "freeze")
             /\ \/ /\ draft[j] # None
                   /\ job' = [job EXCEPT ![j].frozen = draft[j], ![j].state = "REVIEW_PENDING"]
                   /\ at' = Rest
                \/ draft[j] = None /\ Fail(j)
             /\ UNCHANGED <<draft, staging, target, confirmed, ran, crashes, changes>>

---------------------------------------------------------------------------
(* approve and reject, with the phrase that names the frozen revision.     *)
Valid(tree, j) == tree = job[j].frozen
Approve(j) == /\ Resting /\ job[j].state = "REVIEW_PENDING"
              /\ Valid(draft[j], j) /\ draft[j] # Part
              /\ target = None /\ staging[j] = None
              /\ confirmed' = confirmed \cup {job[j].frozen}
              /\ Save(j, "INSTALLING") /\ Goto(j, "reconcile")
              /\ UNCHANGED <<draft, staging, target, ran, crashes, changes>>

Reject(j) == /\ Resting /\ job[j].state = "REVIEW_PENDING"
             /\ Save(j, "REJECTED")
             /\ UNCHANGED <<draft, staging, target, at, confirmed, ran, crashes, changes>>

(* get, list, preview, approve and reject all take up an installation that *)
(* was left behind.                                                        *)
Resume(j) == /\ Resting /\ job[j].state = "INSTALLING"
             /\ Goto(j, "reconcile")
             /\ UNCHANGED <<job, draft, staging, target, confirmed, ran, crashes, changes>>

(* _reconcile_install: it goes on from what lies on the disk, and raises   *)
(* at any content that is not the frozen revision.                         *)
FoundTarget(j) == /\ target # None
                  /\ \/ /\ Valid(target, j) /\ staging[j] = None
                        /\ Goto(j, "commit") /\ UNCHANGED staging
                     \/ /\ Valid(target, j) /\ Valid(staging[j], j)
                        /\ staging' = [staging EXCEPT ![j] = Part]
                        /\ Goto(j, "remove")
                     \/ /\ ~Valid(target, j) \/ (staging[j] # None /\ ~Valid(staging[j], j))
                        /\ at' = Rest /\ UNCHANGED staging
NoTarget(j) == /\ target = None
               /\ \/ /\ staging[j] # None
                     /\ Goto(j, "verify") /\ UNCHANGED staging
                  \/ /\ staging[j] = None /\ Valid(draft[j], j)
                     /\ staging' = [staging EXCEPT ![j] = Part]
                     /\ Goto(j, "copy")
                  \/ /\ staging[j] = None /\ ~Valid(draft[j], j)
                     /\ at' = Rest /\ UNCHANGED staging
Reconcile(j) == /\ At(j, "reconcile")
                /\ FoundTarget(j) \/ NoTarget(j)
                /\ UNCHANGED <<job, draft, target, confirmed, ran, crashes, changes>>

Remove(j) == /\ At(j, "remove")
             /\ staging' = [staging EXCEPT ![j] = None]
             /\ Goto(j, "commit")
             /\ UNCHANGED <<job, draft, target, confirmed, ran, crashes, changes>>

Copy(j) == /\ At(j, "copy")
           /\ staging' = [staging EXCEPT ![j] = draft[j]]
           /\ Goto(j, "verify")
           /\ UNCHANGED <<job, draft, target, confirmed, ran, crashes, changes>>

Verify(j) == /\ At(j, "verify")
             /\ IF Valid(staging[j], j) THEN Goto(j, "replace") ELSE at' = Rest
             /\ UNCHANGED <<job, draft, staging, target, confirmed, ran, crashes, changes>>

(* os.replace onto a directory that is not empty fails.                    *)
Replace(j) == /\ At(j, "replace")
              /\ IF target = None
                 THEN /\ target' = staging[j] /\ staging' = [staging EXCEPT ![j] = None]
                      /\ Goto(j, "check")
                 ELSE at' = Rest /\ UNCHANGED <<target, staging>>
              /\ UNCHANGED <<job, draft, confirmed, ran, crashes, changes>>

Check(j) == /\ At(j, "check")
            /\ IF Valid(target, j) THEN Goto(j, "commit") ELSE at' = Rest
            /\ UNCHANGED <<job, draft, staging, target, confirmed, ran, crashes, changes>>

Commit(j) == /\ At(j, "commit")
             /\ Save(j, "INSTALLED") /\ at' = Rest
             /\ UNCHANGED <<draft, staging, target, confirmed, ran, crashes, changes>>

---------------------------------------------------------------------------
(* execute_script: the only job with this name that is installed, the      *)
(* manifest of the directory, the test evidence; then the source is read   *)
(* and compared once more, and that text runs.                             *)
Installed == {j \in Job : job[j].state = "INSTALLED"}
Execute(j) == /\ Resting /\ Installed = {j}
              /\ Valid(target, j) /\ job[j].tested = job[j].frozen
              /\ Goto(j, "read")
              /\ UNCHANGED <<job, draft, staging, target, confirmed, ran, crashes, changes>>
ReadUnchecked(j) == /\ At(j, "read") /\ target # None
                    /\ ran' = [job |-> j, source |-> target] /\ at' = Rest
                    /\ UNCHANGED <<job, draft, staging, target, confirmed, crashes, changes>>
Read(j) == /\ At(j, "read")
           /\ ran' = IF Valid(target, j) THEN [job |-> j, source |-> target] ELSE ran
           /\ at' = Rest
           /\ UNCHANGED <<job, draft, staging, target, confirmed, crashes, changes>>

---------------------------------------------------------------------------
Crash == /\ ~Resting /\ crashes < MaxCrashes
         /\ crashes' = crashes + 1
         /\ at' = Rest
         /\ UNCHANGED <<job, draft, staging, target, confirmed, ran, changes>>

(* The user edits a draft or a copy, or adds, edits or removes the skill.  *)
Outside == /\ changes < MaxChanges
           /\ changes' = changes + 1
           /\ \/ \E j \in Job : /\ draft[j] # None
                                /\ draft' = [draft EXCEPT ![j] = Foreign]
                                /\ UNCHANGED <<staging, target>>
              \/ \E j \in Job : /\ staging[j] # None
                                /\ staging' = [staging EXCEPT ![j] = Foreign]
                                /\ UNCHANGED <<draft, target>>
              \/ target' \in {None, Foreign} /\ UNCHANGED <<draft, staging>>
           /\ UNCHANGED <<job, at, confirmed, ran, crashes>>

Next == \/ \E j \in Job : \/ Begin(j) \/ AddScript(j) \/ Finalize(j)
                          \/ Generate(j) \/ Validate(j) \/ Test(j) \/ Freeze(j)
                          \/ Approve(j) \/ Reject(j) \/ Resume(j) \/ Reconcile(j) \/ Remove(j)
                          \/ Copy(j) \/ Verify(j) \/ Replace(j) \/ Check(j) \/ Commit(j)
                          \/ Execute(j) \/ Read(j)
        \/ Crash \/ Outside

Spec == Init /\ [][Next]_vars

---------------------------------------------------------------------------
(* What runs is, byte for byte, a source that was tested and whose         *)
(* revision its owner confirmed, however drafts, copies and the installed  *)
(* directory were changed before, during and after the installation.       *)
RunsReviewed == ran.job # None =>
    /\ ran.source = job[ran.job].frozen /\ ran.source = job[ran.job].tested
    /\ ran.source \in confirmed

(* "同名 Skill 不覆盖" (README): no step of the service changes or removes  *)
(* a skill that is there, also one that appears while it installs.         *)
NeverOverwrites == [][at' # at => (target # None => target' = target)]_vars

(* "installing/ # 仅 INSTALLING 事务可能存在" (README).                     *)
StagingOnlyInstalling == \A j \in Job : staging[j] # None => job[j].state = "INSTALLING"

(* "依据冻结 revision 恢复 INSTALLING" (_reconcile_install): when nobody    *)
(* touched the files and the place is free, an installation that a crash   *)
(* interrupted can be taken up.                                            *)
InstallRecovers == changes = 0 /\ Resting /\ target = None =>
    \A j \in Job : job[j].state = "INSTALLING" => staging[j] = None \/ Valid(staging[j], j)

(* "查找全局安装的唯一权威任务" (_find_installed_job): the skill that lies  *)
(* installed as its job froze it can be executed.                          *)
Executable == \A j \in Installed : Valid(target, j) => Installed = {j}

(* A job whose build was interrupted does not stay in the middle of it.    *)
BuildEnds == Resting => \A j \in Job : job[j].state \notin {"GENERATING", "VALIDATING", "TESTING"}
=============================================================================
