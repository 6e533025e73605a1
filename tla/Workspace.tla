------------------------------ MODULE Workspace ------------------------------
(***************************************************************************)
(* What one workspace keeps on disk, and who may write it: the application *)
(* holds the lock of the workspace while it runs, a backup or a restore    *)
(* while it works.  The data directory holds the database, the portrait of *)
(* the character and the credentials; the project directory holds the      *)
(* prompt of the character, its configuration, which tells the digests of  *)
(* prompt and portrait, and the settings that refer to credentials.  Every *)
(* file is replaced at once; several files are not.  Files are told by     *)
(* versions.                                                               *)
(***************************************************************************)
EXTENDS Naturals, FiniteSets

CONSTANTS Secret, None,
          MaxEdits, MaxRestores, MaxFailures, MaxCrashes   \* bounds

VARIABLES holder,     \* of the lock: None, "app", "backup" or "restore"
          data,       \* the data directory: [db, image, secrets]
          prompt, config, refs,   \* the project directory
          choice,     \* which character is used: [mem, disk]
          backup,     \* the published backup, or None
          task,       \* what the application is writing
          job,        \* the backup or restore under way
          seen,       \* the data directory when that began
          n

files == <<data, prompt, config, refs, choice>>
others == <<holder, backup, job, seen>>
vars == <<others, files, task, n>>

Item == {"db", "image", "secrets"}
Idle == [pc |-> "idle"]
NoItem == [i \in Item |-> None]

Init == /\ holder = None
        /\ data = [db |-> 0, image |-> None, secrets |-> [k \in Secret |-> None]]
        /\ prompt = 0 /\ config = [prompt |-> 0, image |-> None] /\ refs = {}
        /\ choice = [mem |-> 0, disk |-> 0] /\ backup = None /\ task = Idle /\ job = Idle /\ seen = None
        /\ n = [edits |-> 0, restores |-> 0, failures |-> 0, crashes |-> 0]

Count(c, most) == n[c] < most /\ n' = [n EXCEPT ![c] = @ + 1]
Edit == holder = "app" /\ task = Idle /\ Count("edits", MaxEdits) /\ UNCHANGED others
Step(pc) == task.pc = pc /\ UNCHANGED <<others, n>>
Failure(pc) == /\ task.pc = pc /\ Count("failures", MaxFailures) /\ task' = Idle
               /\ UNCHANGED others

---------------------------------------------------------------------------
(* A start reads every character and resolves every reference; a database  *)
(* that is not there is made anew.                                         *)
Loads(character, image) == /\ prompt = character.prompt
                           /\ character.image \in {None, image}
Resolved == /\ refs = {} \/ data.secrets # None
            /\ \A k \in refs : data.secrets[k] # None
Startable == Loads(config, data.image) /\ Resolved

Start == /\ holder = None /\ Startable /\ holder' = "app"
         /\ data' = [data EXCEPT !.db = IF @ = None THEN 0 ELSE @,
                                 !.secrets = IF @ = None THEN [k \in Secret |-> None] ELSE @]
         /\ choice' = [choice EXCEPT !.mem = choice.disk]
         /\ UNCHANGED <<prompt, config, refs, backup, task, job, seen, n>>
Stop == /\ holder = "app" /\ task = Idle /\ holder' = None
        /\ UNCHANGED <<files, backup, task, job, seen, n>>

WriteDatabase == /\ Edit /\ data' = [data EXCEPT !.db = @ + 1]
                 /\ UNCHANGED <<prompt, config, refs, choice, task>>

---------------------------------------------------------------------------
(* Name and prompt: two files, one after the other.                        *)
UpdatePersona == /\ Edit /\ Loads(config, data.image) /\ prompt' = prompt + 1 /\ task' = [pc |-> "config"]
                 /\ UNCHANGED <<data, config, refs, choice>>
ReplaceConfig == /\ \/ Step("config") /\ task' = Idle /\ config' = [config EXCEPT !.prompt = prompt]
                    \/ Failure("config") /\ UNCHANGED config
                 /\ UNCHANGED <<data, prompt, refs, choice>>

(* The portrait: the file, then the configuration, then the expressions    *)
(* that were made from the old one; what fails puts the old ones back.     *)
SavePortrait == /\ Edit /\ Loads(config, data.image) /\ data' = [data EXCEPT !.image = n.edits + 1]
                /\ task' = [pc |-> "portrait", old |-> data.image, was |-> config.image]
                /\ UNCHANGED <<prompt, config, refs, choice>>
RestorePortrait == data' = [data EXCEPT !.image = task.old]
UpdatePortrait ==
  /\ \/ Step("portrait") /\ task' = [task EXCEPT !.pc = "bound"]
        /\ config' = [config EXCEPT !.image = data.image] /\ UNCHANGED data
     \/ Failure("portrait") /\ RestorePortrait /\ UNCHANGED config
  /\ UNCHANGED <<prompt, refs, choice>>
ClearBound ==
  /\ \/ Step("bound") /\ task' = Idle /\ UNCHANGED <<data, config>>
     \/ Failure("bound") /\ RestorePortrait /\ config' = [config EXCEPT !.image = task.was]
  /\ UNCHANGED <<prompt, refs, choice>>

DeletePortrait == /\ Edit /\ config.image # None /\ Loads(config, data.image)
                  /\ config' = [config EXCEPT !.image = None]
                  /\ task' = [pc |-> "unbound", was |-> config.image]
                  /\ UNCHANGED <<data, prompt, refs, choice>>
RemovePortrait ==
  /\ \/ Step("unbound") /\ task' = Idle /\ data' = [data EXCEPT !.image = None] /\ UNCHANGED config
     \/ Failure("unbound") /\ config' = [config EXCEPT !.image = task.was] /\ UNCHANGED data
  /\ UNCHANGED <<prompt, refs, choice>>

(* Which character is used.  One way to change it takes a failed write     *)
(* back, the others do not.                                                *)
Activate == /\ Edit /\ choice' = [choice EXCEPT !.mem = n.edits + 1]
            /\ \E back \in BOOLEAN : task' = [pc |-> "choice", back |-> back]
            /\ UNCHANGED <<data, prompt, config, refs>>
PersistSelection ==
  /\ \/ Step("choice") /\ task' = Idle /\ choice' = [choice EXCEPT !.disk = choice.mem]
     \/ Failure("choice") /\ choice' = [choice EXCEPT !.mem = IF task.back THEN choice.disk ELSE @]
  /\ UNCHANGED <<data, prompt, config, refs>>

---------------------------------------------------------------------------
(* Settings with credentials: each credential is replaced or cleared, one  *)
(* after the other, the references to them last; what fails puts the old   *)
(* credentials back.                                                       *)
Want == [Secret -> {n.edits + 1, None}]
Persist == /\ Edit /\ \E want \in Want : task' = [pc |-> "secrets", want |-> want, left |-> Secret,
                                                               old |-> data.secrets]
           /\ UNCHANGED <<data, prompt, config, refs, choice>>
PutSecret(k) ==
  /\ Step("secrets") /\ k \in task.left
  /\ data' = [data EXCEPT !.secrets = [@ EXCEPT ![k] = task.want[k]]]
  /\ task' = [task EXCEPT !.left = @ \ {k}]
  /\ UNCHANGED <<prompt, config, refs, choice>>
(* Mutant: the references are written before the credentials.              *)
WriteAnyway == /\ \/ Step("secrets") /\ refs' = {k \in Secret : task.want[k] # None}
                     /\ task' = (IF task.left = {} THEN Idle ELSE task)
                     /\ UNCHANGED data
                  \/ Failure("secrets") /\ data' = [data EXCEPT !.secrets = task.old] /\ UNCHANGED refs
               /\ UNCHANGED <<prompt, config, choice>>
WriteSettings ==
  /\ \/ Step("secrets") /\ task.left = {} /\ task' = Idle
        /\ refs' = {k \in Secret : task.want[k] # None} /\ UNCHANGED data
     \/ Failure("secrets") /\ data' = [data EXCEPT !.secrets = task.old] /\ UNCHANGED refs
  /\ UNCHANGED <<prompt, config, choice>>

---------------------------------------------------------------------------
Begin(who, pc) == /\ holder = None /\ job = Idle /\ holder' = who /\ seen' = data
                  /\ job' = [pc |-> pc, items |-> NoItem, left |-> Item]
                  /\ UNCHANGED <<files, backup, task>>
(* A backup copies the database, then what else there is, is verified, and  *)
(* appears at once.                                                        *)
CreateBackup == Begin("backup", "copy") /\ backup = None /\ data.db # None /\ UNCHANGED n
Copied(i) == /\ job.pc = "copy" /\ i \in job.left
             /\ job' = [job EXCEPT !.items[i] = data[i], !.left = @ \ {i}]
             /\ UNCHANGED <<holder, files, backup, task, seen, n>>
CopyDatabase == Copied("db")
Copy(i) == job.pc = "copy" /\ "db" \notin job.left /\ Copied(i)
Verified == /\ job.pc = "copy" /\ job.left = {} /\ job' = [job EXCEPT !.pc = "publish"]
            /\ holder' = IF holder = "backup" THEN None ELSE holder
            /\ UNCHANGED <<files, backup, task, seen, n>>
Publish == /\ job.pc = "publish" /\ job' = Idle /\ backup' = job.items
           /\ UNCHANGED <<holder, files, task, seen, n>>
BackupFails == /\ job.pc \in {"copy", "publish"} /\ Count("failures", MaxFailures) /\ job' = Idle
               /\ holder' = IF holder = "backup" THEN None ELSE holder
               /\ UNCHANGED <<files, backup, task, seen>>

(* A restore moves what is there aside, item by item, then puts the backup *)
(* in its place; a failure undoes both.                                    *)
RestoreBackup == Begin("restore", "move") /\ backup # None /\ Count("restores", MaxRestores)
Move(i) == /\ job.pc = "move" /\ i \in job.left
           /\ data' = [data EXCEPT ![i] = None]
           /\ job' = [job EXCEPT !.items[i] = data[i], !.left = @ \ {i},
                                 !.pc = IF job.left = {i} THEN "install" ELSE @]
           /\ UNCHANGED <<holder, prompt, config, refs, choice, backup, task, seen, n>>
Install(i) == /\ job.pc = "install" /\ i \notin job.left
              /\ data' = [data EXCEPT ![i] = backup[i]] /\ job' = [job EXCEPT !.left = @ \cup {i}]
              /\ UNCHANGED <<holder, prompt, config, refs, choice, backup, task, seen, n>>
(* Mutant: what was moved aside stays there.                               *)
KeptAside == [i \in Item |-> IF job.pc = "install" /\ i \in job.left THEN None ELSE data[i]]
RolledBack == [i \in Item |-> IF job.pc = "move" /\ i \in job.left THEN data[i] ELSE job.items[i]]
RestoreEnds == /\ job.pc \in {"move", "install"} /\ holder' = None /\ job' = Idle
               /\ \/ job.pc = "install" /\ job.left = Item /\ UNCHANGED <<data, n>>
                  \/ Count("failures", MaxFailures) /\ data' = RolledBack
               /\ UNCHANGED <<prompt, config, refs, choice, backup, task, seen>>

(* The operating system releases the lock of a process that dies.          *)
Crash == /\ holder # None /\ Count("crashes", MaxCrashes) /\ holder' = None /\ task' = Idle /\ job' = Idle
         /\ UNCHANGED <<files, backup, seen>>

Next == \/ Start \/ Stop \/ WriteDatabase \/ UpdatePersona \/ ReplaceConfig \/ SavePortrait
        \/ UpdatePortrait \/ ClearBound \/ DeletePortrait \/ RemovePortrait \/ Activate
        \/ PersistSelection \/ Persist \/ WriteSettings \/ CreateBackup \/ CopyDatabase \/ Verified
        \/ Publish \/ BackupFails \/ RestoreBackup \/ RestoreEnds \/ Crash
        \/ \E k \in Secret : PutSecret(k)
        \/ \E i \in Item : Copy(i) \/ Move(i) \/ Install(i)

Spec == Init /\ [][Next]_vars

---------------------------------------------------------------------------
(* A backup is the data directory of one moment.                           *)
BackupWhole == [][backup' # backup => backup' = seen]_vars

(* "失败时恢复原文件" (restore_backup): a restore that ends, well or not,   *)
(* leaves the backup or what was there, never some of each.                *)
RestoredOrKept == [][job.pc \in {"move", "install"} /\ job' = Idle /\ n'.crashes = n.crashes
                     => data' \in {backup, seen}]_vars

(* "先安全写凭据、再原子写引用": in every state of the application, and so in *)
(* every state a crash can leave, a reference of the settings has its      *)
(* credential.  Only one that the user is clearing goes before its          *)
(* reference does.                                                         *)
Clearing(k) == task.pc = "secrets" /\ task.want[k] = None
ReferencesResolve == holder = "app" => \A k \in refs : data.secrets[k] # None \/ Clearing(k)

(* A process that dies, or fails, leaves settings it can start with.       *)
ReferencesStand == n.restores = 0 => \A k \in refs : data.secrets[k] # None

(* "原子替换指定人格的名称与 Prompt" (PersonaStore.update): the character   *)
(* can be read again, whatever happened.                                   *)
PersonaReadable == holder # "restore" /\ task = Idle => Loads(config, data.image)

(* A workspace that was restored can be started.                           *)
RestoredStarts == holder = None /\ n.failures = 0 /\ n.crashes = 0 => Startable

(* What the running application uses is what it uses after a restart.      *)
ChoiceKept == task = Idle /\ holder = "app" => choice.mem = choice.disk
=============================================================================
