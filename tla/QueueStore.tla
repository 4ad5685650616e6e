------------------------------ MODULE QueueStore ------------------------------
(***************************************************************************)
(* The queue store (pkg/queue/store.go): one JSON file per unfinished task *)
(* in the directory of its status, written and removed one file at a time, *)
(* while the server may crash between any two file operations.             *)
(*                                                                         *)
(* The orchestrator changes a task in memory and calls Save or Delete with *)
(* its mutex held, so one call is under way at a time; the caller answers  *)
(* or broadcasts after the call has returned.  At a start, restoreTasks    *)
(* reads every file and re-adds the tasks before the server accepts work.  *)
(*                                                                         *)
(* A file's content is left out: the copies of one task differ only in the *)
(* status and assignment, which a restore overwrites, so that it does not  *)
(* matter which copy Load prefers.  A file appears by a rename and is      *)
(* whole; the temporary file beside it has no .json name and is not read.  *)
(***************************************************************************)
EXTENDS Naturals

CONSTANTS
  Task,     \* the ids of tasks that are ever submitted
  NoTask,   \* no call to the store is under way
  Faults    \* may a file operation fail?

ASSUME NoTaskAssumption == NoTask \notin Task
ASSUME FaultsAssumption == Faults \in BOOLEAN

Unfinished == {"PENDING", "ASSIGNED", "RUNNING"}
Status == {"ABSENT", "ENDED"} \cup Unfinished

(* statusDirs and statusDirNames, the fixed order of the directories.      *)
Dir == {"pending", "assigned", "running"}
NoDir == "none"

statusDir(s) ==
  CASE s = "PENDING" -> "pending" [] s = "ASSIGNED" -> "assigned" [] OTHER -> "running"

Rank(d) == CASE d = "pending" -> 1 [] d = "assigned" -> 2 [] OTHER -> 3

VARIABLES
  server,     \* "up", "down", or "restoring" between Load and Start
  status,     \* task -> its status in memory, all terminal ones as "ENDED"
  files,      \* task -> the directories that hold a file of it
  job,        \* the call under way: its task, the file to write, those to remove
  toRestore,  \* the loaded tasks RestoreTask was not called for yet
  submitted,  \* ghost: the tasks ever handed to AddTask
  accepted,   \* ghost: the tasks whose submitter was answered
  ended,      \* ghost: the tasks that ended and were not restored since
  announced   \* ghost: the tasks whose end the server reported

ghosts == <<submitted, accepted, ended, announced>>
vars == <<server, status, files, job, toRestore, ghosts>>

NoJob == [task |-> NoTask, write |-> NoDir, remove |-> {}]

TypeOK ==
  /\ server \in {"up", "down", "restoring"}
  /\ status \in [Task -> Status]
  /\ files \in [Task -> SUBSET Dir]
  /\ job \in [task : Task \cup {NoTask}, write : Dir \cup {NoDir}, remove : SUBSET Dir]
  /\ toRestore \subseteq Task
  /\ {submitted, accepted, ended, announced} \subseteq SUBSET Task

Init ==
  /\ server = "up"
  /\ status = [t \in Task |-> "ABSENT"]
  /\ files = [t \in Task |-> {}]
  /\ job = NoJob
  /\ toRestore = {}
  /\ submitted = {}
  /\ accepted = {}
  /\ ended = {}
  /\ announced = {}
-------------------------------------------------------------------------------
(* Calls to the store.                                                     *)

Idle == job.task = NoTask
Stored == {t \in Task : files[t] # {}}

(* Save puts the file of the new status in place before it removes those   *)
(* of the others.                                                          *)
Save(t, s) ==
  job' = [task |-> t, write |-> statusDir(s), remove |-> Dir \ {statusDir(s)}]

(* Mutant: Delete forgets to look into running/.                            *)
DeleteUnfinished(t) == job' = [task |-> t, write |-> NoDir, remove |-> Dir \ {"running"}]

Delete(t) == job' = [task |-> t, write |-> NoDir, remove |-> Dir]

(* AddTaskOrDedup of a task that is not squelched.                         *)
AddTask(t) ==
  /\ server = "up" /\ Idle
  /\ t \notin submitted
  /\ submitted' = submitted \cup {t}
  /\ status' = [status EXCEPT ![t] = "PENDING"]
  /\ Save(t, "PENDING")
  /\ UNCHANGED <<server, files, toRestore, accepted, ended, announced>>

(* An assignment, an acknowledgement or a re-queueing.                     *)
Moves == {<<"PENDING", "ASSIGNED">>, <<"ASSIGNED", "RUNNING">>,
          <<"ASSIGNED", "PENDING">>, <<"RUNNING", "PENDING">>}

ChangeStatus(t, s) ==
  /\ server = "up" /\ Idle
  /\ <<status[t], s>> \in Moves
  /\ status' = [status EXCEPT ![t] = s]
  /\ Save(t, s)
  /\ UNCHANGED <<server, files, toRestore, ghosts>>

(* The task completes, fails or is cancelled.                              *)
EndTask(t) ==
  /\ server = "up" /\ Idle
  /\ status[t] \in Unfinished
  /\ status' = [status EXCEPT ![t] = "ENDED"]
  /\ ended' = ended \cup {t}
  /\ Delete(t)
  /\ UNCHANGED <<server, files, toRestore, submitted, accepted, announced>>
-------------------------------------------------------------------------------
(* One file operation at a time.                                           *)

WriteFile ==
  /\ job.write # NoDir
  /\ files' = [files EXCEPT ![job.task] = @ \cup {job.write}]
  /\ job' = [job EXCEPT !.write = NoDir]
  /\ UNCHANGED <<server, status, toRestore, ghosts>>

(* Mutant: Save removes the stale copies before it writes the new one.     *)
RemoveFileFirst ==
  /\ \E d \in job.remove :
       /\ \A e \in job.remove : Rank(d) <= Rank(e)
       /\ files' = [files EXCEPT ![job.task] = @ \ {d}]
       /\ job' = [job EXCEPT !.remove = @ \ {d}]
  /\ UNCHANGED <<server, status, toRestore, ghosts>>

(* The files are removed in the order of the directories; a file that is   *)
(* not there is no error.                                                  *)
RemoveFile ==
  /\ job.write = NoDir
  /\ \E d \in job.remove :
       /\ \A e \in job.remove : Rank(d) <= Rank(e)
       /\ files' = [files EXCEPT ![job.task] = @ \ {d}]
       /\ job' = [job EXCEPT !.remove = @ \ {d}]
  /\ UNCHANGED <<server, status, toRestore, ghosts>>

(* The first operation that fails ends the call; the error is only logged. *)
FileFault ==
  /\ Faults
  /\ ~Idle
  /\ job' = [job EXCEPT !.write = NoDir, !.remove = {}]
  /\ UNCHANGED <<server, status, files, toRestore, ghosts>>

(* The call returns, and the caller answers its client or reports the end. *)
Return ==
  /\ ~Idle
  /\ job.write = NoDir /\ job.remove = {}
  /\ job' = NoJob
  /\ IF server = "up"
     THEN IF status[job.task] = "ENDED"
          THEN announced' = announced \cup {job.task} /\ UNCHANGED accepted
          ELSE accepted' = accepted \cup {job.task} /\ UNCHANGED announced
     ELSE UNCHANGED <<accepted, announced>>
  /\ UNCHANGED <<server, status, files, toRestore, submitted, ended>>
-------------------------------------------------------------------------------
(* Crash and restart.                                                      *)

Crash ==
  /\ server # "down"
  /\ server' = "down"
  /\ status' = [t \in Task |-> "ABSENT"]
  /\ job' = NoJob
  /\ toRestore' = {}
  /\ UNCHANGED <<files, ghosts>>

(* Load skips a file it cannot read, and gives up on all of them when it   *)
(* cannot list a directory.                                                *)
Load ==
  /\ server = "down"
  /\ server' = "restoring"
  /\ IF Faults THEN toRestore' \in SUBSET Stored ELSE toRestore' = Stored
  /\ UNCHANGED <<status, files, job, ghosts>>

(* Mutant: a restored task is left in the file it was loaded from.         *)
RestoreTaskInPlace(t) ==
  /\ server = "restoring" /\ Idle
  /\ t \in toRestore
  /\ toRestore' = toRestore \ {t}
  /\ status' = [status EXCEPT ![t] = "PENDING"]
  /\ ended' = ended \ {t}
  /\ UNCHANGED <<server, files, job, submitted, accepted, announced>>

(* Every loaded task enters the queue as PENDING and is saved as such.     *)
RestoreTask(t) ==
  /\ server = "restoring" /\ Idle
  /\ t \in toRestore
  /\ toRestore' = toRestore \ {t}
  /\ status' = [status EXCEPT ![t] = "PENDING"]
  /\ ended' = ended \ {t}
  /\ Save(t, "PENDING")
  /\ UNCHANGED <<server, files, submitted, accepted, announced>>

Start ==
  /\ server = "restoring" /\ Idle
  /\ toRestore = {}
  /\ server' = "up"
  /\ UNCHANGED <<status, files, job, toRestore, ghosts>>

Next ==
  \/ \E t \in Task :
       \/ AddTask(t) \/ EndTask(t) \/ RestoreTask(t)
       \/ \E s \in Unfinished : ChangeStatus(t, s)
  \/ WriteFile \/ RemoveFile \/ FileFault \/ Return
  \/ Crash \/ Load \/ Start

Spec == Init /\ [][Next]_vars
-------------------------------------------------------------------------------
(* What must hold.                                                         *)

(* A task whose submitter was answered, and that has not ended, has a file *)
(* at every moment: no crash, in the middle of a change of status or of a  *)
(* restore, loses it.                                                      *)
AcceptedTasksSurvive == ~Faults => accepted \ ended \subseteq Stored

(* A task whose end was reported is gone from the disk and never back in   *)
(* the queue.  (A crash before Delete is through may revive a task whose   *)
(* end nobody heard of.)                                                   *)
AnnouncedTasksStayEnded ==
  ~Faults => \A t \in announced : files[t] = {} /\ status[t] \in {"ABSENT", "ENDED"}

(* Between two calls the directories show the table: one file per          *)
(* unfinished task, under its status, duplicates of a crash included.      *)
DirectoriesMirrorTable ==
  ~Faults /\ server = "up" /\ Idle =>
    \A t \in Task :
      files[t] = IF status[t] \in Unfinished THEN {statusDir(status[t])} ELSE {}

(* Whatever file operations fail, the last file of a task disappears only  *)
(* after the task has ended.                                               *)
OnlyEndedTasksVanish ==
  [][\A t \in Task : files[t] # {} /\ files'[t] = {} => t \in ended]_vars

(* The tasks whose last file went after their end: EndTask undone by a      *)
(* crash before that is no removal.                                        *)
Removed == {t \in ended : files[t] = {}}
Durable == INSTANCE DurableStore WITH
  offered <- submitted, stored <- Stored, forgotten <- Removed

(* A store that is written file by file, with crashes between any two      *)
(* operations, is seen from outside as one that changes in single steps    *)
(* and that no crash and no restart changes: AddTask has happened when the *)
(* first file is there, EndTask when the last one is gone.  It is this     *)
(* store that Orchestrator has as its variable stored.                     *)
KeepsDurableStore == Durable!DurableSpec
===============================================================================
