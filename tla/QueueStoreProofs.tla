--------------------------- MODULE QueueStoreProofs ---------------------------
(* Theorems about QueueStore, for every set of tasks.                      *)
EXTENDS QueueStore, TLAPS

(* The call under way: what it still has to do, and whose it is.           *)
JobOK ==
  /\ Idle => job = NoJob
  /\ job.write \notin job.remove
  /\ ~Idle => /\ server # "down"
              /\ job.task \in submitted \ toRestore
              /\ status[job.task] # "ABSENT"
  /\ job.task \in ended => job.write = NoDir /\ server = "up"

(* The ghosts follow the table.                                            *)
GhostsOK ==
  /\ \A t \in Task : status[t] = "ENDED" => t \in ended
  /\ \A t \in Task : status[t] \in Unfinished => t \notin ended
  /\ ended \subseteq submitted
  /\ \A t \in Task : status[t] # "ABSENT" \/ files[t] # {} => t \in submitted
  /\ server = "down" => \A t \in Task : status[t] = "ABSENT"
  /\ server # "restoring" => toRestore = {}
  /\ toRestore \subseteq submitted

(* Save keeps a copy it will not remove, from its first write on.          *)
KeptOK ==
  ~Idle /\ job.task \notin ended /\ job.write = NoDir /\ (job.remove # {} \/ ~Faults)
    => files[job.task] \ job.remove # {}

Home(t) == IF status[t] \in Unfinished THEN {statusDir(status[t])} ELSE {}

(* Where the files are when no file operation fails.                       *)
DiskOK ==
  ~Faults =>
    /\ accepted \ ended \subseteq Stored
    /\ toRestore \subseteq Stored
    /\ \A t \in announced : /\ files[t] = {}
                            /\ t \in ended /\ t \notin toRestore /\ t # job.task
    /\ server # "down" => \A t \in Task \ toRestore :
         /\ t # job.task => files[t] = Home(t)
         /\ t = job.task => /\ Home(t) \subseteq files[t] \cup {job.write}
                            /\ files[t] \subseteq Home(t) \cup job.remove
                            /\ Home(t) \cap job.remove = {}
                            /\ job.write # NoDir => job.write \in Home(t)

StoreInv == TypeOK /\ JobOK /\ GhostsOK /\ KeptOK /\ DiskOK

USE NoTaskAssumption, FaultsAssumption DEF Unfinished, Status, Dir, NoDir, NoJob, Idle

LEMMA InitInv == Init => StoreInv
  BY DEF Init, StoreInv, TypeOK, JobOK, GhostsOK, KeptOK, DiskOK, Home, Stored

LEMMA StatusDirType == \A s \in Status : statusDir(s) \in Dir
  BY DEF statusDir

LEMMA TypeStep == StoreInv /\ [Next]_vars => TypeOK'
<1> SUFFICES ASSUME StoreInv, [Next]_vars PROVE TypeOK'
  OBVIOUS
<1> USE StatusDirType DEF StoreInv, TypeOK, ghosts
<1>1. ASSUME NEW t \in Task, AddTask(t) PROVE TypeOK'
  BY <1>1 DEF AddTask, Save
<1>2. ASSUME NEW t \in Task, EndTask(t) PROVE TypeOK'
  BY <1>2 DEF EndTask, Delete
<1>3. ASSUME NEW t \in Task, RestoreTask(t) PROVE TypeOK'
  BY <1>3 DEF RestoreTask, Save
<1>4. ASSUME NEW t \in Task, NEW s \in Unfinished, ChangeStatus(t, s) PROVE TypeOK'
  BY <1>4 DEF ChangeStatus, Save
<1>5. CASE WriteFile
  BY <1>5 DEF WriteFile, JobOK
<1>6. CASE RemoveFile
  BY <1>6 DEF RemoveFile, JobOK
<1>7. CASE FileFault
  BY <1>7 DEF FileFault
<1>8. CASE Return
  BY <1>8 DEF Return
<1>9. CASE Crash
  BY <1>9 DEF Crash
<1>10. CASE Load
  BY <1>10 DEF Load, Stored
<1>11. CASE Start
  BY <1>11 DEF Start
<1>12. CASE UNCHANGED vars
  BY <1>12 DEF vars
<1> QED BY <1>1, <1>2, <1>3, <1>4, <1>5, <1>6, <1>7, <1>8, <1>9, <1>10, <1>11, <1>12
      DEF Next

LEMMA ControlStep == StoreInv /\ [Next]_vars => JobOK' /\ GhostsOK' /\ KeptOK'
<1> SUFFICES ASSUME StoreInv, [Next]_vars PROVE JobOK' /\ GhostsOK' /\ KeptOK'
  OBVIOUS
<1> USE DEF StoreInv, TypeOK, JobOK, GhostsOK, KeptOK, ghosts
<1>1. ASSUME NEW t \in Task, AddTask(t) PROVE JobOK' /\ GhostsOK' /\ KeptOK'
  BY <1>1, StatusDirType DEF AddTask, Save
<1>2. ASSUME NEW t \in Task, EndTask(t) PROVE JobOK' /\ GhostsOK' /\ KeptOK'
  BY <1>2 DEF EndTask, Delete
<1>3. ASSUME NEW t \in Task, RestoreTask(t) PROVE JobOK' /\ GhostsOK' /\ KeptOK'
  BY <1>3, StatusDirType DEF RestoreTask, Save
<1>4. ASSUME NEW t \in Task, NEW s \in Unfinished, ChangeStatus(t, s)
      PROVE  JobOK' /\ GhostsOK' /\ KeptOK'
  BY <1>4, StatusDirType DEF ChangeStatus, Save, Moves
<1>5. CASE WriteFile
  BY <1>5 DEF WriteFile
<1>6. CASE RemoveFile
  BY <1>6 DEF RemoveFile
<1>7. CASE FileFault
  BY <1>7 DEF FileFault
<1>8. CASE Return
  BY <1>8 DEF Return
<1>9. CASE Crash
  BY <1>9 DEF Crash
<1>10. CASE Load
  BY <1>10 DEF Load, Stored
<1>11. CASE Start
  BY <1>11 DEF Start
<1>12. CASE UNCHANGED vars
  BY <1>12 DEF vars
<1> HIDE DEF StoreInv, TypeOK, JobOK, GhostsOK, KeptOK, ghosts
<1> QED BY <1>1, <1>2, <1>3, <1>4, <1>5, <1>6, <1>7, <1>8, <1>9, <1>10, <1>11, <1>12
      DEF Next

LEMMA DiskStep == StoreInv /\ [Next]_vars => DiskOK'
<1> SUFFICES ASSUME StoreInv, [Next]_vars, ~Faults PROVE DiskOK'
  BY DEF DiskOK
<1> USE DEF StoreInv, TypeOK, JobOK, GhostsOK, DiskOK, Home, Stored, ghosts
<1>1. ASSUME NEW t \in Task, AddTask(t) PROVE DiskOK'
  BY <1>1, StatusDirType DEF AddTask, Save
<1>2. ASSUME NEW t \in Task, EndTask(t) PROVE DiskOK'
  BY <1>2 DEF EndTask, Delete
<1>3. ASSUME NEW t \in Task, RestoreTask(t) PROVE DiskOK'
  BY <1>3, StatusDirType DEF RestoreTask, Save
<1>4. ASSUME NEW t \in Task, NEW s \in Unfinished, ChangeStatus(t, s) PROVE DiskOK'
  BY <1>4, StatusDirType DEF ChangeStatus, Save, Moves
<1>5. CASE WriteFile
  <2> DEFINE own == job.task
  <2>1. /\ files' = [files EXCEPT ![own] = @ \cup {job.write}]
        /\ job' = [job EXCEPT !.write = NoDir] /\ job.write # NoDir
        /\ UNCHANGED <<server, status, toRestore, submitted, accepted, ended, announced>>
    BY <1>5 DEF WriteFile
  <2>2. /\ job'.task = own /\ job'.remove = job.remove /\ job'.write = NoDir
        /\ own \in Task \ toRestore /\ own \notin announced
        /\ files'[own] = files[own] \cup {job.write}
        /\ \A u \in Task \ {own} : files'[u] = files[u]
    BY <2>1
  <2>3. \A u \in Task : Home(u)' = Home(u)
    BY <2>1
  <2>4. Stored \subseteq Stored'
    BY <2>2
  <2> HIDE DEF own
  <2>5. accepted' \ ended' \subseteq Stored' /\ toRestore' \subseteq Stored'
    BY <2>1, <2>4
  <2>6. \A u \in announced' : /\ files'[u] = {} /\ u \in ended' /\ u \notin toRestore'
                             /\ u # job'.task
    BY <2>1, <2>2 DEF own
  <2>7. (server # "down" => \A t \in Task \ toRestore :
           /\ t # job.task => files[t] = Home(t)
           /\ t = job.task => /\ Home(t) \subseteq files[t] \cup {job.write}
                              /\ files[t] \subseteq Home(t) \cup job.remove
                              /\ Home(t) \cap job.remove = {}
                              /\ job.write # NoDir => job.write \in Home(t))'
    <3> SUFFICES ASSUME server' # "down", NEW t \in Task \ toRestore'
                 PROVE  (/\ t # job.task => files[t] = Home(t)
                         /\ t = job.task => /\ Home(t) \subseteq files[t] \cup {job.write}
                                            /\ files[t] \subseteq Home(t) \cup job.remove
                                            /\ Home(t) \cap job.remove = {}
                                            /\ job.write # NoDir => job.write \in Home(t))'
      OBVIOUS
    <3>1. CASE t = own
      BY <2>1, <2>2, <2>3, <3>1 DEF own
    <3>2. CASE t # own
      BY <2>1, <2>2, <2>3, <3>2 DEF own
    <3> QED BY <3>1, <3>2
  <2> QED BY <2>5, <2>6, <2>7
<1>6. CASE RemoveFile
  <2>1. PICK d \in job.remove :
          /\ files' = [files EXCEPT ![job.task] = @ \ {d}]
          /\ job' = [job EXCEPT !.remove = @ \ {d}]
    BY <1>6 DEF RemoveFile
  <2>2. job.write = NoDir /\ job.task \in Task
        /\ UNCHANGED <<server, status, toRestore, ghosts>>
    BY <1>6 DEF RemoveFile
  <2>3. files'[job.task] \ job'.remove = files[job.task] \ job.remove
    BY <2>1, <2>2
  <2>4. \A t \in Task : t # job.task => files'[t] = files[t]
    BY <2>1
  <2>5. accepted \ ended \subseteq Stored'
    BY <2>2, <2>3, <2>4 DEF KeptOK
  <2>6. toRestore \subseteq Stored'
    BY <2>2, <2>4
  <2>7. \A t \in announced : files'[t] = {}
    BY <2>2, <2>4
  <2>8. job'.task = job.task /\ job'.write = NoDir /\ job'.remove = job.remove \ {d}
        /\ files'[job.task] = files[job.task] \ {d}
    BY <2>1, <2>2
  <2>9. ASSUME NEW t \in Task \ toRestore, server # "down"
        PROVE  /\ t # job.task => files'[t] = Home(t)
               /\ t = job.task => /\ Home(t) \subseteq files'[t] \cup {NoDir}
                                  /\ files'[t] \subseteq Home(t) \cup job'.remove
                                  /\ Home(t) \cap job'.remove = {}
    <3>1. CASE t # job.task
      BY <2>4, <2>9, <3>1
    <3>2. CASE t = job.task
      <4>1. /\ Home(t) \subseteq files[t] \cup {NoDir}
            /\ files[t] \subseteq Home(t) \cup job.remove
            /\ Home(t) \cap job.remove = {}
        BY <2>2, <2>9, <3>2
      <4> QED BY <2>1, <2>8, <3>2, <4>1
    <3> QED BY <3>1, <3>2
  <2>10. \A t \in Task : Home(t)' = Home(t)
    BY <2>2
  <2> HIDE DEF Home, Stored
  <2> QED BY <2>2, <2>5, <2>6, <2>7, <2>8, <2>9, <2>10
<1>7. CASE FileFault
  BY <1>7 DEF FileFault
<1>8. CASE Return
  BY <1>8 DEF Return, KeptOK
<1>9. CASE Crash
  BY <1>9 DEF Crash
<1>10. CASE Load
  BY <1>10 DEF Load
<1>11. CASE Start
  BY <1>11 DEF Start
<1>12. CASE UNCHANGED vars
  BY <1>12 DEF vars
<1> HIDE DEF StoreInv, TypeOK, JobOK, GhostsOK, DiskOK, Home, Stored, ghosts
<1> QED BY <1>1, <1>2, <1>3, <1>4, <1>5, <1>6, <1>7, <1>8, <1>9, <1>10, <1>11, <1>12
      DEF Next

LEMMA StoreInvariant == Spec => []StoreInv
<1>1. StoreInv /\ [Next]_vars => StoreInv'
  BY TypeStep, ControlStep, DiskStep DEF StoreInv
<1> QED BY InitInv, <1>1, PTL DEF Spec

(* The types of the table, of the directories and of the call under way,   *)
(* for every number of tasks and whatever fails.                           *)
THEOREM TypeCorrect == Spec => []TypeOK
<1>1. StoreInv => TypeOK
  BY DEF StoreInv
<1> QED BY <1>1, StoreInvariant, PTL

(* No crash loses a task whose submitter was answered, if no file          *)
(* operation fails.                                                        *)
THEOREM AcceptedCorrect == Spec => []AcceptedTasksSurvive
<1>1. StoreInv => AcceptedTasksSurvive
  BY DEF StoreInv, DiskOK, AcceptedTasksSurvive
<1> QED BY <1>1, StoreInvariant, PTL

(* No restart revives a task whose end was reported, if no file operation  *)
(* fails.                                                                  *)
THEOREM AnnouncedCorrect == Spec => []AnnouncedTasksStayEnded
<1>1. StoreInv => AnnouncedTasksStayEnded
  BY DEF StoreInv, TypeOK, GhostsOK, DiskOK, AnnouncedTasksStayEnded
<1> QED BY <1>1, StoreInvariant, PTL

(* Between two calls the directories are the table, if no file operation   *)
(* fails.                                                                  *)
THEOREM DirectoriesCorrect == Spec => []DirectoriesMirrorTable
<1>1. StoreInv => DirectoriesMirrorTable
  BY DEF StoreInv, GhostsOK, DiskOK, Home, DirectoriesMirrorTable
<1> QED BY <1>1, StoreInvariant, PTL

(* Even when file operations fail, a task's last file goes only after its  *)
(* end.                                                                    *)
THEOREM VanishingCorrect == Spec => OnlyEndedTasksVanish
<1>1. StoreInv /\ [Next]_vars
        => [\A t \in Task : files[t] # {} /\ files'[t] = {} => t \in ended]_vars
  <2> SUFFICES ASSUME StoreInv, Next, NEW t \in Task, files[t] # {}, files'[t] = {}
               PROVE  t \in ended
    OBVIOUS
  <2>1. files' # files
    OBVIOUS
  <2>2. ~WriteFile
    BY DEF WriteFile, StoreInv, TypeOK
  <2>3. RemoveFile
    BY <2>1, <2>2 DEF Next, AddTask, EndTask, RestoreTask, ChangeStatus, FileFault,
         Return, Crash, Load, Start
  <2>4. t = job.task /\ job.remove # {} /\ files[t] \ job.remove = {}
    BY <2>3 DEF RemoveFile, StoreInv, TypeOK
  <2> QED BY <2>3, <2>4 DEF RemoveFile, StoreInv, KeptOK
<1> QED BY <1>1, StoreInvariant, PTL DEF Spec, OnlyEndedTasksVanish
-------------------------------------------------------------------------------
(* The store as one that changes in single steps.                          *)

Outside == <<submitted, Stored, Removed, accepted, announced>>

(* Steps that nobody outside sees.                                         *)
LEMMA Unseen ==
  ASSUME UNCHANGED <<submitted, accepted, announced>>,
         \A t \in Task : files'[t] = {} <=> files[t] = {},
         \A t \in Task : files[t] = {} => (t \in ended' <=> t \in ended),
         ended \subseteq Task, ended' \subseteq Task
  PROVE  UNCHANGED Outside
<1>1. Stored' = Stored
  BY DEF Stored
<1>2. Removed' = Removed
  BY DEF Removed
<1> QED BY <1>1, <1>2 DEF Outside

LEMMA DurableStep ==
  ASSUME ~Faults, StoreInv, StoreInv', Next
  PROVE  Durable!DurableNext \/ UNCHANGED Outside
<1> USE DEF StoreInv, TypeOK, ghosts
<1>1. ASSUME NEW t \in Task, AddTask(t) PROVE Durable!Offer(t)
  <2>1. Stored' = Stored /\ Removed' = Removed
    BY <1>1 DEF AddTask, Stored, Removed
  <2> QED BY <1>1, <2>1 DEF AddTask, Durable!Offer
(* A task that ends still has its file. *)
<1>2. ASSUME NEW t \in Task, EndTask(t) PROVE UNCHANGED Outside
  <2>1. files[t] # {}
    BY <1>2 DEF EndTask, DiskOK, GhostsOK, Home, JobOK
  <2> QED BY <1>2, <2>1, Unseen DEF EndTask
(* A task whose end is undone had a file left. *)
<1>3. ASSUME NEW t \in Task, RestoreTask(t) PROVE UNCHANGED Outside
  <2>1. files[t] # {}
    BY <1>3 DEF RestoreTask, DiskOK, Stored
  <2> QED BY <1>3, <2>1, Unseen DEF RestoreTask
<1>4. ASSUME NEW t \in Task, NEW s \in Unfinished, ChangeStatus(t, s) PROVE UNCHANGED Outside
  BY <1>4, Unseen DEF ChangeStatus
<1>5. ASSUME WriteFile PROVE Durable!DurableNext \/ UNCHANGED Outside
  <2>1. PICK t \in Task : t = job.task
    BY <1>5 DEF WriteFile, JobOK
  <2>2. /\ t \in submitted /\ t \notin ended
        /\ files'[t] # {} /\ \A u \in Task \ {t} : files'[u] = files[u]
    BY <1>5, <2>1 DEF WriteFile, JobOK
  <2>3. UNCHANGED <<submitted, ended, accepted, announced>>
    BY <1>5 DEF WriteFile
  <2>4. CASE files[t] = {}
    <3>1. Stored' = Stored \cup {t} /\ t \notin Stored
      BY <2>2, <2>4 DEF Stored
    <3>2. Removed' = Removed /\ t \notin Removed
      BY <2>2, <2>3 DEF Removed
    <3>3. Durable!Persist(t)
      BY <2>2, <2>3, <3>1, <3>2 DEF Durable!Persist
    <3> QED BY <3>3 DEF Durable!DurableNext
  <2>5. CASE files[t] # {}
    BY <2>2, <2>3, <2>5, Unseen
  <2> QED BY <2>4, <2>5
(* The last file goes only when the task has ended. *)
<1>6. ASSUME RemoveFile PROVE Durable!DurableNext \/ UNCHANGED Outside
  <2>1. PICK t \in Task : t = job.task
    BY <1>6 DEF RemoveFile, JobOK
  <2>2. PICK d \in job.remove : files' = [files EXCEPT ![t] = @ \ {d}]
    BY <1>6, <2>1 DEF RemoveFile
  <2>3. /\ UNCHANGED <<submitted, ended, accepted, announced>>
        /\ files'[t] \subseteq files[t] /\ \A u \in Task \ {t} : files'[u] = files[u]
    BY <1>6, <2>2 DEF RemoveFile
  <2>4. CASE files[t] # {} /\ files'[t] = {}
    <3>1. t \in ended
      BY <1>6, <2>1, <2>2, <2>4 DEF RemoveFile, KeptOK
    <3>2. Stored' = Stored \ {t} /\ t \in Stored
      BY <2>3, <2>4 DEF Stored
    <3>3. Removed' = Removed \cup {t}
      BY <2>3, <2>4, <3>1 DEF Removed
    <3>4. Durable!Forget(t)
      BY <2>3, <3>2, <3>3 DEF Durable!Forget
    <3> QED BY <3>4 DEF Durable!DurableNext
  <2>5. CASE ~(files[t] # {} /\ files'[t] = {})
    BY <2>3, <2>5, Unseen
  <2> QED BY <2>4, <2>5
(* Who submitted is answered when the file is there, and an end is         *)
(* reported when it is gone. *)
<1>7. ASSUME Return PROVE Durable!DurableNext \/ UNCHANGED Outside
  <2>1. PICK t \in Task : t = job.task
    BY <1>7 DEF Return
  <2>2. UNCHANGED <<submitted, ended, files>>
    BY <1>7 DEF Return
  <2>3. Stored' = Stored /\ Removed' = Removed
    BY <2>2 DEF Stored, Removed
  <2>4. CASE server = "up" /\ status[t] = "ENDED"
    <3>1. files[t] = {} /\ t \in ended
      BY <1>7, <2>1, <2>4 DEF Return, DiskOK, GhostsOK, Home, JobOK
    <3>2. announced' = announced \cup {t} /\ UNCHANGED accepted
      BY <1>7, <2>1, <2>4 DEF Return
    <3>3. Durable!Announce(t)
      BY <2>2, <2>3, <3>1, <3>2 DEF Durable!Announce, Removed
    <3> QED BY <3>3 DEF Durable!DurableNext
  <2>5. CASE server = "up" /\ status[t] # "ENDED"
    <3>1. status[t] \in Unfinished /\ t \notin toRestore
      BY <1>7, <2>1, <2>5 DEF Return, JobOK
    <3>2. files[t] # {}
      BY <1>7, <2>1, <2>5, <3>1, StatusDirType DEF Return, DiskOK, Home
    <3>3. accepted' = accepted \cup {t} /\ UNCHANGED announced
      BY <1>7, <2>1, <2>5 DEF Return
    <3>4. Durable!Answer(t)
      BY <2>2, <2>3, <3>2, <3>3 DEF Durable!Answer, Stored
    <3> QED BY <3>4 DEF Durable!DurableNext
  <2>6. CASE server # "up"
    BY <1>7, <2>2, <2>3, <2>6 DEF Return, Outside
  <2> QED BY <2>4, <2>5, <2>6
<1>8. ASSUME FileFault \/ Crash \/ Load \/ Start PROVE UNCHANGED Outside
  BY <1>8, Unseen DEF FileFault, Crash, Load, Start
<1> QED
  BY <1>1, <1>2, <1>3, <1>4, <1>5, <1>6, <1>7, <1>8 DEF Next, Durable!DurableNext

(* Where no file operation fails, the files of Save and Delete implement a *)
(* store that changes in single steps: whatever the crashes, a task is     *)
(* there from the write that persists it to the removal that forgets it,   *)
(* and submitters and browsers are told no more than is true.              *)
THEOREM DurableCorrect == ASSUME ~Faults PROVE Spec => KeepsDurableStore
<1>1. Init => Durable!DurableInit
  BY DEF Init, Durable!DurableInit, Stored, Removed
<1>2. StoreInv /\ StoreInv' /\ [Next]_vars => [Durable!DurableNext]_(Durable!durableVars)
  <2>1. CASE Next
    BY <2>1, DurableStep DEF Durable!durableVars, Outside
  <2>2. CASE UNCHANGED vars
    BY <2>2 DEF vars, ghosts, Durable!durableVars, Stored, Removed
  <2> QED BY <2>1, <2>2
<1> QED BY <1>1, <1>2, StoreInvariant, PTL DEF Spec, KeepsDurableStore, Durable!DurableSpec
===============================================================================
