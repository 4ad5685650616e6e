------------------------------ MODULE MCComponents -----------------------------
(***************************************************************************)
(* The safety of the components beside the orchestrator, for TLC, in one   *)
(* run: a behaviour picks one part at the start, a component with values   *)
(* for its constants; the variables of the others stay as they begin.  The *)
(* components share no variables, so that nothing is lost by checking each *)
(* on its own.                                                             *)
(***************************************************************************)
EXTENDS Naturals, Sequences

CONSTANTS t1, t2, NoTask, g1, NoGuest, NoContent

VARIABLES
  part,
  \* GuestTasks
  conn, standing, stopped, killed, note, arrived, taskCh, disp, job, outcome, mu,
  running, currentTask, cancelOf, aborted, reports,
  \* PiHandler
  cs, client, ex, cancelled, dirs, jails, stops, guest, result,
  \* Hub
  sock, hello, got, at, assigned, target, writer, msg, send, shut, role, run,
  connections, mapping, known, entry, assigns,
  \* LogAccumulator
  sent, fed, over, buffer, quiet, memory, disk, shown, up,
  \* LogStore
  today, number, stream, exists, append, logged, download, answer,
  \* TaskQueue
  tasks, ordered, stored, wall, now, steps, born, left,
  \* ConfigWatcher
  file, writing, saved, saves, touches, events, pc, lastContent, data, parsed,
  configCh, cfg, personaStore, logDir

taskVars == <<conn, standing, stopped, killed, note, arrived, taskCh, disp, job, outcome,
              mu, running, currentTask, cancelOf, aborted, reports>>
piVars == <<cs, client, ex, cancelled, dirs, jails, stops, guest, result>>
hubVars == <<sock, hello, got, at, assigned, target, writer, msg, send, shut, role, run,
             connections, mapping, known, entry, assigns>>
logVars == <<sent, fed, over, buffer, quiet, memory, disk, shown, up>>
storeVars == <<today, number, stream, exists, append, logged, download, answer>>
queueVars == <<tasks, ordered, stored, wall, now, steps, born, left>>
configVars == <<file, writing, saved, saves, touches, events, pc, lastContent, data, parsed,
                configCh, cfg, personaStore, logDir>>
vars == <<part, taskVars, piVars, hubVars, logVars, storeVars, queueVars, configVars>>
-------------------------------------------------------------------------------
(* What the components are instances of: the modules with the theorems     *)
(* about them, so that the theorems are about these instances too.  Two of *)
(* them hold a second component: HubProofs the watcher of the              *)
(* configuration file, LogProofs the log store.                            *)

(* Two notifications over two connections whose dispatchers overlap, and a *)
(* guest that may be stopped.                                              *)
Tasks == INSTANCE GuestTasksProofs WITH
  Task <- {t1, t2}, MaxConns <- 2, MaxNotes <- 2, ChanCap <- 1,
  Cancels <- TRUE, Stops <- TRUE, connected <- standing

(* Two executions one after the other, the first of which may have left a  *)
(* pi behind.                                                              *)
Pi == INSTANCE PiHandlerProofs WITH
  MaxTasks <- 2, MaxClients <- 3, PipeCap <- 1, Attempts <- 1, SpawnLines <- 0,
  EventCap <- 1, Timeout <- TRUE, Cancels <- FALSE, PiExits <- FALSE, PiChatty <- FALSE,
  SpawnFaults <- FALSE, PrepareFaults <- FALSE, Shutdowns <- FALSE

(* One execution of a guest that may be stopped, be killed and start again.*)
Stopped == INSTANCE PiHandlerProofs WITH
  MaxTasks <- 1, MaxClients <- 3, PipeCap <- 1, Attempts <- 1, SpawnLines <- 1,
  EventCap <- 1, Timeout <- FALSE, Cancels <- TRUE, PiExits <- FALSE, PiChatty <- FALSE,
  SpawnFaults <- FALSE, PrepareFaults <- FALSE, Shutdowns <- TRUE

ContentOf(parses, personas, dir) == [parses |-> parses, personas |-> personas, dir |-> dir]
EmptyFile == ContentOf(TRUE, "none", "")
FirstFile == ContentOf(TRUE, "one", "logs")
OtherFile == ContentOf(TRUE, "two", "logs")
RefusedFile == ContentOf(TRUE, "twice", "elsewhere")
NowhereFile == ContentOf(TRUE, "two", "read-only")
BrokenFile == ContentOf(FALSE, "none", "")

(* A guest that reconnects before or after its loss is noticed; and a      *)
(* configuration file with any content, that is saved several times, also  *)
(* while the program starts.                                               *)
Hub == INSTANCE HubProofs WITH
  GuestConn <- {1, 2}, BrowserConn <- {}, Task <- {t1}, SendCap <- 1, Stalling <- {},
  MaxAssigns <- 0, job <- assigned, closed <- shut,
  Content <- {FirstFile, OtherFile, RefusedFile, NowhereFile, BrokenFile},
  Empty <- EmptyFile, First <- FirstFile, Invalid <- {"twice"}, Unusable <- {"read-only"},
  MaxSaves <- 3, MaxTouches <- 0, MaxEvents <- 2,
  InPlace <- FALSE, Repeats <- TRUE, Early <- TRUE

(* A guest with a single connection and many assignments; and editors that *)
(* empty the file first, none of which saves a content again.              *)
Single == INSTANCE HubProofs WITH
  GuestConn <- {1}, BrowserConn <- {}, Task <- {t1, t2}, SendCap <- 2, Stalling <- {},
  MaxAssigns <- 4, job <- assigned, closed <- shut,
  Content <- {OtherFile, RefusedFile, BrokenFile},
  Empty <- EmptyFile, First <- FirstFile, Invalid <- {"twice"}, Unusable <- {"read-only"},
  MaxSaves <- 3, MaxTouches <- 1, MaxEvents <- 2,
  InPlace <- TRUE, Repeats <- FALSE, Early <- FALSE

(* One task and a disk that may refuse an entry; one task, midnight, and a *)
(* server that may stop.                                                   *)
Log == INSTANCE LogProofs WITH
  Task <- {t1}, MaxLines <- 5, Cancels <- FALSE,
  StoreTask <- {t1}, FirstDate <- 1, LastDate <- 2, MaxEntries <- 3, Legacy <- {},
  Crashes <- TRUE

(* Two tasks that flush each other's text; one task with an uncompressed   *)
(* file from the first of three dates.                                     *)
Logs == INSTANCE LogProofs WITH
  Task <- {t1, t2}, MaxLines <- 3, Cancels <- TRUE,
  StoreTask <- {t1}, FirstDate <- 2, LastDate <- 3, MaxEntries <- 3, Legacy <- {<<1, t1>>},
  Crashes <- FALSE

(* A teacher and two orangutans, one by default; the first two tasks have  *)
(* one dedup_key; a server that may restart.                               *)
Queue == INSTANCE TaskQueueProofs WITH
  Task <- 1..3, Guest <- {g1}, Priority <- <<2, 3, 1>>, DedupKey <- <<1, 1, 0>>,
  Tag <- {"arm", "gpu"}, Tags <- <<{}, {"arm"}, {"arm", "gpu"}>>,
  Restarts <- TRUE, ClockSteps <- 0

(* Two tasks of one priority and a wall clock that is set back.            *)
Clock == INSTANCE TaskQueueProofs WITH
  Task <- 1..2, Guest <- {g1}, Priority <- <<2, 2>>, DedupKey <- <<1, 1>>,
  Tag <- {"arm", "gpu"}, Tags <- <<{}, {"arm"}>>,
  Restarts <- FALSE, ClockSteps <- 1

ASSUME Assumptions ==
  /\ Tasks!NoTaskAssumption /\ Tasks!BoundAssumption /\ Tasks!SwitchAssumption
  /\ Pi!PiHandlerAssumption /\ Stopped!PiHandlerAssumption
  /\ Hub!ConnAssumption /\ Hub!NoTaskAssumption /\ Hub!BoundAssumption
  /\ Single!ConnAssumption /\ Single!NoTaskAssumption /\ Single!BoundAssumption
  /\ Log!LogAssumption /\ Logs!LogAssumption
  /\ Log!Store!LogStoreAssumption /\ Logs!Store!LogStoreAssumption
  /\ Queue!TaskQueueAssumption /\ Clock!TaskQueueAssumption
  /\ Hub!Watcher!ConfigWatcherAssumption /\ Single!Watcher!ConfigWatcherAssumption
-------------------------------------------------------------------------------
Part == {"tasks", "pi", "stopped", "hub", "single", "log", "logs", "store", "old store",
         "queue", "clock", "config", "saves"}

Init ==
  /\ part \in Part
  /\ Tasks!Init /\ Pi!Init
  /\ IF part = "single" THEN Single!Init ELSE Hub!Init
  /\ IF part = "logs" THEN Logs!Init ELSE Log!Init
  /\ IF part = "old store" THEN Logs!Store!Init ELSE Log!Store!Init
  /\ IF part = "clock" THEN Clock!Init ELSE Queue!Init
  /\ Hub!Watcher!Init

TasksNext ==
  /\ part = "tasks" /\ Tasks!Next
  /\ UNCHANGED <<part, piVars, hubVars, logVars, storeVars, queueVars, configVars>>

PiNext ==
  /\ \/ part = "pi" /\ Pi!Next
     \/ part = "stopped" /\ Stopped!Next
  /\ UNCHANGED <<part, taskVars, hubVars, logVars, storeVars, queueVars, configVars>>

HubNext ==
  /\ \/ part = "hub" /\ Hub!Next
     \/ part = "single" /\ Single!Next
  /\ UNCHANGED <<part, taskVars, piVars, logVars, storeVars, queueVars, configVars>>

LogNext ==
  /\ \/ part = "log" /\ Log!Next
     \/ part = "logs" /\ Logs!Next
  /\ UNCHANGED <<part, taskVars, piVars, hubVars, storeVars, queueVars, configVars>>

StoreNext ==
  /\ \/ part = "store" /\ Log!Store!Next
     \/ part = "old store" /\ Logs!Store!Next
  /\ UNCHANGED <<part, taskVars, piVars, hubVars, logVars, queueVars, configVars>>

QueueNext ==
  /\ \/ part = "queue" /\ Queue!Next
     \/ part = "clock" /\ Clock!Next
  /\ UNCHANGED <<part, taskVars, piVars, hubVars, logVars, storeVars, configVars>>

ConfigNext ==
  /\ \/ part = "config" /\ Hub!Watcher!Next
     \/ part = "saves" /\ Single!Watcher!Next
  /\ UNCHANGED <<part, taskVars, piVars, hubVars, logVars, storeVars, queueVars>>

Next ==
  TasksNext \/ PiNext \/ HubNext \/ LogNext \/ StoreNext \/ QueueNext \/ ConfigNext

Spec == Init /\ [][Next]_vars
-------------------------------------------------------------------------------
(* The properties of the components, by the names they have there.         *)
OneExecution == Tasks!OneExecution
NoShutdownFailure == Tasks!NoShutdownFailure
OneSubprocess == Pi!OneSubprocess /\ Pi!PromptedInJail
SuccessMeansSettled == Pi!SuccessMeansSettled
NoDirLeft == Pi!NoDirLeft
DisconnectOnce == Hub!DisconnectOnce
GoneHoldsNothing == part = "single" => Single!GoneHoldsNothing
PartsFollowConfig == Hub!Watcher!PartsFollowConfig
LastSaveApplied == part = "saves" => Single!Watcher!LastSaveApplied
OneFreshPerKey == IF part = "clock" THEN Clock!OneFreshPerKey ELSE Queue!OneFreshPerKey
HandedOutFifo ==
  IF part = "clock" THEN Clock!HandedOutFifo /\ Clock!SliceMirrorsMap
                    ELSE Queue!HandedOutFifo /\ Queue!SliceMirrorsMap

(* The log on disk keeps what a guest has sent, and browsers see it; where *)
(* the guests of other tasks flush its text, the log in memory keeps it.   *)
LogsComplete ==
  IF part = "logs" THEN Logs!InOrder ELSE Log!DiskKeepsTrace /\ Log!ShownIsStored

(* What is read back is complete, and every task with an entry is listed.  *)
LogsReadable ==
  IF part = "old store" THEN Logs!Store!TraceComplete /\ Logs!Store!LoggedAreListed
                        ELSE Log!Store!TraceComplete
===============================================================================
