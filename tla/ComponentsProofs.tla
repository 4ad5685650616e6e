---------------------------- MODULE ComponentsProofs ----------------------------
(***************************************************************************)
(* The properties of MCComponents, from the theorems of the components.    *)
(* In each behaviour the part that was picked takes the steps of its       *)
(* component, and the variables of the others stay as they began; so that  *)
(* it is a behaviour of every component, of the instance picked or of one  *)
(* that is not.                                                            *)
(***************************************************************************)
EXTENDS MCComponents, TLAPS

(* A step is one of a component, as seen from each of them. *)
LEMMA Turns ==
  ASSUME [Next]_vars
  PROVE  /\ TasksNext \/ UNCHANGED taskVars
         /\ PiNext \/ UNCHANGED piVars
         /\ HubNext \/ UNCHANGED hubVars
         /\ LogNext \/ UNCHANGED logVars
         /\ StoreNext \/ UNCHANGED storeVars
         /\ QueueNext \/ UNCHANGED queueVars
         /\ ConfigNext \/ UNCHANGED configVars
         /\ UNCHANGED part
  BY DEF Next, vars, TasksNext, PiNext, HubNext, LogNext, StoreNext, QueueNext, ConfigNext
-------------------------------------------------------------------------------
(* The guest's execution of tasks.                                         *)
LEMMA TasksBehave == Spec => Tasks!Spec
<1>1. Init => Tasks!Init BY DEF Init
<1>2. [Next]_vars => [Tasks!Next]_Tasks!vars
  <2>1. TasksNext => Tasks!Next BY DEF TasksNext
  <2>2. UNCHANGED taskVars => UNCHANGED Tasks!vars
    BY DEF taskVars, Tasks!vars, Tasks!connVars, Tasks!stopVars, Tasks!noteVars,
           Tasks!dispVars, Tasks!runVars
  <2> QED BY <2>1, <2>2, Turns
<1> QED BY <1>1, <1>2, PTL DEF Spec, Tasks!Spec

(* A guest executes one task at a time (MCComponents).                     *)
THEOREM GuestExecutesOne == Spec => []OneExecution
<1>1. Tasks!Assumptions BY Assumptions DEF Tasks!Assumptions
<1>2. Tasks!Spec => []Tasks!OneExecution BY <1>1, Tasks!ExecutesOne
<1>3. Tasks!OneExecution => OneExecution BY DEF OneExecution
<1> QED BY <1>2, <1>3, TasksBehave, PTL

(* No failure is reported that is due to the guest's shutdown.             *)
THEOREM GuestStopsSilently == Spec => []NoShutdownFailure
<1>1. Tasks!Assumptions BY Assumptions DEF Tasks!Assumptions
<1>2. Tasks!Spec => []Tasks!NoShutdownFailure BY <1>1, Tasks!ShutdownSilent
<1>3. Tasks!NoShutdownFailure => NoShutdownFailure BY DEF NoShutdownFailure
<1> QED BY <1>2, <1>3, TasksBehave, PTL
-------------------------------------------------------------------------------
(* The handler and its pi subprocesses: the two instances begin alike.     *)
LEMMA PiBehaves == Spec => Pi!Spec \/ Stopped!Spec
<1> DEFINE Other == part = "stopped"
<1>1. Init => Pi!Init BY DEF Init
<1>2. Init => Stopped!Init
  BY <1>1 DEF Pi!Init, Stopped!Init, Pi!Client, Stopped!Client, Pi!Started, Stopped!Started,
     Pi!NewClient, Stopped!NewClient, Pi!NoExecution, Stopped!NoExecution,
     Pi!NotStopping, Stopped!NotStopping, Pi!NoResult, Stopped!NoResult
<1>3. UNCHANGED piVars => UNCHANGED Pi!vars /\ UNCHANGED Stopped!vars
  BY DEF piVars, Pi!vars, Stopped!vars
<1>4. Other /\ [Next]_vars => Other' /\ [Stopped!Next]_Stopped!vars
  BY <1>3, Turns DEF PiNext
<1>5. ~Other /\ [Next]_vars => ~Other' /\ [Pi!Next]_Pi!vars
  BY <1>3, Turns DEF PiNext
<1> HIDE DEF Other
<1> QED BY <1>1, <1>2, <1>4, <1>5, PTL DEF Spec, Pi!Spec, Stopped!Spec

(* One pi at a time, and prompts only to a pi of the jail of its task.     *)
THEOREM OnePiInJail == Spec => []OneSubprocess
<1>1. Pi!Spec => []Pi!OneSubprocess /\ []Pi!PromptedInJail
  BY Assumptions, Pi!OnePiRuns, Pi!PromptsInJail, PTL
<1>2. Stopped!Spec => []Stopped!OneSubprocess /\ []Stopped!PromptedInJail
  BY Assumptions, Stopped!OnePiRuns, Stopped!PromptsInJail, PTL
<1>3. Pi!OneSubprocess /\ Pi!PromptedInJail => OneSubprocess BY DEF OneSubprocess
<1>4. Stopped!OneSubprocess /\ Stopped!PromptedInJail => OneSubprocess
  BY DEF OneSubprocess, Pi!OneSubprocess, Stopped!OneSubprocess, Pi!PromptedInJail,
     Stopped!PromptedInJail, Pi!Alive, Stopped!Alive, Pi!Client, Stopped!Client
<1> QED BY <1>1, <1>2, <1>3, <1>4, PiBehaves, PTL

(* A task is reported completed only if pi settled after its prompt.       *)
THEOREM SettledSuccess == Spec => []SuccessMeansSettled
<1>1. Pi!Spec => []Pi!SuccessMeansSettled BY Assumptions, Pi!SuccessIsSettled
<1>2. Stopped!Spec => []Stopped!SuccessMeansSettled BY Assumptions, Stopped!SuccessIsSettled
<1>3. Pi!SuccessMeansSettled => SuccessMeansSettled BY DEF SuccessMeansSettled
<1>4. Stopped!SuccessMeansSettled => SuccessMeansSettled
  BY DEF SuccessMeansSettled, Pi!SuccessMeansSettled, Stopped!SuccessMeansSettled
<1> QED BY <1>1, <1>2, <1>3, <1>4, PiBehaves, PTL

(* Of a finished execution no directory and no jail are left.              *)
THEOREM NothingLeftBehind == Spec => []NoDirLeft
<1>1. Pi!Spec => []Pi!NoDirLeft BY Assumptions, Pi!NothingLeft
<1>2. Stopped!Spec => []Stopped!NoDirLeft BY Assumptions, Stopped!NothingLeft
<1>3. Pi!NoDirLeft => NoDirLeft BY DEF NoDirLeft
<1>4. Stopped!NoDirLeft => NoDirLeft
  BY DEF NoDirLeft, Pi!NoDirLeft, Stopped!NoDirLeft, Pi!Alive, Stopped!Alive
<1> QED BY <1>1, <1>2, <1>3, <1>4, PiBehaves, PTL
-------------------------------------------------------------------------------
(* The hub: with two connections, or with the single one.                  *)
LEMMA HubBehaves ==
  Spec => \/ []~(part = "single") /\ Hub!Spec
          \/ [](part = "single") /\ Single!Spec
<1> DEFINE Other == part = "single"
<1>1. Init /\ ~Other => Hub!Init BY DEF Init
<1>2. Init /\ Other => Single!Init BY DEF Init
<1>3. UNCHANGED hubVars => UNCHANGED Hub!vars /\ UNCHANGED Single!vars
  BY DEF hubVars, Hub!vars, Hub!peerVars, Hub!loopVars, Hub!connVars, Hub!hubVars, Hub!guestVars,
     Single!vars, Single!peerVars, Single!loopVars, Single!connVars, Single!hubVars,
     Single!guestVars
<1>4. ~Other /\ [Next]_vars => ~Other' /\ [Hub!Next]_Hub!vars BY <1>3, Turns DEF HubNext
<1>5. Other /\ [Next]_vars => Other' /\ [Single!Next]_Single!vars BY <1>3, Turns DEF HubNext
<1>6. Other <=> part = "single" OBVIOUS
<1> HIDE DEF Other
<1> QED BY <1>1, <1>2, <1>4, <1>5, <1>6, PTL DEF Spec, Hub!Spec, Single!Spec

(* Run calls the disconnect callback for a connection that is in its table.*)
THEOREM CallbacksOnce == Spec => DisconnectOnce
<1>1. Hub!Spec => Hub!DisconnectOnce BY Assumptions, Hub!CallbackOnce DEF Hub!Assumptions
<1>2. Single!Spec => Single!DisconnectOnce
  BY Assumptions, Single!CallbackOnce DEF Single!Assumptions
<1>3. Hub!vars = Single!vars
  BY DEF Hub!vars, Hub!peerVars, Hub!loopVars, Hub!connVars, Hub!hubVars, Hub!guestVars,
     Single!vars, Single!peerVars, Single!loopVars, Single!connVars, Single!hubVars,
     Single!guestVars
<1>4. [run.at = "remove" /\ run'.at # "remove" => run.c \in connections]_Single!vars
      => [run.at = "remove" /\ run'.at # "remove" => run.c \in connections]_Hub!vars
  BY DEF Hub!vars, Hub!peerVars, Hub!loopVars, Hub!connVars, Hub!hubVars, Hub!guestVars,
     Single!vars, Single!peerVars, Single!loopVars, Single!connVars, Single!hubVars,
     Single!guestVars
<1> QED
  BY <1>1, <1>2, <1>4, HubBehaves, PTL
     DEF DisconnectOnce, Hub!DisconnectOnce, Single!DisconnectOnce

(* A guest with a single connection holds no task once it is gone.         *)
THEOREM GoneHoldNothing == Spec => []GoneHoldsNothing
<1>1. Single!Spec => []Single!GoneHoldsNothing
  <2>1. 1 \in Single!Conn BY DEF Single!Conn
  <2> QED BY <2>1, Assumptions, Single!NothingHeld DEF Single!Assumptions
<1>2. Single!GoneHoldsNothing => GoneHoldsNothing BY DEF GoneHoldsNothing
<1>3. ~(part = "single") => GoneHoldsNothing BY DEF GoneHoldsNothing
<1> QED BY <1>1, <1>2, <1>3, HubBehaves, PTL
-------------------------------------------------------------------------------
(* The log accumulator: one task, or two that may be cancelled.            *)
LEMMA LogBehaves ==
  Spec => \/ []~(part = "logs") /\ Log!Spec
          \/ [](part = "logs") /\ Logs!Spec
<1> DEFINE Other == part = "logs"
<1>1. Init /\ ~Other => Log!Init BY DEF Init
<1>2. Init /\ Other => Logs!Init BY DEF Init
<1>3. UNCHANGED logVars => UNCHANGED Log!vars /\ UNCHANGED Logs!vars
  BY DEF logVars, Log!vars, Logs!vars
<1>4. ~Other /\ [Next]_vars => ~Other' /\ [Log!Next]_Log!vars BY <1>3, Turns DEF LogNext
<1>5. Other /\ [Next]_vars => Other' /\ [Logs!Next]_Logs!vars BY <1>3, Turns DEF LogNext
<1>6. Other <=> part = "logs" OBVIOUS
<1> HIDE DEF Other
<1> QED BY <1>1, <1>2, <1>4, <1>5, <1>6, PTL DEF Spec, Log!Spec, Logs!Spec

(* The logs keep what a guest has sent, in order (MCComponents).           *)
THEOREM LogsKeepAll == Spec => []LogsComplete
<1>1. Log!Spec => []Log!DiskKeepsTrace
  <2>1. Log!AloneAssumption BY DEF Log!AloneAssumption
  <2> QED BY <2>1, Assumptions, Log!DiskKeeps
<1>2. Log!Spec => []Log!ShownIsStored BY Assumptions, Log!ShownStored
<1>3. Logs!Spec => []Logs!InOrder BY Assumptions, Logs!MemoryInOrder
<1>4. ~(part = "logs") /\ Log!DiskKeepsTrace /\ Log!ShownIsStored => LogsComplete
  BY DEF LogsComplete
<1>5. part = "logs" /\ Logs!InOrder => LogsComplete BY DEF LogsComplete
<1> QED BY <1>1, <1>2, <1>3, <1>4, <1>5, LogBehaves, PTL
-------------------------------------------------------------------------------
(* The log store: new, or with a file from before.                         *)
LEMMA StoreBehaves ==
  Spec => \/ []~(part = "old store") /\ Log!Store!Spec
          \/ [](part = "old store") /\ Logs!Store!Spec
<1> DEFINE Other == part = "old store"
<1>1. Init /\ ~Other => Log!Store!Init BY DEF Init
<1>2. Init /\ Other => Logs!Store!Init BY DEF Init
<1>3. UNCHANGED storeVars => UNCHANGED Log!Store!vars /\ UNCHANGED Logs!Store!vars
  BY DEF storeVars, Log!Store!vars, Logs!Store!vars
<1>4. ~Other /\ [Next]_vars => ~Other' /\ [Log!Store!Next]_Log!Store!vars
  BY <1>3, Turns DEF StoreNext
<1>5. Other /\ [Next]_vars => Other' /\ [Logs!Store!Next]_Logs!Store!vars
  BY <1>3, Turns DEF StoreNext
<1>6. Other <=> part = "old store" OBVIOUS
<1> HIDE DEF Other
<1> QED BY <1>1, <1>2, <1>4, <1>5, <1>6, PTL DEF Spec, Log!Store!Spec, Logs!Store!Spec

(* What is read back is complete, every task with an entry is listed.      *)
THEOREM LogsAreReadable == Spec => []LogsReadable
<1>1. Log!Store!Spec => []Log!Store!TraceComplete BY Assumptions, Log!TracesComplete
<1>2. Logs!Store!Spec => []Logs!Store!TraceComplete BY Assumptions, Logs!TracesComplete
<1>3. Logs!Store!Spec => []Logs!Store!LoggedAreListed BY Assumptions, Logs!TasksListed
<1>4. ~(part = "old store") /\ Log!Store!TraceComplete => LogsReadable BY DEF LogsReadable
<1>5. part = "old store" /\ Logs!Store!TraceComplete /\ Logs!Store!LoggedAreListed => LogsReadable
  BY DEF LogsReadable
<1> QED BY <1>1, <1>2, <1>3, <1>4, <1>5, StoreBehaves, PTL
-------------------------------------------------------------------------------
(* The task queue: with restarts, or with a wall clock that is set back.   *)
LEMMA QueueBehaves ==
  Spec => \/ []~(part = "clock") /\ Queue!Spec
          \/ [](part = "clock") /\ Clock!Spec
<1> DEFINE Other == part = "clock"
<1>1. Init /\ ~Other => Queue!Init BY DEF Init
<1>2. Init /\ Other => Clock!Init BY DEF Init
<1>3. UNCHANGED queueVars => UNCHANGED Queue!vars /\ UNCHANGED Clock!vars
  BY DEF queueVars, Queue!vars, Queue!clock, Queue!history, Clock!vars, Clock!clock, Clock!history
<1>4. ~Other /\ [Next]_vars => ~Other' /\ [Queue!Next]_Queue!vars BY <1>3, Turns DEF QueueNext
<1>5. Other /\ [Next]_vars => Other' /\ [Clock!Next]_Clock!vars BY <1>3, Turns DEF QueueNext
<1>6. Other <=> part = "clock" OBVIOUS
<1> HIDE DEF Other
<1> QED BY <1>1, <1>2, <1>4, <1>5, <1>6, PTL DEF Spec, Queue!Spec, Clock!Spec

(* Tasks are handed out in their order, from a slice that has them all.    *)
THEOREM QueuesAreFifo == Spec => []HandedOutFifo
<1>1. Queue!Spec => []Queue!HandedOutFifo
  BY Assumptions, Queue!FifoCorrect DEF Queue!OrderAssumption
<1>2. Clock!Spec => []Clock!HandedOutFifo
  BY Assumptions, Clock!FifoCorrect DEF Clock!OrderAssumption
<1>3. Queue!Spec => []Queue!SliceMirrorsMap BY Assumptions, Queue!SliceFollowsMap
<1>4. Clock!Spec => []Clock!SliceMirrorsMap BY Assumptions, Clock!SliceFollowsMap
<1>5. ~(part = "clock") /\ Queue!HandedOutFifo /\ Queue!SliceMirrorsMap => HandedOutFifo
  BY DEF HandedOutFifo
<1>6. part = "clock" /\ Clock!HandedOutFifo /\ Clock!SliceMirrorsMap => HandedOutFifo
  BY DEF HandedOutFifo
<1> QED BY <1>1, <1>2, <1>3, <1>4, <1>5, <1>6, QueueBehaves, PTL

(* Of the pending tasks with one dedup_key one at most was never handed    *)
(* out.                                                                    *)
THEOREM QueuesDeduplicate == Spec => []OneFreshPerKey
<1>1. Queue!Spec => []Queue!OneFreshPerKey BY Assumptions, Queue!FreshIsUnique
<1>2. Clock!Spec => []Clock!OneFreshPerKey BY Assumptions, Clock!FreshIsUnique
<1>3. ~(part = "clock") /\ Queue!OneFreshPerKey => OneFreshPerKey BY DEF OneFreshPerKey
<1>4. part = "clock" /\ Clock!OneFreshPerKey => OneFreshPerKey BY DEF OneFreshPerKey
<1> QED BY <1>1, <1>2, <1>3, <1>4, QueueBehaves, PTL
-------------------------------------------------------------------------------
(* The configuration: the two instances of its watcher begin alike.        *)
LEMMA ConfigBehaves ==
  Spec => \/ []~(part = "saves") /\ Hub!Watcher!Spec
          \/ [](part = "saves") /\ Single!Watcher!Spec
<1> DEFINE Other == part = "saves"
<1>1. Init => Hub!Watcher!Init BY DEF Init
<1>2. Init => Single!Watcher!Init BY <1>1 DEF Hub!Watcher!Init, Single!Watcher!Init
<1>3. UNCHANGED configVars => UNCHANGED Hub!Watcher!vars /\ UNCHANGED Single!Watcher!vars
  BY DEF configVars, Hub!Watcher!vars, Hub!Watcher!fileVars, Hub!Watcher!watchVars,
     Hub!Watcher!appVars, Single!Watcher!vars, Single!Watcher!fileVars,
     Single!Watcher!watchVars, Single!Watcher!appVars
<1>4. ~Other /\ [Next]_vars => ~Other' /\ [Hub!Watcher!Next]_Hub!Watcher!vars
  BY <1>3, Turns DEF ConfigNext
<1>5. Other /\ [Next]_vars => Other' /\ [Single!Watcher!Next]_Single!Watcher!vars
  BY <1>3, Turns DEF ConfigNext
<1>6. Other <=> part = "saves" OBVIOUS
<1> HIDE DEF Other
<1> QED BY <1>1, <1>2, <1>4, <1>5, <1>6, PTL DEF Spec, Hub!Watcher!Spec, Single!Watcher!Spec

(* The parts of the server follow the configuration.                       *)
THEOREM PartsFollowed == Spec => []PartsFollowConfig
<1>1. Hub!Watcher!Spec => []Hub!Watcher!PartsFollowConfig BY Assumptions, Hub!PartsFollow
<1>2. Single!Watcher!Spec => []Single!Watcher!PartsFollowConfig BY Assumptions, Single!PartsFollow
<1>3. Hub!Watcher!PartsFollowConfig => PartsFollowConfig BY DEF PartsFollowConfig
<1>4. Single!Watcher!PartsFollowConfig => PartsFollowConfig
  BY DEF PartsFollowConfig, Hub!Watcher!PartsFollowConfig, Single!Watcher!PartsFollowConfig
<1> QED BY <1>1, <1>2, <1>3, <1>4, ConfigBehaves, PTL

(* What was saved last is what the program runs with at rest.              *)
THEOREM LastSavesApplied == Spec => []LastSaveApplied
<1>1. Single!Watcher!Spec => []Single!Watcher!LastSaveApplied
  <2>1. EmptyFile \notin {OtherFile, RefusedFile, BrokenFile}
    BY DEF EmptyFile, OtherFile, RefusedFile, BrokenFile, ContentOf
  <2>2. Single!UsualEditors BY <2>1 DEF Single!UsualEditors
  <2> QED BY <2>2, Assumptions, Single!LastSaveWins
<1>2. Single!Watcher!LastSaveApplied => LastSaveApplied BY DEF LastSaveApplied
<1>3. ~(part = "saves") => LastSaveApplied BY DEF LastSaveApplied
<1> QED BY <1>1, <1>2, <1>3, ConfigBehaves, PTL
===============================================================================
