------------------------------ MODULE MCLiveness -------------------------------
(***************************************************************************)
(* What must happen in the components on either side of a connection, for  *)
(* TLC, in one run: a behaviour picks one component at the start, the      *)
(* others stay as they begin.  The components share no variables           *)
(* (GuestConnection uses the client by its contract), so that nothing is   *)
(* lost by checking each on its own.                                       *)
(***************************************************************************)
EXTENDS Naturals, Sequences

CONSTANTS t1, t2, NoTask

VARIABLES
  part,
  \* RpcClient
  alive, stalled, closed, connected, onCloses, graceful, nextID, pc, current, answer,
  requests, wire, callResp, notes,
  \* GuestConnection
  start, channel, session, phase, lost, blame, over, loop, snapshot, through, stopping,
  \* GuestTasks
  conn, standing, stopped, killed, note, arrived, taskCh, disp, job, outcome, mu,
  running, currentTask, cancelOf, aborted, reports,
  \* PiHandler
  cs, client, ex, cancelled, dirs, jails, stops, guest, result,
  \* Hub
  sock, hello, got, at, assigned, target, writer, msg, send, shut, role, run,
  connections, mapping, known, entry, assigns

rpcVars == <<alive, stalled, closed, connected, onCloses, graceful, nextID, pc, current, answer,
             requests, wire, callResp, notes>>
connectionVars == <<start, channel, session, phase, lost, blame, over, loop, snapshot,
                    through, stopping>>
taskVars == <<conn, standing, stopped, killed, note, arrived, taskCh, disp, job, outcome,
              mu, running, currentTask, cancelOf, aborted, reports>>
piVars == <<cs, client, ex, cancelled, dirs, jails, stops, guest, result>>
hubVars == <<sock, hello, got, at, assigned, target, writer, msg, send, shut, role, run,
             connections, mapping, known, entry, assigns>>
vars == <<part, rpcVars, connectionVars, taskVars, piVars, hubVars>>
-------------------------------------------------------------------------------
(* A heartbeat and the confirmation of a cancellation share the client.    *)
Rpc == INSTANCE RpcClient WITH
  Caller <- {"heartbeat", "cancel"}, Handler <- {"cancel"},
  MaxCalls <- 2, MaxNotes <- 1

(* Two connections; the server may forget the guest.                       *)
Connection == INSTANCE GuestConnection WITH
  MaxConns <- 2, ServerForgets <- TRUE,
  current <- channel, client <- session, cancelled <- over, stopped <- stopping

(* Two assignments over two connections; as tasks are alike, the first one *)
(* is taken to be of t1.                                                   *)
Tasks == INSTANCE GuestTasks WITH
  Task <- {t1, t2}, MaxConns <- 2, MaxNotes <- 2, ChanCap <- 1,
  Cancels <- FALSE, Stops <- FALSE, connected <- standing

(* One execution that may meet every failure.                              *)
Pi == INSTANCE PiHandler WITH
  MaxTasks <- 1, MaxClients <- 2, PipeCap <- 1, Attempts <- 1, SpawnLines <- 1,
  EventCap <- 1, Timeout <- TRUE, Cancels <- TRUE, PiExits <- TRUE, PiChatty <- FALSE,
  SpawnFaults <- TRUE, PrepareFaults <- TRUE, Shutdowns <- FALSE

(* A guest, and a browser that may stop reading.                           *)
Hub == INSTANCE Hub WITH
  GuestConn <- {1}, BrowserConn <- {2}, Task <- {t1}, SendCap <- 1, Stalling <- {2},
  MaxAssigns <- 1, job <- assigned, closed <- shut

ASSUME Assumptions ==
  /\ Rpc!CallerAssumption /\ Rpc!BoundAssumption
  /\ Connection!BoundAssumption
  /\ Tasks!NoTaskAssumption /\ Tasks!BoundAssumption /\ Tasks!SwitchAssumption
  /\ Pi!PiHandlerAssumption
  /\ Hub!ConnAssumption /\ Hub!NoTaskAssumption /\ Hub!BoundAssumption
-------------------------------------------------------------------------------
Init ==
  /\ part \in {"rpc", "connection", "tasks", "pi", "hub"}
  /\ Rpc!Init /\ Connection!Init /\ Tasks!Init /\ Pi!Init /\ Hub!Init

(* A step of one part leaves the others alone.                             *)
RpcOnly == UNCHANGED <<part, connectionVars, taskVars, piVars, hubVars>>
ConnectionOnly == UNCHANGED <<part, rpcVars, taskVars, piVars, hubVars>>
TasksOnly == UNCHANGED <<part, rpcVars, connectionVars, piVars, hubVars>>
PiOnly == UNCHANGED <<part, rpcVars, connectionVars, taskVars, hubVars>>
HubOnly == UNCHANGED <<part, rpcVars, connectionVars, taskVars, piVars>>

Next ==
  \/ part = "rpc" /\ Rpc!Next /\ RpcOnly
  \/ part = "connection" /\ Connection!Next /\ ConnectionOnly
  \/ part = "tasks" /\ Tasks!Next /\ note'[1].task # t2 /\ TasksOnly
  \/ part = "pi" /\ Pi!Next /\ PiOnly
  \/ part = "hub" /\ Hub!Next /\ HubOnly

Spec == Init /\ [][Next]_vars

(* The fairness of each component: the actions it is weakly and strongly   *)
(* fair of, numbered.  Of five actions of which one belongs to each part,  *)
(* only that of the part at hand is ever enabled, so that one condition on *)
(* their disjunction is a condition on each.                               *)
Thread(i) == <<"heartbeat", "cancel", Rpc!Reader>>[i]

RpcWeak(i) ==
  \/ i = 1 /\ (Rpc!Read \/ Rpc!ReadError)
  \/ i \in {2, 3} /\ Rpc!Write(Thread(i - 1))
  \/ i \in {4, 5} /\ LET c == Thread(i - 3) IN Rpc!Receive(c) \/ Rpc!SeeClosed(c) \/ Rpc!Timeout(c)
RpcStrong(i) == i \in 1..3 /\ Rpc!TakeMu(Thread(i))

ConnectionWeak(i) ==
  \/ i = 1 /\ Connection!StartLoop
  \/ i = 2 /\ Connection!SeeStopped
  \/ i \in {3, 4} /\ LET k == i - 2 IN k \in over /\ Connection!HeartbeatLoop(k)
  \/ i \in {5, 6} /\ Connection!OnClose(i - 4)
  \/ i \in {7, 8} /\ Connection!Fail(i - 6)
ConnectionStrong(i) == i \in {1, 2} /\ Connection!LoopEnds(i)

TasksWeak(i) ==
  \/ i = 1 /\ Tasks!Reconnect
  \/ i \in {2, 3} /\ Tasks!Handler(i - 1)
  \/ i \in {4, 5} /\ Tasks!Dispatcher(i - 3)

PiWeak(i) ==
  \/ i = 1 /\ Pi!TaskStep
  \/ i = 2 /\ (Pi!StopKill("task") \/ Pi!StopReturns("task"))
  \/ i \in {3, 4} /\ Pi!ContextKill(i - 2)
  \/ i \in {5, 6} /\ Pi!WaitProcess(i - 4)
  \/ i \in {7, 8} /\ LET c == i - 6 IN Pi!ReadEvent(c) \/ Pi!ReadEnd(c)
  \/ i \in {9, 10} /\ Pi!TakeEvent(i - 8)
  \/ i = 11 /\ Pi!TaskTimeout

HubWeak(i) ==
  \/ i = 1 /\ (Hub!RunWorks \/ \E c \in Hub!Conn : Hub!RunReceives(c))
  \/ i \in {2, 3} /\ Hub!Reader(i - 1)
  \/ i \in {4, 5} /\ Hub!Writer(i - 3)
  \/ i \in {6, 7, 8} /\ Hub!Deliver(i - 6)
  \/ i = 9 /\ Hub!StallEnds(2)
HubStrong(i) ==
  \/ i = 1 /\ \E c \in Hub!Conn : Hub!BroadcastTo(c)
  \/ i = 2 /\ Hub!EndStalledWrite(2)

Weak(i) ==
  /\ UNCHANGED part
  /\ \/ part = "rpc" /\ RpcWeak(i)
     \/ part = "connection" /\ ConnectionWeak(i)
     \/ part = "tasks" /\ TasksWeak(i)
     \/ part = "pi" /\ PiWeak(i)
     \/ part = "hub" /\ HubWeak(i)

Strong(i) ==
  /\ UNCHANGED part
  /\ \/ part = "rpc" /\ RpcStrong(i)
     \/ part = "connection" /\ ConnectionStrong(i)
     \/ part = "hub" /\ HubStrong(i)

partVars ==
  CASE part = "rpc" -> rpcVars
    [] part = "connection" -> connectionVars
    [] part = "tasks" -> taskVars
    [] part = "pi" -> piVars
    [] part = "hub" -> hubVars

FairSpec ==
  /\ Spec
  /\ \A i \in 1..11 : WF_partVars(Weak(i))
  /\ \A i \in 1..3 : SF_partVars(Strong(i))
-------------------------------------------------------------------------------
(* The properties of the components, by the names they have there.         *)
CallsReturn == Rpc!CallsReturn
KeepsContract == Rpc!KeepsContract /\ Connection!ClientsKeepContract
SocketsReportOwnLoss == Connection!SocketsReportOwnLoss
LossNoticed == Connection!LossNoticed /\ Connection!LeftoverLoopsEnd
QueuedServed == Tasks!QueuedServed /\ Tasks!LeftoverDispatchersEnd
ExecutionsEnd == Pi!ExecutionsEnd
LossesHandled == Hub!LossesHandled
===============================================================================
