------------------------------- MODULE HubProofs --------------------------------
(***************************************************************************)
(* Theorems about Hub, for every number of connections and tasks, and      *)
(* about ConfigWatcher, for every set of contents and number of saves,     *)
(* touches and events in wait: the two loops of the server that run for as *)
(* long as it does.                                                        *)
(***************************************************************************)
EXTENDS Hub, TLAPS

CONSTANTS
  Content, Empty, First, Invalid, Unusable, NoContent, MaxSaves, MaxTouches, MaxEvents,
  InPlace, Repeats, Early
VARIABLES
  file, writing, saved, saves, touches, events, pc, lastContent, data, parsed,
  configCh, cfg, personaStore, logDir
Watcher == INSTANCE ConfigWatcher WITH disk <- logDir

-------------------------------------------------------------------------------
Assumptions == ConnAssumption /\ NoTaskAssumption /\ BoundAssumption

LoopTypeOK ==
  /\ connections \subseteq Conn
  /\ sock \in [Conn -> {"none", "up", "stalled", "down"}]
  /\ at \in [Thread -> {"off", "offer", "read", "unregister", "done"} \cup Handling]
  /\ writer \in [Conn -> {"off", "select", "write", "unregister", "done"}]
  /\ run \in [at : {"select", "insert", "remove", "find", "requeue", "broadcast"},
              c : Conn \cup {NoConn}, todo : SUBSET Conn]

Fresh(c) == at[c] \in {"off", "offer"}
Unregisters(c) == at[c] = "unregister" \/ writer[c] = "unregister"
Inserting(c) == run.at = "insert" /\ run.c = c
InTable(c) == c \in connections \/ Inserting(c)

(* A connection that Run has received is in its table, or will be next,    *)
(* until it is closed; it is closed once, by the loop that unregisters it, *)
(* and stays in the table until Run has received that.                     *)
ConnOK(c) ==
  /\ sock[c] = "none" => at[c] = "off"
  /\ Fresh(c) => writer[c] = "off" /\ c \notin closed
  /\ ~Fresh(c) /\ c \notin closed => InTable(c)
  /\ Unregisters(c) => c \in closed /\ InTable(c)
  /\ at[c] = "unregister" => writer[c] # "unregister"
RunOK ==
  /\ run.at = "remove" => /\ run.c \in Conn \cap closed \cap connections
                          /\ ~Unregisters(run.c)
  /\ run.at = "insert" => run.c \in Conn /\ ~Fresh(run.c)

HubInv == LoopTypeOK /\ RunOK /\ \A c \in Conn : ConnOK(c)

LEMMA InitOK == ASSUME Assumptions, Init PROVE HubInv
  BY DEF Init, HubInv, LoopTypeOK, RunOK, ConnOK, Fresh, Unregisters, Thread, Conn, NoConn,
         Handling

(* The sockets, which only come up once. *)
SocksOK == /\ sock' \in [Conn -> {"none", "up", "stalled", "down"}]
           /\ \A c \in Conn : sock'[c] = "none" => sock[c] = "none"

LEMMA StepOK == ASSUME Assumptions, HubInv, Next PROVE HubInv'
<1> USE DEF HubInv, LoopTypeOK, peerVars, loopVars, connVars, hubVars, guestVars, Step, RunAt,
        Thread, Handling
<1>0. Sweeper \notin Conn BY DEF Assumptions, ConnAssumption, Conn, Sweeper
<1> USE <1>0
<1> DEFINE Still == UNCHANGED <<closed, run, connections>>
(* What neither loop nor Run takes part in. *)
<1>1. ASSUME UNCHANGED <<at, writer>>, Still, SocksOK PROVE HubInv'
  BY <1>1 DEF RunOK, ConnOK, Fresh, Unregisters, InTable, Inserting, SocksOK
<1>2. ASSUME NEW w \in Thread, NEW place, Step(w, place),
             \/ w = Sweeper /\ place \in {"off"} \cup Handling
             \/ at[w] \in {"read"} \cup Handling /\ place \in {"read", "done"} \cup Handling,
             UNCHANGED <<sock, writer>>, Still
      PROVE  HubInv'
  <2>1. at' \in [Thread -> {"off", "offer", "read", "unregister", "done"} \cup Handling]
    BY <1>2
  <2> QED BY <1>2, <2>1 DEF RunOK, ConnOK, Fresh, Unregisters, InTable, Inserting
<1>3. ASSUME NEW c \in Conn, Connect(c) PROVE HubInv'
  <2>1. at[c] = "off" BY <1>3 DEF Connect, ConnOK
  <2>2. SocksOK BY <1>3 DEF Connect, SocksOK
  <2> QED BY <1>3, <2>1, <2>2
        DEF Connect, RunOK, ConnOK, Fresh, Unregisters, InTable, Inserting, SocksOK
<1>4. ASSUME NEW c \in Conn, Stall(c) \/ Resume(c) \/ Break(c) \/ Publish(c) PROVE HubInv'
  <2>1. SocksOK BY <1>4 DEF Stall, Resume, Break, Publish, SocksOK
  <2> QED BY <1>1, <1>4, <2>1 DEF Stall, Resume, Break, Publish
(* A loop ends. *)
<1>5. ASSUME NEW c \in Conn, Closed(c) PROVE SocksOK
  BY <1>5 DEF Closed, SocksOK
<1>6. ASSUME NEW c \in Conn, at[c] = "read", ReaderCloses(c), UNCHANGED <<run, connections>>
      PROVE  HubInv'
  <2>1. CASE Closed(c)
    <3>1. /\ at' = [at EXCEPT ![c] = "unregister"] /\ writer' = Ended(writer, c, "select")
          /\ c \notin closed /\ closed' = closed \cup {c}
      BY <1>6, <2>1 DEF ReaderCloses, Closed
    <3>2. writer[c] # "unregister" BY <3>1 DEF ConnOK, Unregisters
    <3> QED BY <1>5, <1>6, <2>1, <3>1, <3>2
          DEF Ended, RunOK, ConnOK, Fresh, Unregisters, InTable, Inserting, SocksOK
  <2>2. CASE c \in closed
    BY <1>2, <1>6, <2>2 DEF ReaderCloses, Closed
  <2> QED BY <1>6, <2>1, <2>2 DEF ReaderCloses
<1>7. ASSUME NEW c \in Conn, writer[c] \in {"select", "write"}, WriterCloses(c),
             UNCHANGED <<run, connections>>
      PROVE  HubInv'
  <2>1. ~Fresh(c) BY <1>7 DEF ConnOK
  <2>2. CASE Closed(c)
    <3>1. /\ writer' = [writer EXCEPT ![c] = "unregister"] /\ at' = Ended(at, c, "read")
          /\ c \notin closed /\ closed' = closed \cup {c}
      BY <1>7, <2>2 DEF WriterCloses, Closed
    <3>2. at[c] # "unregister" BY <3>1 DEF ConnOK, Unregisters
    <3> QED BY <1>5, <1>7, <2>1, <2>2, <3>1, <3>2
          DEF Ended, RunOK, ConnOK, Fresh, Unregisters, InTable, Inserting, SocksOK
  <2>3. CASE c \in closed
    <3>1. writer' = [writer EXCEPT ![c] = "done"] /\ UNCHANGED <<closed, sock, at>>
      BY <1>7, <2>3 DEF WriterCloses, Closed
    <3> QED BY <1>7, <2>1, <3>1 DEF RunOK, ConnOK, Fresh, Unregisters, InTable, Inserting
  <2> QED BY <1>7, <2>2, <2>3 DEF WriterCloses
<1>8. ASSUME NEW c \in Conn, writer[c] \in {"select", "write"}, NEW place \in {"select", "write"},
             writer' = [writer EXCEPT ![c] = place], UNCHANGED <<at, sock>>, Still
      PROVE  HubInv'
  <2>1. ~Fresh(c) BY <1>8 DEF ConnOK
  <2> QED BY <1>8, <2>1 DEF RunOK, ConnOK, Fresh, Unregisters, InTable, Inserting
<1>9. ASSUME NEW c \in Conn, TakeMessage(c) PROVE HubInv'
  <2>1. CASE sock[c] = "up" /\ UNCHANGED <<sock, writer, at, closed>>
    BY <1>1, <1>9, <2>1 DEF TakeMessage, SocksOK
  <2>2. CASE sock[c] = "stalled" /\ writer' = [writer EXCEPT ![c] = "write"]
             /\ UNCHANGED <<sock, at, closed>>
    BY <1>8, <1>9, <2>2 DEF TakeMessage
  <2>3. CASE WriterCloses(c) BY <1>7, <1>9, <2>3 DEF TakeMessage
  <2> QED BY <1>9, <2>1, <2>2, <2>3 DEF TakeMessage
<1>10. ASSUME NEW c \in Conn, EndStalledWrite(c) PROVE HubInv'
  <2>1. CASE sock[c] = "up" /\ writer' = [writer EXCEPT ![c] = "select"]
             /\ UNCHANGED <<sock, at, closed>>
    BY <1>8, <1>10, <2>1 DEF EndStalledWrite
  <2>2. CASE WriterCloses(c) BY <1>7, <1>10, <2>2 DEF EndStalledWrite
  <2> QED BY <1>10, <2>1, <2>2 DEF EndStalledWrite
(* The handlers. *)
<1>11. ASSUME NEW c \in Conn, ReadFails(c) PROVE HubInv'
  BY <1>6, <1>11 DEF ReadFails
<1>12. ASSUME NEW c \in Conn,
              \/ ReadRegister(c) \/ RegisterConnection(c) \/ Register(c) \/ HandleAcknowledge(c)
              \/ HandleResult(c) \/ NothingToAssign(c) \/ Reply(c)
       PROVE  HubInv'
  <2>1. PICK place : Step(c, place) /\ at[c] \in {"read"} \cup Handling /\
               place \in {"read"} \cup Handling
    BY <1>12 DEF ReadRegister, RegisterConnection, Register, HandleAcknowledge, HandleResult,
                 NothingToAssign, Reply
  <2>2. UNCHANGED <<sock, writer>> /\ Still
    BY <1>12 DEF ReadRegister, RegisterConnection, Register, HandleAcknowledge, HandleResult,
                 NothingToAssign, Reply
  <2> QED BY <1>2, <2>1, <2>2
<1>13. ASSUME NEW w \in Thread, AssignTask(w) \/ LookUp(w) \/ SendAssignment(w) PROVE HubInv'
  <2>1. PICK place : /\ Step(w, place)
                  /\ \/ w = Sweeper /\ place \in {"off"} \cup Handling
                     \/ at[w] \in Handling /\ place \in Handling
    BY <1>13 DEF AssignTask, LookUp, SendAssignment, After
  <2>2. UNCHANGED <<sock, writer>> /\ Still
    BY <1>13 DEF AssignTask, LookUp, SendAssignment
  <2> QED BY <1>2, <2>1, <2>2
(* Hub.Run. *)
<1>14. ASSUME NEW c \in Conn, ReceiveRegister(c) PROVE HubInv'
  <2>1. /\ at' = [at EXCEPT ![c] = "read"] /\ writer' = [writer EXCEPT ![c] = "select"]
        /\ UNCHANGED <<sock, closed, connections>> /\ Fresh(c)
    BY <1>14 DEF ReceiveRegister, Fresh
  <2>2. /\ run' \in [at : {"insert"}, c : {c}, todo : SUBSET Conn] /\ run.at = "select"
    BY <1>14 DEF ReceiveRegister
  <2>3. LoopTypeOK' BY <2>1, <2>2
  <2>4. RunOK' BY <2>1, <2>2 DEF RunOK, Fresh
  <2>5. ConnOK(c)'
    <3>1. sock[c] # "none" BY <1>14 DEF ReceiveRegister, ConnOK
    <3> QED BY <2>1, <2>2, <3>1 DEF ConnOK, Fresh, Unregisters, InTable, Inserting
  <2>6. \A d \in Conn \ {c} : ConnOK(d)'
    BY <2>1, <2>2 DEF ConnOK, Fresh, Unregisters, InTable, Inserting
  <2> QED BY <2>3, <2>4, <2>5, <2>6
<1>15. ASSUME Insert PROVE HubInv'
  BY <1>15 DEF Insert, RunOK, ConnOK, Fresh, Unregisters, InTable, Inserting
<1>16. ASSUME NEW c \in Conn, ReceiveUnregister(c) PROVE HubInv'
  <2>1. run.at = "select" /\ run' \in [at : {"remove"}, c : {c}, todo : SUBSET Conn]
    BY <1>16 DEF ReceiveUnregister
  <2>2. Unregisters(c) /\ UNCHANGED <<sock, closed, connections>>
    BY <1>16 DEF ReceiveUnregister, Unregisters
  <2>3. c \in closed /\ c \in connections BY <2>1, <2>2 DEF ConnOK, InTable, Inserting
  <2>4. \/ at[c] = "unregister" /\ at' = [at EXCEPT ![c] = "done"] /\ writer' = writer
        \/ writer[c] = "unregister" /\ writer' = [writer EXCEPT ![c] = "done"] /\ at' = at
    BY <1>16 DEF ReceiveUnregister
  <2>5. LoopTypeOK' BY <2>1, <2>2, <2>4
  <2>6. ~Unregisters(c)' BY <2>4 DEF ConnOK, Unregisters
  <2>7. RunOK' BY <2>1, <2>2, <2>3, <2>6 DEF RunOK
  <2>8. \A d \in Conn : ConnOK(d)'
    BY <2>1, <2>2, <2>3, <2>4 DEF ConnOK, Fresh, Unregisters, InTable, Inserting
  <2> QED BY <2>5, <2>7, <2>8
<1>17. ASSUME Remove PROVE HubInv'
  BY <1>17 DEF Remove, RunOK, ConnOK, Fresh, Unregisters, InTable, Inserting
<1>18. ASSUME FindGuest \/ RequeueTask \/ EndBroadcast PROVE HubInv'
  <2>1. /\ run' \in [at : {"select", "requeue", "broadcast"}, c : Conn \cup {NoConn},
                    todo : SUBSET Conn]
        /\ run.at \notin {"insert", "remove"}
    <3>1. CASE FindGuest BY <3>1 DEF FindGuest
    <3>2. CASE RequeueTask BY <3>2 DEF RequeueTask
    <3>3. CASE EndBroadcast BY <3>3 DEF EndBroadcast
    <3> QED BY <1>18, <3>1, <3>2, <3>3
  <2>2. UNCHANGED <<sock, at, writer, closed, connections>>
    BY <1>18 DEF FindGuest, RequeueTask, EndBroadcast
  <2> QED BY <2>1, <2>2 DEF RunOK, ConnOK, Fresh, Unregisters, InTable, Inserting
<1>19. ASSUME NEW c \in Conn, BroadcastTo(c) PROVE HubInv'
  BY <1>19 DEF BroadcastTo, RunOK, ConnOK, Fresh, Unregisters, InTable, Inserting
<1> QED
  BY <1>3, <1>4, <1>9, <1>10, <1>11, <1>12, <1>13, <1>14, <1>15, <1>16, <1>17, <1>18, <1>19
     DEF Next, Peer, Writer, Reader, Deliver, RunReceives, RunWorks

LEMMA HubInvariant == ASSUME Assumptions PROVE Spec => []HubInv
<1>1. Init => HubInv BY InitOK
<1>2. HubInv /\ [Next]_vars => HubInv'
  <2>1. CASE UNCHANGED vars
    BY <2>1 DEF vars, peerVars, loopVars, connVars, hubVars, HubInv, LoopTypeOK, RunOK, ConnOK,
                Fresh, Unregisters, InTable, Inserting
  <2>2. HubInv /\ Next => HubInv' BY StepOK
  <2> QED BY <2>1, <2>2
<1> QED BY <1>1, <1>2, PTL DEF Spec

(* Whichever loop notices first that a connection has ended, and however   *)
(* many connections come and go, Run calls the disconnect callback once    *)
(* for each: what it removes is in its table.                              *)
THEOREM CallbackOnce == ASSUME Assumptions PROVE Spec => DisconnectOnce
<1>1. HubInv => (run.at = "remove" => run.c \in connections)
  BY DEF HubInv, RunOK
<1>2. HubInv /\ [Next]_vars
        => [run.at = "remove" /\ run'.at # "remove" => run.c \in connections]_vars
  BY <1>1
<1> QED BY <1>2, HubInvariant, PTL DEF Spec, DisconnectOnce
-------------------------------------------------------------------------------
SlotsOK == job \in [Thread -> Task \cup {NoTask}] /\ target \in [Thread -> Conn \cup {NoConn}]

(* A guest that opens a single connection, as it does while it is not      *)
(* restarted and the network holds: the connection of a registered guest   *)
(* is mapped, and no assignment goes elsewhere.                            *)
MappedOK(c) ==
  /\ hello \subseteq GuestConn
  /\ mapping \in {NoConn, c}
  /\ \A w \in Thread : at[w] \in {"connection", "register", "assign", "look", "send"}
                         => w \in {c, Sweeper}
  /\ \A w \in Thread : at[w] = "connection" => w = c
  /\ \A w \in Thread : at[w] = "register" => mapping = c
  /\ known => mapping = c
  /\ mapping = c => ~Fresh(c)
  /\ \A w \in Thread : at[w] = "send" => target[w] = c /\ mapping = c

(* A connection that is closed and in the table is still to be removed.    *)
ClosedOK ==
  /\ \A c \in Conn : c \in closed /\ InTable(c)
                        => Unregisters(c) \/ (run.at = "remove" /\ run.c = c)
  /\ \A c \in Conn : at[c] = "done" => c \in closed

(* A task that is handed out has a thread that will find it cannot be      *)
(* delivered, or the callback of the connection is still to come.          *)
CallbackDue(c) ==
  InTable(c) \/ (run.c = c /\ run.at \in {"remove", "find", "requeue"})
EntryOK(c) ==
  /\ entry \in [task : Task, status : {"assigned", "running"}] \cup {Idle}
  /\ entry # Idle =>
       /\ mapping = c
       /\ \/ CallbackDue(c)
          \/ \E w \in Thread : at[w] \in {"look", "send"} /\ job[w] = entry.task

SingleInv(c) == HubInv /\ SlotsOK /\ MappedOK(c) /\ ClosedOK /\ EntryOK(c)

LEMMA SingleInit ==
  ASSUME Assumptions, NEW c \in Conn, GuestConn = {c}, Init PROVE SingleInv(c)
<1>1. HubInv BY InitOK
<1> QED
  BY <1>1 DEF Init, SingleInv, SlotsOK, MappedOK, ClosedOK, EntryOK, InTable, Inserting, Fresh,
              Thread, Idle, Assumptions, ConnAssumption, Conn, NoConn

LEMMA SlotsStep ==
  ASSUME Assumptions, NEW c \in Conn, GuestConn = {c}, SingleInv(c), Next PROVE SlotsOK'
<1> USE DEF SingleInv, SlotsOK, peerVars, loopVars, connVars, hubVars, guestVars
<1>1. ASSUME UNCHANGED <<job, target>> PROVE SlotsOK'
  BY <1>1
<1>2. ASSUME NEW w \in Thread, AssignTask(w) \/ LookUp(w) \/ SendAssignment(w) PROVE SlotsOK'
  <2>1. mapping \in Conn \cup {NoConn} BY DEF MappedOK
  <2> QED BY <1>2, <2>1 DEF AssignTask, LookUp, SendAssignment
<1>3. ASSUME NEW d \in Conn, Peer(d) \/ Writer(d) \/ Reader(d) \/ HandleResult(d) \/ Publish(d)
      PROVE  SlotsOK'
  BY <1>1, <1>3 DEF Peer, Connect, Stall, Resume, Break, Writer, TakeMessage, EndStalledWrite,
     Reader, ReadRegister, ReadFails, RegisterConnection, Register, HandleAcknowledge,
     NothingToAssign, Reply, HandleResult, Publish
<1>4. ASSUME NEW d \in Conn, RunReceives(d) \/ BroadcastTo(d) PROVE SlotsOK'
  BY <1>1, <1>4 DEF RunReceives, ReceiveRegister, ReceiveUnregister, BroadcastTo
<1>5. ASSUME RunWorks PROVE SlotsOK'
  BY <1>1, <1>5 DEF RunWorks, Insert, Remove, FindGuest, RequeueTask, EndBroadcast
<1> QED BY <1>2, <1>3, <1>4, <1>5 DEF Next, Deliver

LEMMA MappedStep ==
  ASSUME Assumptions, NEW c \in Conn, GuestConn = {c}, SingleInv(c), Next PROVE MappedOK(c)'
<1> USE DEF SingleInv, HubInv, LoopTypeOK, peerVars, loopVars, connVars, hubVars, guestVars, Step,
        RunAt, Thread, Handling, MappedOK
<1>0. /\ \A d \in Conn : d # Sweeper /\ d # NoConn /\ Sweeper = NoConn
  BY DEF Assumptions, ConnAssumption, Conn, Sweeper, NoConn
<1> DEFINE Kept == UNCHANGED <<mapping, known, target>> /\ hello' \subseteq hello
           Guesting == {"connection", "register", "assign", "look", "send"}
(* A loop that goes on with nothing that concerns the guest. *)
<1>1. ASSUME Kept,
             \A w \in Thread : at'[w] \in Guesting => at'[w] = at[w],
             \A d \in Conn : Fresh(d)' => Fresh(d)
      PROVE  MappedOK(c)'
  BY <1>1 DEF Fresh
<1>2. ASSUME NEW d \in Conn, Connect(d) PROVE MappedOK(c)'
  <2>1. at[d] = "off" BY <1>2 DEF Connect, ConnOK
  <2> QED BY <1>2, <2>1 DEF Connect, Fresh
<1>3. ASSUME NEW d \in Conn, Stall(d) \/ Resume(d) \/ Break(d) \/ Publish(d) PROVE MappedOK(c)'
  BY <1>1, <1>3 DEF Stall, Resume, Break, Publish, Fresh
<1>4. ASSUME NEW d \in Conn, TakeMessage(d) \/ EndStalledWrite(d) PROVE MappedOK(c)'
  <2>1. at' = at \/ at' = Ended(at, d, "read")
    BY <1>4 DEF TakeMessage, EndStalledWrite, WriterCloses, Closed
  <2>2. Kept BY <1>4 DEF TakeMessage, EndStalledWrite
  <2> QED BY <1>1, <2>1, <2>2 DEF Ended, Fresh
<1>5. ASSUME NEW d \in Conn, ReadFails(d) \/ HandleAcknowledge(d) \/ NothingToAssign(d) \/ Reply(d)
      PROVE  MappedOK(c)'
  <2>1. PICK place \in {"unregister", "done", "reply", "read"} : at' = [at EXCEPT ![d] = place]
    BY <1>5 DEF ReadFails, ReaderCloses, HandleAcknowledge, NothingToAssign, Reply
  <2>2. Kept BY <1>5 DEF ReadFails, HandleAcknowledge, NothingToAssign, Reply
  <2> QED BY <1>1, <2>1, <2>2 DEF Fresh
<1>6. ASSUME NEW d \in Conn, ReadRegister(d) PROVE MappedOK(c)'
  <2>1. d = c BY <1>6 DEF ReadRegister
  <2> QED BY <1>0, <1>6, <2>1 DEF ReadRegister, Fresh
<1>7. ASSUME NEW d \in Conn, RegisterConnection(d) PROVE MappedOK(c)'
  <2>1. d = c BY <1>7 DEF RegisterConnection
  <2> QED BY <1>0, <1>7, <2>1 DEF RegisterConnection, Fresh
<1>8. ASSUME NEW d \in Conn, Register(d) PROVE MappedOK(c)'
  BY <1>0, <1>8 DEF Register, Fresh
<1>9. ASSUME NEW d \in Conn, HandleResult(d) PROVE MappedOK(c)'
  BY <1>0, <1>9 DEF HandleResult, Fresh
<1>10. ASSUME NEW w \in Thread, AssignTask(w) PROVE MappedOK(c)'
  <2>1. w \in {c, Sweeper} BY <1>10 DEF AssignTask
  <2>2. at' = [at EXCEPT ![w] = "look"] /\ Kept BY <1>10 DEF AssignTask
  <2>3. at[w] = IF w = Sweeper THEN "off" ELSE "assign" BY <1>10 DEF AssignTask
  <2> QED BY <1>0, <2>1, <2>2, <2>3 DEF Fresh
<1>11. ASSUME NEW w \in Thread, LookUp(w) PROVE MappedOK(c)'
  <2>1. CASE mapping \in connections
    <3>1. mapping = c BY <1>0, <2>1
    <3>2. at' = [at EXCEPT ![w] = "send"] /\ target' = [target EXCEPT ![w] = c]
      BY <1>11, <2>1, <3>1 DEF LookUp
    <3>3. w \in {c, Sweeper} /\ target'[w] = c
      BY <1>11, <3>2 DEF LookUp, SlotsOK
    <3>4. UNCHANGED <<hello, mapping, known>> /\ at[w] = "look" BY <1>11 DEF LookUp
    <3> QED BY <1>0, <3>1, <3>2, <3>3, <3>4 DEF Fresh, SlotsOK
  <2>2. CASE mapping \notin connections
    BY <1>0, <1>1, <1>11, <2>2 DEF LookUp, After, Fresh
  <2> QED BY <2>1, <2>2
<1>12. ASSUME NEW w \in Thread, SendAssignment(w) PROVE MappedOK(c)'
  BY <1>0, <1>12 DEF SendAssignment, After, Fresh
<1>13. ASSUME NEW d \in Conn, ReceiveRegister(d) \/ ReceiveUnregister(d) \/ BroadcastTo(d)
       PROVE  MappedOK(c)'
  BY <1>1, <1>13 DEF ReceiveRegister, ReceiveUnregister, BroadcastTo, Fresh
<1>14. ASSUME RunWorks PROVE MappedOK(c)'
  BY <1>1, <1>14 DEF RunWorks, Insert, Remove, FindGuest, RequeueTask, EndBroadcast, Fresh
<1> QED
  BY <1>2, <1>3, <1>4, <1>5, <1>6, <1>7, <1>8, <1>9, <1>10, <1>11, <1>12, <1>13, <1>14
     DEF Next, Peer, Writer, Reader, Deliver, RunReceives

LEMMA ClosedStep ==
  ASSUME Assumptions, NEW c \in Conn, GuestConn = {c}, SingleInv(c), Next PROVE ClosedOK'
<1> USE DEF SingleInv, HubInv, LoopTypeOK, peerVars, loopVars, connVars, hubVars, guestVars, Step,
        RunAt, Thread, Handling, ClosedOK
<1>0. Sweeper \notin Conn BY DEF Assumptions, ConnAssumption, Conn, Sweeper
<1> USE <1>0
<1> DEFINE Still == UNCHANGED <<closed, run, connections>>
(* No connection is closed, removed or received. *)
<1>1. ASSUME Still, UNCHANGED writer,
             \A d \in Conn : /\ at'[d] = "unregister" <=> at[d] = "unregister"
                             /\ at'[d] = "done" => at[d] = "done"
      PROVE  ClosedOK'
  BY <1>1 DEF Unregisters, InTable, Inserting
(* A loop ends: the first one closes the connection, and unregisters it. *)
<1>2. ASSUME NEW d \in Conn, at[d] = "read", ReaderCloses(d), UNCHANGED <<run, connections>>
      PROVE  ClosedOK'
  <2>1. CASE Closed(d)
    <3>1. /\ at' = [at EXCEPT ![d] = "unregister"] /\ writer' = Ended(writer, d, "select")
          /\ d \notin closed /\ closed' = closed \cup {d}
      BY <1>2, <2>1 DEF ReaderCloses, Closed
    <3> QED BY <1>2, <3>1 DEF Ended, Unregisters, InTable, Inserting
  <2>2. CASE d \in closed
    <3>1. at' = [at EXCEPT ![d] = "done"] /\ UNCHANGED <<closed, writer>>
      BY <1>2, <2>2 DEF ReaderCloses, Closed
    <3> QED BY <1>2, <2>2, <3>1 DEF Unregisters, InTable, Inserting
  <2> QED BY <1>2, <2>1, <2>2 DEF ReaderCloses
<1>3. ASSUME NEW d \in Conn, writer[d] \in {"select", "write"}, WriterCloses(d),
             UNCHANGED <<run, connections>>
      PROVE  ClosedOK'
  <2>1. CASE Closed(d)
    <3>1. /\ writer' = [writer EXCEPT ![d] = "unregister"] /\ at' = Ended(at, d, "read")
          /\ d \notin closed /\ closed' = closed \cup {d}
      BY <1>3, <2>1 DEF WriterCloses, Closed
    <3> QED BY <1>3, <3>1 DEF Ended, Unregisters, InTable, Inserting
  <2>2. CASE d \in closed
    <3>1. writer' = [writer EXCEPT ![d] = "done"] /\ UNCHANGED <<closed, at>>
      BY <1>3, <2>2 DEF WriterCloses, Closed
    <3> QED BY <1>3, <2>2, <3>1 DEF Unregisters, InTable, Inserting
  <2> QED BY <1>3, <2>1, <2>2 DEF WriterCloses
<1>4. ASSUME NEW d \in Conn, writer[d] \in {"select", "write"}, NEW place \in {"select", "write"},
             writer' = [writer EXCEPT ![d] = place], UNCHANGED at, Still
      PROVE  ClosedOK'
  BY <1>4 DEF Unregisters, InTable, Inserting
<1>5. ASSUME NEW d \in Conn, Writer(d) PROVE ClosedOK'
  <2>1. CASE WriterCloses(d) /\ writer[d] \in {"select", "write"}
    BY <1>3, <1>5, <2>1 DEF Writer, TakeMessage, EndStalledWrite
  <2>2. CASE UNCHANGED <<writer, at, closed>>
    BY <1>1, <1>5, <2>2 DEF Writer, TakeMessage, EndStalledWrite
  <2>3. CASE \E place \in {"select", "write"} : writer' = [writer EXCEPT ![d] = place]
                                            /\ UNCHANGED <<at, closed>>
    BY <1>4, <1>5, <2>3 DEF Writer, TakeMessage, EndStalledWrite
  <2> QED BY <1>5, <2>1, <2>2, <2>3 DEF Writer, TakeMessage, EndStalledWrite
<1>6. ASSUME NEW d \in Conn, ReadFails(d) PROVE ClosedOK'
  BY <1>2, <1>6 DEF ReadFails
<1>7. ASSUME NEW d \in Conn, Peer(d) \/ Publish(d) PROVE ClosedOK'
  BY <1>1, <1>7 DEF Peer, Connect, Stall, Resume, Break, Publish, ConnOK
<1>8. ASSUME NEW d \in Conn,
             \/ ReadRegister(d) \/ RegisterConnection(d) \/ Register(d) \/ HandleAcknowledge(d)
             \/ HandleResult(d) \/ NothingToAssign(d) \/ Reply(d)
      PROVE  ClosedOK'
  <2>1. PICK place : Step(d, place) /\ at[d] \in {"read"} \cup Handling /\
               place \in {"read"} \cup Handling
    BY <1>8 DEF ReadRegister, RegisterConnection, Register, HandleAcknowledge, HandleResult,
                NothingToAssign, Reply
  <2>2. UNCHANGED writer /\ Still
    BY <1>8 DEF ReadRegister, RegisterConnection, Register, HandleAcknowledge, HandleResult,
                NothingToAssign, Reply
  <2> QED BY <1>1, <2>1, <2>2
<1>9. ASSUME NEW w \in Thread, AssignTask(w) \/ LookUp(w) \/ SendAssignment(w) PROVE ClosedOK'
  <2>1. PICK place : Step(w, place) /\ place \in {"off"} \cup Handling /\ (w \in Conn =>
               at[w] \in Handling)
    BY <1>9 DEF AssignTask, LookUp, SendAssignment, After
  <2>2. UNCHANGED writer /\ Still
    BY <1>9 DEF AssignTask, LookUp, SendAssignment
  <2> QED BY <1>1, <2>1, <2>2
(* Hub.Run. *)
<1>10. ASSUME NEW d \in Conn, ReceiveRegister(d) PROVE ClosedOK'
  <2>1. Fresh(d) /\ d \notin closed BY <1>10 DEF ReceiveRegister, Fresh, ConnOK
  <2>2. /\ at' = [at EXCEPT ![d] = "read"] /\ writer' = [writer EXCEPT ![d] = "select"]
        /\ UNCHANGED <<closed, connections>> /\ run'.c = d /\ run.at = "select"
    BY <1>10 DEF ReceiveRegister
  <2> QED BY <2>1, <2>2 DEF Unregisters, InTable, Inserting
<1>11. ASSUME Insert PROVE ClosedOK'
  BY <1>11 DEF Insert, Unregisters, InTable, Inserting
<1>12. ASSUME NEW d \in Conn, ReceiveUnregister(d) PROVE ClosedOK'
  <2>1. run.at = "select" /\ run'.at = "remove" /\ run'.c = d BY <1>12 DEF ReceiveUnregister
  <2>2. d \in closed /\ UNCHANGED <<closed, connections>>
    BY <1>12 DEF ReceiveUnregister, ConnOK, Unregisters
  <2>3. \/ at[d] = "unregister" /\ at' = [at EXCEPT ![d] = "done"] /\ writer' = writer
        \/ writer[d] = "unregister" /\ writer' = [writer EXCEPT ![d] = "done"] /\ at' = at
    BY <1>12 DEF ReceiveUnregister
  <2> QED BY <2>1, <2>2, <2>3 DEF Unregisters, InTable, Inserting
<1>13. ASSUME Remove PROVE ClosedOK'
  BY <1>13 DEF Remove, Unregisters, InTable, Inserting
<1>14. ASSUME FindGuest \/ RequeueTask \/ EndBroadcast PROVE ClosedOK'
  <2>1. run'.at \notin {"insert", "remove"} /\ run.at \notin {"insert", "remove"}
    BY <1>14 DEF FindGuest, RequeueTask, EndBroadcast
  <2>2. UNCHANGED <<at, writer, closed, connections>>
    BY <1>14 DEF FindGuest, RequeueTask, EndBroadcast
  <2> QED BY <2>1, <2>2 DEF Unregisters, InTable, Inserting
<1>15. ASSUME NEW d \in Conn, BroadcastTo(d) PROVE ClosedOK'
  BY <1>15 DEF BroadcastTo, Unregisters, InTable, Inserting
<1> QED
  BY <1>5, <1>6, <1>7, <1>8, <1>9, <1>10, <1>11, <1>12, <1>13, <1>14, <1>15
     DEF Next, Reader, Deliver, RunReceives, RunWorks

LEMMA EntryStep ==
  ASSUME Assumptions, NEW c \in Conn, GuestConn = {c}, SingleInv(c), Next PROVE EntryOK(c)'
<1> USE DEF SingleInv, peerVars, loopVars, connVars, hubVars, guestVars, Step, RunAt, EntryOK
<1>0. /\ Sweeper \notin Conn /\ NoTask \notin Task
      /\ \A w \in Thread : at[w] = "send" => target[w] = c
      /\ mapping \in {NoConn, c}
  BY DEF Assumptions, ConnAssumption, NoTaskAssumption, Conn, Sweeper, MappedOK
<1> DEFINE Delivers(w) == at[w] \in {"look", "send"} /\ job[w] = entry.task
(* Nothing that concerns the task. *)
<1>1. ASSUME UNCHANGED <<entry, mapping, job>>, CallbackDue(c) => CallbackDue(c)',
             \A w \in Thread : at[w] \in {"look", "send"} => at'[w] = at[w]
      PROVE  EntryOK(c)'
  BY <1>1
<1>2. ASSUME NEW d \in Conn, Peer(d) \/ Publish(d) PROVE EntryOK(c)'
  <2>1. UNCHANGED <<entry, mapping, job, run, connections>>
    BY <1>2 DEF Peer, Connect, Stall, Resume, Break, Publish
  <2>2. \A w \in Thread : at[w] \in {"look", "send"} => at'[w] = at[w]
    BY <1>2 DEF Peer, Connect, Stall, Resume, Break, Publish, HubInv, ConnOK, LoopTypeOK
  <2> QED BY <1>1, <2>1, <2>2 DEF CallbackDue, InTable, Inserting
<1>3. ASSUME NEW d \in Conn, Writer(d) PROVE EntryOK(c)'
  <2>1. UNCHANGED <<entry, mapping, job, run, connections>>
    BY <1>3 DEF Writer, TakeMessage, EndStalledWrite
  <2>2. at' = at \/ at' = Ended(at, d, "read")
    BY <1>3 DEF Writer, TakeMessage, EndStalledWrite, WriterCloses, Closed
  <2>3. \A w \in Thread : at[w] \in {"look", "send"} => at'[w] = at[w]
    BY <2>2 DEF Ended, HubInv, LoopTypeOK
  <2> QED BY <1>1, <2>1, <2>3 DEF CallbackDue, InTable, Inserting
<1>4. ASSUME NEW d \in Conn,
             \/ ReadRegister(d) \/ ReadFails(d) \/ Register(d) \/ NothingToAssign(d) \/ Reply(d)
      PROVE  EntryOK(c)'
  <2>1. UNCHANGED <<entry, mapping, job, run, connections>>
    BY <1>4 DEF ReadRegister, ReadFails, Register, NothingToAssign, Reply
  <2>2. PICK place : at' = [at EXCEPT ![d] = place] /\ at[d] \notin {"look", "send"}
    BY <1>4 DEF ReadRegister, ReadFails, ReaderCloses, Register, NothingToAssign, Reply
  <2>3. \A w \in Thread : at[w] \in {"look", "send"} => at'[w] = at[w]
    BY <2>2 DEF HubInv, LoopTypeOK
  <2> QED BY <1>1, <2>1, <2>3 DEF CallbackDue, InTable, Inserting
<1>5. ASSUME NEW d \in Conn, RegisterConnection(d) PROVE EntryOK(c)'
  <2>1. UNCHANGED <<entry, job, run, connections>> /\ mapping' = d /\ d = c
    BY <1>5 DEF RegisterConnection, MappedOK, Thread
  <2>2. at' = [at EXCEPT ![d] = "register"] /\ at[d] \notin {"look", "send"}
    BY <1>5 DEF RegisterConnection
  <2>3. \A w \in Thread : at[w] \in {"look", "send"} => at'[w] = at[w]
    BY <2>2 DEF HubInv, LoopTypeOK
  <2> QED BY <2>1, <2>3 DEF CallbackDue, InTable, Inserting
<1>6. ASSUME NEW d \in Conn, HandleAcknowledge(d) PROVE EntryOK(c)'
  <2>1. UNCHANGED <<mapping, job, run, connections>> BY <1>6 DEF HandleAcknowledge
  <2>2. at' = [at EXCEPT ![d] = "reply"] /\ at[d] \notin {"look", "send"}
    BY <1>6 DEF HandleAcknowledge
  <2>3. \A w \in Thread : at[w] \in {"look", "send"} => at'[w] = at[w]
    BY <2>2 DEF HubInv, LoopTypeOK
  <2>4. /\ entry' \in [task : Task, status : {"assigned", "running"}] \cup {Idle}
        /\ entry' # Idle => entry # Idle
        /\ entry'.task = entry.task
    <3>1. CASE entry' = entry BY <3>1
    <3>2. CASE entry.status = "assigned" /\ entry' = [entry EXCEPT !.status = "running"]
      BY <3>2 DEF Idle
    <3> QED BY <1>6, <3>1, <3>2 DEF HandleAcknowledge
  <2> QED BY <2>1, <2>3, <2>4 DEF CallbackDue, InTable, Inserting
<1>7. ASSUME NEW d \in Conn, HandleResult(d) PROVE EntryOK(c)'
  BY <1>7 DEF HandleResult
(* Assigned, to be delivered, delivered or refused. *)
<1>8. ASSUME NEW w \in Thread, AssignTask(w) PROVE EntryOK(c)'
  <2>1. PICK t \in Task : entry' = [task |-> t, status |-> "assigned"] /\
               job' = [job EXCEPT ![w] = t]
    BY <1>8 DEF AssignTask
  <2>2. /\ at' = [at EXCEPT ![w] = "look"] /\ mapping' = mapping /\ known
    BY <1>8 DEF AssignTask
  <2>3. mapping = c BY <2>2 DEF MappedOK
  <2>4. at'[w] = "look" /\ job'[w] = entry'.task
    BY <2>1, <2>2 DEF HubInv, LoopTypeOK, SlotsOK
  <2> QED BY <2>1, <2>2, <2>3, <2>4
(* The task goes back, or it is another one. *)
<1>9. ASSUME NEW w \in Thread, entry' = Requeued(job[w]), job' = [job EXCEPT ![w] = NoTask],
             NEW place, at' = [at EXCEPT ![w] = place],
             UNCHANGED <<mapping, run, connections>>
      PROVE  EntryOK(c)'
  <2>1. CASE entry.task = job[w] BY <1>9, <2>1 DEF Requeued
  <2>2. CASE entry.task # job[w]
    <3>1. entry' = entry BY <1>9, <2>2 DEF Requeued
    <3>2. \A v \in Thread : Delivers(v) => v # w /\ at'[v] = at[v] /\ job'[v] = job[v]
      BY <1>9, <2>2 DEF HubInv, LoopTypeOK, SlotsOK
    <3> QED BY <1>9, <3>1, <3>2 DEF CallbackDue, InTable, Inserting
  <2> QED BY <2>1, <2>2
<1>10. ASSUME NEW w \in Thread, LookUp(w) PROVE EntryOK(c)'
  <2>1. CASE mapping \in connections
    <3>1. /\ at' = [at EXCEPT ![w] = "send"]
          /\ UNCHANGED <<entry, job, mapping, run, connections>>
      BY <1>10, <2>1 DEF LookUp
    <3>2. \A v \in Thread : Delivers(v) => at'[v] \in {"look", "send"}
      BY <3>1 DEF HubInv, LoopTypeOK
    <3> QED BY <3>1, <3>2 DEF CallbackDue, InTable, Inserting
  <2>2. CASE mapping \notin connections
    BY <1>9, <1>10, <2>2 DEF LookUp
  <2> QED BY <2>1, <2>2
<1>11. ASSUME NEW w \in Thread, SendAssignment(w) PROVE EntryOK(c)'
  <2>1. UNCHANGED <<mapping, run, connections>> /\ at[w] = "send" /\ target[w] = c
        /\ job' = [job EXCEPT ![w] = NoTask]
    BY <1>0, <1>11 DEF SendAssignment
  <2>2. PICK place : at' = [at EXCEPT ![w] = place] BY <1>11 DEF SendAssignment
  <2>3. CASE Accepts(c)
    <3>1. entry' = entry BY <1>11, <2>1, <2>3 DEF SendAssignment
    <3>2. c \notin closed /\ mapping = c /\ ~Fresh(c)
      BY <2>1, <2>3 DEF Accepts, MappedOK
    <3>3. InTable(c) BY <3>2 DEF HubInv, ConnOK
    <3> QED BY <2>1, <3>1, <3>2, <3>3 DEF CallbackDue, InTable, Inserting
  <2>4. CASE ~Accepts(c)
    <3>1. entry' = Requeued(job[w]) BY <1>11, <2>1, <2>4 DEF SendAssignment
    <3> QED BY <1>9, <2>1, <2>2, <3>1
  <2> QED BY <2>3, <2>4
(* Hub.Run: the callback finds the guest's task, or the guest has none. *)
<1>12. ASSUME NEW d \in Conn, ReceiveRegister(d) PROVE EntryOK(c)'
  <2>1. /\ UNCHANGED <<entry, mapping, job, connections>> /\ run.at = "select"
        /\ at' = [at EXCEPT ![d] = "read"] /\ at[d] = "offer"
    BY <1>12 DEF ReceiveRegister
  <2>2. \A w \in Thread : at[w] \in {"look", "send"} => at'[w] = at[w]
    BY <2>1 DEF HubInv, LoopTypeOK
  <2> QED BY <1>1, <2>1, <2>2 DEF CallbackDue, InTable, Inserting
<1>13. ASSUME NEW d \in Conn, ReceiveUnregister(d) PROVE EntryOK(c)'
  <2>1. UNCHANGED <<entry, mapping, job, connections>> /\ run.at = "select"
    BY <1>13 DEF ReceiveUnregister
  <2>2. \A w \in Thread : at[w] \in {"look", "send"} => at'[w] = at[w]
    BY <1>13 DEF ReceiveUnregister, HubInv, LoopTypeOK
  <2> QED BY <1>1, <2>1, <2>2 DEF CallbackDue, InTable, Inserting
<1>14. ASSUME Insert \/ Remove PROVE EntryOK(c)'
  <2>1. UNCHANGED <<entry, mapping, job, at>> BY <1>14 DEF Insert, Remove
  <2>2. CallbackDue(c) => CallbackDue(c)'
    <3>1. CASE Insert BY <3>1 DEF Insert, CallbackDue, InTable, Inserting, HubInv, LoopTypeOK
    <3>2. CASE Remove BY <3>2 DEF Remove, CallbackDue, InTable, Inserting, HubInv, LoopTypeOK
    <3> QED BY <1>14, <3>1, <3>2
  <2> QED BY <1>1, <2>1, <2>2
<1>15. ASSUME FindGuest PROVE EntryOK(c)'
  <2>1. UNCHANGED <<entry, mapping, job, at, connections>> /\ run.at = "find"
    BY <1>15 DEF FindGuest
  <2>2. entry # Idle /\ CallbackDue(c) => CallbackDue(c)'
    BY <1>15 DEF FindGuest, CallbackDue, InTable, Inserting, HubInv, LoopTypeOK
  <2> QED BY <2>1, <2>2
<1>16. ASSUME RequeueTask PROVE EntryOK(c)'
  BY <1>16 DEF RequeueTask
<1>17. ASSUME NEW d \in Conn, BroadcastTo(d) \/ EndBroadcast PROVE EntryOK(c)'
  <2>1. UNCHANGED <<entry, mapping, job, at, connections>> /\ run.at = "broadcast"
    BY <1>17 DEF BroadcastTo, EndBroadcast
  <2> QED BY <1>1, <1>17, <2>1 DEF CallbackDue, InTable, Inserting
<1> QED
  BY <1>2, <1>3, <1>4, <1>5, <1>6, <1>7, <1>8, <1>10, <1>11, <1>12, <1>13, <1>14, <1>15, <1>16,
    <1>17
     DEF Next, Reader, Deliver, RunReceives, RunWorks

LEMMA SingleInvariant ==
  ASSUME Assumptions, NEW c \in Conn, GuestConn = {c} PROVE Spec => []SingleInv(c)
<1>1. Init => SingleInv(c) BY SingleInit
<1>2. SingleInv(c) /\ [Next]_vars => SingleInv(c)'
  <2>1. CASE UNCHANGED vars
    BY <2>1 DEF vars, peerVars, loopVars, connVars, hubVars, guestVars, SingleInv, HubInv,
      LoopTypeOK,
       RunOK, ConnOK, Fresh, Unregisters, InTable, Inserting, SlotsOK, MappedOK, ClosedOK, EntryOK,
       CallbackDue
  <2>2. ASSUME SingleInv(c), Next PROVE SingleInv(c)'
    <3>1. HubInv' BY <2>2, StepOK DEF SingleInv
    <3> QED BY <2>2, <3>1, SlotsStep, MappedStep, ClosedStep, EntryStep DEF SingleInv
  <2> QED BY <2>1, <2>2
<1> QED BY <1>1, <1>2, PTL DEF Spec

(* When the loss of the guest's connection has been handled, the guest     *)
(* holds no task: either the disconnect callback has found it, or the      *)
(* delivery that crossed the loss has failed and given it back.  It takes  *)
(* that the guest has one connection; with two it is false (README).       *)
THEOREM NothingHeld ==
  ASSUME Assumptions, NEW c \in Conn, GuestConn = {c} PROVE Spec => []GoneHoldsNothing
<1>1. SingleInv(c) => GoneHoldsNothing
  <2> SUFFICES ASSUME SingleInv(c), AllLost, entry # Idle PROVE FALSE
    BY DEF GoneHoldsNothing
  <2>1. mapping = c /\ ~Fresh(c) BY DEF SingleInv, EntryOK, MappedOK
  <2>2. at[c] = "done" /\ writer[c] \in {"off", "done"} /\ run.at = "select" /\ at[Sweeper] = "off"
    BY <2>1 DEF AllLost, Fresh
  <2>3. c \in closed /\ ~Unregisters(c) BY <2>2 DEF SingleInv, ClosedOK, Unregisters
  <2>4. ~CallbackDue(c) BY <2>2, <2>3 DEF SingleInv, ClosedOK, CallbackDue
  <2>5. \A w \in Thread : at[w] \notin {"look", "send"}
    BY <2>2 DEF SingleInv, MappedOK
  <2> QED BY <2>4, <2>5 DEF SingleInv, EntryOK
<1> QED BY <1>1, SingleInvariant, PTL
-------------------------------------------------------------------------------
(* The watcher of the configuration file.                                  *)
(* Whatever is reloaded, and in whichever order, the parts follow.         *)
THEOREM PartsFollow ==
  ASSUME Watcher!ConfigWatcherAssumption
  PROVE  Watcher!Spec => []Watcher!PartsFollowConfig
<1>1. Watcher!Init => Watcher!PartsFollowConfig
  BY DEF Watcher!Init, Watcher!PartsFollowConfig, Watcher!ConfigWatcherAssumption
<1>2. Watcher!PartsFollowConfig /\ [Watcher!Next]_Watcher!vars => Watcher!PartsFollowConfig'
  <2> SUFFICES ASSUME Watcher!PartsFollowConfig, [Watcher!Next]_Watcher!vars
               PROVE  Watcher!PartsFollowConfig'
    OBVIOUS
  <2> USE DEF Watcher!PartsFollowConfig, Watcher!fileVars, Watcher!watchVars, Watcher!appVars
  <2>1. CASE UNCHANGED Watcher!appVars BY <2>1
  <2>2. ASSUME NEW c, Watcher!NewServer(c) PROVE Watcher!PartsFollowConfig'
    BY <2>2 DEF Watcher!NewServer, Watcher!DiskOf
  <2>3. ASSUME NEW c, Watcher!Reload(c) PROVE Watcher!PartsFollowConfig'
    BY <2>3 DEF Watcher!Reload, Watcher!DiskOf
  <2>4. CASE Watcher!Load BY <2>1, <2>2, <2>4 DEF Watcher!Load
  <2>5. CASE Watcher!Apply BY <2>3, <2>5 DEF Watcher!Apply
  <2>6. CASE Watcher!Watch \/ Watcher!ReadBaseline \/ Watcher!ParseBaseline \/
               Watcher!Run \/ Watcher!FinishSave \/ Watcher!Touch
    BY <2>1, <2>6 DEF Watcher!Watch, Watcher!ReadBaseline, Watcher!ParseBaseline, Watcher!Run,
      Watcher!ReadFile, Watcher!Parse, Watcher!Send, Watcher!FinishSave, Watcher!Touch
  <2>7. ASSUME NEW c \in Content, Watcher!Replace(c) \/ Watcher!Truncate(c) \/
                 Watcher!MoveAway(c) PROVE Watcher!PartsFollowConfig'
    BY <2>1, <2>7 DEF Watcher!Replace, Watcher!Truncate, Watcher!MoveAway
  <2> QED BY <2>1, <2>4, <2>5, <2>6, <2>7 DEF Watcher!Next, Watcher!Start, Watcher!vars
<1> QED BY <1>1, <1>2, PTL DEF Watcher!Spec
-------------------------------------------------------------------------------
(* The editors of a usual day: none saves what the file has held before,   *)
(* an empty file is not something to be saved where files are emptied, and *)
(* they leave the file alone until the program has started.                *)
UsualEditors == ~Repeats /\ ~Early /\ (InPlace => Empty \notin Content)

(* The configuration the program will have when nothing more is read.      *)
Upcoming ==
  IF pc = "send" THEN parsed ELSE IF configCh # <<>> THEN Head(configCh) ELSE cfg

(* What the watcher may have read. *)
Seen == saved \cup {NoContent} \cup (IF InPlace THEN {Empty} ELSE {})

TypedOK ==
  /\ events \in Nat
  /\ file \in Watcher!Known \cup {NoContent}
  /\ pc = "send" => parsed \in Watcher!Known
  /\ configCh = <<>> \/ \E c \in Watcher!Known : configCh = <<c>>

SeenOK ==
  /\ {file, lastContent, data} \subseteq Seen
  /\ writing = NoContent \/ writing \in Content \ Seen

StartOK ==
  pc \in Watcher!Starting =>
    /\ file = First /\ writing = NoContent /\ configCh = <<>>
    /\ pc # "load" => cfg = First
    /\ pc = "parse baseline" => data = First

(* The watcher has let through what is in the file, once it has read the   *)
(* file after its last change; and a reader that finds the file as it was  *)
(* last compared skips it with good reason.                                *)
Watching == pc \in {"wait", "send"} /\ writing = NoContent /\ Watcher!Parseable
PipelineOK == Watching /\ (events = 0 \/ lastContent = file) => Upcoming = file

WatcherInv == TypedOK /\ SeenOK /\ StartOK /\ PipelineOK

LEMMA WatcherInit ==
  ASSUME Watcher!ConfigWatcherAssumption, UsualEditors, Watcher!Init
  PROVE  WatcherInv
  BY DEF Watcher!ConfigWatcherAssumption, Watcher!Init, WatcherInv, TypedOK, SeenOK, Seen,
    StartOK, Watcher!Starting,
         PipelineOK, Watching, Watcher!Known

LEMMA One == ASSUME NEW c PROVE <<c>> # <<>> /\ Head(<<c>>) = c /\ Tail(<<c>>) = <<>>
  OBVIOUS

(* A change of the file by an editor: the watcher has not read it, and an  *)
(* event is in wait unless the change is still under way.                  *)
LEMMA EditStep ==
  ASSUME Watcher!ConfigWatcherAssumption, UsualEditors, WatcherInv,
         (\E c \in Content : Watcher!Replace(c) \/ Watcher!Truncate(c) \/
           Watcher!MoveAway(c)) \/ Watcher!FinishSave \/ Watcher!Touch
  PROVE  WatcherInv'
<1> USE DEF WatcherInv, Watcher!watchVars, Watcher!appVars
<1>1. UNCHANGED <<pc, lastContent, data, parsed, cfg, configCh>>
  BY DEF Watcher!Replace, Watcher!Truncate, Watcher!MoveAway, Watcher!FinishSave, Watcher!Touch
<1>2. pc \notin Watcher!Starting
  BY DEF Watcher!Replace, Watcher!Truncate, Watcher!MoveAway, Watcher!FinishSave,
    Watcher!Touch, Watcher!Fresh, Watcher!MayEdit, UsualEditors, StartOK
<1>3. \A c \in Content : Watcher!Fresh(c) => writing = NoContent /\ c \notin Seen
  BY DEF Watcher!Fresh, Watcher!MayEdit, Seen, UsualEditors, Watcher!ConfigWatcherAssumption
<1>4. ASSUME Watcher!Notify PROVE events' \in Nat /\ (pc \in {"wait", "send"} => events' # 0)
  BY <1>4 DEF Watcher!Notify, TypedOK
(* What is in the file now is new to the watcher. *)
<1>5. ASSUME NEW c \in Content \ Seen, file' = c, saved' = saved \cup {c},
               writing' = NoContent, Watcher!Notify
      PROVE  WatcherInv'
  <2>1. c \in Watcher!Known BY DEF Watcher!Known
  <2>2. TypedOK' BY <1>1, <1>4, <1>5, <2>1 DEF TypedOK
  <2>3. SeenOK' BY <1>1, <1>5 DEF SeenOK, Seen
  <2>4. StartOK' BY <1>1, <1>2 DEF StartOK
  <2>5. lastContent' # file' BY <1>1, <1>5 DEF SeenOK
  <2>6. PipelineOK' BY <1>1, <1>4, <1>5, <2>5 DEF PipelineOK, Watching
  <2> QED BY <2>2, <2>3, <2>4, <2>6
<1>6. ASSUME NEW c \in Content, Watcher!Replace(c) PROVE WatcherInv'
  <2>1. /\ Watcher!Fresh(c) /\ file' = c /\ saved' = saved \cup {c} /\ writing' = writing /\
             Watcher!Notify
    BY <1>6 DEF Watcher!Replace
  <2> QED BY <1>3, <1>5, <2>1
<1>7. CASE Watcher!FinishSave
  <2>1. /\ writing # NoContent /\ file' = writing /\ saved' = saved \cup {writing}
        /\ writing' = NoContent /\ Watcher!Notify
    BY <1>7 DEF Watcher!FinishSave
  <2>2. writing \in Content \ Seen BY <2>1 DEF SeenOK
  <2> QED BY <1>5, <2>1, <2>2
(* The file is in between. *)
<1>8. ASSUME NEW c \in Content, Watcher!Truncate(c) \/ Watcher!MoveAway(c) PROVE WatcherInv'
  <2>1. /\ Watcher!Fresh(c) /\ writing' = c /\ saved' = saved
        /\ file' \in {NoContent} \cup (IF InPlace THEN {Empty} ELSE {})
    BY <1>8 DEF Watcher!Truncate, Watcher!MoveAway
  <2>2. events' \in Nat BY <1>4, <1>8 DEF Watcher!Truncate, Watcher!MoveAway, TypedOK
  <2>3. c \notin Seen /\ c # NoContent BY <1>3, <2>1 DEF Seen
  <2>4. TypedOK' BY <1>1, <2>1, <2>2 DEF TypedOK, Watcher!Known
  <2>5. SeenOK' BY <1>1, <2>1, <2>3 DEF SeenOK, Seen
  <2>6. StartOK' BY <1>1, <1>2 DEF StartOK
  <2>7. PipelineOK' BY <2>1, <2>3 DEF PipelineOK, Watching
  <2> QED BY <2>4, <2>5, <2>6, <2>7
<1>9. CASE Watcher!Touch
  <2>1. UNCHANGED <<file, writing, saved>> /\ Watcher!Notify BY <1>9 DEF Watcher!Touch
  <2>2. TypedOK' BY <1>1, <1>4, <2>1 DEF TypedOK
  <2>3. SeenOK' BY <1>1, <2>1 DEF SeenOK, Seen
  <2>4. StartOK' BY <1>1, <1>2 DEF StartOK
  <2>5. PipelineOK' BY <1>1, <1>4, <2>1 DEF PipelineOK, Watching, Upcoming, Watcher!Parseable
  <2> QED BY <2>2, <2>3, <2>4, <2>5
<1> QED BY <1>6, <1>7, <1>8, <1>9

LEMMA StartStep ==
  ASSUME Watcher!ConfigWatcherAssumption, UsualEditors, WatcherInv, Watcher!Start
  PROVE  WatcherInv'
<1> USE DEF WatcherInv, Watcher!fileVars, Watcher!Starting
<1>0. UNCHANGED <<file, writing, saved, events, configCh>> /\ pc \in Watcher!Starting
  BY DEF Watcher!Start, Watcher!Load, Watcher!Watch, Watcher!ReadBaseline, Watcher!ParseBaseline
<1>1. /\ file = First /\ writing = NoContent /\ configCh = <<>> /\ (pc # "load" => cfg = First)
      /\ First # NoContent /\ First.parses /\ First \in Seen /\ file' = First
      /\ (pc = "parse baseline" => data = First)
  BY <1>0 DEF StartOK, SeenOK, Watcher!ConfigWatcherAssumption
<1>2. pc' # "send"
  BY DEF Watcher!Start, Watcher!Load, Watcher!Watch, Watcher!ReadBaseline, Watcher!ParseBaseline
<1>3. TypedOK' BY <1>0, <1>2 DEF TypedOK
<1>4. {lastContent', data'} \subseteq {lastContent, data, First}
  BY <1>1 DEF Watcher!Start, Watcher!Load, Watcher!Watch, Watcher!ReadBaseline,
    Watcher!ParseBaseline
<1>5. SeenOK' BY <1>0, <1>1, <1>4 DEF SeenOK, Seen
<1>6. /\ pc' = "wait" => cfg' = First
      /\ pc' \in Watcher!Starting => cfg' = First /\ (pc' = "parse baseline" => data' = First)
  <2>1. CASE Watcher!Load BY <1>1, <2>1 DEF Watcher!Load, Watcher!NewServer
  <2>2. CASE Watcher!Watch BY <1>1, <2>2 DEF Watcher!Watch, Watcher!appVars
  <2>3. CASE Watcher!ReadBaseline BY <1>1, <2>3 DEF Watcher!ReadBaseline, Watcher!appVars
  <2>4. CASE Watcher!ParseBaseline BY <1>1, <2>4 DEF Watcher!ParseBaseline, Watcher!appVars
  <2> QED BY <2>1, <2>2, <2>3, <2>4 DEF Watcher!Start
<1>7. StartOK' BY <1>0, <1>1, <1>6 DEF StartOK
<1>8. PipelineOK' BY <1>0, <1>1, <1>2, <1>6 DEF PipelineOK, Watching, Upcoming
<1> QED BY <1>3, <1>5, <1>7, <1>8

LEMMA RunStep ==
  ASSUME Watcher!ConfigWatcherAssumption, UsualEditors, WatcherInv, Watcher!Run \/ Watcher!Apply
  PROVE  WatcherInv'
<1> USE DEF WatcherInv, Watcher!fileVars, Watcher!watchVars, Watcher!appVars
<1>0. UNCHANGED <<file, writing, saved>>
  BY DEF Watcher!Run, Watcher!ReadFile, Watcher!Parse, Watcher!Send, Watcher!Apply
<1>1. CASE Watcher!ReadFile
  <2>1. /\ pc = "wait" /\ events \in Nat \ {0} /\ events' = events - 1 /\ data' = file
        /\ pc' = (IF file \in {NoContent, lastContent} THEN "wait" ELSE "parse")
        /\ UNCHANGED <<lastContent, parsed, cfg, configCh>>
    BY <1>1 DEF Watcher!ReadFile, TypedOK
  <2>2. TypedOK' BY <1>0, <2>1 DEF TypedOK
  <2>3. SeenOK' BY <1>0, <2>1 DEF SeenOK, Seen
  <2>4. StartOK' BY <2>1 DEF StartOK, Watcher!Starting
  <2>5. PipelineOK' BY <1>0, <2>1 DEF PipelineOK, Watching, Upcoming, Watcher!Parseable
  <2> QED BY <2>2, <2>3, <2>4, <2>5
<1>2. CASE Watcher!Parse
  <2>1. /\ pc = "parse" /\ UNCHANGED <<data, cfg, events, configCh>>
        /\ pc' \in {"send", "wait"} /\ lastContent' \in {lastContent, data}
        /\ pc' = "send" => Watcher!Parseable /\ parsed' = file
        /\ pc' = "wait" => ~Watcher!Parseable
    BY <1>2 DEF Watcher!Parse
  <2>2. TypedOK' BY <1>0, <2>1 DEF TypedOK, Watcher!Parseable
  <2>3. SeenOK' BY <1>0, <2>1 DEF SeenOK, Seen
  <2>4. StartOK' BY <2>1 DEF StartOK, Watcher!Starting
  <2>5. PipelineOK' BY <1>0, <2>1 DEF PipelineOK, Watching, Upcoming, Watcher!Parseable
  <2> QED BY <2>2, <2>3, <2>4, <2>5
<1>3. CASE Watcher!Send
  <2>1. /\ pc = "send" /\ configCh = <<>> /\ configCh' = <<parsed>> /\ pc' = "wait"
        /\ UNCHANGED <<lastContent, data, parsed, cfg, events>>
    BY <1>3 DEF Watcher!Send
  <2>2. TypedOK' BY <1>0, <2>1 DEF TypedOK
  <2>3. SeenOK' BY <1>0, <2>1 DEF SeenOK, Seen
  <2>4. StartOK' BY <2>1 DEF StartOK, Watcher!Starting
  <2>5. Upcoming' = Upcoming BY <2>1, One DEF Upcoming
  <2>6. PipelineOK' BY <1>0, <2>1, <2>5 DEF PipelineOK, Watching, Watcher!Parseable
  <2> QED BY <2>2, <2>3, <2>4, <2>6
<1>4. CASE Watcher!Apply
  <2>1. /\ configCh # <<>> /\ cfg' = Head(configCh) /\ configCh' = Tail(configCh)
        /\ UNCHANGED <<pc, lastContent, data, parsed, events>>
    BY <1>4 DEF Watcher!Apply, Watcher!Reload
  <2>2. configCh' = <<>> BY <2>1, One DEF TypedOK
  <2>3. TypedOK' BY <1>0, <2>1, <2>2 DEF TypedOK
  <2>4. SeenOK' BY <1>0, <2>1 DEF SeenOK, Seen
  <2>5. StartOK' BY <2>1 DEF StartOK
  <2>6. Upcoming' = Upcoming BY <2>1, <2>2 DEF Upcoming
  <2>7. PipelineOK' BY <1>0, <2>1, <2>6 DEF PipelineOK, Watching, Watcher!Parseable
  <2> QED BY <2>3, <2>4, <2>5, <2>7
<1> QED BY <1>1, <1>2, <1>3, <1>4 DEF Watcher!Run

(* What was saved last is what the program runs with, once it has come to  *)
(* rest: no merging of events, no broken or missing file in between and no *)
(* change between the two reads of a reload leaves it with another.  It    *)
(* takes editors that do not save an old content again: the watcher may    *)
(* take that for the one it compared last (README, "Known divergences").   *)
THEOREM LastSaveWins ==
  ASSUME Watcher!ConfigWatcherAssumption, UsualEditors
  PROVE  Watcher!Spec => []Watcher!LastSaveApplied
<1>1. Watcher!Init => WatcherInv BY WatcherInit
<1>2. WatcherInv /\ [Watcher!Next]_Watcher!vars => WatcherInv'
  <2>1. CASE UNCHANGED Watcher!vars
    BY <2>1 DEF Watcher!vars, Watcher!fileVars, Watcher!watchVars, Watcher!appVars, WatcherInv,
      TypedOK, SeenOK, Seen, StartOK,
                PipelineOK, Watching, Upcoming, Watcher!Parseable
  <2> QED BY <2>1, EditStep, StartStep, RunStep DEF Watcher!Next
<1>3. WatcherInv => Watcher!LastSaveApplied
  BY DEF WatcherInv, PipelineOK, Watching, Upcoming, Watcher!LastSaveApplied, Watcher!AtRest
<1> QED BY <1>1, <1>2, <1>3, PTL DEF Watcher!Spec
===============================================================================
