---------------------------------- MODULE Hub ----------------------------------
(***************************************************************************)
(* The server's side of the connections (Hub and Connection of pkg/rpc):   *)
(* one ReadLoop and one WriteLoop per connection, the loop Hub.Run that    *)
(* owns the table of connections, the map from the guest to its connection,*)
(* and what the server does on top of them for one guest: guest.register,  *)
(* the delivery of task.assign, and the disconnect callback, which Run     *)
(* calls itself.  A ReadLoop runs the handlers of its connection one after *)
(* the other; the sweep (thread 0) assigns tasks beside them.              *)
(***************************************************************************)
EXTENDS Naturals, Sequences, FiniteSets

CONSTANTS
  GuestConn,     \* the connections the guest opens, in this order
  BrowserConn,   \* the connections browsers open
  Task,          \* tasks
  NoTask,        \* the empty task id
  SendCap,       \* the capacity of Connection.send (256 in the code)
  Stalling,      \* the connections whose peer may stop reading
  MaxAssigns     \* bound: how many assignments there are

ConnAssumption ==
  /\ GuestConn \subseteq Nat \ {0} /\ BrowserConn \subseteq Nat \ {0}
  /\ GuestConn \cap BrowserConn = {}
NoTaskAssumption == NoTask \notin Task

Conn == GuestConn \cup BrowserConn
BoundAssumption == SendCap \in Nat \ {0} /\ MaxAssigns \in Nat /\ Stalling \subseteq Conn
NoConn == 0
Sweeper == 0
Thread == Conn \cup {Sweeper}
Handling == {"connection", "register", "assign", "look", "send", "reply"}

VARIABLES
  sock,        \* connection -> its socket; "stalled": the peer does not read
  hello,       \* the connections over which guest.register is on its way
  got,         \* connection -> the assignment the guest has read from it
  at,          \* thread -> where its ReadLoop, or the sweep, is
  job, target, \* thread -> the task it assigns, the connection it looked up
  writer,      \* connection -> where its WriteLoop is
  msg,         \* connection -> the message its WriteLoop writes
  send,        \* connection -> its send queue
  closed,      \* the connections whose closed flag is set
  role,        \* connection -> "browser" or "guest"
  run,         \* where Hub.Run is: step, connection, connections left to broadcast to
  connections, \* the hub's table
  mapping,     \* guestConnections of the guest
  known,       \* does the registry have the guest?
  entry,       \* its registry entry: the task it holds, and that task's status
  assigns      \* how many assignments there have been

peerVars == <<sock, hello, got>>
loopVars == <<at, job, target, writer, msg>>
connVars == <<send, closed, role>>
hubVars == <<run, connections, mapping>>
guestVars == <<known, entry, assigns>>
vars == <<peerVars, loopVars, connVars, hubVars, guestVars>>

Idle == [task |-> NoTask, status |-> "idle"]
Message == (Task \cup {"update", "reply"})

TypeOK ==
  /\ sock \in [Conn -> {"none", "up", "stalled", "down"}]
  /\ hello \subseteq GuestConn
  /\ got \in [Conn -> Task \cup {NoTask}]
  /\ at \in [Thread -> {"off", "offer", "read", "unregister", "done"} \cup Handling]
  /\ job \in [Thread -> Task \cup {NoTask}]
  /\ target \in [Thread -> Conn \cup {NoConn}]
  /\ writer \in [Conn -> {"off", "select", "write", "unregister", "done"}]
  /\ msg \in [Conn -> Message \cup {NoTask}]
  /\ \A c \in Conn : send[c] \in Seq(Message) /\ Len(send[c]) <= SendCap
  /\ closed \subseteq Conn /\ connections \subseteq Conn
  /\ role \in [Conn -> {"browser", "guest"}]
  /\ run \in [at : {"select", "insert", "remove", "find", "requeue", "broadcast"},
              c : Conn \cup {NoConn}, todo : SUBSET Conn]
  /\ mapping \in Conn \cup {NoConn}
  /\ known \in BOOLEAN /\ assigns \in 0..MaxAssigns
  /\ entry \in [task : Task, status : {"assigned", "running"}] \cup {Idle}

Init ==
  /\ sock = [c \in Conn |-> "none"] /\ hello = {} /\ got = [c \in Conn |-> NoTask]
  /\ at = [w \in Thread |-> "off"] /\ job = [w \in Thread |-> NoTask]
  /\ target = [w \in Thread |-> NoConn]
  /\ writer = [c \in Conn |-> "off"] /\ msg = [c \in Conn |-> NoTask]
  /\ send = [c \in Conn |-> <<>>] /\ closed = {}
  /\ role = [c \in Conn |-> "browser"]
  /\ run = [at |-> "select", c |-> NoConn, todo |-> {}]
  /\ connections = {} /\ mapping = NoConn
  /\ known = FALSE /\ entry = Idle /\ assigns = 0
-------------------------------------------------------------------------------
(* External: the peers.  The guest opens a connection once it has given up *)
(* the one before, which the server may not have noticed yet, and sends    *)
(* guest.register; it acknowledges the assignments it reads.               *)
Connect(c) ==
  /\ sock[c] = "none"
  /\ c \in GuestConn => \A d \in GuestConn : d < c => sock[d] = "down"
  /\ sock' = [sock EXCEPT ![c] = "up"]
  /\ hello' = IF c \in GuestConn THEN hello \cup {c} ELSE hello
  /\ at' = [at EXCEPT ![c] = "offer"]           \* NewConnection: h.register <- c
  /\ UNCHANGED <<got, job, target, writer, msg, connVars, hubVars, guestVars>>

Stall(c) ==
  /\ c \in Stalling /\ sock[c] = "up"
  /\ sock' = [sock EXCEPT ![c] = "stalled"]
  /\ UNCHANGED <<hello, got, loopVars, connVars, hubVars, guestVars>>

Resume(c) ==
  /\ sock[c] = "stalled"
  /\ sock' = [sock EXCEPT ![c] = "up"]
  /\ UNCHANGED <<hello, got, loopVars, connVars, hubVars, guestVars>>

Break(c) ==
  /\ sock[c] \in {"up", "stalled"}
  /\ sock' = [sock EXCEPT ![c] = "down"]
  /\ got' = [got EXCEPT ![c] = NoTask]          \* a call over a lost connection fails
  /\ UNCHANGED <<hello, loopVars, connVars, hubVars, guestVars>>
-------------------------------------------------------------------------------
(* Mutant: WriteLoop keeps c.mu while it closes.                           *)
MuFreeLate(c) == writer[c] \notin {"write", "unregister"}

(* Send: refuses on a closed connection or a full queue; it needs c.mu,    *)
(* which WriteLoop holds while it writes.                                  *)
MuFree(c) == writer[c] # "write"
Accepts(c) == c \notin closed /\ Len(send[c]) < SendCap
Queued(c, m) == [send EXCEPT ![c] = IF Accepts(c) THEN Append(@, m) ELSE @]

(* Mutant: a close whose check and set are two steps.                      *)
ClosedTwice(c) ==
  /\ closed' = closed \cup {c}
  /\ sock' = [sock EXCEPT ![c] = "down"] /\ got' = [got EXCEPT ![c] = NoTask]
  /\ send' = [send EXCEPT ![c] = <<>>]

(* Close, which a loop calls as it ends: the first caller closes closeCh   *)
(* and the socket, which ends a stalled write, and then waits for Run to   *)
(* take the connection out.  What is in the queue is never written any     *)
(* more.  The other loop ends at once if closeCh or the socket is what it  *)
(* waits for.                                                              *)
Closed(c) ==
  /\ c \notin closed
  /\ closed' = closed \cup {c}
  /\ sock' = [sock EXCEPT ![c] = "down"] /\ got' = [got EXCEPT ![c] = NoTask]
  /\ send' = [send EXCEPT ![c] = <<>>]

Ended(loop, c, waiting) == [loop EXCEPT ![c] = IF @ = waiting THEN "done" ELSE @]

ReaderCloses(c) ==
  \/ /\ Closed(c)
     /\ at' = [at EXCEPT ![c] = "unregister"] /\ writer' = Ended(writer, c, "select")
  \/ /\ c \in closed
     /\ at' = [at EXCEPT ![c] = "done"] /\ UNCHANGED <<closed, sock, got, send, writer>>

WriterCloses(c) ==
  \/ /\ Closed(c)
     /\ writer' = [writer EXCEPT ![c] = "unregister"] /\ at' = Ended(at, c, "read")
  \/ /\ c \in closed
     /\ writer' = [writer EXCEPT ![c] = "done"] /\ UNCHANGED <<closed, sock, got, send, at>>
-------------------------------------------------------------------------------
(* WriteLoop.  A write to a peer that reads, or to a socket that is down,  *)
(* is one step; one to a peer that does not read has no deadline, and      *)
(* WriteLoop holds c.mu until the peer reads again or the socket is closed.*)
Delivered(c, m) == got' = IF m \in Task THEN [got EXCEPT ![c] = m] ELSE got

TakeMessage(c) ==
  /\ writer[c] = "select" /\ send[c] # <<>>
  /\ \/ /\ sock[c] = "up"
        /\ send' = [send EXCEPT ![c] = Tail(@)]
        /\ Delivered(c, Head(send[c]))
        /\ UNCHANGED <<sock, writer, msg, at, closed>>
     \/ /\ sock[c] = "stalled"
        /\ send' = [send EXCEPT ![c] = Tail(@)]
        /\ writer' = [writer EXCEPT ![c] = "write"]
        /\ msg' = [msg EXCEPT ![c] = Head(send[c])]
        /\ UNCHANGED <<sock, got, at, closed>>
     \/ sock[c] = "down" /\ WriterCloses(c) /\ UNCHANGED msg
  /\ UNCHANGED <<hello, job, target, role, hubVars, guestVars>>

EndStalledWrite(c) ==
  /\ writer[c] = "write"
  /\ \/ /\ sock[c] = "up"
        /\ writer' = [writer EXCEPT ![c] = "select"]
        /\ Delivered(c, msg[c])
        /\ UNCHANGED <<sock, at, closed, send>>
     \/ sock[c] = "down" /\ WriterCloses(c)
  /\ msg' = [msg EXCEPT ![c] = NoTask]
  /\ UNCHANGED <<hello, job, target, role, hubVars, guestVars>>
-------------------------------------------------------------------------------
(* ReadLoop and the handlers it runs.                                      *)
Step(w, pc) == at' = [at EXCEPT ![w] = pc]

ReadRegister(c) ==
  /\ at[c] = "read" /\ c \in hello /\ c \notin closed
  /\ hello' = hello \ {c}
  /\ Step(c, "connection")
  /\ UNCHANGED <<sock, got, job, target, writer, msg, connVars, hubVars, guestVars>>

(* ReadMessage fails, or closeCh is found closed.                          *)
ReadFails(c) ==
  /\ at[c] = "read" /\ (sock[c] = "down" \/ c \in closed)
  /\ ReaderCloses(c)
  /\ UNCHANGED <<hello, job, target, msg, role, hubVars, guestVars>>

(* handleGuestRegister: the mapping first, and the role, if Run has        *)
(* inserted the connection by now ...                                      *)
RegisterConnection(c) ==
  /\ at[c] = "connection"
  /\ mapping' = c
  /\ role' = IF c \in connections THEN [role EXCEPT ![c] = "guest"] ELSE role
  /\ Step(c, "register")
  /\ UNCHANGED <<peerVars, job, target, writer, msg, send, closed, run, connections, guestVars>>

(* ... and the registry: ReconcileGuest leaves the task of a known guest    *)
(* alone, be it acknowledged or not.                                       *)
Register(c) ==
  /\ at[c] = "register"
  /\ known' = TRUE
  /\ Step(c, "assign")
  /\ UNCHANGED <<peerVars, job, target, writer, msg, connVars, hubVars, entry, assigns>>

(* task.acknowledge of the assignment the guest has read, and guest.result.*)
HandleAcknowledge(c) ==
  /\ at[c] = "read" /\ c \notin closed /\ got[c] # NoTask /\ sock[c] # "down"
  /\ entry' = IF entry = [task |-> got[c], status |-> "assigned"]
                THEN [entry EXCEPT !.status = "running"] ELSE entry
  /\ got' = [got EXCEPT ![c] = NoTask]
  /\ Step(c, "reply")
  /\ UNCHANGED <<sock, hello, job, target, writer, msg, connVars, hubVars, known, assigns>>

HandleResult(c) ==
  /\ at[c] = "read" /\ c \notin closed /\ sock[c] \in {"up", "stalled"} /\ c \notin hello /\ c \in GuestConn
  /\ entry.status = "running"
  /\ entry' = Idle
  /\ Step(c, "assign")
  /\ UNCHANGED <<peerVars, job, target, writer, msg, connVars, hubVars, known, assigns>>

After(w) == IF w = Sweeper THEN "off" ELSE "reply"

(* tryAssignTask, by a handler or by the sweep.                            *)
AssignTask(w) ==
  /\ at[w] = IF w = Sweeper THEN "off" ELSE "assign"
  /\ known /\ entry = Idle /\ assigns < MaxAssigns
  /\ \E t \in Task :
       /\ entry' = [task |-> t, status |-> "assigned"]
       /\ job' = [job EXCEPT ![w] = t]
  /\ assigns' = assigns + 1
  /\ Step(w, "look")
  /\ UNCHANGED <<peerVars, target, writer, msg, connVars, hubVars, known>>

NothingToAssign(c) ==          \* the guest is not idle, or no task is pending
  /\ at[c] = "assign"
  /\ Step(c, "reply")
  /\ UNCHANGED <<peerVars, job, target, writer, msg, connVars, hubVars, guestVars>>

(* RequeueTask, whoever holds the task.                                    *)
Requeued(t) == IF entry.task = t THEN Idle ELSE entry

(* SendToGuest: the two lookups; between them only a removal could make a  *)
(* difference, and Send refuses then just the same.                        *)
LookUp(w) ==
  /\ at[w] = "look"
  /\ IF mapping \in connections
       THEN /\ target' = [target EXCEPT ![w] = mapping]
            /\ Step(w, "send")
            /\ UNCHANGED <<job, entry>>
       ELSE /\ entry' = Requeued(job[w])
            /\ job' = [job EXCEPT ![w] = NoTask]
            /\ Step(w, After(w))
            /\ UNCHANGED target
  /\ UNCHANGED <<peerVars, writer, msg, connVars, hubVars, known, assigns>>

SendAssignment(w) ==
  /\ at[w] = "send" /\ MuFree(target[w])
  /\ send' = Queued(target[w], job[w])
  /\ entry' = IF Accepts(target[w]) THEN entry ELSE Requeued(job[w])
  /\ job' = [job EXCEPT ![w] = NoTask]
  /\ target' = [target EXCEPT ![w] = NoConn]
  /\ Step(w, After(w))
  /\ UNCHANGED <<peerVars, writer, msg, closed, role, hubVars, known, assigns>>

Reply(c) ==
  /\ at[c] = "reply" /\ MuFree(c)
  /\ send' = Queued(c, "reply")
  /\ Step(c, "read")
  /\ UNCHANGED <<peerVars, job, target, writer, msg, closed, role, hubVars, guestVars>>

(* What any other goroutine's broadcast does to one connection.            *)
Publish(c) ==
  /\ c \in connections /\ role[c] = "browser" /\ MuFree(c) /\ Accepts(c)
  /\ send' = Queued(c, "update")
  /\ UNCHANGED <<peerVars, loopVars, closed, role, hubVars, guestVars>>
-------------------------------------------------------------------------------
(* Hub.Run.                                                                *)
RunAt(pc) == run' = [run EXCEPT !.at = pc]

(* The connection is received, NewConnection returns and the loops start.  *)
ReceiveRegister(c) ==
  /\ run.at = "select" /\ at[c] = "offer"
  /\ run' = [run EXCEPT !.at = "insert", !.c = c]
  /\ Step(c, "read")
  /\ writer' = [writer EXCEPT ![c] = "select"]
  /\ UNCHANGED <<peerVars, job, target, msg, connVars, connections, mapping, guestVars>>

Insert ==
  /\ run.at = "insert"
  /\ connections' = connections \cup {run.c}
  /\ RunAt("select")
  /\ UNCHANGED <<peerVars, loopVars, connVars, mapping, guestVars>>

ReceiveUnregister(c) ==
  /\ run.at = "select"
  /\ \/ at[c] = "unregister" /\ Step(c, "done") /\ UNCHANGED writer
     \/ writer[c] = "unregister" /\ writer' = [writer EXCEPT ![c] = "done"] /\ UNCHANGED at
  /\ run' = [run EXCEPT !.at = "remove", !.c = c]
  /\ UNCHANGED <<peerVars, job, target, msg, connVars, connections, mapping, guestVars>>

(* Mutant: the callback is not called.                                     *)
RemoveSilently ==
  /\ run.at = "remove"
  /\ connections' = connections \ {run.c}
  /\ RunAt("select")
  /\ UNCHANGED <<peerVars, loopVars, connVars, mapping, guestVars>>

Remove ==
  /\ run.at = "remove"
  /\ closed' = closed \cup {run.c}
  /\ connections' = connections \ {run.c}
  /\ RunAt("find")
  /\ UNCHANGED <<peerVars, loopVars, send, role, mapping, guestVars>>

(* handleGuestDisconnect: GuestIDFromConnection, and the guest's entry,    *)
(* read without a lock through a shared pointer ...                        *)
FindGuest ==
  /\ run.at = "find"
  /\ RunAt(IF mapping = run.c /\ entry # Idle THEN "requeue" ELSE "select")
  /\ UNCHANGED <<peerVars, loopVars, connVars, connections, mapping, guestVars>>

(* ... which is read again for RequeueTask; then the broadcast.            *)
RequeueTask ==
  /\ run.at = "requeue"
  /\ entry' = Idle
  /\ run' = [run EXCEPT !.at = "broadcast", !.todo = connections]
  /\ UNCHANGED <<peerVars, loopVars, connVars, connections, mapping, known, assigns>>

Wanted(c) == c \in connections /\ role[c] = "browser"

BroadcastTo(c) ==
  /\ run.at = "broadcast" /\ c \in run.todo
  /\ Wanted(c) => MuFree(c)
  /\ send' = IF Wanted(c) THEN Queued(c, "update") ELSE send
  /\ run' = [run EXCEPT !.todo = @ \ {c}]
  /\ UNCHANGED <<peerVars, loopVars, closed, role, connections, mapping, guestVars>>

EndBroadcast ==
  /\ run.at = "broadcast" /\ run.todo = {}
  /\ run' = [run EXCEPT !.at = "select", !.c = NoConn]
  /\ UNCHANGED <<peerVars, loopVars, connVars, connections, mapping, guestVars>>
-------------------------------------------------------------------------------
Peer(c) == Connect(c) \/ Stall(c) \/ Resume(c) \/ Break(c)
Writer(c) == TakeMessage(c) \/ EndStalledWrite(c)
Reader(c) ==
  \/ ReadRegister(c) \/ ReadFails(c) \/ RegisterConnection(c)
  \/ Register(c) \/ HandleAcknowledge(c) \/ NothingToAssign(c) \/ Reply(c)
Deliver(w) == LookUp(w) \/ SendAssignment(w)
RunReceives(c) == ReceiveRegister(c) \/ ReceiveUnregister(c)
RunWorks ==
  Insert \/ Remove \/ FindGuest \/ RequeueTask \/ EndBroadcast

Next ==
  \/ \E c \in Conn : Peer(c) \/ Writer(c) \/ Reader(c) \/ HandleResult(c) \/ Publish(c)
  \/ \E w \in Thread : AssignTask(w) \/ Deliver(w)
  \/ RunWorks
  \/ \E c \in Conn : RunReceives(c) \/ BroadcastTo(c)

Spec == Init /\ [][Next]_vars

(* A goroutine that can go on does; one that waits for c.mu while others   *)
(* keep the writer busy gets it in the end (sync.Mutex hands it to a       *)
(* waiter that has starved for 1 ms).  A peer that does not read reads   *)
(* again or goes away, and a write to one that reads now and then ends.    *)
StallEnds(c) == sock[c] = "stalled" /\ (Resume(c) \/ Break(c))

FairSpec ==
  /\ Spec
  /\ \A c \in Conn : WF_vars(Reader(c)) /\ WF_vars(Writer(c))
  /\ \A w \in Thread : WF_vars(Deliver(w))
  /\ WF_vars(RunWorks \/ \E c \in Conn : RunReceives(c))
  /\ SF_vars(\E c \in Conn : BroadcastTo(c))
  /\ \A c \in Stalling : WF_vars(StallEnds(c)) /\ SF_vars(EndStalledWrite(c))
-------------------------------------------------------------------------------
(* However a connection ends (its reader, its writer or both notice, at    *)
(* any time), Run takes it out and calls the disconnect callback once:     *)
(* what it removes it has inserted, and never removed before.              *)
DisconnectOnce ==
  [][run.at = "remove" /\ run'.at # "remove" => run.c \in connections]_vars

(* A lost connection is taken out of the table and its loops end: closing  *)
(* it ends its own stalled write, and neither loop waits for the other.    *)
(* A lost connection stays lost: []<> says here what ~> would say.         *)
LossesHandled ==
  \A c \in Conn :
    []<>(sock[c] = "down" => c \notin connections /\ at[c] = "done" /\ writer[c] = "done")

AllLost ==
  /\ run.at = "select"
  /\ \A c \in GuestConn : at[c] \in {"off", "done"} /\ writer[c] \in {"off", "done"}
  /\ at[Sweeper] = "off"

(* Once the loss of every connection has been handled, the guest holds no  *)
(* task: a task that was handed out before a loss was noticed goes back    *)
(* into the queue by the callback that finds the guest, one handed out     *)
(* after it because it cannot be sent.                                     *)
(* With two connections of one guest it does not:                          *)
(* README, "Known divergences".                                            *)
GoneHoldsNothing == AllLost => entry = Idle

(* The comment in Run: locking c.mu "could stall this loop", so Run never  *)
(* waits for a connection whose writer holds c.mu in a write.              *)
(* The code does not keep it: README, "Known divergences".                 *)
RunNeverStalls ==
  ~(run.at = "broadcast" /\ \E c \in run.todo : Wanted(c) /\ writer[c] = "write" /\ sock[c] = "stalled")

(* The comment of SetConnectionRole, "The connection must already be in    *)
(* the hub's map": the handler of guest.register finds it there, so that   *)
(* the connection of a registered guest has the role of a guest.           *)
(* The code does not keep it: README, "Known divergences".                 *)
RegisteredHasRole ==
  \A c \in GuestConn : at[c] = "reply" /\ mapping = c => role[c] = "guest"

Underway(t, c) == got[c] = t \/ \E i \in 1..Len(send[c]) : send[c][i] = t

(* The comment of handleGuestDisconnect: the loss of a connection re-queues*)
(* the task of the guest that lost it.  It does not take an assignment the *)
(* guest has got over a connection it registered since.                    *)
(* The code does not keep it: README, "Known divergences".                 *)
TakesOwnAssignment ==
  [][run.at = "requeue" /\ run'.at = "broadcast" /\ entry # Idle
       => \A c \in GuestConn \ {run.c} : ~Underway(entry.task, c)]_vars
===============================================================================
