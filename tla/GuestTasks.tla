------------------------------ MODULE GuestTasks -------------------------------
(***************************************************************************)
(* What a guest (pkg/guest) does with task.assign and task.cancel: the     *)
(* notification handlers, which run concurrently, the queue taskCh, one    *)
(* dispatcher per connection, of which those of earlier connections may    *)
(* still be at work, and ExecuteTask, which holds g.mu across its          *)
(* acknowledgement.  Connections come and go as GuestConnection describes; *)
(* the server may assign and cancel any task at any time.                  *)
(***************************************************************************)
EXTENDS Naturals, Sequences, FiniteSets

CONSTANTS
  Task,       \* tasks
  NoTask,     \* the empty task id
  MaxConns,   \* bound: how many connections there are
  MaxNotes,   \* bound: how many notifications arrive
  ChanCap,    \* the capacity of taskCh (16 in the code)
  Cancels,    \* does the server send task.cancel?
  Stops       \* may the guest be stopped?

NoTaskAssumption == NoTask \notin Task
BoundAssumption == {MaxConns, MaxNotes, ChanCap} \subseteq Nat \ {0}
SwitchAssumption == {Cancels, Stops} \subseteq BOOLEAN

Conn == 1..MaxConns
Note == 1..MaxNotes
Nobody == 0

VARIABLES
  conn, connected,   \* the number of the last connection; does it still stand?
  stopped, killed,   \* stopCh is closed; Cleanup has killed pi after it
  note,              \* notification -> kind, task, connection it came over, progress
  arrived,           \* how many notifications have arrived
  taskCh,            \* the assignments in the channel
  disp,              \* connection -> where its dispatcher is
  job,               \* connection -> the assignment its dispatcher has taken
  outcome,           \* connection -> what the handler returned
  mu,                \* the dispatcher that holds g.mu across a Call, or Nobody
  running, currentTask,  \* Guest.running, Guest.currentTaskID
  cancelOf,          \* the dispatcher whose execution Guest.cancel cancels, or Nobody
  aborted,           \* the dispatchers whose execution's context is cancelled
  reports            \* the results that were sent: <<assignment, outcome>>

connVars == <<conn, connected>>
stopVars == <<stopped, killed>>
noteVars == <<note, arrived>>
dispVars == <<disp, job, outcome>>
runVars == <<mu, running, currentTask, cancelOf, aborted>>
vars == <<connVars, stopVars, noteVars, taskCh, dispVars, runVars, reports>>

TypeOK ==
  /\ conn \in Conn /\ arrived \in 0..MaxNotes
  /\ {connected, stopped, killed, running} \subseteq BOOLEAN
  /\ note \in [Note -> [kind: {"none", "assign", "cancel"}, task: Task \cup {NoTask},
                        via: 0..MaxConns,
                        at: {"none", "check", "send", "queued", "held", "running", "over",
                             "dropped", "duplicate", "full", "declined", "confirm"}]]
  /\ taskCh \in Seq(Note) /\ Len(taskCh) <= ChanCap
  /\ disp \in [Conn -> {"none", "select", "wait", "busy", "idle", "ack", "setup", "run",
                        "report", "send", "clear", "decline", "done"}]
  /\ job \in [Conn -> 0..MaxNotes]
  /\ outcome \in [Conn -> {"none", "success", "failure", "killed"}]
  /\ {mu, cancelOf} \subseteq 0..MaxConns
  /\ currentTask \in Task \cup {NoTask}
  /\ aborted \subseteq Conn
  /\ reports \subseteq Note \X {"success", "failure", "killed"}

Init ==
  /\ conn = 1 /\ connected = TRUE /\ stopped = FALSE /\ killed = FALSE
  /\ note = [n \in Note |-> [kind |-> "none", task |-> NoTask, via |-> 0, at |-> "none"]]
  /\ arrived = 0 /\ taskCh = <<>>
  /\ disp = [e \in Conn |-> IF e = 1 THEN "select" ELSE "none"]
  /\ job = [e \in Conn |-> 0] /\ outcome = [e \in Conn |-> "none"]
  /\ mu = Nobody /\ running = FALSE /\ currentTask = NoTask
  /\ cancelOf = Nobody /\ aborted = {} /\ reports = {}
-------------------------------------------------------------------------------
Done(e) == e # conn \/ ~connected     \* connCtx of connection e is cancelled
Ends(e) == Done(e) \/ stopped
JobTask(e) == note[job[e]].task
Executing == {e \in Conn : disp[e] \in {"setup", "run", "report", "send", "clear"}}

NoteAt(n, at) == note' = [note EXCEPT ![n].at = at]
DispAt(e, at) == disp' = [disp EXCEPT ![e] = at]

(* External: the connection as GuestConnection moves it, and the server.   *)
(* A dispatcher that waits in its select with nothing to receive is woken  *)
(* by the cancellation of connCtx; one that is at work will find that and  *)
(* the channel ready together.                                             *)
Lose ==
  /\ connected
  /\ connected' = FALSE
  /\ IF disp[conn] = "select" /\ taskCh = <<>> THEN DispAt(conn, "done") ELSE UNCHANGED disp
  /\ UNCHANGED <<conn, stopVars, noteVars, taskCh, job, outcome, runVars, reports>>

(* Mutant: only the first connection gets a dispatcher.                    *)
ReconnectOnly ==
  /\ ~connected /\ ~stopped /\ conn < MaxConns
  /\ connected' = TRUE
  /\ conn' = conn + 1
  /\ UNCHANGED <<stopVars, noteVars, taskCh, dispVars, runVars, reports>>

Reconnect ==
  /\ ~connected /\ ~stopped /\ conn < MaxConns
  /\ connected' = TRUE
  /\ conn' = conn + 1
  /\ DispAt(conn + 1, "select")
  /\ UNCHANGED <<stopVars, noteVars, taskCh, job, outcome, runVars, reports>>

Notify(kind, t) ==
  /\ connected /\ arrived < MaxNotes
  /\ arrived' = arrived + 1
  /\ note' = [note EXCEPT ![arrived + 1] =
                [kind |-> kind, task |-> t, via |-> conn, at |-> "check"]]
  /\ UNCHANGED <<connVars, stopVars, taskCh, dispVars, runVars, reports>>

(* Stop, then the cleanup of main, which stops pi under the handler.       *)
Stop ==
  /\ Stops /\ ~stopped
  /\ stopped' = TRUE
  /\ UNCHANGED <<connVars, killed, noteVars, taskCh, dispVars, runVars, reports>>

(* Mutant: main cleans up before it stops the guest.                       *)
KillFirst ==
  /\ Stops /\ ~killed
  /\ killed' = TRUE
  /\ UNCHANGED <<connVars, stopped, noteVars, taskCh, dispVars, runVars, reports>>

Kill ==
  /\ stopped /\ ~killed
  /\ killed' = TRUE
  /\ UNCHANGED <<connVars, stopped, noteVars, taskCh, dispVars, runVars, reports>>
-------------------------------------------------------------------------------
(* The notification handlers, each in a goroutine of its own.              *)

(* task.assign: a duplicate of the task that runs is ignored.              *)
CheckDuplicate(n) ==
  /\ note[n].kind = "assign" /\ note[n].at = "check" /\ mu = Nobody
  /\ NoteAt(n, IF currentTask = note[n].task THEN "duplicate" ELSE "send")
  /\ UNCHANGED <<connVars, stopVars, arrived, taskCh, dispVars, runVars, reports>>

Enqueue(n) ==
  /\ note[n].at = "send"
  /\ IF Len(taskCh) < ChanCap
     THEN taskCh' = Append(taskCh, n) /\ NoteAt(n, "queued")
     ELSE NoteAt(n, "full") /\ UNCHANGED taskCh
  /\ UNCHANGED <<connVars, stopVars, arrived, dispVars, runVars, reports>>

(* task.cancel: whatever runs is cancelled; the id is not compared.        *)
CancelRunning(n) ==
  /\ note[n].kind = "cancel" /\ note[n].at = "check" /\ mu = Nobody
  /\ aborted' = aborted \cup ({cancelOf} \ {Nobody})
  /\ cancelOf' = Nobody
  /\ NoteAt(n, "confirm")
  /\ UNCHANGED <<connVars, stopVars, arrived, taskCh, dispVars, mu, running, currentTask, reports>>

(* The Call of guest.cancelled; skipped without a connection.              *)
Confirm(n) ==
  /\ note[n].at = "confirm"
  /\ NoteAt(n, "over")
  /\ UNCHANGED <<connVars, stopVars, arrived, taskCh, dispVars, runVars, reports>>
-------------------------------------------------------------------------------
(* The dispatcher of connection e.                                         *)

Receive(e) ==
  /\ disp[e] = "select" /\ taskCh # <<>>
  /\ taskCh' = Tail(taskCh)
  /\ job' = [job EXCEPT ![e] = Head(taskCh)]
  /\ NoteAt(Head(taskCh), "held")
  /\ DispAt(e, "wait")
  /\ UNCHANGED <<connVars, stopVars, arrived, outcome, runVars, reports>>

Leave(e) ==
  /\ disp[e] = "select" /\ Ends(e)
  /\ DispAt(e, "done")
  /\ UNCHANGED <<connVars, stopVars, noteVars, taskCh, job, outcome, runVars, reports>>

(* waitForIdle: look at running, ...                                       *)
LookIdle(e) ==
  /\ disp[e] = "wait" /\ mu = Nobody
  /\ DispAt(e, IF running THEN "busy" ELSE "idle")
  /\ UNCHANGED <<connVars, stopVars, noteVars, taskCh, job, outcome, runVars, reports>>

(* ... look again after 50 ms, or drop the assignment with the connection. *)
WaitOrDrop(e) ==
  /\ disp[e] = "busy"
  /\ \/ DispAt(e, "wait") /\ UNCHANGED note
     \/ Ends(e) /\ DispAt(e, "done") /\ NoteAt(job[e], "dropped")
  /\ UNCHANGED <<connVars, stopVars, arrived, taskCh, job, outcome, runVars, reports>>

(* Mutant: ExecuteTask lets go of g.mu while it acknowledges.              *)
BeginUnlocked(e) ==
  /\ disp[e] = "idle" /\ mu = Nobody
  /\ DispAt(e, IF running THEN "decline" ELSE "ack")
  /\ UNCHANGED <<connVars, stopVars, noteVars, taskCh, job, outcome, runVars, reports>>

(* ExecuteTask, up to the Call of task.acknowledge.                        *)
Begin(e) ==
  /\ disp[e] = "idle" /\ mu = Nobody
  /\ IF running THEN DispAt(e, "decline") /\ UNCHANGED mu
                ELSE DispAt(e, "ack") /\ mu' = e
  /\ UNCHANGED <<connVars, stopVars, noteVars, taskCh, job, outcome, running, currentTask,
                 cancelOf, aborted, reports>>

DeclineTask(e) ==
  /\ disp[e] = "decline"
  /\ DispAt(e, "select")
  /\ NoteAt(job[e], "declined")
  /\ UNCHANGED <<connVars, stopVars, arrived, taskCh, job, outcome, runVars, reports>>

(* The acknowledgement returned, with or without an error.                 *)
Acknowledged(e) ==
  /\ disp[e] = "ack"
  /\ mu' = Nobody
  /\ running' = TRUE
  /\ currentTask' = JobTask(e)
  /\ DispAt(e, "setup")
  /\ NoteAt(job[e], "running")
  /\ UNCHANGED <<connVars, stopVars, arrived, taskCh, job, outcome, cancelOf, aborted, reports>>

SetCancel(e) ==
  /\ disp[e] = "setup" /\ mu = Nobody
  /\ cancelOf' = e
  /\ aborted' = aborted \ {e}
  /\ DispAt(e, "run")
  /\ UNCHANGED <<connVars, stopVars, noteVars, taskCh, job, outcome, mu, running, currentTask, reports>>

(* The handler returns: by itself, because its context was cancelled, or   *)
(* because pi was killed.                                                  *)
HandlerReturns(e) ==
  /\ disp[e] = "run"
  /\ outcome' \in {[outcome EXCEPT ![e] = o] :
                     o \in {"success", "failure"} \cup (IF killed THEN {"killed"} ELSE {})}
  /\ DispAt(e, "report")
  /\ UNCHANGED <<connVars, stopVars, noteVars, taskCh, job, runVars, reports>>

(* isStopping: a failure during shutdown is not reported.                  *)
CheckStopping(e) ==
  /\ disp[e] = "report"
  /\ DispAt(e, IF outcome[e] # "success" /\ stopped THEN "clear" ELSE "send")
  /\ UNCHANGED <<connVars, stopVars, noteVars, taskCh, job, outcome, runVars, reports>>

(* SendResult gives up when there is no connection.                        *)
SendResult(e) ==
  /\ disp[e] = "send"
  /\ reports' = IF connected THEN reports \cup {<<job[e], outcome[e]>>} ELSE reports
  /\ DispAt(e, "clear")
  /\ UNCHANGED <<connVars, stopVars, noteVars, taskCh, job, outcome, runVars>>

(* The deferred function; its heartbeat changes nothing on the guest.      *)
Clear(e) ==
  /\ disp[e] = "clear" /\ mu = Nobody
  /\ running' = FALSE /\ currentTask' = NoTask /\ cancelOf' = Nobody
  /\ NoteAt(job[e], "over")
  /\ DispAt(e, "select")
  /\ UNCHANGED <<connVars, stopVars, arrived, taskCh, job, outcome, mu, aborted, reports>>

Handler(n) == CheckDuplicate(n) \/ Enqueue(n) \/ CancelRunning(n) \/ Confirm(n)

Dispatcher(e) ==
  \/ Receive(e) \/ Leave(e) \/ LookIdle(e) \/ WaitOrDrop(e) \/ Begin(e) \/ DeclineTask(e)
  \/ Acknowledged(e) \/ SetCancel(e) \/ HandlerReturns(e) \/ CheckStopping(e)
  \/ SendResult(e) \/ Clear(e)

Next ==
  \/ Lose \/ Reconnect \/ Stop \/ Kill
  \/ \E t \in Task, kind \in {"assign"} \cup (IF Cancels THEN {"cancel"} ELSE {}) : Notify(kind, t)
  \/ \E n \in Note : Handler(n)
  \/ \E e \in Conn : Dispatcher(e)

Spec == Init /\ [][Next]_vars

(* Goroutines are scheduled, the handler returns (its idle timeout), and a *)
(* lost connection is replaced.  As assignments are bounded, no choice of  *)
(* a select and no lock is contended for ever.                             *)
FairSpec ==
  /\ Spec
  /\ WF_vars(Reconnect)
  /\ \A n \in Note : WF_vars(Handler(n))
  /\ \A e \in Conn : WF_vars(Dispatcher(e))
-------------------------------------------------------------------------------
(* Whichever dispatchers overlap, one task runs at a time, and running,    *)
(* currentTaskID and cancel are those of the task that runs.               *)
OneExecution ==
  /\ Cardinality(Executing) <= 1
  /\ running <=> Executing # {}
  /\ \A e \in Executing : currentTask = JobTask(e)
  /\ cancelOf # Nobody => disp[cancelOf] \in {"run", "report", "send", "clear"}

(* A failure that is only due to the guest's shutdown is never reported    *)
(* (isStopping, issue #184).                                               *)
NoShutdownFailure == \A r \in reports : r[2] # "killed"

(* An assignment in the channel is run, declined, or dropped with a        *)
(* connection; it waits as long as the guest is busy, but not for ever,    *)
(* while the guest has a connection.                                       *)
QueuedServed ==
  \A n \in Note : note[n].at \in {"queued", "held"} ~>
     (note[n].at \in {"over", "declined", "dropped"} \/ stopped \/ (conn = MaxConns /\ ~connected))

(* No dispatcher outlives its connection for good: the loop of issue #186. *)
(* A connection that is over stays so: []<> says here what ~> would say.   *)
LeftoverDispatchersEnd ==
  \A e \in Conn : []<>(disp[e] # "none" /\ Done(e) => disp[e] = "done")

(* waitForIdle gives an assignment up only when the connection it was sent *)
(* over is gone or the guest stops, so that the server re-queues the task  *)
(* when the connection drops (the comment of waitForIdle).                 *)
(* The code does not keep it: README, "Known divergences".                 *)
DroppedWithItsConnection ==
  [][\A n \in Note :
       note[n].at = "held" /\ note'[n].at = "dropped"
       => stopped \/ note[n].via # conn \/ ~connected]_vars

(* The guest confirms the end of a task only when the task is not running  *)
(* on it (the comments of handleGuestCancelled and of the handler).        *)
(* The code does not keep it: README, "Known divergences".                 *)
ConfirmedStopped ==
  [][\A n \in Note :
       note[n].at = "confirm" /\ note'[n].at = "over" /\ connected
       => ~(\E e \in Executing : JobTask(e) = note[n].task /\ e \notin aborted)]_vars
===============================================================================
