------------------------------- MODULE Protocol --------------------------------
(***************************************************************************)
(* The handlers of internal/server with the guests they talk to: what the  *)
(* server reads before it takes the orchestrator's mutex, what it sends    *)
(* and broadcasts after it has released it, and which of the orchestrator's*)
(* methods it calls in between.  Every change of a task or of a registry   *)
(* entry is an action of Orchestrator, taken over as it stands.            *)
(*                                                                         *)
(* Threads: one ReadLoop per guest, which handles the guest's calls one    *)
(* after the other; Hub.Run, which handles lost connections; one HTTP      *)
(* request at a time; the sweep.  How connections come and go below this   *)
(* level is the subject of Hub, GuestConnection and GuestTasks.  Time      *)
(* passes only while nothing is under way, a call taking milliseconds and  *)
(* a timeout minutes: Orchestrator has the other orders.                   *)
(***************************************************************************)
EXTENDS Orchestrator, Sequences

LOCAL INSTANCE SequencesExt

CONSTANTS
  MaxFaults,     \* bound: how many connections are lost
  Blips,         \* may a connection be lost while its guest goes on?
  LatePending,   \* may a guest be back before the loss of its connection is handled?
  Beats,         \* the stages of an execution in which heartbeats are followed
  Cancels,       \* does anyone cancel tasks over HTTP?
  NoPersona,     \* the tasks whose persona is gone from the store
  Screens        \* are the broadcasts of task.updated followed?

ASSUME ProtocolAssumption ==
  /\ MaxFaults \in Nat /\ NoPersona \subseteq Task
  /\ {Blips, LatePending, Cancels, Screens} \subseteq BOOLEAN
  /\ Beats \subseteq {"idle", "running", "ending"}

VARIABLES
  link,      \* guest -> does its present socket work?
  conn,      \* guest -> what its mapping leads to: no connection, an open one, a dead one
  faults,    \* how many connections were lost
  calls,     \* guest -> the calls under way to the server
  inbox,     \* guest -> the assignments in its taskCh
  signals,   \* guest -> the task.cancel notifications it has not handled
  doing,     \* guest -> the task it executes
  stage,     \* guest -> how far the execution is
  th,        \* thread -> where it is, and its local variables
  screen     \* task -> the status browsers were told last

Http == "http"
Run == "run"
Sweeper == "sweeper"
Thread == Guest \cup {Http, Run, Sweeper}

wireVars == <<link, conn, faults, calls, inbox, signals>>
workVars == <<doing, stage>>
protocolVars == <<vars, wireVars, workVars, th, screen>>

Final == {"COMPLETED", "FAILED"}
Call == [m : {"register", "acknowledge", "heartbeat", "declined", "cancelled"} \cup Final,
         t : 0..MaxTasks]
Local == [at : {"idle", "end", "declined", "cancel", "signal", "requeue", "next", "assign",
                "push", "rollback", "assigned", "last"},
          t : 0..MaxTasks, g : Guest \cup {NoGuest},
          todo : SUBSET Guest, only : 0..MaxTasks,
          told : 0..MaxTasks, say : TaskStatus \cup {"nothing"}]
Rest == [at |-> "idle", t |-> NoTask, g |-> NoGuest, todo |-> {}, only |-> NoTask,
         told |-> NoTask, say |-> "nothing"]

ProtocolTypeOK ==
  /\ TypeOK
  /\ link \in [Guest -> BOOLEAN]
  /\ conn \in [Guest -> {"none", "open", "dead"}]
  /\ faults \in 0..MaxFaults
  /\ calls \in [Guest -> Seq(Call)] /\ inbox \in [Guest -> Seq(Task)]
  /\ signals \in [Guest -> SUBSET Task]
  /\ doing \in [Guest -> 0..MaxTasks]
  /\ stage \in [Guest -> {"idle", "acking", "running", "ending"}]
  /\ th \in [Thread -> Local]
  /\ screen \in [Task -> TaskStatus]

ProtocolInit ==
  /\ Init
  /\ link = [g \in Guest |-> FALSE] /\ conn = [g \in Guest |-> "none"] /\ faults = 0
  /\ calls = [g \in Guest |-> <<>>] /\ inbox = [g \in Guest |-> <<>>]
  /\ signals = [g \in Guest |-> {}]
  /\ doing = [g \in Guest |-> NoTask] /\ stage = [g \in Guest |-> "idle"]
  /\ th = [w \in Thread |-> Rest]
  /\ screen = [t \in Task |-> "ABSENT"]
-------------------------------------------------------------------------------
(* External: the sockets.  A guest that is back registers; what was under  *)
(* way when a connection breaks may still arrive or be lost.               *)
Submit(g, m, t) == calls' = [calls EXCEPT ![g] = IF link[g] THEN Append(@, [m |-> m, t |-> t]) ELSE @]

Connect(g) ==
  /\ ~link[g] /\ calls[g] = <<>> /\ th[g] = Rest
  /\ conn[g] = "dead" => LatePending
  /\ link' = [link EXCEPT ![g] = TRUE]
  /\ calls' = [calls EXCEPT ![g] = <<[m |-> "register", t |-> NoTask]>>]
  /\ UNCHANGED <<vars, conn, faults, inbox, signals, workVars, th, screen>>

Break(g) ==
  /\ Blips /\ link[g] /\ faults < MaxFaults
  /\ faults' = faults + 1
  /\ link' = [link EXCEPT ![g] = FALSE]
  /\ conn' = [conn EXCEPT ![g] = IF @ = "open" THEN "dead" ELSE @]
  /\ \E k \in 0..Len(calls[g]) : calls' = [calls EXCEPT ![g] = SubSeq(@, 1, k)]
  /\ stage' = [stage EXCEPT ![g] = IF @ = "acking" THEN "running" ELSE @]
  /\ UNCHANGED <<vars, inbox, signals, doing, th, screen>>

(* The guest process ends with everything it had.                          *)
Crash(g) ==
  /\ link[g] /\ faults < MaxFaults
  /\ faults' = faults + 1
  /\ link' = [link EXCEPT ![g] = FALSE]
  /\ conn' = [conn EXCEPT ![g] = IF @ = "open" THEN "dead" ELSE @]
  /\ \E k \in 0..Len(calls[g]) : calls' = [calls EXCEPT ![g] = SubSeq(@, 1, k)]
  /\ inbox' = [inbox EXCEPT ![g] = <<>>] /\ signals' = [signals EXCEPT ![g] = {}]
  /\ doing' = [doing EXCEPT ![g] = NoTask] /\ stage' = [stage EXCEPT ![g] = "idle"]
  /\ UNCHANGED <<vars, th, screen>>
-------------------------------------------------------------------------------
(* The guest.  Its dispatcher takes one assignment at a time.              *)
TakeAssignment(g) ==
  /\ stage[g] = "idle" /\ inbox[g] # <<>>
  /\ inbox' = [inbox EXCEPT ![g] = Tail(@)]
  /\ doing' = [doing EXCEPT ![g] = Head(inbox[g])]
  /\ stage' = [stage EXCEPT ![g] = IF link[g] THEN "acking" ELSE "running"]
  /\ Submit(g, "acknowledge", Head(inbox[g]))
  /\ UNCHANGED <<vars, link, conn, faults, signals, th, screen>>

(* Two dispatchers overlap after a reconnection: the second one declines.  *)
Decline(g) ==
  /\ stage[g] # "idle" /\ inbox[g] # <<>> /\ faults > 0
  /\ inbox' = [inbox EXCEPT ![g] = Tail(@)]
  /\ Submit(g, "declined", Head(inbox[g]))
  /\ UNCHANGED <<vars, link, conn, faults, signals, workVars, th, screen>>

SendResult(g) ==
  /\ stage[g] = "running"
  /\ \E final \in Final : Submit(g, final, doing[g])
  /\ stage' = [stage EXCEPT ![g] = "ending"]
  /\ UNCHANGED <<vars, link, conn, faults, inbox, signals, doing, th, screen>>

(* The deferred part of ExecuteTask: the fields are cleared, then Heartbeat*)
(* reads them.                                                             *)
EndExecution(g) ==
  /\ stage[g] = "ending"
  /\ stage' = [stage EXCEPT ![g] = "idle"]
  /\ doing' = [doing EXCEPT ![g] = NoTask]
  /\ Submit(g, "heartbeat", doing'[g])
  /\ UNCHANGED <<vars, link, conn, faults, inbox, signals, th, screen>>

(* The heartbeat loop reads the task, and retries with what it read.       *)
SendHeartbeat(g) ==
  /\ stage[g] \in Beats
  /\ link[g] /\ \A i \in 1..Len(calls[g]) : calls[g][i].m # "heartbeat"
  /\ Submit(g, "heartbeat", doing[g])
  /\ UNCHANGED <<vars, link, conn, faults, inbox, signals, workVars, th, screen>>

(* task.cancel ends whatever executes (its result follows) and is always   *)
(* confirmed.                                                              *)
ConfirmCancel(g, t) ==
  /\ t \in signals[g]
  /\ signals' = [signals EXCEPT ![g] = @ \ {t}]
  /\ Submit(g, "cancelled", t)
  /\ UNCHANGED <<vars, link, conn, faults, inbox, workVars, th, screen>>
-------------------------------------------------------------------------------
(* What the handlers share.                                                *)
Go(w, local) == th' = [th EXCEPT ![w] = local]
At(w, pc) == Go(w, [th[w] EXCEPT !.at = pc])
Saying(t, s) == [Rest EXCEPT !.at = "next", !.told = t, !.say = s]
Told(t, s) == screen' = IF Screens THEN [screen EXCEPT ![t] = s] ELSE screen

(* A call of guest g is handled; the answer to an acknowledgement lets the *)
(* guest go on, whatever it says.                                          *)
Arrives(g, m) == th[g] = Rest /\ calls[g] # <<>> /\ Head(calls[g]).m = m
Taken(g) == calls' = [calls EXCEPT ![g] = Tail(@)]
Arg(g) == Head(calls[g]).t

(* A guest that the limit keeps out closes the connection and tries again. *)
Refused(g) == g \notin registered /\ maxGuests # 0 /\ Cardinality(registered) >= maxGuests

HandleRegister(g) ==
  /\ Arrives(g, "register") /\ Taken(g)
  /\ IF Refused(g)
       THEN /\ link' = [link EXCEPT ![g] = FALSE] /\ conn' = [conn EXCEPT ![g] = "dead"]
            /\ UNCHANGED <<vars, th>>
       ELSE /\ conn' = [conn EXCEPT ![g] = IF link[g] THEN "open" ELSE "dead"]
            /\ Register(g) \/ ReconcileGuest(g)
            /\ Go(g, [Rest EXCEPT !.at = "next", !.todo = {g}])
            /\ UNCHANGED link
  /\ UNCHANGED <<faults, inbox, signals, workVars, screen>>

(* That of a guest the registry does not have is answered with an error.   *)
HandleHeartbeat(g) ==
  /\ Arrives(g, "heartbeat") /\ Taken(g)
  /\ IF g \notin registered THEN UNCHANGED vars
     ELSE IF Arg(g) = NoTask THEN Heartbeat(g) ELSE TaskHeartbeat(g, Arg(g))
  /\ UNCHANGED <<link, conn, faults, inbox, signals, workVars, th, screen>>

HandleAcknowledge(g) ==
  LET t == Arg(g) IN
  /\ Arrives(g, "acknowledge") /\ Taken(g)
  /\ \/ AcknowledgeTask(t, g) /\ Go(g, Saying(t, "RUNNING"))
     \/ /\ ~(status[t] = "ASSIGNED" /\ assignedTo[t] = g)
        /\ UNCHANGED vars
        /\ IF status[t] = "RUNNING" /\ assignedTo[t] = g
             THEN Go(g, Saying(t, "RUNNING")) ELSE UNCHANGED th
  /\ stage' = [stage EXCEPT ![g] = IF @ = "acking" THEN "running" ELSE @]
  /\ UNCHANGED <<link, conn, faults, inbox, signals, doing, screen>>

(* guest.result: the owner is read before the mutex is taken ...           *)
HandleResult(g) ==
  /\ \E final \in Final : Arrives(g, final)
  /\ Taken(g)
  /\ Go(g, [Rest EXCEPT !.at = "end", !.t = Arg(g), !.g = assignedTo[Arg(g)],
                        !.say = Head(calls[g]).m])
  /\ UNCHANGED <<vars, link, conn, faults, inbox, signals, workVars, screen>>

(* ... and a result for a task that has ended is accepted all the same.    *)
EndReported(g) ==
  LET t == th[g].t  owner == th[g].g IN
  /\ th[g].at = "end"
  /\ \/ EndTask(t, owner, th[g].say)
     \/ ~IsActive(t) /\ UNCHANGED vars
  /\ IF status[t] = "PENDING" THEN Go(g, Rest)
     ELSE Go(g, [Saying(t, th[g].say) EXCEPT !.todo = {owner} \ {NoGuest}])
  /\ UNCHANGED <<wireVars, workVars, screen>>

HandleDeclined(g) ==
  LET t == Arg(g) IN
  /\ Arrives(g, "declined") /\ Taken(g)
  /\ \/ DeclineTask(t, g) /\ Go(g, [Rest EXCEPT !.at = "declined", !.t = t])
     \/ ~(assignedTo[t] = g /\ IsActive(t)) /\ UNCHANGED <<vars, th>>
  /\ UNCHANGED <<link, conn, faults, inbox, signals, workVars, screen>>

(* tryAssignTaskToEligible: any available guest but the one that declined. *)
OfferElsewhere(g) ==
  LET t == th[g].t IN
  /\ th[g].at = "declined"
  /\ Told(t, "PENDING")
  /\ Go(g, [Rest EXCEPT !.at = "next", !.only = t, !.todo = FindAvailableGuests(t) \ {g}])
  /\ UNCHANGED <<vars, wireVars, workVars>>

HandleCancelled(g) ==
  LET t == Arg(g) IN
  /\ Arrives(g, "cancelled") /\ Taken(g)
  /\ \/ CancelTask(t, g) /\ Go(g, Saying(t, "CANCELLED"))
     \/ ~(status[t] = "PENDING" \/ IsActive(t)) /\ UNCHANGED <<vars, th>>
  /\ UNCHANGED <<link, conn, faults, inbox, signals, workVars, screen>>
-------------------------------------------------------------------------------
(* tryAssignTask for every guest of todo in turn (or, after a decline, one *)
(* task for the first of them that takes it), then the last broadcast.     *)

(* The first pending task whose tags the guest has.                        *)
FirstFor(g, t) ==
  LET fit == Pending \cap Serves[g] IN t \in fit /\ \A u \in fit \ {t} : Precedes(t, u)

(* Read the guest's state and the pending tasks, without a lock.           *)
Pick(w) ==
  /\ th[w].at = "next" /\ th[w].todo # {}
  /\ \E g \in th[w].todo :
       LET left == [th[w] EXCEPT !.todo = @ \ {g}]
           Choose(t) == Go(w, [left EXCEPT !.at = "assign", !.t = t, !.g = g])
       IN IF th[w].only # NoTask THEN Choose(th[w].only)
          ELSE \/ guestState[g] = "IDLE" /\ \E t \in Task : FirstFor(g, t) /\ Choose(t)
               \/ (guestState[g] # "IDLE" \/ Pending \cap Serves[g] = {}) /\ Go(w, left)
  /\ UNCHANGED <<vars, wireVars, workVars, screen>>

Assign(w) ==
  LET t == th[w].t  g == th[w].g IN
  /\ th[w].at = "assign"
  /\ \/ AssignTask(t, g) /\ At(w, "push")
     \/ /\ ~(g \in registered /\ guestState[g] = "IDLE" /\ status[t] = "PENDING")
        /\ At(w, "next") /\ UNCHANGED vars
  /\ UNCHANGED <<wireVars, workVars, screen>>

(* SendToGuest: fails without a connection; over a dead one it is lost.    *)
(* A guest ignores the assignment of the task it executes.                 *)
Push(w) ==
  LET t == th[w].t  g == th[w].g IN
  /\ th[w].at = "push"
  /\ IF t \in NoPersona \/ conn[g] = "none"
       THEN At(w, "rollback") /\ UNCHANGED inbox
       ELSE /\ At(w, "assigned")
            /\ inbox' = [inbox EXCEPT ![g] =
                           IF link[g] /\ conn[g] = "open" /\ (doing[g] # t \/ stage[g] = "acking")
                             THEN Append(@, t) ELSE @]
  /\ UNCHANGED <<vars, link, conn, faults, calls, signals, workVars, screen>>

(* Mutant: a task that has been confirmed meanwhile is left alone.         *)
RollbackUnconfirmed(w) ==
  /\ th[w].at = "rollback"
  /\ \/ status[th[w].t] = "ASSIGNED" /\ RequeueTask(th[w].t)
     \/ status[th[w].t] # "ASSIGNED" /\ UNCHANGED vars
  /\ At(w, "next")
  /\ UNCHANGED <<wireVars, workVars, screen>>

(* RequeueTask, whatever has become of the task in between.                *)
Rollback(w) ==
  /\ th[w].at = "rollback"
  /\ RequeueTask(th[w].t) \/ (~IsActive(th[w].t) /\ UNCHANGED vars)
  /\ At(w, "next")
  /\ UNCHANGED <<wireVars, workVars, screen>>

AnnounceAssigned(w) ==
  /\ th[w].at = "assigned"
  /\ Told(th[w].t, "ASSIGNED")
  /\ Go(w, [th[w] EXCEPT !.at = "next", !.todo = IF th[w].only = NoTask THEN @ ELSE {}])
  /\ UNCHANGED <<vars, wireVars, workVars>>

AnnounceLast(w) ==
  /\ th[w].at = "next" /\ th[w].todo = {}
  /\ IF th[w].told = NoTask THEN UNCHANGED screen ELSE Told(th[w].told, th[w].say)
  /\ Go(w, Rest)
  /\ UNCHANGED <<vars, wireVars, workVars>>
-------------------------------------------------------------------------------
(* Mutant: the lost guest's task is left to it.                            *)
NoticeLossOnly(g) ==
  /\ th[Run] = Rest /\ conn[g] = "dead"
  /\ conn' = [conn EXCEPT ![g] = "none"]
  /\ UNCHANGED <<vars, link, faults, calls, inbox, signals, workVars, th, screen>>

(* handleGuestDisconnect, in Hub.Run: the entry is found, then re-queued.  *)
NoticeLoss(g) ==
  /\ th[Run] = Rest /\ conn[g] = "dead"
  /\ conn' = [conn EXCEPT ![g] = "none"]
  /\ IF g \in registered /\ IsActive(guestTask[g])
       THEN Go(Run, [Rest EXCEPT !.at = "requeue", !.g = g]) ELSE UNCHANGED th
  /\ UNCHANGED <<vars, link, faults, calls, inbox, signals, workVars, screen>>

RequeueLost ==
  LET t == guestTask[th[Run].g] IN
  /\ th[Run].at = "requeue"
  /\ \/ t # NoTask /\ RequeueTask(t)
     \/ ~IsActive(t) /\ UNCHANGED vars
  /\ Go(Run, IF t = NoTask THEN Rest ELSE Saying(t, "PENDING"))
  /\ UNCHANGED <<wireVars, workVars, screen>>

(* handleCreateTask, and handleTaskRerun, which carries no dedup key: the  *)
(* new task's first available guest is tried, with whatever is first.      *)
CreateTask(t) ==
  /\ th[Http] = Rest
  /\ AddTaskOrDedup(t)
  /\ \E todo \in {{}} \cup {{g} : g \in FindAvailableGuests(t)} :
       /\ todo = {} => FindAvailableGuests(t) = {}
       /\ Go(Http, [Rest EXCEPT !.at = "next", !.todo = todo])
  /\ UNCHANGED <<wireVars, workVars, screen>>

(* handleTaskCancelHTTP: the status and the owner are read first.  Bound:  *)
(* one cancellation of a task at a time is under way.                      *)
RequestCancel(t) ==
  /\ Cancels /\ th[Http] = Rest
  /\ \A g \in Guest : t \notin signals[g] /\ ~Contains(calls[g], [m |-> "cancelled", t |-> t])
  /\ status[t] = "PENDING" \/ IsActive(t)
  /\ Go(Http, [Rest EXCEPT !.at = IF status[t] = "RUNNING" THEN "signal" ELSE "cancel",
                           !.t = t, !.g = assignedTo[t]])
  /\ UNCHANGED <<vars, wireVars, workVars, screen>>

(* Mutant: the task is left alone when its owner is not the one that was   *)
(* read.                                                                   *)
CancelUnmoved ==
  LET t == th[Http].t IN
  /\ th[Http].at = "cancel"
  /\ \/ assignedTo[t] = th[Http].g /\ CancelTask(t, th[Http].g) /\ At(Http, "last")
     \/ (assignedTo[t] # th[Http].g \/ ~(status[t] = "PENDING" \/ IsActive(t)))
        /\ UNCHANGED vars /\ Go(Http, Rest)
  /\ UNCHANGED <<wireVars, workVars, screen>>

CancelUnstarted ==
  LET t == th[Http].t IN
  /\ th[Http].at = "cancel"
  /\ \/ CancelTask(t, th[Http].g) /\ At(Http, "last")
     \/ ~(status[t] = "PENDING" \/ IsActive(t)) /\ UNCHANGED vars /\ Go(Http, Rest)
  /\ UNCHANGED <<wireVars, workVars, screen>>

SignalCancel ==
  LET g == th[Http].g IN
  /\ th[Http].at = "signal"
  /\ IF conn[g] = "none" THEN Go(Http, Rest) ELSE At(Http, "last")
  /\ signals' = [signals EXCEPT ![g] =
                   IF link[g] /\ conn[g] = "open" THEN @ \cup {th[Http].t} ELSE @]
  /\ UNCHANGED <<vars, link, conn, faults, calls, inbox, workVars, screen>>

AnnounceStatus ==
  /\ th[Http].at = "last"
  /\ Told(th[Http].t, status[th[Http].t])
  /\ Go(Http, Rest)
  /\ UNCHANGED <<vars, wireVars, workVars>>

(* The sweep: the probes, and then tryAssignPendingTasks.                  *)
Probe ==
  /\ th[Sweeper] = Rest
  /\ Sweep
  /\ IF sweep' = "idle" THEN Go(Sweeper, [Rest EXCEPT !.at = "next", !.todo = registered])
                        ELSE UNCHANGED th
  /\ UNCHANGED <<wireVars, workVars, screen>>

TimePasses ==
  /\ AssignTimeout # 0
  /\ \A w \in Thread : th[w] = Rest
  /\ \A g \in Guest :
       calls[g] = <<>> /\ inbox[g] = <<>> /\ conn[g] # "dead" /\ stage[g] # "ending"
  /\ Tick
  /\ UNCHANGED <<wireVars, workVars, th, screen>>
-------------------------------------------------------------------------------
Executes(g) == SendResult(g) \/ EndExecution(g)
Listens(g) == TakeAssignment(g) \/ \E t \in Task : ConfirmCancel(g, t)
Handle(g) ==
  \/ HandleRegister(g) \/ HandleHeartbeat(g) \/ HandleAcknowledge(g) \/ HandleResult(g)
  \/ EndReported(g) \/ HandleDeclined(g) \/ OfferElsewhere(g) \/ HandleCancelled(g)
Continue(w) ==
  Pick(w) \/ Assign(w) \/ Push(w) \/ Rollback(w) \/ AnnounceAssigned(w) \/ AnnounceLast(w)
HttpWorks == CancelUnstarted \/ SignalCancel \/ AnnounceStatus

ProtocolNext ==
  \/ \E g \in Guest :
       \/ Connect(g) \/ Break(g) \/ Crash(g) \/ Decline(g) \/ SendHeartbeat(g)
       \/ Listens(g) \/ Executes(g) \/ Handle(g) \/ NoticeLoss(g)
  \/ \E w \in Thread : Continue(w)
  \/ RequeueLost \/ HttpWorks \/ Probe \/ TimePasses
  \/ \E t \in Task : CreateTask(t) \/ RequestCancel(t)

ProtocolSpec == ProtocolInit /\ [][ProtocolNext]_protocolVars

(* Goroutines that can go on do; guests reconnect and listen; the ticker   *)
(* of the sweep does not stop.  Executions may take for ever.              *)
PatientSpec ==
  /\ ProtocolSpec
  /\ \A g \in Guest :
       WF_protocolVars(Connect(g)) /\ WF_protocolVars(Listens(g)) /\
       WF_protocolVars(Handle(g)) /\ WF_protocolVars(NoticeLoss(g))
  /\ \A w \in Thread : WF_protocolVars(Continue(w))
  /\ WF_protocolVars(RequeueLost) /\ WF_protocolVars(HttpWorks) /\ WF_protocolVars(Probe)
  /\ SF_protocolVars(TimePasses)

(* Guests end what they execute: PiHandler!ExecutionsEnd, whose conditions *)
(* are a task_timeout or a pi that does not write for ever.                *)
FairProtocolSpec ==
  PatientSpec /\ \A g \in Guest : WF_protocolVars(Executes(g))
-------------------------------------------------------------------------------
(* Whatever the handlers interleave, they use the orchestrator as its      *)
(* module allows: what is proved of Orchestrator holds under them.  That is*)
(* so by the way the actions above are made; OrchestratorKept has a proof. *)
KeepsOrchestrator == Spec

(* As long as no connection is lost and nothing is cancelled, no task is   *)
(* executed by two guests, and the table knows who executes it: two        *)
(* threads that pick the same task or the same guest cannot both assign,   *)
(* and a guest that is handed a second task keeps it until it is idle.     *)
ExecutesOwnTask ==
  faults = 0 /\ ~Cancels =>
    \A g \in Guest : doing[g] # NoTask /\ stage[g] # "ending"
      => IsActive(doing[g]) /\ assignedTo[doing[g]] = g

(* A guest is never handed a second task: of the threads that find it idle *)
(* at the same time one assigns, and nothing frees its entry meanwhile.    *)
(* With late heartbeats and the sweep it may be:                           *)
(* README, "Known divergences".                                            *)
OneTaskPerGuest ==
  \A t, u \in Task : IsActive(t) /\ IsActive(u) /\ assignedTo[t] = assignedTo[u] => t = u

(* An accepted task is executed in the end: a pending one is found by a    *)
(* guest that serves it, an assignment that does not reach its guest is    *)
(* rolled back or re-queued, and an execution that is lost with its guest  *)
(* is repeated.                                                            *)
TasksEnd == \A t \in Task : status[t] = "PENDING" ~> IsTerminal(t)

AtGuest(t, g) == doing[g] = t \/ Contains(inbox[g], t)
ResultSent(t, g) ==
  \/ \E final \in Final : Contains(calls[g], [m |-> final, t |-> t])
  \/ th[g].at = "end" /\ th[g].t = t
LossPending(g) == conn[g] = "dead" \/ (th[Run].at = "requeue" /\ th[Run].g = g)
PushPending(t) == \E w \in Thread : th[w].at \in {"push", "rollback"} /\ th[w].t = t

(* No task stays RUNNING that nobody executes: it is at its guest, or its  *)
(* result is on its way, or it is about to be taken back, by the thread    *)
(* that handles the loss of the guest or by the one that cannot push it.   *)
(* An acknowledgement that outlives its guest may confirm a later          *)
(* assignment of the same task, but none the guest does not get.           *)
(* With Blips or LatePending it may: README, "Known divergences".          *)
RunningNotLost ==
  \A t \in Task : status[t] = "RUNNING" =>
    LET g == assignedTo[t] IN
    AtGuest(t, g) \/ ResultSent(t, g) \/ LossPending(g) \/ PushPending(t)

Cancelling(t) == th[Http].at \in {"cancel", "signal"} /\ th[Http].t = t

(* A cancellation that was accepted ends the task even if its execution    *)
(* would take for ever: one that does not run at a guest at once, whoever  *)
(* has got it since its status was read; one that runs when its guest      *)
(* confirms.  A guest whose connection is lost confirms nothing.           *)
CancelsEnd ==
  \A t \in Task : Cancelling(t) /\ faults = 0 ~> IsTerminal(t) \/ faults > 0

(* A task that runs is executed by a guest, or its end is on its way; if   *)
(* its guest is gone it comes back ("permanently lost" is what             *)
(* handleGuestDisconnect is there to prevent).                             *)
(* The code does not keep it: README, "Known divergences".                 *)
RunningTasksReturn == \A t \in Task : status[t] = "RUNNING" ~> status[t] # "RUNNING"

(* The deferred part of ExecuteTask: "Send a final heartbeat with the task *)
(* ID before clearing it".                                                 *)
(* The code does not keep it: README, "Known divergences".                 *)
FinalBeatNamesTask ==
  [][\A g \in Guest : stage[g] = "ending" /\ stage'[g] = "idle" /\ link[g]
       => calls'[g][Len(calls'[g])].t = doing[g]]_protocolVars

(* broadcastTaskUpdated: "so the UI can update the task status badge": the *)
(* end browsers are told of is the end the table has.                      *)
(* The code does not keep it: README, "Known divergences".                 *)
ToldEndIsTheEnd ==
  \A t \in Task : screen[t] \in Terminal => status[t] = screen[t]
===============================================================================
