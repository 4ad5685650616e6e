----------------------------- MODULE Orchestrator -----------------------------
(***************************************************************************)
(* The orchestrator of the check-in host (pkg/orchestrator), with the task *)
(* table (pkg/queue) and the guest registry (pkg/registry) it guards by    *)
(* one mutex.  Every method holds that mutex for its whole body, so every  *)
(* method is one action.  An error return that changes nothing is a        *)
(* stuttering step and is not written out.                                 *)
(*                                                                         *)
(* The callers are the RPC and HTTP handlers of internal/server.  A task   *)
(* id or a guest id arrives in a message that may be old or may be         *)
(* computed from a value read before the mutex was taken, so each action   *)
(* takes any id the wire may carry; only the periodic sweep has an order.  *)
(***************************************************************************)
EXTENDS Integers, FiniteSets

CONSTANTS
  MaxTasks,           \* bound: how many tasks are ever submitted
  Guest,              \* the ids guests register under
  NoGuest,            \* the empty guest id ""
  Priority,           \* task -> 0 firefighter, 1 teacher, 2 orangutan
  DedupKey,           \* task -> its dedup_key, 0 for none
  Serves,             \* guest -> the tasks whose tags the guest declares
  Limits,             \* the max_guests values a configuration may set
  AssignTimeout,      \* task_assignment_timeout in clock ticks, 0 = off
  TaskSilenceTimeout, \* task_silence_timeout in clock ticks, 0 = off
  SilenceTimeout,     \* silence_timeout in clock ticks, 0 = off
  MaxAge,             \* bound: the age at which the modelled clocks saturate
  StoreFaults,        \* may a write to the queue store fail?
  GuestsUnregister    \* does any guest call guest.unregister?

(* Tasks are named by their order of creation: CreatedAt of task t is t.   *)
Task == 1..MaxTasks
NoTask == 0
Never == MaxAge + 1   \* the age of the zero time.Time

ASSUME MaxTasksAssumption == MaxTasks \in Nat
ASSUME NoGuestAssumption == NoGuest \notin Guest
ASSUME GuestAssumption == IsFiniteSet(Guest)
ASSUME TimeoutAssumption ==
  /\ {AssignTimeout, TaskSilenceTimeout, SilenceTimeout, MaxAge} \subseteq Nat
  /\ \A timeout \in {AssignTimeout, TaskSilenceTimeout, SilenceTimeout} :
        timeout < MaxAge
ASSUME AttributeAssumption ==
  /\ Priority \in [Task -> 0..2]
  /\ DedupKey \in [Task -> Nat]
  /\ Serves \in [Guest -> SUBSET Task]
  /\ Limits \subseteq Nat
  /\ Limits # {}
ASSUME SwitchAssumption == StoreFaults \in BOOLEAN /\ GuestsUnregister \in BOOLEAN

Active == {"ASSIGNED", "RUNNING"}
Terminal == {"COMPLETED", "FAILED", "CANCELLED"}
TaskStatus == {"ABSENT", "PENDING"} \cup Active \cup Terminal
GuestState == {"IDLE", "RUNNING"}

VARIABLES
  created,       \* how many tasks were ever submitted
  status,        \* task -> its status, "ABSENT" when not in the task table
  assignedTo,    \* task -> Task.AssignedTo
  assignedAge,   \* task -> time since AssignedAt (read only while ASSIGNED)
  stored,        \* the tasks that have a file in the queue store
  maxGuests,     \* the registry's limit, 0 = unlimited
  registered,    \* the ids in the guest registry
  guestState,    \* guest -> Guest.State
  guestTask,     \* guest -> Guest.TaskID
  beatAge,       \* guest -> time since Guest.LastHeartbeat
  taskBeatAge,   \* guest -> time since Guest.LastTaskHeartbeat
  sweep          \* the probe staleGuestCleanup runs next; "idle": waits for its ticker

tableVars == <<created, status, assignedTo, assignedAge>>
linkVars == <<guestState, guestTask, taskBeatAge>>
guestVars == <<registered, beatAge, linkVars>>
vars == <<tableVars, stored, maxGuests, guestVars, sweep>>

SweepStep == {"idle", "silent", "stale"}

TypeOK ==
  /\ created \in 0..MaxTasks
  /\ status \in [Task -> TaskStatus]
  /\ assignedTo \in [Task -> Guest \cup {NoGuest}]
  /\ assignedAge \in [Task -> 0..MaxAge]
  /\ stored \subseteq Task
  /\ maxGuests \in Limits
  /\ registered \subseteq Guest
  /\ guestState \in [Guest -> GuestState]
  /\ guestTask \in [Guest -> 0..MaxTasks]
  /\ beatAge \in [Guest -> 0..MaxAge]
  /\ taskBeatAge \in [Guest -> 0..Never]
  /\ sweep \in SweepStep

Init ==
  /\ created = 0
  /\ status = [t \in Task |-> "ABSENT"]
  /\ assignedTo = [t \in Task |-> NoGuest]
  /\ assignedAge = [t \in Task |-> 0]
  /\ stored = {}
  /\ maxGuests \in Limits
  /\ registered = {}
  /\ guestState = [g \in Guest |-> "IDLE"]
  /\ guestTask = [g \in Guest |-> NoTask]
  /\ beatAge = [g \in Guest |-> 0]
  /\ taskBeatAge = [g \in Guest |-> Never]
  /\ sweep = "idle"
-------------------------------------------------------------------------------
(* What the actions share.                                                 *)

Known == {t \in Task : status[t] # "ABSENT"}
Pending == {t \in Task : status[t] = "PENDING"}
IsActive(t) == t \in Task /\ status[t] \in Active
IsTerminal(t) == t \in Task /\ status[t] \in Terminal

(* The functions f changed to value v on the set S.                        *)
SetTo(f, S, v) == [x \in DOMAIN f |-> IF x \in S THEN v ELSE f[x]]

(* persistTask and forgetTask: an error of the store is logged and nothing *)
(* else happens, so any part of the writes may be missing.                 *)
Persist(S) ==
  IF StoreFaults THEN \E written \in SUBSET S : stored' = stored \cup written
                 ELSE stored' = stored \cup S

Forget(S) ==
  IF StoreFaults THEN \E removed \in SUBSET S : stored' = stored \ removed
                 ELSE stored' = stored \ S

(* clearGuestTaskInternal on every guest of S; ids that are not registered *)
(* (the empty id among them) are ignored.                                  *)
ClearGuests(S) ==
  /\ guestTask' = SetTo(guestTask, S, NoTask)
  /\ guestState' = SetTo(guestState, S, "IDLE")
  /\ taskBeatAge' = SetTo(taskBeatAge, S, Never)

(* requeueTaskInternal on every task of S.                                 *)
RequeueTasks(S) ==
  /\ status' = SetTo(status, S, "PENDING")
  /\ assignedTo' = SetTo(assignedTo, S, NoGuest)
  /\ assignedAge' = SetTo(assignedAge, S, 0)
  /\ Persist(S)

(* The end of every task of S.                                             *)
FinishTasks(S, final) ==
  /\ status' = SetTo(status, S, final)
  /\ assignedAge' = SetTo(assignedAge, S, 0)
  /\ Forget(S)

(* PENDING -> ASSIGNED and IDLE -> RUNNING in one critical section.        *)
Hand(t, g) ==
  /\ status' = [status EXCEPT ![t] = "ASSIGNED"]
  /\ assignedTo' = [assignedTo EXCEPT ![t] = g]
  /\ assignedAge' = [assignedAge EXCEPT ![t] = 0]
  /\ guestTask' = [guestTask EXCEPT ![g] = t]
  /\ guestState' = [guestState EXCEPT ![g] = "RUNNING"]
  /\ taskBeatAge' = [taskBeatAge EXCEPT ![g] = Never]
  /\ Persist({t})
  /\ UNCHANGED <<created, maxGuests, registered, beatAge, sweep>>
-------------------------------------------------------------------------------
(* Task lifecycle.                                                         *)

(* AddTaskOrDedup, and AddTask for a rerun, which carries no dedup key: a  *)
(* submission whose key is that of a PENDING task is squelched.            *)
AddTaskOrDedup(t) ==
  /\ t = created + 1
  /\ DedupKey[t] # 0 => \A u \in Pending : DedupKey[u] # DedupKey[t]
  /\ created' = t
  /\ status' = [status EXCEPT ![t] = "PENDING"]
  /\ Persist({t})
  /\ UNCHANGED <<assignedTo, assignedAge, maxGuests, guestVars, sweep>>

(* Mutant: the task is assigned whatever has become of it.                 *)
AssignTaskTaken(t, g) == g \in registered /\ guestState[g] = "IDLE" /\ Hand(t, g)

(* Mutant: the guest is handed the task whatever it holds.                 *)
AssignTaskBusy(t, g) == g \in registered /\ status[t] = "PENDING" /\ Hand(t, g)

AssignTask(t, g) ==
  /\ g \in registered
  /\ guestState[g] = "IDLE"
  /\ status[t] = "PENDING"
  /\ Hand(t, g)

(* sortPendingByPriority: by priority, then by creation.                   *)
Precedes(t, u) ==
  \/ Priority[t] < Priority[u]
  \/ Priority[t] = Priority[u] /\ t < u

NextPendingTask(t) == t \in Pending /\ \A u \in Pending \ {t} : Precedes(t, u)

FindAvailableGuests(t) ==
  {g \in registered : guestState[g] = "IDLE" /\ t \in Serves[g]}

TryAssignNext ==
  \E t \in Task :
    /\ NextPendingTask(t)
    /\ \E g \in FindAvailableGuests(t) : Hand(t, g)

(* Mutant: an acknowledged task gets a status the queue does not know.     *)
AcknowledgeTaskAsAccepted(t, g) ==
  /\ status[t] = "ASSIGNED"
  /\ assignedTo[t] = g
  /\ status' = [status EXCEPT ![t] = "ACCEPTED"]
  /\ assignedAge' = [assignedAge EXCEPT ![t] = 0]
  /\ Persist({t})
  /\ UNCHANGED <<created, assignedTo, maxGuests, guestVars, sweep>>

(* A repeated acknowledgement of a RUNNING task is accepted and ignored.   *)
AcknowledgeTask(t, g) ==
  /\ status[t] = "ASSIGNED"
  /\ assignedTo[t] = g
  /\ status' = [status EXCEPT ![t] = "RUNNING"]
  /\ assignedAge' = [assignedAge EXCEPT ![t] = 0]
  /\ Persist({t})
  /\ UNCHANGED <<created, assignedTo, maxGuests, guestVars, sweep>>

(* Mutant: the ended task stays in the queue store.                        *)
EndTaskUnforgotten(t, g, final) ==
  /\ IsActive(t)
  /\ status' = [status EXCEPT ![t] = final]
  /\ assignedAge' = [assignedAge EXCEPT ![t] = 0]
  /\ ClearGuests({g})
  /\ UNCHANGED <<created, assignedTo, stored, maxGuests, registered, beatAge, sweep>>

(* CompleteTask and FailTask end the task whoever reports it, and free the *)
(* guest the caller names, which may be none or another one.               *)
EndTask(t, g, final) ==
  /\ IsActive(t)
  /\ FinishTasks({t}, final)
  /\ ClearGuests({g})
  /\ UNCHANGED <<created, assignedTo, maxGuests, registered, beatAge, sweep>>

CompleteTask(t, g) == EndTask(t, g, "COMPLETED")

FailTask(t, g) == EndTask(t, g, "FAILED")

(* Mutant: the cancelled task keeps its owner.                             *)
CancelTaskOwned(t, g) ==
  /\ status[t] = "PENDING" \/ IsActive(t)
  /\ FinishTasks({t}, "CANCELLED")
  /\ ClearGuests({g})
  /\ UNCHANGED <<created, assignedTo, maxGuests, registered, beatAge, sweep>>

CancelTask(t, g) ==
  /\ status[t] = "PENDING" \/ IsActive(t)
  /\ FinishTasks({t}, "CANCELLED")
  /\ assignedTo' = [assignedTo EXCEPT ![t] = NoGuest]
  /\ ClearGuests({g})
  /\ UNCHANGED <<created, maxGuests, registered, beatAge, sweep>>

RequeueTask(t) ==
  /\ IsActive(t)
  /\ RequeueTasks({t})
  /\ ClearGuests({assignedTo[t]})
  /\ UNCHANGED <<created, maxGuests, registered, beatAge, sweep>>

(* Mutant: a decline that arrives late re-queues a task that has ended.    *)
DeclineTaskAlways(t, g) ==
  /\ assignedTo[t] = g
  /\ RequeueTasks({t})
  /\ ClearGuests({g})
  /\ UNCHANGED <<created, maxGuests, registered, beatAge, sweep>>

DeclineTask(t, g) ==
  /\ assignedTo[t] = g
  /\ IsActive(t)
  /\ RequeueTasks({t})
  /\ ClearGuests({g})
  /\ UNCHANGED <<created, maxGuests, registered, beatAge, sweep>>

(* The server process stops at any moment and starts again: restoreTasks   *)
(* re-adds every stored task as PENDING; guests do not survive.            *)
Restart ==
  /\ status' = [t \in Task |-> IF t \in stored THEN "PENDING" ELSE "ABSENT"]
  /\ assignedTo' = [t \in Task |-> NoGuest]
  /\ assignedAge' = [t \in Task |-> 0]
  /\ maxGuests' \in Limits
  /\ registered' = {}
  /\ guestState' = [g \in Guest |-> "IDLE"]
  /\ guestTask' = [g \in Guest |-> NoTask]
  /\ beatAge' = [g \in Guest |-> 0]
  /\ taskBeatAge' = [g \in Guest |-> Never]
  /\ sweep' = "idle"
  /\ UNCHANGED <<created, stored>>
-------------------------------------------------------------------------------
(* Guests and their heartbeats.                                            *)

(* Remove the guests of S; their fields return to those of a fresh entry.  *)
RemoveGuests(S) ==
  /\ registered' = registered \ S
  /\ beatAge' = SetTo(beatAge, S, 0)
  /\ ClearGuests(S)

(* registry.Register, called without the orchestrator's mutex.  The limit  *)
(* is tested before the id, but both refusals change nothing.              *)
Register(g) ==
  /\ maxGuests = 0 \/ Cardinality(registered) < maxGuests
  /\ g \notin registered
  /\ registered' = registered \cup {g}
  /\ UNCHANGED <<tableVars, stored, maxGuests, beatAge, linkVars, sweep>>

(* A guest that reconnects keeps its task only if the table agrees.        *)
ReconcileGuest(g) ==
  /\ g \in registered
  /\ IF IsActive(guestTask[g]) /\ assignedTo[guestTask[g]] = g
     THEN /\ guestState' = [guestState EXCEPT ![g] = "RUNNING"]
          /\ UNCHANGED <<guestTask, taskBeatAge>>
     ELSE IF guestTask[g] = NoTask
     THEN /\ guestState' = [guestState EXCEPT ![g] = "IDLE"]
          /\ UNCHANGED <<guestTask, taskBeatAge>>
     ELSE ClearGuests({g})
  /\ UNCHANGED <<tableVars, stored, maxGuests, registered, beatAge, sweep>>

UnregisterGuest(g) ==
  /\ g \in registered
  /\ guestState[g] # "RUNNING"
  /\ RemoveGuests({g})
  /\ UNCHANGED <<tableVars, stored, maxGuests, sweep>>

(* Mutant: the removed guest is forgotten with the task still on its entry.*)
UnregisterGuestForceUncleared(g) ==
  /\ g \in registered
  /\ IF guestState[g] = "RUNNING"
     THEN RequeueTasks({guestTask[g]} \cap Known)
     ELSE UNCHANGED <<status, assignedTo, assignedAge, stored>>
  /\ registered' = registered \ {g}
  /\ UNCHANGED <<created, maxGuests, beatAge, linkVars, sweep>>

(* Mutant: the task is re-queued in memory and not saved.                  *)
UnregisterGuestForceUnsaved(g) ==
  /\ g \in registered
  /\ IF guestState[g] = "RUNNING"
     THEN LET S == {guestTask[g]} \cap Known
          IN  /\ status' = SetTo(status, S, "PENDING")
              /\ assignedTo' = SetTo(assignedTo, S, NoGuest)
              /\ assignedAge' = SetTo(assignedAge, S, 0)
     ELSE UNCHANGED <<status, assignedTo, assignedAge>>
  /\ RemoveGuests({g})
  /\ UNCHANGED <<created, stored, maxGuests, sweep>>

(* The task the guest points to is re-queued without a look at its status  *)
(* or at its owner.                                                        *)
UnregisterGuestForce(g) ==
  /\ g \in registered
  /\ IF guestState[g] = "RUNNING"
     THEN RequeueTasks({guestTask[g]} \cap Known)
     ELSE UNCHANGED <<status, assignedTo, assignedAge, stored>>
  /\ RemoveGuests({g})
  /\ UNCHANGED <<created, maxGuests, sweep>>

SetMaxGuests(n) ==
  /\ maxGuests' = n
  /\ UNCHANGED <<tableVars, stored, guestVars, sweep>>

Heartbeat(g) ==
  /\ g \in registered
  /\ beatAge' = [beatAge EXCEPT ![g] = 0]
  /\ UNCHANGED <<tableVars, stored, maxGuests, registered, linkVars, sweep>>

(* The reported task replaces Guest.TaskID whatever the registry held; the *)
(* state of the guest is left alone.                                       *)
TaskHeartbeat(g, t) ==
  /\ g \in registered
  /\ t <= created
  /\ beatAge' = [beatAge EXCEPT ![g] = 0]
  /\ taskBeatAge' = [taskBeatAge EXCEPT ![g] = 0]
  /\ guestTask' = [guestTask EXCEPT ![g] = t]
  /\ UNCHANGED <<tableVars, stored, maxGuests, registered, guestState, sweep>>
-------------------------------------------------------------------------------
(* The periodic sweep: the three probes, in this order, on every tick of   *)
(* staleGuestCleanup.  Handlers run between two probes; a pass is assumed  *)
(* to take less than one tick of the modelled clock.                       *)

(* A guest that reported a task lately, or that once confirmed its task    *)
(* and still beats, is left its assignment.                                *)
IsWorking(g) ==
  /\ g \in registered
  /\ \/ taskBeatAge[g] <= AssignTimeout
     \/ taskBeatAge[g] # Never /\ beatAge[g] <= AssignTimeout

Overdue == {t \in Task : status[t] = "ASSIGNED" /\ assignedAge[t] > AssignTimeout}

(* A guest that points to an ended task it owns is cleared in the middle   *)
(* of the loop over the tasks: whether its other tasks come later depends  *)
(* on the order of TaskQueue.ordered, which is left open.                  *)
ClearedInLoop(g) ==
  IsTerminal(guestTask[g]) /\ assignedTo[guestTask[g]] = g

StuckTasks ==
  LET stuck == {t \in Overdue : ~IsWorking(assignedTo[t])}
      open  == {t \in Overdue \ stuck : ClearedInLoop(assignedTo[t])}
  IN  {stuck \cup late : late \in SUBSET open}

(* The guests that point to a known task that has ended, or that is not    *)
(* theirs once those of requeued went back to the queue.                   *)
StaleReferences(requeued) ==
  {g \in registered :
     /\ guestTask[g] \in Known
     /\ \/ IsTerminal(guestTask[g])
        \/ guestTask[g] \in requeued
        \/ assignedTo[guestTask[g]] # g}

(* Mutant: only the guests of re-queued tasks are cleared.                 *)
CheckStuckTasksOnly ==
  /\ sweep = "idle"
  /\ sweep' = "silent"
  /\ IF AssignTimeout = 0
     THEN UNCHANGED <<status, assignedTo, assignedAge, stored, linkVars>>
     ELSE \E requeued \in StuckTasks :
            /\ RequeueTasks(requeued)
            /\ ClearGuests({assignedTo[t] : t \in requeued})
  /\ UNCHANGED <<created, maxGuests, registered, beatAge>>

(* Mutant: only the tasks of registered guests are examined.               *)
CheckStuckTasksRegistered ==
  /\ sweep = "idle"
  /\ sweep' = "silent"
  /\ IF AssignTimeout = 0
     THEN UNCHANGED <<status, assignedTo, assignedAge, stored, linkVars>>
     ELSE \E requeued \in StuckTasks :
            LET found == {t \in requeued : assignedTo[t] \in registered}
            IN  /\ RequeueTasks(found)
                /\ ClearGuests({assignedTo[t] : t \in found} \cup StaleReferences(found))
  /\ UNCHANGED <<created, maxGuests, registered, beatAge>>

CheckStuckTasks ==
  /\ sweep = "idle"
  /\ sweep' = "silent"
  /\ IF AssignTimeout = 0
     THEN UNCHANGED <<status, assignedTo, assignedAge, stored, linkVars>>
     ELSE \E requeued \in StuckTasks :
            /\ RequeueTasks(requeued)
            /\ ClearGuests({assignedTo[t] : t \in requeued} \cup StaleReferences(requeued))
  /\ UNCHANGED <<created, maxGuests, registered, beatAge>>

(* A silent guest's task is failed if it is active, whoever owns it.       *)
CheckSilentGuests ==
  /\ sweep = "silent"
  /\ sweep' = "stale"
  /\ IF TaskSilenceTimeout = 0
     THEN UNCHANGED <<status, assignedAge, stored, linkVars>>
     ELSE LET silent == {g \in registered : /\ guestTask[g] # NoTask
                                            /\ beatAge[g] > TaskSilenceTimeout}
          IN  /\ FinishTasks({t \in Task : IsActive(t) /\
                                \E g \in silent : guestTask[g] = t}, "FAILED")
              /\ ClearGuests(silent)
  /\ UNCHANGED <<created, assignedTo, maxGuests, registered, beatAge>>

RemoveStaleGuests ==
  /\ sweep = "stale"
  /\ sweep' = "idle"
  /\ IF SilenceTimeout = 0
     THEN UNCHANGED <<status, assignedAge, stored, registered, beatAge, linkVars>>
     ELSE LET staleIDs == {g \in registered : beatAge[g] > SilenceTimeout}
          IN  /\ FinishTasks({t \in Task : IsActive(t) /\
                                \E g \in staleIDs : /\ guestTask[g] = t
                                                    /\ guestState[g] = "RUNNING"},
                             "FAILED")
              /\ RemoveGuests(staleIDs)
  /\ UNCHANGED <<created, assignedTo, maxGuests>>

(* Time passes.                                                            *)
Older(age) == IF age < MaxAge THEN age + 1 ELSE age

Tick ==
  /\ sweep = "idle"
  /\ assignedAge' = [t \in Task |-> IF status[t] = "ASSIGNED"
                                    THEN Older(assignedAge[t]) ELSE 0]
  /\ beatAge' = [g \in Guest |-> IF g \in registered THEN Older(beatAge[g]) ELSE 0]
  /\ taskBeatAge' = [g \in Guest |-> Older(taskBeatAge[g])]
  /\ UNCHANGED <<created, status, assignedTo, stored, maxGuests, registered,
                 guestState, guestTask, sweep>>
-------------------------------------------------------------------------------
TaskStep(t) ==
  \/ AddTaskOrDedup(t)
  \/ RequeueTask(t)
  \/ \E g \in Guest \cup {NoGuest} :
       CompleteTask(t, g) \/ FailTask(t, g) \/ CancelTask(t, g)
  \/ \E g \in Guest :
       \/ t \in Serves[g] /\ AssignTask(t, g)
       \/ AcknowledgeTask(t, g)
       \/ DeclineTask(t, g)
       \/ TaskHeartbeat(g, t)

GuestStep(g) ==
  \/ Register(g)
  \/ ReconcileGuest(g)
  \/ Heartbeat(g)
  \/ GuestsUnregister /\ (UnregisterGuest(g) \/ UnregisterGuestForce(g))

Sweep == CheckStuckTasks \/ CheckSilentGuests \/ RemoveStaleGuests

Next ==
  \/ \E t \in Task : TaskStep(t)
  \/ \E g \in Guest : GuestStep(g)
  \/ \E n \in Limits : SetMaxGuests(n)
  \/ TryAssignNext
  \/ Sweep
  \/ Tick
  \/ Restart

Spec == Init /\ [][Next]_vars

(* The ticker of staleGuestCleanup never stops, and time goes on: that the *)
(* clock stands still during a pass of the sweep is this module's choice,  *)
(* hence the strong fairness.                                              *)
FairSpec == Spec /\ WF_vars(Sweep) /\ SF_vars(Tick)
-------------------------------------------------------------------------------
(* What must hold.                                                         *)

(* Task status is the authority and the other stores follow it: a task has *)
(* an owner exactly while a guest holds it or has ended it, and a guest    *)
(* the registry calls RUNNING always points to a task, so that the probes, *)
(* a disconnect or an unregistration can find what it was doing.           *)
OwnerMatchesStatus ==
  \A t \in Task :
    assignedTo[t] = NoGuest <=> status[t] \in {"ABSENT", "PENDING", "CANCELLED"}

LinkConsistent ==
  /\ \A g \in Guest : guestState[g] = "RUNNING" \/ taskBeatAge[g] # Never
                        => guestTask[g] # NoTask
  /\ \A g \in Guest \ registered :
       guestState[g] = "IDLE" /\ guestTask[g] = NoTask /\ beatAge[g] = 0

(* Only tasks that were submitted are in the table, in the store, or       *)
(* pointed to by a guest.                                                  *)
IdsConsistent ==
  /\ \A t \in Task : status[t] # "ABSENT" \/ t \in stored => t <= created
  /\ \A g \in Guest : guestTask[g] <= created

Consistent == OwnerMatchesStatus /\ LinkConsistent /\ IdsConsistent

(* With a store that does not fail, its files are exactly the tasks that   *)
(* have not ended, after every operation: a crash at any moment loses no   *)
(* accepted task and runs no ended task again.                             *)
StoreMirrorsTable ==
  ~StoreFaults => stored = {t \in Task : status[t] = "PENDING" \/ IsActive(t)}

(* While a pass of the sweep is under way, a guest that has not beaten     *)
(* since the clock last moved points to no live task but one of its own:   *)
(* the stale references were repaired by the first probe, and no handler   *)
(* that runs between two probes can bring one back without a heartbeat.    *)
SweepRepaired ==
  AssignTimeout # 0 /\ ~GuestsUnregister /\ sweep # "idle" =>
    \A g \in registered :
      beatAge[g] > 0 /\ guestTask[g] \in Pending \cup {t \in Task : IsActive(t)}
        => assignedTo[guestTask[g]] = g

(* CheckSilentGuests and RemoveStaleGuests fail the task a guest points    *)
(* to without comparing its owner.  Run in the sweep's order they still    *)
(* never fail the task of a guest that is alive.                           *)
FailsOwnTask(t) ==
  /\ assignedTo[t] \in registered
  /\ guestTask[assignedTo[t]] = t
  /\ beatAge[assignedTo[t]] > 0

ProbesFailOwnTasks ==
  [][AssignTimeout # 0 /\ ~GuestsUnregister
       /\ (CheckSilentGuests \/ RemoveStaleGuests) =>
       \A t \in Task : status'[t] # status[t] => FailsOwnTask(t)]_vars

(* The orchestrator keeps the promise of TaskLifecycle: every step of any  *)
(* handler, of the sweep and of a restart is one step of the abstract life *)
(* of the tasks, with the owner of an active task as its holder.           *)
PhaseOf(t) ==
  IF status[t] # "ABSENT" THEN status[t]
  ELSE IF t <= created THEN "FORGOTTEN" ELSE "NEW"

HolderOf(t) == IF IsActive(t) THEN assignedTo[t] ELSE NoGuest

Lifecycle == INSTANCE TaskLifecycle
  WITH phase <- [t \in Task |-> PhaseOf(t)], holder <- [t \in Task |-> HolderOf(t)]

KeepsLifecycle == Lifecycle!LifecycleSpec

(* The transition table of pkg/queue (validTransition): a task that has    *)
(* COMPLETED, FAILED or been CANCELLED has no transition left.             *)
EndedStaysEnded ==
  [][\A t \in Task : IsTerminal(t) => status'[t] \in {status[t], "ABSENT"}]_vars

(* A task assigned to a guest the registry no longer has is taken back, or *)
(* ends, unless the guest comes back: no vanished guest keeps a task.      *)
LostAssignment(t) == status[t] = "ASSIGNED" /\ assignedTo[t] \notin registered

LostAssignmentsReturn ==
  AssignTimeout # 0 => \A t \in Task : LostAssignment(t) ~> ~LostAssignment(t)

(* A guest that points to a task that has ended, or to one that is not its *)
(* own, and reports no task any more, is freed for other work.             *)
Misled(g) ==
  /\ g \in registered
  /\ guestTask[g] \in Known
  /\ IsTerminal(guestTask[g]) \/ assignedTo[guestTask[g]] # g

MisledGuestsFreed == AssignTimeout # 0 => \A g \in Guest : Misled(g) ~> ~Misled(g)
===============================================================================
