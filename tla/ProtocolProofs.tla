----------------------------- MODULE ProtocolProofs -----------------------------
(***************************************************************************)
(* Theorems about Orchestrator and Protocol, for every number of tasks and *)
(* guests, and about what carries the protocol on the side of a guest: its *)
(* connections (GuestConnection) and its client (RpcClient).               *)
(***************************************************************************)
EXTENDS Protocol, SequenceTheorems, TLAPS

(* The constants and variables of a guest's connections and of a client.   *)
CONSTANTS MaxConns, ServerForgets, Caller, Handler, MaxCalls, MaxNotes
VARIABLES
  start, current, client, phase, lost, blame, cancelled, loop, snapshot, through, stopped,
  alive, stalled, closed, connected, onCloses, graceful, nextID, pc, awaited, answer, requests,
  wire, callResp, notes
Connection == INSTANCE GuestConnection
Rpc == INSTANCE RpcClient WITH current <- awaited

-------------------------------------------------------------------------------
(* The orchestrator.                                                       *)
USE DEF Task, NoTask, Never, GuestState, SweepStep

(* The helpers preserve the types of what they change.                     *)
LEMMA SetToType ==
  ASSUME NEW D, NEW R, NEW f \in [D -> R], NEW S, NEW v \in R
  PROVE  SetTo(f, S, v) \in [D -> R]
  BY DEF SetTo

LEMMA ClearGuestsType ==
  ASSUME TypeOK, NEW S, ClearGuests(S)
  PROVE  /\ guestTask' \in [Guest -> 0..MaxTasks]
         /\ guestState' \in [Guest -> GuestState]
         /\ taskBeatAge' \in [Guest -> 0..Never]
  <1>1. 0 \in 0..MaxTasks /\ "IDLE" \in GuestState /\ Never \in 0..Never
    BY MaxTasksAssumption, TimeoutAssumption
  <1> QED BY <1>1 DEF TypeOK, ClearGuests, SetTo

LEMMA PersistType ==
  ASSUME TypeOK, NEW S \in SUBSET Task, Persist(S)
  PROVE  stored' \subseteq Task
  BY DEF TypeOK, Persist

LEMMA ForgetType ==
  ASSUME TypeOK, NEW S \in SUBSET Task, Forget(S)
  PROVE  stored' \subseteq Task
  BY DEF TypeOK, Forget

LEMMA RequeueTasksType ==
  ASSUME TypeOK, NEW S \in SUBSET Task, RequeueTasks(S)
  PROVE  /\ status' \in [Task -> TaskStatus]
         /\ assignedTo' \in [Task -> Guest \cup {NoGuest}]
         /\ assignedAge' \in [Task -> 0..MaxAge]
         /\ stored' \subseteq Task
  <1>1. "PENDING" \in TaskStatus /\ NoGuest \in Guest \cup {NoGuest} /\ 0 \in 0..MaxAge
    BY TimeoutAssumption DEF TaskStatus
  <1>2. stored' \subseteq Task
    BY PersistType DEF RequeueTasks
  <1> QED BY <1>1, <1>2 DEF TypeOK, RequeueTasks, SetTo

LEMMA FinishTasksType ==
  ASSUME TypeOK, NEW S \in SUBSET Task, NEW final \in Terminal, FinishTasks(S, final)
  PROVE  /\ status' \in [Task -> TaskStatus]
         /\ assignedAge' \in [Task -> 0..MaxAge]
         /\ stored' \subseteq Task
  <1>1. final \in TaskStatus /\ 0 \in 0..MaxAge
    BY TimeoutAssumption DEF TaskStatus
  <1>2. stored' \subseteq Task
    BY ForgetType DEF FinishTasks
  <1> QED BY <1>1, <1>2 DEF TypeOK, FinishTasks, SetTo

LEMMA HandType ==
  ASSUME TypeOK, NEW t \in Task, NEW g \in Guest, Hand(t, g)
  PROVE  TypeOK'
  <1>1. "ASSIGNED" \in TaskStatus /\ 0 \in 0..MaxAge /\ Never \in 0..Never
    BY TimeoutAssumption DEF TaskStatus, Active
  <1>2. stored' \subseteq Task
    BY PersistType DEF Hand
  <1>3. t \in 0..MaxTasks
    BY MaxTasksAssumption
  <1> QED BY <1>1, <1>2, <1>3 DEF TypeOK, Hand

LEMMA RemoveGuestsType ==
  ASSUME TypeOK, NEW S, RemoveGuests(S)
  PROVE  /\ registered' \subseteq Guest
         /\ beatAge' \in [Guest -> 0..MaxAge]
         /\ guestTask' \in [Guest -> 0..MaxTasks]
         /\ guestState' \in [Guest -> GuestState]
         /\ taskBeatAge' \in [Guest -> 0..Never]
  <1>1. ClearGuests(S) BY DEF RemoveGuests
  <1>2. 0 \in 0..MaxAge BY TimeoutAssumption
  <1> QED BY <1>1, <1>2, ClearGuestsType DEF TypeOK, RemoveGuests, SetTo
-------------------------------------------------------------------------------
(* Every step keeps the types.                                             *)
LEMMA TypeStep == TypeOK /\ [Next]_vars => TypeOK'
<1> SUFFICES ASSUME TypeOK, [Next]_vars PROVE TypeOK'
  OBVIOUS
<1>1. ASSUME NEW t \in Task, AddTaskOrDedup(t) PROVE TypeOK'
  <2>1. stored' \subseteq Task BY <1>1, PersistType DEF AddTaskOrDedup
  <2>2. created' \in 0..MaxTasks BY <1>1, MaxTasksAssumption DEF AddTaskOrDedup
  <2>3. "PENDING" \in TaskStatus BY DEF TaskStatus
  <2> QED BY <1>1, <2>1, <2>2, <2>3
        DEF TypeOK, AddTaskOrDedup, guestVars, linkVars
<1>2. ASSUME NEW t \in Task, NEW g \in Guest, AssignTask(t, g) PROVE TypeOK'
  BY <1>2, HandType DEF AssignTask
<1>3. ASSUME TryAssignNext PROVE TypeOK'
  <2>1. PICK t \in Task, g \in Guest : Hand(t, g)
    BY <1>3 DEF TryAssignNext, FindAvailableGuests, TypeOK
  <2> QED BY <2>1, HandType
<1>4. ASSUME NEW t \in Task, NEW g \in Guest, AcknowledgeTask(t, g) PROVE TypeOK'
  <2>1. stored' \subseteq Task BY <1>4, PersistType DEF AcknowledgeTask
  <2>2. "RUNNING" \in TaskStatus /\ 0 \in 0..MaxAge
    BY TimeoutAssumption DEF TaskStatus, Active
  <2> QED BY <1>4, <2>1, <2>2 DEF TypeOK, AcknowledgeTask, guestVars, linkVars
<1>5. ASSUME NEW t \in Task, NEW g \in Guest \cup {NoGuest}, NEW final \in Terminal,
             EndTask(t, g, final)
      PROVE  TypeOK'
  BY <1>5, ClearGuestsType, FinishTasksType DEF EndTask, TypeOK
<1>6. ASSUME NEW t \in Task, NEW g \in Guest \cup {NoGuest}, CancelTask(t, g)
      PROVE  TypeOK'
  <2>1. "CANCELLED" \in Terminal BY DEF Terminal
  <2> QED BY <1>6, <2>1, ClearGuestsType, FinishTasksType DEF CancelTask, TypeOK
<1>7. ASSUME NEW t \in Task, RequeueTask(t) PROVE TypeOK'
  BY <1>7, ClearGuestsType, RequeueTasksType DEF RequeueTask, TypeOK
<1>8. ASSUME NEW t \in Task, NEW g \in Guest, DeclineTask(t, g) PROVE TypeOK'
  BY <1>8, ClearGuestsType, RequeueTasksType DEF DeclineTask, TypeOK
<1>9. ASSUME Restart PROVE TypeOK'
  <2>1. {"PENDING", "ABSENT"} \subseteq TaskStatus BY DEF TaskStatus
  <2> QED BY <1>9, <2>1, MaxTasksAssumption, TimeoutAssumption DEF TypeOK, Restart
<1>10. ASSUME NEW g \in Guest, Register(g) PROVE TypeOK'
  BY <1>10 DEF TypeOK, Register, tableVars, linkVars
<1>11. ASSUME NEW g \in Guest, ReconcileGuest(g) PROVE TypeOK'
  BY <1>11, ClearGuestsType DEF TypeOK, ReconcileGuest, tableVars
<1>12. ASSUME NEW g \in Guest, UnregisterGuest(g) PROVE TypeOK'
  BY <1>12, RemoveGuestsType DEF TypeOK, UnregisterGuest, tableVars
<1>13. ASSUME NEW g \in Guest, UnregisterGuestForce(g) PROVE TypeOK'
  <2>1. /\ status' \in [Task -> TaskStatus]
        /\ assignedTo' \in [Task -> Guest \cup {NoGuest}]
        /\ assignedAge' \in [Task -> 0..MaxAge]
        /\ stored' \subseteq Task
    BY <1>13, RequeueTasksType DEF UnregisterGuestForce, TypeOK, Known
  <2> QED BY <1>13, <2>1, RemoveGuestsType DEF TypeOK, UnregisterGuestForce
<1>14. ASSUME NEW n \in Limits, SetMaxGuests(n) PROVE TypeOK'
  BY <1>14 DEF TypeOK, SetMaxGuests, tableVars, guestVars, linkVars
<1>15. ASSUME NEW g \in Guest, Heartbeat(g) PROVE TypeOK'
  BY <1>15, TimeoutAssumption DEF TypeOK, Heartbeat, tableVars, linkVars
<1>16. ASSUME NEW g \in Guest, NEW t \in Task, TaskHeartbeat(g, t) PROVE TypeOK'
  <2>1. t \in 0..MaxTasks /\ 0 \in 0..MaxAge /\ 0 \in 0..Never
    BY MaxTasksAssumption, TimeoutAssumption
  <2> QED BY <1>16, <2>1 DEF TypeOK, TaskHeartbeat, tableVars
<1>17. ASSUME CheckStuckTasks PROVE TypeOK'
  <2>1. CASE AssignTimeout = 0
    BY <1>17, <2>1 DEF CheckStuckTasks, TypeOK, linkVars
  <2>2. CASE AssignTimeout # 0
    <3>1. \A S \in StuckTasks : S \in SUBSET Task
      BY DEF StuckTasks, Overdue
    <3>2. PICK requeued \in StuckTasks :
            /\ RequeueTasks(requeued)
            /\ ClearGuests({assignedTo[t] : t \in requeued} \cup StaleReferences(requeued))
      BY <1>17, <2>2 DEF CheckStuckTasks
    <3> QED BY <1>17, <3>1, <3>2, RequeueTasksType, ClearGuestsType
          DEF CheckStuckTasks, TypeOK
  <2> QED BY <2>1, <2>2
<1>18. ASSUME CheckSilentGuests PROVE TypeOK'
  <2>1. CASE TaskSilenceTimeout = 0
    BY <1>18, <2>1 DEF CheckSilentGuests, TypeOK, linkVars
  <2>2. CASE TaskSilenceTimeout # 0
    <3>1. PICK ended \in SUBSET Task, cleared \in SUBSET registered :
            FinishTasks(ended, "FAILED") /\ ClearGuests(cleared)
      BY <1>18, <2>2 DEF CheckSilentGuests
    <3>2. "FAILED" \in Terminal BY DEF Terminal
    <3> QED BY <1>18, <3>1, <3>2, FinishTasksType, ClearGuestsType
          DEF CheckSilentGuests, TypeOK
  <2> QED BY <2>1, <2>2
<1>19. ASSUME RemoveStaleGuests PROVE TypeOK'
  <2>1. CASE SilenceTimeout = 0
    BY <1>19, <2>1 DEF RemoveStaleGuests, TypeOK, linkVars
  <2>2. CASE SilenceTimeout # 0
    <3>1. PICK ended \in SUBSET Task, removed \in SUBSET registered :
            FinishTasks(ended, "FAILED") /\ RemoveGuests(removed)
      BY <1>19, <2>2 DEF RemoveStaleGuests
    <3>2. "FAILED" \in Terminal BY DEF Terminal
    <3> QED BY <1>19, <3>1, <3>2, FinishTasksType, RemoveGuestsType
          DEF RemoveStaleGuests, TypeOK
  <2> QED BY <2>1, <2>2
<1>20. ASSUME Tick PROVE TypeOK'
  <2>1. \A age \in 0..MaxAge : Older(age) \in 0..MaxAge
    BY TimeoutAssumption DEF Older
  <2>2. \A age \in 0..Never : Older(age) \in 0..Never
    BY TimeoutAssumption DEF Older
  <2>3. 0 \in 0..MaxAge BY TimeoutAssumption
  <2> QED BY <1>20, <2>1, <2>2, <2>3 DEF Tick, TypeOK
<1>21. CASE UNCHANGED vars
  BY <1>21 DEF TypeOK, vars, tableVars, guestVars, linkVars
<1>22. {"COMPLETED", "FAILED"} \subseteq Terminal BY DEF Terminal
<1> QED
  BY <1>1, <1>2, <1>3, <1>4, <1>5, <1>6, <1>7, <1>8, <1>9, <1>10, <1>11, <1>12,
     <1>13, <1>14, <1>15, <1>16, <1>17, <1>18, <1>19, <1>20, <1>21, <1>22
     DEF Next, TaskStep, GuestStep, Sweep, CompleteTask, FailTask

(* The type invariant, for every number of tasks and guests, every set of  *)
(* limits and every timeout.                                               *)
THEOREM TypeCorrect == Spec => []TypeOK
<1>1. Init => TypeOK
  BY MaxTasksAssumption, TimeoutAssumption DEF Init, TypeOK, TaskStatus
<1>2. TypeOK /\ [Next]_vars => TypeOK'
  BY TypeStep
<1> QED BY <1>1, <1>2, PTL DEF Spec
-------------------------------------------------------------------------------
(* Consistency of the table, the registry and the store.                   *)

LEMMA OwnerStep == TypeOK /\ Consistent /\ [Next]_vars => OwnerMatchesStatus'
<1> SUFFICES ASSUME TypeOK, Consistent, [Next]_vars PROVE OwnerMatchesStatus'
  OBVIOUS
<1> USE NoGuestAssumption
<1>1. ASSUME NEW t \in Task, NEW g \in Guest, Hand(t, g) PROVE OwnerMatchesStatus'
  BY <1>1 DEF Hand, TypeOK, Consistent, OwnerMatchesStatus
<1>2. ASSUME NEW S \in SUBSET Task, RequeueTasks(S) PROVE OwnerMatchesStatus'
  BY <1>2 DEF RequeueTasks, SetTo, TypeOK, Consistent, OwnerMatchesStatus
<1>3. ASSUME NEW S \in SUBSET {t \in Task : IsActive(t)},
             NEW final \in {"COMPLETED", "FAILED"},
             FinishTasks(S, final), UNCHANGED assignedTo
      PROVE  OwnerMatchesStatus'
  BY <1>3 DEF FinishTasks, SetTo, IsActive, Active, TypeOK, Consistent, OwnerMatchesStatus
<1>4. CASE UNCHANGED <<status, assignedTo>>
  BY <1>4 DEF OwnerMatchesStatus, Consistent
<1>5. ASSUME NEW t \in Task, AddTaskOrDedup(t) PROVE OwnerMatchesStatus'
  <2>1. status[t] = "ABSENT"
    BY <1>5 DEF AddTaskOrDedup, Consistent, IdsConsistent, TypeOK
  <2> QED BY <1>5, <2>1 DEF AddTaskOrDedup, TypeOK, Consistent, OwnerMatchesStatus
<1>6. ASSUME NEW t \in Task, NEW g \in Guest, AcknowledgeTask(t, g)
      PROVE  OwnerMatchesStatus'
  BY <1>6 DEF AcknowledgeTask, TypeOK, Consistent, OwnerMatchesStatus
<1>7. ASSUME NEW t \in Task, NEW g \in Guest \cup {NoGuest}, CancelTask(t, g)
      PROVE  OwnerMatchesStatus'
  BY <1>7 DEF CancelTask, FinishTasks, SetTo, TypeOK, Consistent, OwnerMatchesStatus
<1>8. ASSUME Restart PROVE OwnerMatchesStatus'
  BY <1>8 DEF Restart, OwnerMatchesStatus
<1>9. ASSUME NEW t \in Task, NEW g \in Guest \cup {NoGuest},
             NEW final \in {"COMPLETED", "FAILED"}, EndTask(t, g, final)
      PROVE  OwnerMatchesStatus'
  BY <1>9, <1>3 DEF EndTask
<1>10. ASSUME TryAssignNext PROVE OwnerMatchesStatus'
  BY <1>10, <1>1 DEF TryAssignNext, FindAvailableGuests, TypeOK
<1>11. ASSUME NEW g \in Guest, UnregisterGuestForce(g) PROVE OwnerMatchesStatus'
  BY <1>11, <1>2, <1>4 DEF UnregisterGuestForce, Known
<1>12. ASSUME CheckStuckTasks PROVE OwnerMatchesStatus'
  <2>1. \A S \in StuckTasks : S \in SUBSET Task
    BY DEF StuckTasks, Overdue
  <2> QED BY <1>12, <1>2, <1>4, <2>1 DEF CheckStuckTasks
<1>13. ASSUME CheckSilentGuests PROVE OwnerMatchesStatus'
  BY <1>13, <1>3, <1>4 DEF CheckSilentGuests
<1>14. ASSUME RemoveStaleGuests PROVE OwnerMatchesStatus'
  BY <1>14, <1>3, <1>4 DEF RemoveStaleGuests
<1>15. ASSUME NEW t \in Task, TaskStep(t) PROVE OwnerMatchesStatus'
  BY <1>15, <1>1, <1>2, <1>4, <1>5, <1>6, <1>7, <1>9
     DEF TaskStep, AssignTask, RequeueTask, DeclineTask, TaskHeartbeat, CompleteTask,
         FailTask, tableVars
<1>16. ASSUME NEW g \in Guest, GuestStep(g) PROVE OwnerMatchesStatus'
  BY <1>16, <1>4, <1>11
     DEF GuestStep, Register, ReconcileGuest, Heartbeat, UnregisterGuest, tableVars
<1> QED
  BY <1>4, <1>8, <1>10, <1>12, <1>13, <1>14, <1>15, <1>16
     DEF Next, Sweep, SetMaxGuests, Tick, tableVars, vars

(* Clearing a guest keeps RUNNING guests pointing to a task, and leaves    *)
(* the entries of other guests alone.                                      *)
LEMMA ClearGuestsLinks ==
  ASSUME TypeOK, Consistent, NEW S, ClearGuests(S)
  PROVE  /\ \A g \in Guest : guestState'[g] = "RUNNING" \/ taskBeatAge'[g] # Never
                               => guestTask'[g] # NoTask
         /\ \A g \in Guest : guestTask'[g] \in {NoTask, guestTask[g]}
         /\ \A g \in Guest : guestState[g] = "IDLE" => guestState'[g] = "IDLE"
         /\ \A g \in Guest \cap S : guestTask'[g] = NoTask /\ guestState'[g] = "IDLE"
  BY DEF ClearGuests, SetTo, TypeOK, Consistent, LinkConsistent

LEMMA LinkStep == TypeOK /\ Consistent /\ [Next]_vars => LinkConsistent'
<1> SUFFICES ASSUME TypeOK, Consistent, [Next]_vars PROVE LinkConsistent'
  OBVIOUS
<1>1. ASSUME NEW t \in Task, NEW g \in registered, Hand(t, g) PROVE LinkConsistent'
  BY <1>1, MaxTasksAssumption DEF Hand, TypeOK, Consistent, LinkConsistent
<1>2. ASSUME NEW S, ClearGuests(S), UNCHANGED <<registered, beatAge>>
      PROVE  LinkConsistent'
  <2>1. \A g \in Guest \ registered' :
          guestState'[g] = "IDLE" /\ guestTask'[g] = NoTask /\ beatAge'[g] = 0
    BY <1>2, ClearGuestsLinks DEF Consistent, LinkConsistent
  <2> QED BY <1>2, <2>1, ClearGuestsLinks DEF LinkConsistent
<1>3. ASSUME NEW S, RemoveGuests(S) PROVE LinkConsistent'
  <2>1. ClearGuests(S) BY <1>3 DEF RemoveGuests
  <2>2. \A g \in Guest \ registered' :
          guestState'[g] = "IDLE" /\ guestTask'[g] = NoTask /\ beatAge'[g] = 0
    BY <1>3, <2>1, ClearGuestsLinks
       DEF RemoveGuests, SetTo, TypeOK, Consistent, LinkConsistent
  <2> QED BY <2>1, <2>2, ClearGuestsLinks DEF LinkConsistent
<1>4. CASE UNCHANGED guestVars
  BY <1>4 DEF guestVars, linkVars, LinkConsistent, Consistent
<1>5. ASSUME NEW t \in Task, TaskStep(t) PROVE LinkConsistent'
  <2>1. ASSUME NEW g \in Guest, TaskHeartbeat(g, t) PROVE LinkConsistent'
    BY <2>1, MaxTasksAssumption DEF TaskHeartbeat, TypeOK, Consistent, LinkConsistent
  <2> QED BY <1>5, <1>1, <1>2, <1>4, <2>1
        DEF TaskStep, AddTaskOrDedup, RequeueTask, CompleteTask, FailTask, EndTask,
            CancelTask, AssignTask, AcknowledgeTask, DeclineTask
<1>6. ASSUME NEW g \in Guest, GuestStep(g) PROVE LinkConsistent'
  <2>1. CASE Register(g)
    BY <2>1 DEF Register, linkVars, Consistent, LinkConsistent
  <2>2. CASE Heartbeat(g)
    BY <2>2 DEF Heartbeat, linkVars, TypeOK, Consistent, LinkConsistent
  <2>3. CASE ReconcileGuest(g)
    <3>1. CASE IsActive(guestTask[g]) /\ assignedTo[guestTask[g]] = g
      BY <2>3, <3>1, MaxTasksAssumption
         DEF ReconcileGuest, IsActive, TypeOK, Consistent, LinkConsistent
    <3>2. CASE guestTask[g] = NoTask
      BY <2>3, <3>2, MaxTasksAssumption
         DEF ReconcileGuest, IsActive, TypeOK, Consistent, LinkConsistent
    <3> QED BY <2>3, <3>1, <3>2, <1>2 DEF ReconcileGuest
  <2> QED BY <1>6, <1>3, <2>1, <2>2, <2>3
        DEF GuestStep, UnregisterGuest, UnregisterGuestForce
<1>7. CASE Sweep
  <2>1. CASE CheckStuckTasks
    BY <2>1, <1>2, <1>4 DEF CheckStuckTasks, guestVars
  <2>2. CASE CheckSilentGuests
    BY <2>2, <1>2, <1>4 DEF CheckSilentGuests, guestVars
  <2>3. CASE RemoveStaleGuests
    BY <2>3, <1>3, <1>4 DEF RemoveStaleGuests, guestVars
  <2> QED BY <1>7, <2>1, <2>2, <2>3 DEF Sweep
<1>8. CASE Tick
  <2>1. \A age \in 0..Never : age = Never <=> Older(age) = Never
    BY TimeoutAssumption DEF Older
  <2> QED BY <1>8, <2>1, TimeoutAssumption DEF Tick, TypeOK, Consistent, LinkConsistent
<1>9. CASE Restart
  BY <1>9 DEF Restart, LinkConsistent
<1>10. CASE TryAssignNext
  BY <1>10, <1>1 DEF TryAssignNext, FindAvailableGuests
<1> QED
  BY <1>4, <1>5, <1>6, <1>7, <1>8, <1>9, <1>10 DEF Next, SetMaxGuests, vars

LEMMA IdsStep == TypeOK /\ Consistent /\ [Next]_vars => IdsConsistent'
<1> SUFFICES ASSUME TypeOK, Consistent, [Next]_vars PROVE IdsConsistent'
  OBVIOUS
<1> DEFINE Present == {t \in Task : status[t] # "ABSENT" \/ t \in stored}
<1>1. ASSUME Present' \subseteq Present,
             \A g \in Guest : guestTask'[g] \in 0..created,
             UNCHANGED created
      PROVE  IdsConsistent'
  <2>1. created' = created /\ \A g \in Guest : guestTask'[g] <= created
    BY <1>1, MaxTasksAssumption DEF TypeOK
  <2>2. \A t \in Task : t \in Present => t <= created
    BY DEF IdsConsistent, Consistent
  <2>3. \A t \in Task : t \in Present' => t <= created
    <3> HIDE DEF Present
    <3> QED BY <1>1, <2>2
  <2> QED BY <2>1, <2>3 DEF IdsConsistent
<1>2. \A g \in Guest : guestTask[g] \in 0..created /\ NoTask \in 0..created
  BY MaxTasksAssumption DEF TypeOK, Consistent, IdsConsistent
<1>3. ASSUME NEW S \in SUBSET Known, RequeueTasks(S) PROVE Present' \subseteq Present
  BY <1>3 DEF RequeueTasks, SetTo, Persist, Known, TypeOK
<1>4. ASSUME NEW S \in SUBSET Known, NEW final, FinishTasks(S, final)
      PROVE  Present' \subseteq Present
  BY <1>4 DEF FinishTasks, SetTo, Forget, Known, TypeOK
<1>5. ASSUME NEW S, ClearGuests(S) PROVE \A g \in Guest : guestTask'[g] \in 0..created
  BY <1>5, <1>2, ClearGuestsLinks
<1>6. ASSUME NEW t \in Task, NEW g \in Guest, Hand(t, g), status[t] = "PENDING"
      PROVE  IdsConsistent'
  <2>1. Present' \subseteq Present BY <1>6 DEF Hand, Persist, TypeOK
  <2>2. t \in 0..created BY <1>6, MaxTasksAssumption DEF Consistent, IdsConsistent
  <2> QED BY <1>1, <1>2, <1>6, <2>1, <2>2 DEF Hand, TypeOK
<1>7. ASSUME UNCHANGED <<created, status, stored>>,
             \A g \in Guest : guestTask'[g] \in 0..created
      PROVE  IdsConsistent'
  BY <1>1, <1>7
<1>8. ASSUME NEW t \in Task, TaskStep(t) PROVE IdsConsistent'
  <2>1. CASE AddTaskOrDedup(t)
    BY <2>1 DEF AddTaskOrDedup, Persist, guestVars, linkVars, TypeOK, Consistent,
                IdsConsistent
  <2>2. IsActive(t) => t \in Known
    BY DEF IsActive, Active, Known
  <2>3. CASE RequeueTask(t) \/ \E g \in Guest : DeclineTask(t, g)
    BY <2>3, <2>2, <1>1, <1>3, <1>5 DEF RequeueTask, DeclineTask
  <2>4. ASSUME NEW g \in Guest \cup {NoGuest}, NEW final, EndTask(t, g, final)
        PROVE  IdsConsistent'
    BY <2>4, <2>2, <1>1, <1>4, <1>5 DEF EndTask
  <2>5. ASSUME NEW g \in Guest \cup {NoGuest}, CancelTask(t, g) PROVE IdsConsistent'
    <3>1. t \in Known BY <2>2, <2>5 DEF CancelTask, Known
    <3> QED BY <2>5, <3>1, <1>1, <1>4, <1>5 DEF CancelTask
  <2>6. ASSUME NEW g \in Guest, AcknowledgeTask(t, g) PROVE IdsConsistent'
    <3>1. Present' \subseteq Present BY <2>6 DEF AcknowledgeTask, Persist, TypeOK
    <3> QED BY <2>6, <3>1, <1>1, <1>2 DEF AcknowledgeTask, guestVars, linkVars
  <2>7. ASSUME NEW g \in Guest, TaskHeartbeat(g, t) PROVE IdsConsistent'
    BY <2>7, <1>2, <1>7, MaxTasksAssumption DEF TaskHeartbeat, tableVars, TypeOK
  <2>8. ASSUME NEW g \in Guest, AssignTask(t, g) PROVE IdsConsistent'
    BY <2>8, <1>6 DEF AssignTask
  <2> QED BY <1>8, <2>1, <2>3, <2>4, <2>5, <2>6, <2>7, <2>8
        DEF TaskStep, CompleteTask, FailTask
<1>9. ASSUME NEW g \in Guest, GuestStep(g) PROVE IdsConsistent'
  <2>1. CASE UnregisterGuestForce(g)
    <3>1. \A h \in Guest : guestTask'[h] \in 0..created
      BY <2>1, <1>5 DEF UnregisterGuestForce, RemoveGuests
    <3>2. Present' \subseteq Present
      BY <2>1, <1>3 DEF UnregisterGuestForce
    <3> QED BY <2>1, <3>1, <3>2, <1>1 DEF UnregisterGuestForce
  <2>2. CASE UnregisterGuest(g)
    BY <2>2, <1>5, <1>7 DEF UnregisterGuest, RemoveGuests, tableVars
  <2>3. CASE ReconcileGuest(g)
    BY <2>3, <1>2, <1>5, <1>7 DEF ReconcileGuest, tableVars
  <2> QED BY <1>9, <2>1, <2>2, <2>3, <1>2, <1>7
        DEF GuestStep, Register, Heartbeat, tableVars, linkVars
<1>10. CASE Sweep
  <2>1. CASE CheckStuckTasks
    <3>1. \A S \in StuckTasks : S \in SUBSET Known
      BY DEF StuckTasks, Overdue, Known
    <3> QED BY <2>1, <3>1, <1>1, <1>2, <1>3, <1>5, <1>7 DEF CheckStuckTasks, linkVars
  <2>2. {t \in Task : IsActive(t)} \subseteq Known
    BY DEF IsActive, Active, Known
  <2>3. CASE CheckSilentGuests
    BY <2>2, <2>3, <1>1, <1>2, <1>4, <1>5, <1>7 DEF CheckSilentGuests, linkVars
  <2>4. CASE RemoveStaleGuests
    BY <2>2, <2>4, <1>1, <1>2, <1>4, <1>5, <1>7
       DEF RemoveStaleGuests, RemoveGuests, linkVars
  <2> QED BY <1>10, <2>1, <2>3, <2>4 DEF Sweep
<1>11. CASE Tick
  BY <1>11, <1>2, <1>7 DEF Tick
<1>12. CASE Restart
  <2>1. Present' \subseteq Present BY <1>12 DEF Restart
  <2> QED BY <1>12, <2>1, <1>1, <1>2 DEF Restart
<1>13. CASE TryAssignNext
  BY <1>13, <1>6 DEF TryAssignNext, NextPendingTask, Pending, FindAvailableGuests, TypeOK
<1>14. CASE UNCHANGED <<tableVars, stored, guestVars>>
  BY <1>14, <1>2, <1>7 DEF tableVars, guestVars, linkVars
<1> QED
  BY <1>8, <1>9, <1>10, <1>11, <1>12, <1>13, <1>14 DEF Next, SetMaxGuests, vars

(* Owners match statuses, RUNNING guests point to a task, and no id is     *)
(* known before it was submitted: whatever ids the messages carry, and     *)
(* whether or not guests unregister or the store fails.                    *)
THEOREM ConsistencyCorrect == Spec => []Consistent
<1>1. Init => Consistent
  BY MaxTasksAssumption
     DEF Init, Consistent, OwnerMatchesStatus, LinkConsistent, IdsConsistent
<1>2. TypeOK /\ Consistent /\ [Next]_vars => Consistent'
  BY OwnerStep, LinkStep, IdsStep DEF Consistent
<1> QED BY <1>1, <1>2, TypeCorrect, PTL DEF Spec
-------------------------------------------------------------------------------
(* The queue store.                                                        *)

LEMMA StoreStep ==
  TypeOK /\ Consistent /\ StoreMirrorsTable /\ [Next]_vars => StoreMirrorsTable'
<1> SUFFICES ASSUME TypeOK, Consistent, StoreMirrorsTable, [Next]_vars, ~StoreFaults
             PROVE  StoreMirrorsTable'
  BY DEF StoreMirrorsTable
<1> DEFINE Open == {t \in Task : status[t] = "PENDING" \/ IsActive(t)}
<1> USE DEF IsActive, Active
<1>1. stored = Open
  BY DEF StoreMirrorsTable
<1>2. ASSUME stored' = Open' PROVE StoreMirrorsTable'
  BY <1>2 DEF StoreMirrorsTable
<1>3. ASSUME UNCHANGED <<status, stored>> PROVE StoreMirrorsTable'
  BY <1>1, <1>2, <1>3
<1>4. ASSUME NEW S \in SUBSET Task, RequeueTasks(S) PROVE StoreMirrorsTable'
  BY <1>1, <1>2, <1>4 DEF RequeueTasks, SetTo, Persist, TypeOK
<1>5. ASSUME NEW S \in SUBSET Task, NEW final \in Terminal, FinishTasks(S, final)
      PROVE  StoreMirrorsTable'
  BY <1>1, <1>2, <1>5 DEF FinishTasks, SetTo, Forget, TypeOK, Terminal
<1>6. ASSUME NEW t \in Task, NEW g \in Guest, Hand(t, g) PROVE StoreMirrorsTable'
  BY <1>1, <1>2, <1>6 DEF Hand, Persist, TypeOK
<1>7. {"COMPLETED", "FAILED", "CANCELLED"} = Terminal
  BY DEF Terminal
<1>8. ASSUME NEW t \in Task, TaskStep(t) PROVE StoreMirrorsTable'
  <2>1. CASE AddTaskOrDedup(t)
    BY <2>1, <1>1, <1>2 DEF AddTaskOrDedup, Persist, TypeOK
  <2>2. ASSUME NEW g \in Guest, AcknowledgeTask(t, g) PROVE StoreMirrorsTable'
    BY <2>2, <1>1, <1>2 DEF AcknowledgeTask, Persist, TypeOK
  <2>3. ASSUME NEW g \in Guest \cup {NoGuest}, CancelTask(t, g) PROVE StoreMirrorsTable'
    BY <2>3, <1>5, <1>7 DEF CancelTask
  <2>4. ASSUME NEW g \in Guest \cup {NoGuest}, NEW final \in Terminal, EndTask(t, g, final)
        PROVE  StoreMirrorsTable'
    BY <2>4, <1>5 DEF EndTask
  <2> QED BY <1>8, <2>1, <2>2, <2>3, <2>4, <1>3, <1>4, <1>6, <1>7
        DEF TaskStep, AssignTask, RequeueTask, DeclineTask, TaskHeartbeat, CompleteTask,
            FailTask, tableVars
<1>9. ASSUME NEW g \in Guest, GuestStep(g) PROVE StoreMirrorsTable'
  <2>1. CASE UnregisterGuestForce(g)
    BY <2>1, <1>3, <1>4 DEF UnregisterGuestForce, Known
  <2> QED BY <1>9, <2>1, <1>3
        DEF GuestStep, Register, ReconcileGuest, Heartbeat, UnregisterGuest, tableVars
<1>10. CASE Sweep
  <2>1. CASE CheckStuckTasks
    <3>1. \A S \in StuckTasks : S \in SUBSET Task
      BY DEF StuckTasks, Overdue
    <3> QED BY <2>1, <3>1, <1>3, <1>4 DEF CheckStuckTasks
  <2>2. CASE CheckSilentGuests
    BY <2>2, <1>3, <1>5, <1>7 DEF CheckSilentGuests
  <2>3. CASE RemoveStaleGuests
    BY <2>3, <1>3, <1>5, <1>7 DEF RemoveStaleGuests
  <2> QED BY <1>10, <2>1, <2>2, <2>3 DEF Sweep
<1>11. CASE Restart
  BY <1>1, <1>2, <1>11 DEF Restart, TypeOK
<1>12. CASE TryAssignNext
  BY <1>12, <1>6 DEF TryAssignNext, FindAvailableGuests, TypeOK
<1>13. CASE Tick \/ UNCHANGED vars
  BY <1>13, <1>3 DEF Tick, vars, tableVars
<1> QED
  BY <1>3, <1>8, <1>9, <1>10, <1>11, <1>12, <1>13 DEF Next, SetMaxGuests, tableVars

(* With a store that does not fail, a crash at any moment loses no task    *)
(* that has not ended and brings back no task that has.                    *)
THEOREM StoreCorrect == Spec => []StoreMirrorsTable
<1>1. Init => StoreMirrorsTable
  BY DEF Init, StoreMirrorsTable, IsActive, Active
<1>2. TypeOK /\ Consistent /\ StoreMirrorsTable /\ [Next]_vars => StoreMirrorsTable'
  BY StoreStep
<1> QED BY <1>1, <1>2, TypeCorrect, ConsistencyCorrect, PTL DEF Spec
-------------------------------------------------------------------------------
(* The probes.                                                             *)

(* A guest that has not beaten lately points to no live task but its own.  *)
Live(t) == t \in Task /\ status[t] \in {"PENDING", "ASSIGNED", "RUNNING"}
Loyal == \A g \in registered :
           beatAge[g] > 0 /\ Live(guestTask[g]) => assignedTo[guestTask[g]] = g

LEMMA SweepRepairedIsLoyal ==
  SweepRepaired <=> (AssignTimeout # 0 /\ ~GuestsUnregister /\ sweep # "idle" => Loyal)
  BY DEF SweepRepaired, Loyal, Live, Pending, IsActive, Active

LEMMA LoyalStep ==
  TypeOK /\ Consistent /\ Loyal /\ ~GuestsUnregister /\ [Next]_vars /\ sweep' # "idle"
    => Loyal'
<1> SUFFICES ASSUME TypeOK, Consistent, Loyal, ~GuestsUnregister, [Next]_vars,
                    sweep' # "idle"
             PROVE  Loyal'
  OBVIOUS
<1> USE NoGuestAssumption DEF Live, IsActive, Active
<1>1. ASSUME NEW S \in SUBSET {t \in Task : IsActive(t)}, RequeueTasks(S),
             NEW C, ClearGuests(C), {assignedTo[t] : t \in S} \subseteq C,
             UNCHANGED <<registered, beatAge>>
      PROVE  Loyal'
  <2> SUFFICES ASSUME NEW g \in registered, beatAge[g] > 0, Live(guestTask[g])'
               PROVE  assignedTo'[guestTask'[g]] = g
    BY <1>1 DEF Loyal
  <2>1. g \in Guest BY DEF TypeOK
  <2>2. guestTask'[g] = guestTask[g] /\ g \notin C
    BY <1>1, <2>1, MaxTasksAssumption DEF ClearGuests, SetTo, TypeOK
  <2>3. Live(guestTask[g])
    BY <1>1, <2>2 DEF RequeueTasks, SetTo, TypeOK
  <2>4. assignedTo[guestTask[g]] = g
    BY <2>3 DEF Loyal
  <2>5. guestTask[g] \notin S
    BY <1>1, <2>2, <2>4
  <2> QED BY <1>1, <2>2, <2>3, <2>4, <2>5 DEF RequeueTasks, SetTo, TypeOK
<1>2. ASSUME NEW S, NEW final \in Terminal, FinishTasks(S, final),
             \A t \in Task \ S : assignedTo'[t] = assignedTo[t],
             \A g \in registered' : /\ g \in registered
                                    /\ beatAge'[g] = beatAge[g]
                                    /\ guestTask'[g] \in {NoTask, guestTask[g]}
      PROVE  Loyal'
  <2> SUFFICES ASSUME NEW g \in registered', beatAge'[g] > 0, Live(guestTask[g])'
               PROVE  assignedTo'[guestTask'[g]] = g
    BY DEF Loyal
  <2>1. g \in registered /\ beatAge[g] > 0 /\ guestTask'[g] = guestTask[g]
    BY <1>2, MaxTasksAssumption
  <2>2. guestTask[g] \notin S /\ Live(guestTask[g])
    BY <1>2, <2>1 DEF FinishTasks, SetTo, Terminal, TypeOK
  <2> QED BY <1>2, <2>1, <2>2 DEF Loyal
<1>3. ASSUME NEW t \in Task, NEW g \in registered, Hand(t, g), status[t] = "PENDING"
      PROVE  Loyal'
  <2>1. assignedTo[t] = NoGuest
    BY <1>3 DEF Consistent, OwnerMatchesStatus
  <2> QED BY <1>3, <2>1 DEF Hand, TypeOK, Loyal
<1>4. ASSUME UNCHANGED <<status, assignedTo>>,
             \A g \in registered' :
               beatAge'[g] = 0 \/ /\ g \in registered
                                  /\ beatAge'[g] = beatAge[g]
                                  /\ guestTask'[g] \in {NoTask, guestTask[g]}
      PROVE  Loyal'
  BY <1>4, MaxTasksAssumption DEF Loyal
<1>5. ASSUME NEW t \in Task, TaskStep(t) PROVE Loyal'
  <2>1. CASE AddTaskOrDedup(t)
    BY <2>1 DEF AddTaskOrDedup, guestVars, linkVars, TypeOK, Consistent, IdsConsistent,
                Loyal
  <2>2. CASE RequeueTask(t)
    BY <2>2, <1>1 DEF RequeueTask
  <2>3. ASSUME NEW g \in Guest, DeclineTask(t, g) PROVE Loyal'
    BY <2>3, <1>1 DEF DeclineTask
  <2>4. ASSUME NEW g \in Guest \cup {NoGuest}, NEW final \in Terminal, EndTask(t, g, final)
        PROVE  Loyal'
    BY <2>4, <1>2, ClearGuestsLinks DEF EndTask, TypeOK
  <2>5. ASSUME NEW g \in Guest \cup {NoGuest}, CancelTask(t, g) PROVE Loyal'
    <3>1. "CANCELLED" \in Terminal BY DEF Terminal
    <3>2. \A u \in Task \ {t} : assignedTo'[u] = assignedTo[u]
      BY <2>5 DEF CancelTask, TypeOK
    <3> QED BY <2>5, <3>1, <3>2, <1>2, ClearGuestsLinks DEF CancelTask, TypeOK
  <2>6. ASSUME NEW g \in Guest, AcknowledgeTask(t, g) PROVE Loyal'
    BY <2>6 DEF AcknowledgeTask, guestVars, linkVars, TypeOK, Loyal
  <2>7. ASSUME NEW g \in Guest, TaskHeartbeat(g, t) PROVE Loyal'
    BY <2>7, <1>4 DEF TaskHeartbeat, tableVars, TypeOK
  <2>8. {"COMPLETED", "FAILED"} \subseteq Terminal
    BY DEF Terminal
  <2> QED BY <1>5, <1>3, <2>1, <2>2, <2>3, <2>4, <2>5, <2>6, <2>7, <2>8
        DEF TaskStep, AssignTask, CompleteTask, FailTask
<1>6. ASSUME NEW g \in Guest, GuestStep(g) PROVE Loyal'
  <2>1. CASE Register(g)
    BY <2>1, <1>4 DEF Register, tableVars, linkVars, Consistent, LinkConsistent
  <2>2. CASE ReconcileGuest(g)
    BY <2>2, <1>4, ClearGuestsLinks DEF ReconcileGuest, tableVars, TypeOK
  <2>3. CASE Heartbeat(g)
    BY <2>3, <1>4 DEF Heartbeat, tableVars, linkVars, TypeOK
  <2> QED BY <1>6, <2>1, <2>2, <2>3 DEF GuestStep
<1>7. CASE CheckStuckTasks
  <2>1. CASE AssignTimeout = 0
    BY <1>7, <2>1, <1>4 DEF CheckStuckTasks, linkVars
  <2>2. CASE AssignTimeout # 0
    <3>1. PICK requeued \in StuckTasks :
            /\ RequeueTasks(requeued)
            /\ ClearGuests({assignedTo[t] : t \in requeued} \cup StaleReferences(requeued))
      BY <1>7, <2>2 DEF CheckStuckTasks
    <3>2. requeued \in SUBSET {t \in Task : IsActive(t)}
      BY DEF StuckTasks, Overdue
    <3> QED BY <1>7, <3>1, <3>2, <1>1 DEF CheckStuckTasks
  <2> QED BY <2>1, <2>2
<1>8. CASE CheckSilentGuests
  <2>1. CASE TaskSilenceTimeout = 0
    BY <1>8, <2>1, <1>4 DEF CheckSilentGuests, linkVars
  <2>2. CASE TaskSilenceTimeout # 0
    <3>1. PICK ended \in SUBSET Task, C \in SUBSET registered :
            FinishTasks(ended, "FAILED") /\ ClearGuests(C)
      BY <1>8, <2>2 DEF CheckSilentGuests
    <3>2. "FAILED" \in Terminal BY DEF Terminal
    <3> QED BY <1>8, <3>1, <3>2, <1>2, ClearGuestsLinks DEF CheckSilentGuests, TypeOK
  <2> QED BY <2>1, <2>2
<1>9. CASE TryAssignNext
  BY <1>9, <1>3 DEF TryAssignNext, NextPendingTask, Pending, FindAvailableGuests
<1>10. CASE UNCHANGED <<tableVars, stored, guestVars>>
  BY <1>10, <1>4 DEF tableVars, guestVars, linkVars
<1> QED
  BY <1>5, <1>6, <1>7, <1>8, <1>9, <1>10
     DEF Next, Sweep, RemoveStaleGuests, Tick, Restart, SetMaxGuests, vars

(* The first probe makes every guest loyal, whatever it pointed to before. *)
LEMMA CheckStuckTasksRepairs ==
  ASSUME TypeOK, AssignTimeout # 0, CheckStuckTasks
  PROVE  Loyal'
<1> USE DEF Live
<1>1. PICK requeued \in StuckTasks :
        /\ RequeueTasks(requeued)
        /\ ClearGuests({assignedTo[t] : t \in requeued} \cup StaleReferences(requeued))
  BY DEF CheckStuckTasks
<1>2. requeued \in SUBSET Known
  BY DEF StuckTasks, Overdue, Known
<1> SUFFICES ASSUME NEW g \in registered, Live(guestTask[g])'
             PROVE  assignedTo'[guestTask'[g]] = g
  BY DEF CheckStuckTasks, Loyal
<1>3. g \in Guest BY DEF TypeOK
<1>4. guestTask'[g] = guestTask[g] /\ guestTask[g] \in Task
  BY <1>1, <1>3, MaxTasksAssumption DEF ClearGuests, SetTo, TypeOK
<1>5. guestTask[g] \in Known
  BY <1>1, <1>2, <1>4 DEF RequeueTasks, SetTo, Known, TypeOK
<1>6. guestTask[g] \notin requeued /\ assignedTo[guestTask[g]] = g
  <2> SUFFICES ASSUME guestTask[g] \in requeued \/ assignedTo[guestTask[g]] # g
               PROVE  FALSE
    OBVIOUS
  <2>1. guestTask'[g] = NoTask
    BY <1>1, <1>3, <1>5 DEF ClearGuests, StaleReferences, SetTo, TypeOK
  <2> QED BY <2>1, <1>4, MaxTasksAssumption
<1> QED BY <1>1, <1>4, <1>6 DEF RequeueTasks, SetTo, TypeOK

(* No handler that runs between two probes brings back a stale reference.  *)
THEOREM SweepCorrect == Spec => []SweepRepaired
<1>1. Init => SweepRepaired
  BY DEF Init, SweepRepaired
<1>2. TypeOK /\ Consistent /\ SweepRepaired /\ [Next]_vars => SweepRepaired'
  <2> SUFFICES ASSUME TypeOK, Consistent, SweepRepaired, [Next]_vars, AssignTimeout # 0,
                      ~GuestsUnregister, sweep' # "idle"
               PROVE  Loyal'
    <3>1. SweepRepaired' <=> (AssignTimeout # 0 /\ ~GuestsUnregister /\ sweep' # "idle"
                                => Loyal')
      BY DEF SweepRepaired, Loyal, Live, Pending, IsActive, Active
    <3> QED BY <3>1
  <2>1. CASE sweep # "idle"
    BY <2>1, SweepRepairedIsLoyal, LoyalStep
  <2>2. CASE sweep = "idle"
    <3>1. CheckStuckTasks
      BY <2>2 DEF Next, TaskStep, AddTaskOrDedup, RequeueTask, CompleteTask, FailTask,
           EndTask, CancelTask, AssignTask, Hand, AcknowledgeTask, DeclineTask,
           TaskHeartbeat, GuestStep, Register, ReconcileGuest, Heartbeat,
           SetMaxGuests, TryAssignNext, Sweep, CheckSilentGuests, RemoveStaleGuests,
           Tick, Restart, vars
    <3> QED BY <3>1, CheckStuckTasksRepairs
  <2> QED BY <2>1, <2>2
<1> QED BY <1>1, <1>2, TypeCorrect, ConsistencyCorrect, PTL DEF Spec

(* The two probes that fail tasks never fail the task of a guest that is   *)
(* alive, whatever its registry entry pointed to when the sweep began.     *)
THEOREM ProbesCorrect == Spec => ProbesFailOwnTasks
<1> DEFINE Failing == AssignTimeout # 0 /\ ~GuestsUnregister
                        /\ (CheckSilentGuests \/ RemoveStaleGuests)
           Owned == \A t \in Task : status'[t] # status[t] => FailsOwnTask(t)
<1>1. TypeOK /\ SweepRepaired /\ [Next]_vars => [Failing => Owned]_vars
  <2> SUFFICES ASSUME TypeOK, SweepRepaired, Failing,
                      NEW t \in Task, status'[t] # status[t]
               PROVE  FailsOwnTask(t)
    OBVIOUS
  <2>1. Loyal
    BY SweepRepairedIsLoyal DEF CheckSilentGuests, RemoveStaleGuests
  <2>2. PICK g \in registered : guestTask[g] = t /\ IsActive(t) /\ beatAge[g] > 0
    <3>1. CASE CheckSilentGuests
      <4>1. PICK h \in registered : /\ guestTask[h] = t
                                    /\ IsActive(t)
                                    /\ beatAge[h] > TaskSilenceTimeout
        BY <3>1 DEF CheckSilentGuests, FinishTasks, SetTo, TypeOK
      <4> QED BY <4>1, TimeoutAssumption DEF TypeOK
    <3>2. CASE RemoveStaleGuests
      <4>1. PICK h \in registered : /\ guestTask[h] = t
                                    /\ IsActive(t)
                                    /\ beatAge[h] > SilenceTimeout
        BY <3>2 DEF RemoveStaleGuests, FinishTasks, SetTo, TypeOK
      <4> QED BY <4>1, TimeoutAssumption DEF TypeOK
    <3> QED BY <3>1, <3>2
  <2> QED BY <2>1, <2>2 DEF Loyal, Live, IsActive, Active, FailsOwnTask
<1> QED BY <1>1, TypeCorrect, SweepCorrect, PTL DEF Spec, ProbesFailOwnTasks
-------------------------------------------------------------------------------
(* The orchestrator implements the abstract life of its tasks.             *)

(* The image of a state under the refinement mapping, and a step that      *)
(* moves the tasks of S to phase p, held by h.                             *)
Phases == [t \in Task |-> PhaseOf(t)]
Holders == [t \in Task |-> HolderOf(t)]

LEMMA MappedMove ==
  ASSUME NEW S, NEW p, NEW h,
         \A t \in Task : /\ PhaseOf(t)' = IF t \in S THEN p ELSE PhaseOf(t)
                         /\ HolderOf(t)' = IF t \in S THEN h ELSE HolderOf(t)
  PROVE  Lifecycle!Move(S, p, h)
  BY DEF Lifecycle!Move

LEMMA RequeueIsRevoke ==
  ASSUME TypeOK, NEW S \in SUBSET {t \in Task : IsActive(t)}, RequeueTasks(S),
         UNCHANGED created
  PROVE  Lifecycle!LifecycleNext
<1> USE DEF IsActive, Active
<1>1. Lifecycle!Move(S, "PENDING", NoGuest)
  BY MappedMove DEF RequeueTasks, SetTo, PhaseOf, HolderOf, TypeOK
<1>2. \A t \in S : Lifecycle!InPhase(t, Lifecycle!Held)
  BY DEF Lifecycle!InPhase, Lifecycle!Held, PhaseOf
<1> QED BY <1>1, <1>2 DEF Lifecycle!LifecycleNext, Lifecycle!Revoke

LEMMA FailingIsAbandon ==
  ASSUME TypeOK, NEW S \in SUBSET {t \in Task : IsActive(t)},
         FinishTasks(S, "FAILED"), UNCHANGED <<created, assignedTo>>
  PROVE  Lifecycle!LifecycleNext
<1> USE DEF IsActive, Active
<1>1. Lifecycle!Move(S, "FAILED", NoGuest)
  BY MappedMove DEF FinishTasks, SetTo, PhaseOf, HolderOf, TypeOK
<1>2. \A t \in S : Lifecycle!InPhase(t, Lifecycle!Held)
  BY DEF Lifecycle!InPhase, Lifecycle!Held, PhaseOf
<1> QED BY <1>1, <1>2 DEF Lifecycle!LifecycleNext, Lifecycle!Abandon

LEMMA HandIsGrant ==
  ASSUME TypeOK, NEW t \in Task, NEW g \in Guest, Hand(t, g), status[t] = "PENDING"
  PROVE  Lifecycle!LifecycleNext
<1>1. Lifecycle!Move({t}, "ASSIGNED", g)
  BY MappedMove DEF Hand, PhaseOf, HolderOf, IsActive, Active, TypeOK
<1>2. Lifecycle!InPhase(t, {"PENDING"})
  BY DEF Lifecycle!InPhase, PhaseOf
<1> QED BY <1>1, <1>2 DEF Lifecycle!LifecycleNext, Lifecycle!Grant

LEMMA LifecycleStep ==
  ASSUME ~GuestsUnregister, ~StoreFaults,
         TypeOK, Consistent, StoreMirrorsTable, [Next]_vars
  PROVE  [Lifecycle!LifecycleNext]_(Lifecycle!lifecycleVars)
<1> DEFINE Mapped == Lifecycle!LifecycleNext \/ UNCHANGED Lifecycle!lifecycleVars
<1> USE DEF IsActive, Active
<1>1. ASSUME UNCHANGED tableVars PROVE Mapped
  BY <1>1 DEF tableVars, Lifecycle!lifecycleVars, PhaseOf, HolderOf
<1>2. ASSUME UNCHANGED <<created, status, assignedTo>> PROVE Mapped
  BY <1>2 DEF Lifecycle!lifecycleVars, PhaseOf, HolderOf
<1>3. ASSUME NEW t \in Task, TaskStep(t) PROVE Mapped
  <2>1. CASE AddTaskOrDedup(t)
    <3>1. \A u \in Task : status[u] # "ABSENT" => u <= created
      BY DEF Consistent, IdsConsistent
    <3>2. status[t] = "ABSENT" /\ PhaseOf(t) = "NEW"
      BY <2>1, <3>1 DEF AddTaskOrDedup, PhaseOf, TypeOK
    <3>3. \A u \in Task : /\ PhaseOf(u)' = IF u \in {t} THEN "PENDING" ELSE PhaseOf(u)
                          /\ HolderOf(u)' = IF u \in {t} THEN NoGuest ELSE HolderOf(u)
      BY <2>1, <3>2 DEF AddTaskOrDedup, PhaseOf, HolderOf, TypeOK
    <3>4. Lifecycle!Move({t}, "PENDING", NoGuest)
      BY <3>3, MappedMove
    <3>5. Lifecycle!InPhase(t, {"NEW"})
      BY <3>2 DEF Lifecycle!InPhase
    <3> QED BY <3>4, <3>5 DEF Lifecycle!LifecycleNext, Lifecycle!Accept
  <2>2. ASSUME NEW g \in Guest, AcknowledgeTask(t, g) PROVE Mapped
    <3>1. Lifecycle!InPhase(t, {"ASSIGNED"}) /\ Holders[t] = g
      BY <2>2 DEF AcknowledgeTask, Lifecycle!InPhase, PhaseOf, HolderOf, Holders
    <3>2. Lifecycle!Move({t}, "RUNNING", g)
      BY <2>2, MappedMove DEF AcknowledgeTask, PhaseOf, HolderOf, TypeOK
    <3>3. Lifecycle!Begin(t)
      BY <3>1, <3>2 DEF Lifecycle!Begin, Holders
    <3> QED BY <3>3 DEF Lifecycle!LifecycleNext
  <2>3. ASSUME NEW g \in Guest \cup {NoGuest}, NEW final \in {"COMPLETED", "FAILED"},
               EndTask(t, g, final)
        PROVE  Mapped
    <3>1. Lifecycle!Move({t}, final, NoGuest)
      BY <2>3, MappedMove DEF EndTask, FinishTasks, SetTo, PhaseOf, HolderOf, TypeOK
    <3>2. Lifecycle!InPhase(t, Lifecycle!Held)
      BY <2>3 DEF EndTask, Lifecycle!InPhase, Lifecycle!Held, PhaseOf
    <3> QED BY <3>1, <3>2 DEF Lifecycle!LifecycleNext, Lifecycle!Finish
  <2>4. ASSUME NEW g \in Guest \cup {NoGuest}, CancelTask(t, g) PROVE Mapped
    <3>1. Lifecycle!Move({t}, "CANCELLED", NoGuest)
      BY <2>4, MappedMove DEF CancelTask, FinishTasks, SetTo, PhaseOf, HolderOf, TypeOK
    <3>2. Lifecycle!InPhase(t, Lifecycle!Open)
      BY <2>4 DEF CancelTask, Lifecycle!InPhase, Lifecycle!Open, Lifecycle!Held, PhaseOf
    <3> QED BY <3>1, <3>2 DEF Lifecycle!LifecycleNext, Lifecycle!Cancel
  <2>5. CASE RequeueTask(t)
    BY <2>5, RequeueIsRevoke DEF RequeueTask
  <2>6. ASSUME NEW g \in Guest, DeclineTask(t, g) PROVE Mapped
    BY <2>6, RequeueIsRevoke DEF DeclineTask
  <2>7. ASSUME NEW g \in Guest, AssignTask(t, g) PROVE Mapped
    BY <2>7, HandIsGrant DEF AssignTask
  <2>8. ASSUME NEW g \in Guest, TaskHeartbeat(g, t) PROVE Mapped
    BY <2>8, <1>1 DEF TaskHeartbeat
  <2> QED BY <1>3, <2>1, <2>2, <2>3, <2>4, <2>5, <2>6, <2>7, <2>8
        DEF TaskStep, CompleteTask, FailTask
<1>4. ASSUME NEW g \in Guest, GuestStep(g) PROVE Mapped
  BY <1>1, <1>4 DEF GuestStep, Register, ReconcileGuest, Heartbeat
<1>5. CASE CheckStuckTasks
  <2>1. \A S \in StuckTasks : S \in SUBSET {t \in Task : IsActive(t)}
    BY DEF StuckTasks, Overdue
  <2> QED BY <1>2, <1>5, <2>1, RequeueIsRevoke DEF CheckStuckTasks
<1>6. CASE CheckSilentGuests
  BY <1>2, <1>6, FailingIsAbandon DEF CheckSilentGuests
<1>7. CASE RemoveStaleGuests
  BY <1>2, <1>7, FailingIsAbandon DEF RemoveStaleGuests
<1>8. CASE Restart
  <2>1. stored = {t \in Task : status[t] \in {"PENDING", "ASSIGNED", "RUNNING"}}
    BY DEF StoreMirrorsTable
  <2>2. \A t \in Task : HolderOf(t)' = NoGuest
    BY <1>8 DEF Restart, HolderOf
  <2>3. \A t \in Task : status[t] # "ABSENT" => t <= created
    BY DEF Consistent, IdsConsistent
  <2>4. \A t \in Task :
          PhaseOf(t)' = IF Lifecycle!InPhase(t, Lifecycle!Open) THEN "PENDING"
                        ELSE IF Lifecycle!InPhase(t, Lifecycle!Ended) THEN "FORGOTTEN"
                        ELSE Phases[t]
    BY <1>8, <2>1, <2>3
       DEF Restart, PhaseOf, Phases, Lifecycle!InPhase, Lifecycle!Open, Lifecycle!Held,
           Lifecycle!Ended, TypeOK, TaskStatus, Terminal
  <2>5. Lifecycle!ServerRestart
    BY <2>2, <2>4 DEF Lifecycle!ServerRestart, Phases
  <2> QED BY <2>5 DEF Lifecycle!LifecycleNext
<1>9. CASE TryAssignNext
  BY <1>9, HandIsGrant
     DEF TryAssignNext, NextPendingTask, Pending, FindAvailableGuests, TypeOK
<1>10. CASE Tick
  BY <1>2, <1>10 DEF Tick
<1> QED
  BY <1>1, <1>3, <1>4, <1>5, <1>6, <1>7, <1>8, <1>9, <1>10
     DEF Next, Sweep, SetMaxGuests, vars

(* Where guests do not unregister and the store does not fail, every step  *)
(* of the orchestrator is a step of TaskLifecycle: accepted tasks are not  *)
(* lost, are held by one guest at a time, and end once.                    *)
THEOREM LifecycleCorrect ==
  ASSUME ~GuestsUnregister, ~StoreFaults
  PROVE  Spec => KeepsLifecycle
<1>1. Init => Lifecycle!LifecycleInit
  BY DEF Init, Lifecycle!LifecycleInit, PhaseOf, HolderOf, IsActive, Active
<1>2. TypeOK /\ Consistent /\ StoreMirrorsTable /\ [Next]_vars
        => [Lifecycle!LifecycleNext]_(Lifecycle!lifecycleVars)
  BY LifecycleStep
<1> QED BY <1>1, <1>2, TypeCorrect, ConsistencyCorrect, StoreCorrect, PTL
      DEF Spec, KeepsLifecycle, Lifecycle!LifecycleSpec

HIDE DEF Never, GuestState, SweepStep
-------------------------------------------------------------------------------
(* The protocol.                                                           *)

(* What is under way names tasks that may exist: every call but a          *)
(* registration and an idle heartbeat carries the id of a task, ...        *)
ValidCall == {c \in Call : c.m \notin {"register", "heartbeat"} => c.t \in Task}
CallsOK == calls \in [Guest -> Seq(ValidCall)]

DoingOK == \A g \in Guest : stage[g] # "idle" => doing[g] \in Task

(* ... and so do the local variables of a thread that is about to use them:*)
(* a guest is only tried for a task whose tags it has, and the last        *)
(* broadcast of a handler names a status.                                  *)
ValidLocal ==
  {l \in Local :
     /\ l.at \in {"end", "declined", "cancel", "signal", "last"} => l.t \in Task
     /\ l.at = "end" => l.say \in Final
     /\ l.at = "requeue" => l.g \in Guest
     /\ l.at \in {"assign", "push", "rollback", "assigned"}
          => l.t \in Task /\ l.g \in Guest /\ l.t \in Serves[l.g]
     /\ l.only # NoTask => \A g \in l.todo : l.only \in Serves[g]
     /\ l.told # NoTask => l.say \in TaskStatus}
ThreadOK == th \in [Thread -> ValidLocal]

WireTypeOK ==
  /\ link \in [Guest -> BOOLEAN]
  /\ conn \in [Guest -> {"none", "open", "dead"}]
  /\ faults \in 0..MaxFaults
  /\ signals \in [Guest -> SUBSET Task]

WorkTypeOK ==
  /\ inbox \in [Guest -> Seq(Task)]
  /\ doing \in [Guest -> 0..MaxTasks]
  /\ stage \in [Guest -> {"idle", "acking", "running", "ending"}]

ScreenTypeOK == screen \in [Task -> TaskStatus]

ProtocolInv ==
  /\ TypeOK /\ Consistent /\ WireTypeOK /\ WorkTypeOK /\ ScreenTypeOK
  /\ CallsOK /\ DoingOK /\ ThreadOK

LEMMA InvTypes == ProtocolInv => ProtocolTypeOK
<1> SUFFICES ASSUME ProtocolInv PROVE ProtocolTypeOK
  OBVIOUS
<1>1. Seq(ValidCall) \subseteq Seq(Call) BY SeqMonotonic DEF ValidCall
<1>2. calls \in [Guest -> Seq(Call)] BY <1>1 DEF ProtocolInv, CallsOK
<1>3. th \in [Thread -> Local] BY DEF ProtocolInv, ThreadOK, ValidLocal
<1> QED
  BY <1>2, <1>3 DEF ProtocolInv, ProtocolTypeOK, WireTypeOK, WorkTypeOK, ScreenTypeOK
-------------------------------------------------------------------------------
(* The places a thread can be at. *)
Place == {"idle", "end", "declined", "cancel", "signal", "requeue", "next", "assign",
          "push", "rollback", "assigned", "last"}

(* What the handlers put into a thread's local variables is valid.         *)
LEMMA FieldOK ==
  ASSUME NEW l \in Local
  PROVE  /\ \A place \in Place : [l EXCEPT !.at = place] \in Local
         /\ \A t \in 0..MaxTasks : /\ [l EXCEPT !.t = t] \in Local
                                   /\ [l EXCEPT !.only = t] \in Local
                                   /\ [l EXCEPT !.told = t] \in Local
         /\ \A g \in Guest \cup {NoGuest} : [l EXCEPT !.g = g] \in Local
         /\ \A S \in SUBSET Guest : [l EXCEPT !.todo = S] \in Local
         /\ \A s \in TaskStatus : [l EXCEPT !.say = s] \in Local
  BY DEF Local, Place

LEMMA RestValid == Rest \in Local /\ Rest \in ValidLocal
  <1>1. Rest \in Local BY MaxTasksAssumption DEF Rest, Local
  <1> QED BY <1>1 DEF Rest, ValidLocal

LEMMA SayingValid ==
  ASSUME NEW t \in 0..MaxTasks, NEW s \in TaskStatus
  PROVE  Saying(t, s) \in Local /\ Saying(t, s) \in ValidLocal
  <1>1. Saying(t, s) \in Local
    BY RestValid, FieldOK DEF Saying, Place
  <1> QED BY <1>1, RestValid DEF Saying, Rest, ValidLocal

LEMMA GoOK ==
  ASSUME ThreadOK, NEW w \in Thread, NEW l \in ValidLocal, Go(w, l)
  PROVE  ThreadOK'
  BY DEF ThreadOK, Go

(* What the wire carries stays valid when a call is added, handled or lost.*)
LEMMA SubmitOK ==
  ASSUME CallsOK, NEW g \in Guest, NEW m, NEW t, [m |-> m, t |-> t] \in ValidCall,
         Submit(g, m, t)
  PROVE  CallsOK'
<1>1. CASE link[g]
  <2>1. Append(calls[g], [m |-> m, t |-> t]) \in Seq(ValidCall)
    BY AppendProperties DEF CallsOK
  <2> QED BY <1>1, <2>1 DEF Submit, CallsOK
<1>2. CASE ~link[g]
  BY <1>2 DEF Submit, CallsOK
<1> QED BY <1>1, <1>2

LEMMA HeadCall ==
  ASSUME CallsOK, NEW g \in Guest, NEW m, Arrives(g, m)
  PROVE  /\ Head(calls[g]) \in ValidCall
         /\ Head(calls[g]).m = m
         /\ Tail(calls[g]) \in Seq(ValidCall)
  BY HeadTailProperties DEF CallsOK, Arrives

LEMMA TakenOK ==
  ASSUME CallsOK, NEW g \in Guest, NEW m, Arrives(g, m), Taken(g)
  PROVE  CallsOK'
  BY HeadCall DEF CallsOK, Taken

LEMMA CutOK ==
  ASSUME CallsOK, NEW g \in Guest, NEW k \in 0..Len(calls[g]),
         calls' = [calls EXCEPT ![g] = SubSeq(@, 1, k)]
  PROVE  CallsOK'
<1>1. \A i \in 1..k : calls[g][i] \in ValidCall
  BY ElementOfSeq, LenProperties DEF CallsOK
<1>2. SubSeq(calls[g], 1, k) \in Seq(ValidCall)
  BY <1>1, SubSeqProperties, LenProperties DEF CallsOK
<1> QED BY <1>2 DEF CallsOK
-------------------------------------------------------------------------------
(* Every action is a step of Orchestrator, or none.                        *)
LEMMA RefinedStep == ProtocolInv /\ [ProtocolNext]_protocolVars => [Next]_vars
<1> SUFFICES ASSUME ProtocolInv, ProtocolNext PROVE [Next]_vars
  BY DEF protocolVars
<1> USE DEF ProtocolInv
<1>1. ASSUME NEW t \in Task, TaskStep(t) PROVE [Next]_vars
  BY <1>1 DEF Next
<1>2. ASSUME NEW g \in Guest, GuestStep(g) PROVE [Next]_vars
  BY <1>2 DEF Next
<1>3. ASSUME NEW g \in Guest, HandleRegister(g) PROVE [Next]_vars
  BY <1>2, <1>3 DEF HandleRegister, GuestStep
<1>4. ASSUME NEW g \in Guest, HandleHeartbeat(g) PROVE [Next]_vars
  <2>1. Head(calls[g]) \in ValidCall BY <1>4, HeadCall DEF HandleHeartbeat
  <2>2. Arg(g) = NoTask \/ Arg(g) \in Task
    BY <2>1, MaxTasksAssumption DEF ValidCall, Call, Arg
  <2> QED BY <1>1, <1>2, <1>4, <2>2 DEF HandleHeartbeat, GuestStep, TaskStep
<1>5. ASSUME NEW g \in Guest, HandleAcknowledge(g) PROVE [Next]_vars
  <2>1. Head(calls[g]) \in ValidCall /\ Head(calls[g]).m = "acknowledge"
    BY <1>5, HeadCall DEF HandleAcknowledge
  <2>2. Arg(g) \in Task BY <2>1 DEF ValidCall, Arg
  <2> QED BY <1>1, <1>5, <2>2 DEF HandleAcknowledge, TaskStep
<1>6. ASSUME NEW g \in Guest, EndReported(g) PROVE [Next]_vars
  <2>1. th[g] \in ValidLocal BY DEF ThreadOK, Thread
  <2>2. /\ th[g].t \in Task /\ th[g].g \in Guest \cup {NoGuest}
        /\ th[g].say \in {"COMPLETED", "FAILED"}
    BY <1>6, <2>1 DEF EndReported, ValidLocal, Local, Final
  <2> QED BY <1>1, <1>6, <2>2 DEF EndReported, TaskStep, CompleteTask, FailTask
<1>7. ASSUME NEW g \in Guest, HandleDeclined(g) PROVE [Next]_vars
  <2>1. Head(calls[g]) \in ValidCall /\ Head(calls[g]).m = "declined"
    BY <1>7, HeadCall DEF HandleDeclined
  <2>2. Arg(g) \in Task BY <2>1 DEF ValidCall, Arg
  <2> QED BY <1>1, <1>7, <2>2 DEF HandleDeclined, TaskStep
<1>8. ASSUME NEW g \in Guest, HandleCancelled(g) PROVE [Next]_vars
  <2>1. Head(calls[g]) \in ValidCall /\ Head(calls[g]).m = "cancelled"
    BY <1>8, HeadCall DEF HandleCancelled
  <2>2. Arg(g) \in Task BY <2>1 DEF ValidCall, Arg
  <2> QED BY <1>1, <1>8, <2>2 DEF HandleCancelled, TaskStep
<1>9. ASSUME NEW w \in Thread, Assign(w) PROVE [Next]_vars
  <2>1. th[w] \in ValidLocal BY DEF ThreadOK
  <2>2. th[w].t \in Task /\ th[w].g \in Guest /\ th[w].t \in Serves[th[w].g]
    BY <1>9, <2>1 DEF Assign, ValidLocal
  <2> QED BY <1>1, <1>9, <2>2 DEF Assign, TaskStep
<1>10. ASSUME NEW w \in Thread, Rollback(w) PROVE [Next]_vars
  BY <1>1, <1>10 DEF Rollback, RequeueTask, IsActive, TaskStep
<1>11. ASSUME RequeueLost PROVE [Next]_vars
  BY <1>1, <1>11 DEF RequeueLost, RequeueTask, IsActive, TaskStep
<1>12. ASSUME CancelUnstarted PROVE [Next]_vars
  <2>1. th[Http] \in ValidLocal BY DEF ThreadOK, Thread
  <2>2. th[Http].t \in Task /\ th[Http].g \in Guest \cup {NoGuest}
    BY <1>12, <2>1 DEF CancelUnstarted, ValidLocal, Local
  <2> QED BY <1>1, <1>12, <2>2 DEF CancelUnstarted, TaskStep
<1>13. ASSUME NEW t \in Task, CreateTask(t) PROVE [Next]_vars
  BY <1>1, <1>13 DEF CreateTask, TaskStep
<1>14. ASSUME Probe PROVE [Next]_vars
  BY <1>14 DEF Probe, Next
<1>15. ASSUME TimePasses PROVE [Next]_vars
  BY <1>15 DEF TimePasses, Next
<1>16. ASSUME NEW g \in Guest,
              Connect(g) \/ Break(g) \/ Crash(g) \/ Decline(g) \/ SendHeartbeat(g)
                \/ Listens(g) \/ Executes(g) \/ NoticeLoss(g)
                \/ HandleResult(g) \/ OfferElsewhere(g)
       PROVE  UNCHANGED vars
  BY <1>16 DEF Connect, Break, Crash, Decline, SendHeartbeat, Listens, TakeAssignment,
               ConfirmCancel, Executes, SendResult, EndExecution, NoticeLoss,
               HandleResult, OfferElsewhere
<1>17. ASSUME NEW w \in Thread,
              Pick(w) \/ Push(w) \/ AnnounceAssigned(w) \/ AnnounceLast(w)
       PROVE  UNCHANGED vars
  BY <1>17 DEF Pick, Push, AnnounceAssigned, AnnounceLast
<1>18. ASSUME NEW t \in Task, RequestCancel(t) PROVE UNCHANGED vars
  BY <1>18 DEF RequestCancel
<1>19. ASSUME SignalCancel \/ AnnounceStatus PROVE UNCHANGED vars
  BY <1>19 DEF SignalCancel, AnnounceStatus
<1> QED
  BY <1>3, <1>4, <1>5, <1>6, <1>7, <1>8, <1>9, <1>10, <1>11, <1>12, <1>13, <1>14,
     <1>15, <1>16, <1>17, <1>18, <1>19
     DEF ProtocolNext, Handle, Continue, HttpWorks
-------------------------------------------------------------------------------
(* The local variables of the threads stay valid.                          *)
LEMMA ThreadStep == ProtocolInv /\ [ProtocolNext]_protocolVars => ThreadOK'
<1> SUFFICES ASSUME ProtocolInv, ProtocolNext PROVE ThreadOK'
  BY DEF protocolVars, ProtocolInv, ThreadOK
<1> USE DEF ProtocolInv
<1> USE RestValid, MaxTasksAssumption
<1>1. ASSUME NEW w \in Thread, NEW l \in ValidLocal, Go(w, l) PROVE ThreadOK'
  BY <1>1, GoOK
<1>2. \A w \in Thread : th[w] \in ValidLocal /\ th[w] \in Local
  BY DEF ThreadOK, ValidLocal
<1>3. ASSUME NEW t \in 0..MaxTasks, NEW s \in TaskStatus, NEW S \in SUBSET Guest
      PROVE  [Saying(t, s) EXCEPT !.todo = S] \in ValidLocal
  <2>1. [Saying(t, s) EXCEPT !.todo = S] \in Local
    BY SayingValid, FieldOK
  <2> QED BY <2>1, SayingValid DEF Saying, Rest, ValidLocal
<1>4. ASSUME NEW S \in SUBSET Guest
      PROVE  [Rest EXCEPT !.at = "next", !.todo = S] \in ValidLocal
  <2>1. [Rest EXCEPT !.at = "next", !.todo = S] \in Local
    BY FieldOK DEF Place
  <2> QED BY <2>1 DEF Rest, ValidLocal
<1>5. ASSUME NEW place \in {"end", "declined", "cancel", "signal"}, NEW t \in Task,
             NEW g \in Guest \cup {NoGuest}, NEW s \in Final
      PROVE  /\ [Rest EXCEPT !.at = place, !.t = t, !.g = g, !.say = s] \in ValidLocal
             /\ place # "end" => [Rest EXCEPT !.at = place, !.t = t, !.g = g] \in ValidLocal
             /\ place # "end" => [Rest EXCEPT !.at = place, !.t = t] \in ValidLocal
  <2>1. /\ [Rest EXCEPT !.at = place, !.t = t, !.g = g, !.say = s] \in Local
        /\ [Rest EXCEPT !.at = place, !.t = t, !.g = g] \in Local
        /\ [Rest EXCEPT !.at = place, !.t = t] \in Local
    <3>1. place \in Place /\ t \in 0..MaxTasks /\ s \in TaskStatus
      BY DEF Place, Final, TaskStatus, Terminal
    <3> QED BY <3>1, FieldOK
  <2>2. [Rest EXCEPT !.at = place, !.t = t, !.g = g, !.say = s] \in ValidLocal
    <3> DEFINE l == [Rest EXCEPT !.at = place, !.t = t, !.g = g, !.say = s]
    <3>1. l.at = place /\ l.t = t /\ l.say = s /\ l.only = NoTask /\ l.told = NoTask
      BY DEF Rest
    <3>2. l \in Local BY <2>1
    <3> HIDE DEF l
    <3>3. l \in ValidLocal BY <3>1, <3>2 DEF ValidLocal
    <3> QED BY <3>3 DEF l
  <2>3. place # "end" => [Rest EXCEPT !.at = place, !.t = t, !.g = g] \in ValidLocal
    BY <2>1 DEF Rest, ValidLocal
  <2>4. place # "end" => [Rest EXCEPT !.at = place, !.t = t] \in ValidLocal
    BY <2>1 DEF Rest, ValidLocal
  <2> QED BY <2>2, <2>3, <2>4
<1>6. ASSUME NEW g \in Guest,
             Connect(g) \/ Break(g) \/ Crash(g) \/ Decline(g) \/ SendHeartbeat(g)
               \/ Listens(g) \/ Executes(g) \/ HandleHeartbeat(g)
      PROVE  ThreadOK'
  BY <1>6 DEF Connect, Break, Crash, Decline, SendHeartbeat, Listens, TakeAssignment,
               ConfirmCancel, Executes, SendResult, EndExecution, HandleHeartbeat,
               ThreadOK
<1>7. ASSUME NEW g \in Guest, HandleRegister(g) PROVE ThreadOK'
  BY <1>7, <1>1, <1>4 DEF HandleRegister, Thread, ThreadOK
<1>8. ASSUME NEW g \in Guest, NEW m \in {"acknowledge", "declined", "cancelled"} \cup Final,
             Arrives(g, m)
      PROVE  Arg(g) \in Task /\ Head(calls[g]).m = m
  BY <1>8, HeadCall DEF ValidCall, Arg, Final
<1>9. ASSUME NEW g \in Guest, HandleAcknowledge(g) PROVE ThreadOK'
  <2>1. Saying(Arg(g), "RUNNING") \in ValidLocal
    BY <1>8, <1>9, SayingValid DEF HandleAcknowledge, TaskStatus, Active
  <2> QED BY <1>9, <2>1, <1>1 DEF HandleAcknowledge, Thread, ThreadOK
<1>10. ASSUME NEW g \in Guest, HandleResult(g) PROVE ThreadOK'
  <2>1. PICK final \in Final : Arrives(g, final) BY <1>10 DEF HandleResult
  <2>2. Arg(g) \in Task /\ Head(calls[g]).m \in Final BY <2>1, <1>8
  <2>3. assignedTo[Arg(g)] \in Guest \cup {NoGuest}
    BY <2>2 DEF TypeOK
  <2> QED BY <1>10, <2>2, <2>3, <1>1, <1>5 DEF HandleResult, Thread
<1>11. ASSUME NEW g \in Guest, EndReported(g) PROVE ThreadOK'
  <2>1. g \in Thread BY DEF Thread
  <2>2. /\ th[g].t \in 0..MaxTasks
        /\ th[g].say \in TaskStatus
        /\ {th[g].g} \ {NoGuest} \in SUBSET Guest
    BY <1>11, <1>2, <2>1 DEF EndReported, ValidLocal, Local, Final, TaskStatus, Terminal
  <2> QED BY <1>11, <2>1, <2>2, <1>1, <1>3 DEF EndReported
<1>12. ASSUME NEW g \in Guest, HandleDeclined(g) PROVE ThreadOK'
  <2>1. [Rest EXCEPT !.at = "declined", !.t = Arg(g)] \in ValidLocal
    BY <1>12, <1>5, <1>8 DEF HandleDeclined, Final
  <2> QED BY <1>12, <2>1, <1>1 DEF HandleDeclined, Thread, ThreadOK
<1>13. ASSUME NEW g \in Guest, OfferElsewhere(g) PROVE ThreadOK'
  <2> DEFINE t == th[g].t
             l == [Rest EXCEPT !.at = "next", !.only = t,
                               !.todo = FindAvailableGuests(t) \ {g}]
  <2>1. g \in Thread BY DEF Thread
  <2>2. t \in Task BY <1>13, <1>2, <2>1 DEF OfferElsewhere, ValidLocal
  <2>3. FindAvailableGuests(t) \ {g} \in SUBSET Guest
    BY DEF FindAvailableGuests, TypeOK
  <2>4. l \in Local
    <3>1. "next" \in Place /\ t \in 0..MaxTasks BY <2>2 DEF Place
    <3> QED BY <2>3, <3>1, FieldOK
  <2>5. /\ l.at = "next" /\ l.only = t /\ l.told = NoTask
        /\ l.todo = FindAvailableGuests(t) \ {g}
    BY DEF Rest
  <2>6. \A h \in l.todo : l.only \in Serves[h] BY <2>5 DEF FindAvailableGuests
  <2> HIDE DEF l
  <2>7. l \in ValidLocal BY <2>4, <2>5, <2>6 DEF ValidLocal
  <2> QED BY <1>13, <2>1, <2>7, <1>1 DEF OfferElsewhere, l
<1>14. ASSUME NEW g \in Guest, HandleCancelled(g) PROVE ThreadOK'
  <2>1. Saying(Arg(g), "CANCELLED") \in ValidLocal
    BY <1>8, <1>14, SayingValid DEF HandleCancelled, TaskStatus, Terminal
  <2> QED BY <1>14, <2>1, <1>1 DEF HandleCancelled, Thread, ThreadOK
<1>15. ASSUME NEW w \in Thread, Pick(w) PROVE ThreadOK'
  <2>1. PICK g \in th[w].todo :
          LET left == [th[w] EXCEPT !.todo = @ \ {g}]
          IN  \/ Go(w, left)
              \/ \E t \in Task : t \in Serves[g]
                   /\ Go(w, [left EXCEPT !.at = "assign", !.t = t, !.g = g])
    <3>1. th[w].only # NoTask => \A g \in th[w].todo :
            th[w].only \in Task /\ th[w].only \in Serves[g]
      BY <1>2 DEF ValidLocal, Local
    <3> QED BY <1>15, <3>1 DEF Pick, FirstFor
  <2> DEFINE left == [th[w] EXCEPT !.todo = @ \ {g}]
  <2>2. g \in Guest /\ th[w].todo \ {g} \in SUBSET Guest
    BY <1>2, <2>1 DEF Local
  <2>3. left \in Local BY <1>2, <2>2, FieldOK
  <2>4. left \in ValidLocal BY <1>2, <1>15, <2>3 DEF Pick, ValidLocal, Local
  <2>5. ASSUME NEW t \in Task, t \in Serves[g]
        PROVE  [left EXCEPT !.at = "assign", !.t = t, !.g = g] \in ValidLocal
    <3> HIDE DEF left
    <3>1. [left EXCEPT !.at = "assign", !.t = t, !.g = g] \in Local
      <4>1. "assign" \in Place /\ t \in 0..MaxTasks BY <2>5 DEF Place
      <4> QED BY <2>2, <2>3, <4>1, FieldOK
    <3> DEFINE l == [left EXCEPT !.at = "assign", !.t = t, !.g = g]
    <3>2. /\ l.at = "assign" /\ l.t = t /\ l.g = g
          /\ l.only = left.only /\ l.todo = left.todo
          /\ l.told = left.told /\ l.say = left.say
      BY <2>3 DEF Local
    <3>5. l \in Local BY <3>1
    <3>3. /\ left.only # NoTask => \A h \in left.todo : left.only \in Serves[h]
          /\ left.told # NoTask => left.say \in TaskStatus
      BY <2>4 DEF ValidLocal
    <3> HIDE DEF l
    <3>4. l \in ValidLocal BY <2>2, <2>5, <3>2, <3>3, <3>5 DEF ValidLocal
    <3> QED BY <3>4 DEF l
  <2> QED BY <2>1, <2>4, <2>5, <1>1
<1>16. ASSUME NEW w \in Thread, NEW place \in Place, At(w, place),
              place \in {"push", "rollback", "assigned"} => th[w].at \in {"assign", "push"},
              place \in {"push", "assigned", "next", "rollback", "last"},
              place = "last" => th[w].t \in Task
       PROVE  ThreadOK'
  <2>1. [th[w] EXCEPT !.at = place] \in Local BY <1>2, FieldOK
  <2>2. [th[w] EXCEPT !.at = place] \in ValidLocal
    BY <2>1, <1>2, <1>16 DEF ValidLocal, Local
  <2> QED BY <1>16, <2>2, <1>1 DEF At
<1>17. ASSUME NEW w \in Thread, Assign(w) \/ Push(w) \/ Rollback(w) PROVE ThreadOK'
  BY <1>16, <1>17 DEF Assign, Push, Rollback, Place
<1>18. ASSUME NEW w \in Thread, AnnounceAssigned(w) PROVE ThreadOK'
  <2> DEFINE l == [th[w] EXCEPT !.at = "next",
                                !.todo = IF th[w].only = NoTask THEN @ ELSE {}]
  <2>1. (IF th[w].only = NoTask THEN th[w].todo ELSE {}) \in SUBSET Guest
    BY <1>2 DEF Local
  <2>2. l \in Local BY <2>1, <1>2, FieldOK DEF Place
  <2>3. /\ l.at = "next" /\ l.only = th[w].only /\ l.todo \subseteq th[w].todo
        /\ l.told = th[w].told /\ l.say = th[w].say
    BY <1>2 DEF Local
  <2>4. /\ th[w].only # NoTask => \A g \in th[w].todo : th[w].only \in Serves[g]
        /\ th[w].told # NoTask => th[w].say \in TaskStatus
    BY <1>2 DEF ValidLocal
  <2> HIDE DEF l
  <2>5. l \in ValidLocal BY <2>2, <2>3, <2>4 DEF ValidLocal
  <2> QED BY <1>18, <2>5, <1>1 DEF AnnounceAssigned, l
<1>19. ASSUME NEW w \in Thread, AnnounceLast(w) PROVE ThreadOK'
  BY <1>19, <1>1 DEF AnnounceLast
<1>20. ASSUME NEW g \in Guest, NoticeLoss(g) PROVE ThreadOK'
  <2>1. [Rest EXCEPT !.at = "requeue", !.g = g] \in Local BY FieldOK DEF Place
  <2>2. [Rest EXCEPT !.at = "requeue", !.g = g] \in ValidLocal
    BY <2>1 DEF Rest, ValidLocal
  <2> QED BY <1>20, <2>2, <1>1 DEF NoticeLoss, Thread, ThreadOK
<1>21. ASSUME RequeueLost PROVE ThreadOK'
  <2>1. Run \in Thread BY DEF Thread
  <2>2. guestTask[th[Run].g] \in 0..MaxTasks
    BY <1>21, <2>1, <1>2 DEF RequeueLost, ValidLocal, TypeOK
  <2>3. "PENDING" \in TaskStatus BY DEF TaskStatus
  <2> QED BY <1>21, <2>1, <2>2, <2>3, <1>1, SayingValid DEF RequeueLost
<1>22. Http \in Thread BY DEF Thread
<1>23. ASSUME NEW t \in Task, CreateTask(t) PROVE ThreadOK'
  <2>1. PICK todo \in {{}} \cup {{g} : g \in FindAvailableGuests(t)} :
          Go(Http, [Rest EXCEPT !.at = "next", !.todo = todo])
    BY <1>23 DEF CreateTask
  <2>2. todo \in SUBSET Guest
    BY <2>1 DEF FindAvailableGuests, TypeOK
  <2> QED BY <2>1, <2>2, <1>1, <1>4, <1>22
<1>24. ASSUME NEW t \in Task, RequestCancel(t) PROVE ThreadOK'
  <2>1. assignedTo[t] \in Guest \cup {NoGuest} BY DEF TypeOK
  <2>2. PICK place \in {"cancel", "signal"} :
          Go(Http, [Rest EXCEPT !.at = place, !.t = t, !.g = assignedTo[t]])
    BY <1>24 DEF RequestCancel
  <2>3. [Rest EXCEPT !.at = place, !.t = t, !.g = assignedTo[t]] \in ValidLocal
    BY <2>1, <1>5 DEF Final
  <2> QED BY <2>2, <2>3, <1>1, <1>22
<1>25. ASSUME CancelUnstarted \/ SignalCancel PROVE ThreadOK'
  <2>1. th[Http].t \in Task
    BY <1>25, <1>2, <1>22 DEF CancelUnstarted, SignalCancel, ValidLocal
  <2> QED BY <1>25, <2>1, <1>1, <1>16, <1>22 DEF CancelUnstarted, SignalCancel, Place
<1>26. ASSUME AnnounceStatus PROVE ThreadOK'
  BY <1>26, <1>1, <1>22 DEF AnnounceStatus
<1>27. ASSUME Probe PROVE ThreadOK'
  <2>1. Sweeper \in Thread BY DEF Thread
  <2>2. registered \in SUBSET Guest BY DEF TypeOK
  <2> QED BY <1>27, <2>1, <2>2, <1>1, <1>4 DEF Probe, ThreadOK
<1>28. ASSUME TimePasses PROVE ThreadOK'
  BY <1>28 DEF TimePasses, ThreadOK
<1> QED
  BY <1>28, <1>6, <1>7, <1>9, <1>10, <1>11, <1>12, <1>13, <1>14, <1>15, <1>17, <1>18, <1>19,
     <1>20, <1>21, <1>23, <1>24, <1>25, <1>26, <1>27
     DEF ProtocolNext, Handle, Continue, HttpWorks
-------------------------------------------------------------------------------
(* What is on the wire stays valid.                                        *)
LEMMA CallsStep == ProtocolInv /\ [ProtocolNext]_protocolVars => CallsOK'
<1> SUFFICES ASSUME ProtocolInv, ProtocolNext PROVE CallsOK'
  BY DEF protocolVars, wireVars, ProtocolInv, CallsOK
<1> USE DEF ProtocolInv
<1>1. ASSUME NEW g \in Guest, NEW m \in {"acknowledge", "declined", "cancelled"} \cup Final,
             NEW t \in Task, Submit(g, m, t)
      PROVE  CallsOK'
  <2>1. [m |-> m, t |-> t] \in ValidCall
    BY <1>1, MaxTasksAssumption DEF ValidCall, Call, Final
  <2> QED BY <1>1, <2>1, SubmitOK
<1>2. ASSUME NEW g \in Guest, NEW t \in 0..MaxTasks, Submit(g, "heartbeat", t)
      PROVE  CallsOK'
  <2>1. [m |-> "heartbeat", t |-> t] \in ValidCall
    BY <1>2 DEF ValidCall, Call
  <2> QED BY <1>2, <2>1, SubmitOK
<1>3. ASSUME NEW g \in Guest, Connect(g) PROVE CallsOK'
  <2>1. [m |-> "register", t |-> NoTask] \in ValidCall
    BY MaxTasksAssumption DEF ValidCall, Call
  <2> DEFINE c == [m |-> "register", t |-> NoTask]
  <2> HIDE DEF c
  <2>2. <<c>> \in Seq(ValidCall) BY <2>1 DEF c
  <2> QED BY <1>3, <2>2 DEF Connect, CallsOK, c
<1>4. ASSUME NEW g \in Guest, Break(g) \/ Crash(g) PROVE CallsOK'
  BY <1>4, CutOK DEF Break, Crash
<1>5. ASSUME NEW g \in Guest, TakeAssignment(g) \/ Decline(g) PROVE CallsOK'
  <2>1. inbox[g] \in Seq(Task) /\ inbox[g] # <<>>
    BY <1>5 DEF TakeAssignment, Decline, WorkTypeOK
  <2>2. Head(inbox[g]) \in Task BY <2>1, HeadTailProperties
  <2> QED BY <1>1, <1>5, <2>2 DEF TakeAssignment, Decline
<1>6. ASSUME NEW g \in Guest, SendResult(g) PROVE CallsOK'
  <2>1. doing[g] \in Task BY <1>6 DEF SendResult, DoingOK
  <2> QED BY <1>1, <1>6, <2>1 DEF SendResult
<1>7. ASSUME NEW g \in Guest, EndExecution(g) \/ SendHeartbeat(g) PROVE CallsOK'
  <2>1. doing[g] \in 0..MaxTasks /\ NoTask \in 0..MaxTasks
    BY MaxTasksAssumption DEF WorkTypeOK
  <2>2. CASE SendHeartbeat(g) BY <1>2, <2>1, <2>2 DEF SendHeartbeat
  <2>3. CASE EndExecution(g)
    <3>1. doing'[g] = NoTask BY <2>3 DEF EndExecution, WorkTypeOK
    <3> QED BY <1>2, <2>1, <2>3, <3>1 DEF EndExecution
  <2> QED BY <1>7, <2>2, <2>3
<1>8. ASSUME NEW g \in Guest, NEW t \in Task, ConfirmCancel(g, t) PROVE CallsOK'
  BY <1>1, <1>8 DEF ConfirmCancel
<1>9. ASSUME NEW g \in Guest,
             HandleRegister(g) \/ HandleHeartbeat(g) \/ HandleAcknowledge(g)
               \/ HandleResult(g) \/ HandleDeclined(g) \/ HandleCancelled(g)
      PROVE  CallsOK'
  BY <1>9, TakenOK DEF HandleRegister, HandleHeartbeat, HandleAcknowledge, HandleResult,
                       HandleDeclined, HandleCancelled
<1>10. ASSUME UNCHANGED calls PROVE CallsOK'
  BY <1>10 DEF CallsOK
<1>11. ASSUME NEW g \in Guest, EndReported(g) \/ OfferElsewhere(g) \/ NoticeLoss(g)
       PROVE  UNCHANGED calls
  BY <1>11 DEF EndReported, OfferElsewhere, NoticeLoss, wireVars
<1>12. ASSUME NEW w \in Thread, Continue(w) PROVE UNCHANGED calls
  BY <1>12 DEF Continue, Pick, Assign, Push, Rollback, AnnounceAssigned, AnnounceLast,
               wireVars
<1>13. ASSUME RequeueLost \/ HttpWorks \/ Probe \/ TimePasses PROVE UNCHANGED calls
  BY <1>13 DEF RequeueLost, HttpWorks, CancelUnstarted, SignalCancel, AnnounceStatus,
               Probe, TimePasses, wireVars
<1>14. ASSUME NEW t \in Task, CreateTask(t) \/ RequestCancel(t) PROVE UNCHANGED calls
  BY <1>14 DEF CreateTask, RequestCancel, wireVars
<1> QED
  BY <1>3, <1>4, <1>5, <1>6, <1>7, <1>8, <1>9, <1>10, <1>11, <1>12, <1>13, <1>14
     DEF ProtocolNext, Handle, Listens, Executes

LEMMA WireStep == ProtocolInv /\ [ProtocolNext]_protocolVars => WireTypeOK'
<1> SUFFICES ASSUME ProtocolInv, ProtocolNext PROVE WireTypeOK'
  BY DEF protocolVars, wireVars, ProtocolInv, WireTypeOK
<1>1. WireTypeOK BY DEF ProtocolInv, WireTypeOK
<1>2. ASSUME NEW g \in Guest,
             Connect(g) \/ HandleRegister(g) \/ NoticeLoss(g) \/
             (\E t \in Task : ConfirmCancel(g, t))
      PROVE  WireTypeOK'
  BY <1>1, <1>2 DEF Connect, HandleRegister, NoticeLoss, ConfirmCancel, WireTypeOK
<1>3. ASSUME NEW g \in Guest, Break(g) \/ Crash(g) PROVE WireTypeOK'
  <2>1. faults' \in 0..MaxFaults
    BY <1>1, <1>3, ProtocolAssumption DEF Break, Crash, WireTypeOK
  <2> QED BY <1>1, <1>3, <2>1 DEF Break, Crash, WireTypeOK
<1>4. ASSUME SignalCancel PROVE WireTypeOK'
  <2>1. th[Http].t \in Task
    BY <1>4 DEF SignalCancel, ProtocolInv, ThreadOK, ValidLocal, Thread
  <2> QED BY <1>1, <1>4, <2>1 DEF SignalCancel, WireTypeOK
<1>5. ASSUME UNCHANGED <<link, conn, faults, signals>> PROVE WireTypeOK'
  BY <1>1, <1>5 DEF WireTypeOK
<1>6. ASSUME NEW g \in Guest,
             \/ Decline(g) \/ SendHeartbeat(g) \/ TakeAssignment(g) \/ Executes(g)
             \/ HandleHeartbeat(g) \/ HandleAcknowledge(g) \/ HandleResult(g)
             \/ EndReported(g) \/ HandleDeclined(g) \/ OfferElsewhere(g)
             \/ HandleCancelled(g)
      PROVE  UNCHANGED <<link, conn, faults, signals>>
  BY <1>6 DEF Decline, SendHeartbeat, TakeAssignment, Executes, SendResult, EndExecution,
              HandleHeartbeat, HandleAcknowledge, HandleResult, EndReported,
              HandleDeclined, OfferElsewhere, HandleCancelled, wireVars
<1>7. ASSUME NEW w \in Thread, Continue(w)
      PROVE  UNCHANGED <<link, conn, faults, signals>>
  BY <1>7 DEF Continue, Pick, Assign, Push, Rollback, AnnounceAssigned, AnnounceLast,
              wireVars
<1>8. ASSUME RequeueLost \/ CancelUnstarted \/ AnnounceStatus \/ Probe \/ TimePasses
      PROVE  UNCHANGED <<link, conn, faults, signals>>
  BY <1>8 DEF RequeueLost, CancelUnstarted, AnnounceStatus, Probe, TimePasses, wireVars
<1>9. ASSUME NEW t \in Task, CreateTask(t) \/ RequestCancel(t)
      PROVE  UNCHANGED <<link, conn, faults, signals>>
  BY <1>9 DEF CreateTask, RequestCancel, wireVars
<1> QED
  BY <1>2, <1>3, <1>4, <1>5, <1>6, <1>7, <1>8, <1>9
     DEF ProtocolNext, Handle, Listens, HttpWorks

LEMMA WorkStep == ProtocolInv /\ [ProtocolNext]_protocolVars => WorkTypeOK' /\ DoingOK'
<1> SUFFICES ASSUME ProtocolInv, ProtocolNext PROVE WorkTypeOK' /\ DoingOK'
  BY DEF protocolVars, wireVars, workVars, ProtocolInv, WorkTypeOK, DoingOK
<1>1. WorkTypeOK /\ DoingOK BY DEF ProtocolInv, WorkTypeOK
<1>2. ASSUME NEW g \in Guest, inbox[g] # <<>>
      PROVE  Head(inbox[g]) \in Task /\ Tail(inbox[g]) \in Seq(Task)
  BY <1>1, <1>2, HeadTailProperties DEF WorkTypeOK
<1>3. ASSUME NEW g \in Guest, TakeAssignment(g) PROVE WorkTypeOK' /\ DoingOK'
  <2>1. Head(inbox[g]) \in Task /\ Tail(inbox[g]) \in Seq(Task)
    BY <1>2, <1>3 DEF TakeAssignment
  <2> QED BY <1>1, <1>3, <2>1, MaxTasksAssumption DEF TakeAssignment, WorkTypeOK, DoingOK
<1>4. ASSUME NEW g \in Guest, Decline(g) PROVE WorkTypeOK' /\ DoingOK'
  BY <1>1, <1>2, <1>4 DEF Decline, workVars, WorkTypeOK, DoingOK
<1>5. ASSUME NEW g \in Guest, Break(g) \/ Crash(g) PROVE WorkTypeOK' /\ DoingOK'
  <2>1. CASE Break(g) BY <1>1, <2>1 DEF Break, WorkTypeOK, DoingOK
  <2>2. CASE Crash(g)
    BY <1>1, <2>2, EmptySeq, MaxTasksAssumption DEF Crash, WorkTypeOK, DoingOK
  <2> QED BY <1>5, <2>1, <2>2
<1>6. ASSUME NEW g \in Guest, Executes(g) \/ HandleAcknowledge(g)
      PROVE  WorkTypeOK' /\ DoingOK'
  <2>1. CASE SendResult(g) BY <1>1, <2>1 DEF SendResult, WorkTypeOK, DoingOK
  <2>2. CASE EndExecution(g)
    BY <1>1, <2>2, MaxTasksAssumption DEF EndExecution, WorkTypeOK, DoingOK
  <2>3. CASE HandleAcknowledge(g)
    BY <1>1, <2>3 DEF HandleAcknowledge, WorkTypeOK, DoingOK
  <2> QED BY <1>6, <2>1, <2>2, <2>3 DEF Executes
<1>7. ASSUME NEW w \in Thread, Push(w) PROVE WorkTypeOK' /\ DoingOK'
  <2>1. th[w].t \in Task /\ th[w].g \in Guest
    BY <1>7 DEF Push, ProtocolInv, ThreadOK, ValidLocal
  <2>2. Append(inbox[th[w].g], th[w].t) \in Seq(Task)
    BY <1>1, <2>1, AppendProperties DEF WorkTypeOK
  <2> QED BY <1>1, <1>7, <2>1, <2>2 DEF Push, workVars, WorkTypeOK, DoingOK
<1>8. ASSUME UNCHANGED <<inbox, doing, stage>> PROVE WorkTypeOK' /\ DoingOK'
  BY <1>1, <1>8 DEF WorkTypeOK, DoingOK
<1>9. ASSUME NEW g \in Guest,
             \/ Connect(g) \/ SendHeartbeat(g) \/ (\E t \in Task : ConfirmCancel(g, t))
             \/ HandleRegister(g) \/ HandleHeartbeat(g) \/ HandleResult(g)
             \/ EndReported(g) \/ HandleDeclined(g) \/ OfferElsewhere(g)
             \/ HandleCancelled(g) \/ NoticeLoss(g)
      PROVE  UNCHANGED <<inbox, doing, stage>>
  BY <1>9 DEF Connect, SendHeartbeat, ConfirmCancel, HandleRegister, HandleHeartbeat,
              HandleResult, EndReported, HandleDeclined, OfferElsewhere,
              HandleCancelled, NoticeLoss, wireVars, workVars
<1>10. ASSUME NEW w \in Thread,
              Pick(w) \/ Assign(w) \/ Rollback(w) \/ AnnounceAssigned(w) \/ AnnounceLast(w)
       PROVE  UNCHANGED <<inbox, doing, stage>>
  BY <1>10 DEF Pick, Assign, Rollback, AnnounceAssigned, AnnounceLast, wireVars, workVars
<1>11. ASSUME RequeueLost \/ HttpWorks \/ Probe \/ TimePasses
       PROVE  UNCHANGED <<inbox, doing, stage>>
  BY <1>11 DEF RequeueLost, HttpWorks, CancelUnstarted, SignalCancel, AnnounceStatus,
               Probe, TimePasses, wireVars, workVars
<1>12. ASSUME NEW t \in Task, CreateTask(t) \/ RequestCancel(t)
       PROVE  UNCHANGED <<inbox, doing, stage>>
  BY <1>12 DEF CreateTask, RequestCancel, wireVars, workVars
<1>13. ASSUME NEW g \in Guest, Listens(g) \/ Handle(g) PROVE WorkTypeOK' /\ DoingOK'
  BY <1>13, <1>3, <1>6, <1>8, <1>9 DEF Listens, Handle
<1>14. ASSUME NEW w \in Thread, Continue(w) PROVE WorkTypeOK' /\ DoingOK'
  BY <1>14, <1>7, <1>8, <1>10 DEF Continue
<1> QED
  BY <1>4, <1>5, <1>6, <1>8, <1>9, <1>11, <1>12, <1>13, <1>14 DEF ProtocolNext


LEMMA ScreenStep == ProtocolInv /\ [ProtocolNext]_protocolVars => ScreenTypeOK'
<1> SUFFICES ASSUME ProtocolInv, ProtocolNext PROVE screen' \in [Task -> TaskStatus]
  BY DEF protocolVars, ProtocolInv, ScreenTypeOK
<1>1. screen \in [Task -> TaskStatus] BY DEF ProtocolInv, ScreenTypeOK
<1>2. ASSUME NEW t, NEW s \in TaskStatus, Told(t, s)
      PROVE  screen' \in [Task -> TaskStatus]
  BY <1>1, <1>2 DEF Told
<1>3. {"PENDING", "ASSIGNED"} \subseteq TaskStatus BY DEF TaskStatus, Active
<1>4. ASSUME NEW g \in Guest, OfferElsewhere(g) PROVE screen' \in [Task -> TaskStatus]
  BY <1>2, <1>3, <1>4 DEF OfferElsewhere
<1>5. ASSUME NEW w \in Thread, AnnounceAssigned(w)
      PROVE  screen' \in [Task -> TaskStatus]
  BY <1>2, <1>3, <1>5 DEF AnnounceAssigned
<1>6. ASSUME NEW w \in Thread, AnnounceLast(w) PROVE screen' \in [Task -> TaskStatus]
  <2>1. th[w].told # NoTask => th[w].say \in TaskStatus
    BY DEF ProtocolInv, ThreadOK, ValidLocal
  <2> QED BY <1>1, <1>2, <1>6, <2>1 DEF AnnounceLast
<1>7. ASSUME AnnounceStatus PROVE screen' \in [Task -> TaskStatus]
  <2>1. th[Http].t \in Task
    BY <1>7 DEF AnnounceStatus, ProtocolInv, ThreadOK, ValidLocal, Thread
  <2>2. status[th[Http].t] \in TaskStatus
    BY <2>1 DEF ProtocolInv, TypeOK
  <2> QED BY <1>2, <1>7, <2>2 DEF AnnounceStatus
<1>8. ASSUME NEW g \in Guest,
             \/ Connect(g) \/ Break(g) \/ Crash(g) \/ Decline(g) \/ SendHeartbeat(g)
             \/ Listens(g) \/ Executes(g) \/ NoticeLoss(g)
             \/ HandleRegister(g) \/ HandleHeartbeat(g) \/ HandleAcknowledge(g)
             \/ HandleResult(g) \/ EndReported(g) \/ HandleDeclined(g)
             \/ HandleCancelled(g)
      PROVE  UNCHANGED screen
  BY <1>8 DEF Connect, Break, Crash, Decline, SendHeartbeat, Listens, TakeAssignment,
              ConfirmCancel, Executes, SendResult, EndExecution, NoticeLoss,
              HandleRegister, HandleHeartbeat, HandleAcknowledge, HandleResult,
              EndReported, HandleDeclined, HandleCancelled
<1>9. ASSUME NEW w \in Thread, Pick(w) \/ Assign(w) \/ Push(w) \/ Rollback(w)
      PROVE  UNCHANGED screen
  BY <1>9 DEF Pick, Assign, Push, Rollback
<1>10. ASSUME RequeueLost \/ CancelUnstarted \/ SignalCancel \/ Probe \/ TimePasses
       PROVE  UNCHANGED screen
  BY <1>10 DEF RequeueLost, CancelUnstarted, SignalCancel, Probe, TimePasses
<1>11. ASSUME NEW t \in Task, CreateTask(t) \/ RequestCancel(t) PROVE UNCHANGED screen
  BY <1>11 DEF CreateTask, RequestCancel
<1> QED
  BY <1>1, <1>4, <1>5, <1>6, <1>7, <1>8, <1>9, <1>10, <1>11
     DEF ProtocolNext, Handle, Continue, HttpWorks
-------------------------------------------------------------------------------
LEMMA ProtocolInvInit == ProtocolInit => ProtocolInv
<1> SUFFICES ASSUME ProtocolInit PROVE ProtocolInv
  OBVIOUS
<1>1. TypeOK
  BY MaxTasksAssumption, TimeoutAssumption
     DEF ProtocolInit, Init, TypeOK, TaskStatus, Never, GuestState, SweepStep
<1>2. Consistent
  BY MaxTasksAssumption, NoGuestAssumption
     DEF ProtocolInit, Init, Consistent, OwnerMatchesStatus, LinkConsistent, IdsConsistent
<1>3. CallsOK /\ inbox \in [Guest -> Seq(Task)] BY EmptySeq DEF ProtocolInit, CallsOK
<1>4. ThreadOK BY RestValid DEF ProtocolInit, ThreadOK
<1>5. WireTypeOK /\ doing \in [Guest -> 0..MaxTasks] /\ ScreenTypeOK
  BY MaxTasksAssumption, ProtocolAssumption
     DEF ProtocolInit, WireTypeOK, ScreenTypeOK, TaskStatus
<1>6. WorkTypeOK /\ DoingOK BY <1>3, <1>5 DEF ProtocolInit, WorkTypeOK, DoingOK
<1> QED BY <1>1, <1>2, <1>3, <1>4, <1>5, <1>6 DEF ProtocolInv

LEMMA ProtocolInvStep == ProtocolInv /\ [ProtocolNext]_protocolVars => ProtocolInv'
<1> SUFFICES ASSUME ProtocolInv, [ProtocolNext]_protocolVars PROVE ProtocolInv'
  OBVIOUS
<1>1. [Next]_vars BY RefinedStep
<1>2. TypeOK' BY <1>1, TypeStep DEF ProtocolInv
<1>3. Consistent'
  BY <1>1, OwnerStep, LinkStep, IdsStep DEF ProtocolInv, Consistent
<1> QED
  BY <1>2, <1>3, CallsStep, ThreadStep, WireStep, WorkStep, ScreenStep DEF ProtocolInv

LEMMA ProtocolInvariant == ProtocolSpec => []ProtocolInv
  BY ProtocolInvInit, ProtocolInvStep, PTL DEF ProtocolSpec

(* The types of what the handlers, the guests and the wire between them    *)
(* keep, for every number of guests, tasks and faults.                     *)
THEOREM ProtocolTypeCorrect == ProtocolSpec => []ProtocolTypeOK
  BY InvTypes, ProtocolInvariant, PTL

(* The handlers of internal/server use the orchestrator as its module      *)
(* allows, whatever they interleave and whatever the wire loses or delays: *)
(* every theorem about Orchestrator!Spec holds under Protocol.             *)
THEOREM OrchestratorKept == ProtocolSpec => KeepsOrchestrator
<1>1. ProtocolInit => Init BY DEF ProtocolInit
<1>2. ProtocolInv /\ [ProtocolNext]_protocolVars => [Next]_vars BY RefinedStep
<1> QED BY <1>1, <1>2, ProtocolInvariant, PTL DEF ProtocolSpec, KeepsOrchestrator, Spec

(* So the table, the registry and the files agree after every step of every*)
(* handler, and no probe fails the task of a guest that is alive.          *)
THEOREM HandlersConsistent ==
  ProtocolSpec => [](Consistent /\ StoreMirrorsTable) /\ ProbesFailOwnTasks
BY OrchestratorKept, ConsistencyCorrect, StoreCorrect, ProbesCorrect, PTL DEF KeepsOrchestrator

(* And handlers, guests and wire together implement the abstract life of a *)
(* task, where the store keeps what it is given and guests do not          *)
(* unregister: no late or lost message revives, duplicates or moves a task.*)
THEOREM HandlersKeepLifecycle ==
  ASSUME ~GuestsUnregister, ~StoreFaults PROVE ProtocolSpec => KeepsLifecycle
BY OrchestratorKept, LifecycleCorrect, PTL DEF KeepsOrchestrator
-------------------------------------------------------------------------------
(* While no connection is lost, nothing is cancelled and the sweep's       *)
(* probes are off, every assignment is in one place only: with the thread  *)
(* that hands it over, in the guest's taskCh, in execution, in a result on *)
(* the wire or in the handler of that result.                              *)
NoProbes == AssignTimeout = 0 /\ TaskSilenceTimeout = 0 /\ SilenceTimeout = 0
Undisturbed == faults = 0 /\ ~Cancels /\ NoProbes

Mine(t, g) == IsActive(t) /\ assignedTo[t] = g
Handing(w, g) == th[w].at \in {"push", "rollback"} /\ th[w].g = g
Executing(g) == stage[g] \in {"acking", "running"}
Ending(g) == th[g].at = "end"
NoResult(g) == \A i \in 1..Len(calls[g]) : calls[g][i].m \notin Final

Alone(g) == ~Executing(g) /\ NoResult(g) /\ ~Ending(g)
HandedOnce(g) ==
  \A w \in Thread : Handing(w, g) =>
    Mine(th[w].t, g) /\ inbox[g] = <<>> /\ Alone(g) /\ \A v \in Thread : Handing(v, g) => v = w
QueuedOnce(g) == inbox[g] # <<>> => Len(inbox[g]) = 1 /\ Mine(inbox[g][1], g) /\ Alone(g)
ExecutedOnce(g) == Executing(g) => Mine(doing[g], g) /\ NoResult(g) /\ ~Ending(g)
ReportedOnce(g) ==
  \A i \in 1..Len(calls[g]) : calls[g][i].m \in Final =>
    /\ Mine(calls[g][i].t, g) /\ ~Ending(g)
    /\ \A j \in 1..Len(calls[g]) : calls[g][j].m \in Final => j = i
EndedOnce(g) == Ending(g) => Mine(th[g].t, g) /\ th[g].g = g
OnePlace(g) ==
  HandedOnce(g) /\ QueuedOnce(g) /\ ExecutedOnce(g) /\ ReportedOnce(g) /\ EndedOnce(g)

(* A guest with a live task is RUNNING in the registry, which is what      *)
(* keeps it from being handed another one.                                 *)
OwnersRun == \A t \in Task : IsActive(t) => guestState[assignedTo[t]] = "RUNNING"

(* A guest registers once, and nothing but registrations, acknowledgements,*)
(* heartbeats and results is on the wire.                                  *)
QuietWire(g) ==
  /\ signals[g] = {}
  /\ conn[g] = "dead" \/ ~link[g] => g \notin registered
  /\ \A i \in 1..Len(calls[g]) :
       /\ calls[g][i].m \notin {"declined", "cancelled"}
       /\ calls[g][i].m = "register" => i = 1 /\ link[g] /\ g \notin registered
QuietThreads ==
  \A w \in Thread : th[w].at \notin {"declined", "cancel", "signal", "last", "requeue"}
IdleDoesNothing == \A g \in Guest : stage[g] = "idle" => doing[g] = NoTask

QuietState ==
  /\ \A g \in Guest : OnePlace(g) /\ QuietWire(g)
  /\ OneTaskPerGuest /\ OwnersRun /\ QuietThreads /\ IdleDoesNothing

QuietInv == Undisturbed => QuietState

(* What can happen then.                                                   *)
QuietNext ==
  \/ \E g \in Guest :
       \/ Connect(g) \/ SendHeartbeat(g) \/ TakeAssignment(g) \/ Executes(g)
       \/ HandleRegister(g) \/ HandleHeartbeat(g) \/ HandleAcknowledge(g)
       \/ HandleResult(g) \/ EndReported(g) \/ NoticeLoss(g)
  \/ \E w \in Thread : Continue(w)
  \/ Probe
  \/ \E t \in Task : CreateTask(t)

LEMMA QuietActions ==
  ASSUME ProtocolInv, QuietInv, ProtocolNext, Undisturbed'
  PROVE  Undisturbed /\ QuietState /\ QuietNext
<1> USE DEF ProtocolInv
<1>1. ~Cancels /\ NoProbes /\ faults' = 0 BY DEF Undisturbed, NoProbes
<1>2. ASSUME NEW g \in Guest, Break(g) \/ Crash(g) PROVE FALSE
  BY <1>1, <1>2, ProtocolAssumption DEF Break, Crash, WireTypeOK
<1>3. UNCHANGED faults
  <2>1. ASSUME NEW g \in Guest,
               Connect(g) \/ Decline(g) \/ SendHeartbeat(g) \/ Listens(g) \/ Executes(g)
                 \/ Handle(g) \/ NoticeLoss(g)
        PROVE  UNCHANGED faults
    BY <2>1 DEF Connect, Decline, SendHeartbeat, Listens, TakeAssignment, ConfirmCancel,
         Executes, SendResult, EndExecution, Handle, HandleRegister, HandleHeartbeat,
         HandleAcknowledge, HandleResult, EndReported, HandleDeclined, OfferElsewhere,
         HandleCancelled, NoticeLoss, wireVars
  <2>2. ASSUME NEW w \in Thread, Continue(w) PROVE UNCHANGED faults
    BY <2>2 DEF Continue, Pick, Assign, Push, Rollback, AnnounceAssigned, AnnounceLast,
                wireVars
  <2>3. ASSUME RequeueLost \/ HttpWorks \/ Probe \/ TimePasses PROVE UNCHANGED faults
    BY <2>3 DEF RequeueLost, HttpWorks, CancelUnstarted, SignalCancel, AnnounceStatus,
                Probe, TimePasses, wireVars
  <2>4. ASSUME NEW t \in Task, CreateTask(t) \/ RequestCancel(t) PROVE UNCHANGED faults
    BY <2>4 DEF CreateTask, RequestCancel, wireVars
  <2> QED BY <1>2, <2>1, <2>2, <2>3, <2>4 DEF ProtocolNext
<1>4. Undisturbed BY <1>1, <1>3 DEF Undisturbed
<1>5. QuietState BY <1>4 DEF QuietInv
<1>6. ASSUME NEW g \in Guest, Decline(g) \/ (\E t \in Task : ConfirmCancel(g, t)) PROVE FALSE
  BY <1>4, <1>5, <1>6 DEF Decline, ConfirmCancel, Undisturbed, QuietState, QuietWire
<1>7. ASSUME NEW g \in Guest, NEW m \in {"declined", "cancelled"}, Arrives(g, m) PROVE FALSE
  <2>1. Len(calls[g]) \in Nat /\ Len(calls[g]) > 0 /\ calls[g][1] = Head(calls[g])
    BY <1>7, LenProperties, EmptySeq DEF Arrives, CallsOK
  <2> QED BY <1>5, <1>7, <2>1 DEF Arrives, QuietState, QuietWire
<1>8. ASSUME NEW g \in Guest, HandleDeclined(g) \/ HandleCancelled(g) \/ OfferElsewhere(g)
      PROVE  FALSE
  BY <1>5, <1>7, <1>8
     DEF HandleDeclined, HandleCancelled, OfferElsewhere, QuietState, QuietThreads, Thread
<1>9. ASSUME RequeueLost \/ HttpWorks PROVE FALSE
  BY <1>5, <1>9 DEF RequeueLost, HttpWorks, CancelUnstarted, SignalCancel, AnnounceStatus,
                    QuietState, QuietThreads, Thread
<1>10. ASSUME NEW t \in Task, TimePasses \/ RequestCancel(t) PROVE FALSE
  BY <1>1, <1>10 DEF TimePasses, RequestCancel, NoProbes
<1>11. TimePasses => FALSE BY <1>1 DEF TimePasses, NoProbes
<1> QED
  BY <1>2, <1>4, <1>5, <1>6, <1>8, <1>9, <1>10, <1>11
     DEF ProtocolNext, Listens, Handle, QuietNext

(* The calls of the kinds M of a guest are those that were there before.   *)
SameOf(M, g) ==
  \E d \in {0, 1} : \A i \in 1..Len(calls'[g]) :
    calls'[g][i].m \in M => i + d \in 1..Len(calls[g]) /\ calls[g][i + d] = calls'[g][i]

LEMMA UnchangedSame ==
  ASSUME UNCHANGED calls, CallsOK, NEW M PROVE \A g \in Guest : SameOf(M, g)
<1> SUFFICES ASSUME NEW g \in Guest PROVE SameOf(M, g)
  OBVIOUS
<1>1. \A i \in 1..Len(calls'[g]) : i + 0 \in 1..Len(calls[g]) /\ calls[g][i + 0] = calls'[g][i]
  BY LenProperties DEF CallsOK
<1> QED BY <1>1 DEF SameOf

LEMMA SubmitSame ==
  ASSUME CallsOK, NEW M, NEW g \in Guest, NEW m, m \notin M, NEW t,
         [m |-> m, t |-> t] \in ValidCall, Submit(g, m, t)
  PROVE  \A h \in Guest : SameOf(M, h)
<1> SUFFICES ASSUME NEW h \in Guest PROVE SameOf(M, h)
  OBVIOUS
<1>1. CASE calls'[h] = calls[h]
  <2>1. \A i \in 1..Len(calls'[h]) : i + 0 \in 1..Len(calls[h]) /\ calls[h][i + 0] = calls'[h][i]
    BY <1>1, LenProperties DEF CallsOK
  <2> QED BY <2>1 DEF SameOf
<1>2. CASE calls'[h] # calls[h]
  <2> DEFINE c == [m |-> m, t |-> t]
  <2>1. h = g /\ calls'[h] = Append(calls[h], c)
    BY <1>2 DEF Submit, CallsOK
  <2>2. c.m \notin M OBVIOUS
  <2>3. c \in ValidCall OBVIOUS
  <2> HIDE DEF c
  <2>4. \A i \in 1..Len(calls'[h]) : calls'[h][i].m \in M
          => i + 0 \in 1..Len(calls[h]) /\ calls[h][i + 0] = calls'[h][i]
    <3>1. /\ Len(calls'[h]) = Len(calls[h]) + 1
          /\ \A i \in 1..Len(calls[h]) : calls'[h][i] = calls[h][i]
          /\ calls'[h][Len(calls[h]) + 1] = c
          /\ Len(calls[h]) \in Nat
      BY <2>1, <2>3, AppendProperties, LenProperties DEF CallsOK
    <3> QED BY <3>1, <2>2
  <2> QED BY <2>4 DEF SameOf
<1> QED BY <1>1, <1>2

LEMMA TakenSame ==
  ASSUME CallsOK, NEW g \in Guest, NEW m, Arrives(g, m), Taken(g), NEW M
  PROVE  \A h \in Guest : SameOf(M, h)
<1> SUFFICES ASSUME NEW h \in Guest PROVE SameOf(M, h)
  OBVIOUS
<1>1. CASE h # g
  <2>1. \A i \in 1..Len(calls'[h]) : i + 0 \in 1..Len(calls[h]) /\ calls[h][i + 0] = calls'[h][i]
    BY <1>1, LenProperties DEF CallsOK, Taken
  <2> QED BY <2>1 DEF SameOf
<1>2. CASE h = g
  <2>1. calls'[h] = Tail(calls[h]) /\ calls[h] # <<>> BY <1>2 DEF Arrives, Taken, CallsOK
  <2>2. /\ Len(calls'[h]) = Len(calls[h]) - 1 /\ Len(calls[h]) \in Nat
        /\ \A i \in 1..Len(calls'[h]) : calls'[h][i] = calls[h][i + 1]
    BY <2>1, HeadTailProperties, LenProperties DEF CallsOK
  <2>3. \A i \in 1..Len(calls'[h]) : i + 1 \in 1..Len(calls[h]) /\ calls[h][i + 1] = calls'[h][i]
    BY <2>2
  <2> QED BY <2>3 DEF SameOf
<1> QED BY <1>1, <1>2

(* No thread takes up an assignment or a result.                           *)
FewerThreads(g) ==
  /\ \A w \in Thread : Handing(w, g)' => Handing(w, g) /\ th'[w].t = th[w].t
  /\ Ending(g)' => Ending(g) /\ th'[g].t = th[g].t /\ th'[g].g = th[g].g

LEMMA GoFewer ==
  ASSUME ThreadOK, NEW w \in Thread, NEW l, Go(w, l), l.at \notin {"push", "rollback", "end"}
  PROVE  \A g \in Guest : FewerThreads(g)
  BY DEF ThreadOK, Go, FewerThreads, Handing, Ending, Thread

LEMMA UnchangedFewer == ASSUME UNCHANGED th PROVE \A g \in Guest : FewerThreads(g)
  BY DEF FewerThreads, Handing, Ending

(* A guest that keeps its tasks and gets nothing new is in order.          *)
LEMMA FewerPlaces ==
  ASSUME NEW g \in Guest, OnePlace(g), CallsOK, CallsOK',
         \A t \in Task : Mine(t, g) => Mine(t, g)',
         FewerThreads(g), SameOf(Final, g), inbox'[g] = inbox[g],
         Executing(g)' => Executing(g) /\ doing'[g] = doing[g]
  PROVE  OnePlace(g)'
<1>1. /\ Len(calls[g]) \in Nat /\ Len(calls'[g]) \in Nat
  BY LenProperties DEF CallsOK
<1>2. PICK d \in {0, 1} : \A i \in 1..Len(calls'[g]) :
    calls'[g][i].m \in Final => i + d \in 1..Len(calls[g]) /\ calls[g][i + d] = calls'[g][i]
  BY DEF SameOf
<1>3. NoResult(g) => NoResult(g)' BY <1>2 DEF NoResult
<1>4. \A t : Mine(t, g) => Mine(t, g)' BY DEF Mine, IsActive
<1>5. Alone(g) => Alone(g)' BY <1>3 DEF Alone, FewerThreads
<1>6. ASSUME NEW i \in 1..Len(calls'[g]), calls'[g][i].m \in Final
      PROVE  /\ Mine(calls[g][i].t, g)' /\ ~Ending(g)'
             /\ \A j \in 1..Len(calls'[g]) : calls'[g][j].m \in Final => j = i
  <2>1. i + d \in 1..Len(calls[g]) /\ calls[g][i + d] = calls'[g][i] BY <1>2, <1>6
  <2>2. /\ Mine(calls[g][i + d].t, g) /\ ~Ending(g)
        /\ \A j \in 1..Len(calls[g]) : calls[g][j].m \in Final => j = i + d
    BY <1>6, <2>1 DEF OnePlace, ReportedOnce
  <2>3. Mine(calls'[g][i].t, g) BY <2>1, <2>2
  <2>4. Mine(calls[g][i].t, g)' BY <2>3, <1>4 DEF Mine, IsActive
  <2>5. ASSUME NEW j \in 1..Len(calls'[g]), calls'[g][j].m \in Final PROVE j = i
    <3>1. j + d \in 1..Len(calls[g]) /\ calls[g][j + d].m \in Final BY <1>2, <2>5
    <3>2. j + d = i + d BY <2>2, <3>1
    <3> QED BY <1>1, <3>2
  <2> QED BY <2>2, <2>4, <2>5 DEF FewerThreads
<1>7. QueuedOnce(g)' BY <1>4, <1>5 DEF OnePlace, QueuedOnce, Mine, IsActive
<1>8. ExecutedOnce(g)'
  BY <1>3, <1>4 DEF OnePlace, ExecutedOnce, FewerThreads, Mine, IsActive
<1>9. EndedOnce(g)' BY <1>4 DEF OnePlace, EndedOnce, FewerThreads, Mine, IsActive
<1>10. HandedOnce(g)'
  BY <1>4, <1>5 DEF OnePlace, HandedOnce, FewerThreads, Mine, IsActive
<1>11. ReportedOnce(g)' BY <1>6 DEF ReportedOnce
<1> QED BY <1>7, <1>8, <1>9, <1>10, <1>11 DEF OnePlace

(* What the actions do to the table and the registry.                      *)
LEMMA TableKept ==
  ASSUME ProtocolInv, QuietState, Undisturbed
  PROVE  /\ \A g \in Guest :
              Connect(g) \/ SendHeartbeat(g) \/ TakeAssignment(g) \/ Executes(g)
                \/ HandleRegister(g) \/ HandleHeartbeat(g) \/ HandleResult(g) \/ NoticeLoss(g)
              => UNCHANGED <<status, assignedTo, guestState>>
         /\ \A w \in Thread :
              Pick(w) \/ Push(w) \/ AnnounceAssigned(w) \/ AnnounceLast(w)
              => UNCHANGED <<status, assignedTo, guestState>>
         /\ Probe => UNCHANGED <<status, assignedTo, guestState, registered>>
<1> USE DEF vars, tableVars, guestVars, linkVars
<1>1. ASSUME NEW g \in Guest, HandleRegister(g)
      PROVE  UNCHANGED <<status, assignedTo, guestState>>
  <2>1. g \notin registered
    <3>1. Len(calls[g]) \in Nat /\ Len(calls[g]) > 0 /\ calls[g][1] = Head(calls[g])
      BY <1>1, LenProperties, EmptySeq DEF HandleRegister, Arrives, ProtocolInv, CallsOK
    <3> QED BY <1>1, <3>1 DEF HandleRegister, Arrives, QuietState, QuietWire
  <2> QED BY <1>1, <2>1 DEF HandleRegister, Register, ReconcileGuest
<1>2. ASSUME NEW g \in Guest,
             Connect(g) \/ SendHeartbeat(g) \/ TakeAssignment(g) \/ Executes(g)
               \/ HandleHeartbeat(g) \/ HandleResult(g) \/ NoticeLoss(g)
      PROVE  UNCHANGED <<status, assignedTo, guestState>>
  BY <1>2 DEF Connect, SendHeartbeat, TakeAssignment, Executes, SendResult, EndExecution,
              HandleHeartbeat, Heartbeat, TaskHeartbeat, HandleResult, NoticeLoss
<1>3. ASSUME NEW w \in Thread,
             Pick(w) \/ Push(w) \/ AnnounceAssigned(w) \/ AnnounceLast(w)
      PROVE  UNCHANGED <<status, assignedTo, guestState>>
  BY <1>3 DEF Pick, Push, AnnounceAssigned, AnnounceLast
<1>4. ASSUME Probe PROVE UNCHANGED <<status, assignedTo, guestState, registered>>
  BY <1>4 DEF Probe, Sweep, CheckStuckTasks, CheckSilentGuests, RemoveStaleGuests,
              Undisturbed, NoProbes
<1> QED BY <1>1, <1>2, <1>3, <1>4

LEMMA EndFrees ==
  ASSUME ProtocolInv, QuietState, NEW g \in Guest, EndReported(g)
  PROVE  /\ Mine(th[g].t, g)
         /\ UNCHANGED <<assignedTo, registered>>
         /\ \A u \in Task : status'[u] = IF u = th[g].t THEN th[g].say ELSE status[u]
         /\ \A h \in Guest : guestState'[h] = IF h = g THEN "IDLE" ELSE guestState[h]
         /\ th[g].say \notin Active
<1>1. Mine(th[g].t, g) /\ th[g].g = g
  BY DEF EndReported, QuietState, OnePlace, EndedOnce, Ending
<1>2. EndTask(th[g].t, g, th[g].say) BY <1>1 DEF EndReported, Mine
<1>3. th[g].say \notin Active
  BY DEF EndReported, ProtocolInv, ThreadOK, ValidLocal, Final, Active, Thread
<1> QED
  BY <1>1, <1>2, <1>3
     DEF EndTask, FinishTasks, ClearGuests, SetTo, ProtocolInv, TypeOK

LEMMA RollbackFrees ==
  ASSUME ProtocolInv, QuietState, NEW w \in Thread, Rollback(w)
  PROVE  /\ th[w].g \in Guest /\ Mine(th[w].t, th[w].g)
         /\ \A u \in Task : status'[u] = IF u = th[w].t THEN "PENDING" ELSE status[u]
         /\ \A u \in Task \ {th[w].t} : assignedTo'[u] = assignedTo[u]
         /\ \A h \in Guest : guestState'[h] = IF h = th[w].g THEN "IDLE" ELSE guestState[h]
<1>1. th[w].g \in Guest
  BY DEF Rollback, ProtocolInv, ThreadOK, ValidLocal
<1>2. Mine(th[w].t, th[w].g)
  BY <1>1 DEF Rollback, QuietState, OnePlace, HandedOnce, Handing
<1>3. RequeueTask(th[w].t) BY <1>2 DEF Rollback, Mine
<1> QED
  BY <1>1, <1>2, <1>3
     DEF RequeueTask, RequeueTasks, ClearGuests, SetTo, ProtocolInv, TypeOK, Mine, IsActive

LEMMA QuietTableStep ==
  ASSUME ProtocolInv, QuietState, Undisturbed, QuietNext
  PROVE  OneTaskPerGuest' /\ OwnersRun'
<1> USE DEF ProtocolInv
<1>1. OneTaskPerGuest /\ OwnersRun BY DEF QuietState
<1>2. ASSUME UNCHANGED <<status, assignedTo, guestState>>
      PROVE  OneTaskPerGuest' /\ OwnersRun'
  BY <1>1, <1>2 DEF OneTaskPerGuest, OwnersRun, IsActive
<1>3. ASSUME NEW g \in Guest, HandleAcknowledge(g) PROVE OneTaskPerGuest' /\ OwnersRun'
  <2>1. CASE UNCHANGED vars
    BY <2>1, <1>2 DEF vars, tableVars, guestVars, linkVars
  <2>2. CASE AcknowledgeTask(Arg(g), g)
    BY <2>2, <1>1
       DEF AcknowledgeTask, guestVars, linkVars, OneTaskPerGuest, OwnersRun, IsActive,
           Active, TypeOK
  <2> QED BY <1>3, <2>1, <2>2 DEF HandleAcknowledge
<1>4. ASSUME NEW t \in Task, CreateTask(t) PROVE OneTaskPerGuest' /\ OwnersRun'
  BY <1>1, <1>4 DEF CreateTask, AddTaskOrDedup, guestVars, linkVars, OneTaskPerGuest,
                    OwnersRun, IsActive, Active, TypeOK
<1>5. ASSUME NEW w \in Thread, Assign(w) PROVE OneTaskPerGuest' /\ OwnersRun'
  <2>1. CASE UNCHANGED vars
    BY <2>1, <1>2 DEF vars, tableVars, guestVars, linkVars
  <2>2. CASE AssignTask(th[w].t, th[w].g)
    <3>1. th[w].t \in Task /\ th[w].g \in Guest
      BY <1>5 DEF Assign, ThreadOK, ValidLocal
    <3>2. \A u \in Task : IsActive(u) => assignedTo[u] # th[w].g
      BY <2>2, <1>1 DEF AssignTask, OwnersRun
    <3> QED BY <2>2, <3>1, <3>2, <1>1
          DEF AssignTask, Hand, OneTaskPerGuest, OwnersRun, IsActive, Active, TypeOK
  <2> QED BY <1>5, <2>1, <2>2 DEF Assign
<1>6. \A t \in Task : IsActive(t) => assignedTo[t] \in Guest
  BY DEF IsActive, Active, Consistent, OwnerMatchesStatus, TypeOK
<1>7. ASSUME NEW g \in Guest, EndReported(g) PROVE OneTaskPerGuest' /\ OwnersRun'
  <2>1. \A u \in Task : IsActive(u)' =>
          IsActive(u) /\ u # th[g].t /\ assignedTo'[u] = assignedTo[u] /\ assignedTo[u] # g
    BY <1>1, <1>7, EndFrees DEF IsActive, Mine, OneTaskPerGuest
  <2> QED BY <2>1, <1>1, <1>6, <1>7, EndFrees DEF OneTaskPerGuest, OwnersRun
<1>8. ASSUME NEW w \in Thread, Rollback(w) PROVE OneTaskPerGuest' /\ OwnersRun'
  <2>1. \A u \in Task : IsActive(u)' =>
          /\ IsActive(u) /\ u # th[w].t /\ assignedTo'[u] = assignedTo[u]
          /\ assignedTo[u] # th[w].g
    BY <1>1, <1>8, RollbackFrees DEF IsActive, Active, Mine, OneTaskPerGuest
  <2> QED BY <2>1, <1>1, <1>6, <1>8, RollbackFrees DEF OneTaskPerGuest, OwnersRun
<1> QED BY <1>2, <1>3, <1>4, <1>5, <1>7, <1>8, TableKept DEF QuietNext, Continue

(* Nothing is under way for the guest.                                     *)
Vacant(g) == inbox[g] = <<>> /\ Alone(g) /\ \A w \in Thread : ~Handing(w, g)

LEMMA SameCalls ==
  ASSUME CallsOK, NEW M, NEW h \in Guest, calls'[h] = calls[h] PROVE SameOf(M, h)
<1>1. \A i \in 1..Len(calls'[h]) : i + 0 \in 1..Len(calls[h]) /\ calls[h][i + 0] = calls'[h][i]
  BY LenProperties DEF CallsOK
<1> QED BY <1>1 DEF SameOf

LEMMA PlacesStep ==
  ASSUME ProtocolInv, ProtocolInv', QuietState, Undisturbed, QuietNext
  PROVE  \A g \in Guest : OnePlace(g)'
<1> USE DEF ProtocolInv
<1> DEFINE Kept(h) == \A t \in Task : Mine(t, h) => Mine(t, h)'
           Same(h) == inbox'[h] = inbox[h] /\ (Executing(h)' => Executing(h) /\
             doing'[h] = doing[h])
<1>1. ASSUME NEW h \in Guest, Kept(h), FewerThreads(h), SameOf(Final, h), Same(h)
      PROVE  OnePlace(h)'
  BY <1>1, FewerPlaces DEF QuietState
<1>2. ASSUME UNCHANGED <<status, assignedTo>> PROVE \A h \in Guest : Kept(h)
  BY <1>2 DEF Mine, IsActive
<1>3. ASSUME UNCHANGED <<inbox, stage, doing>> PROVE \A h \in Guest : Same(h)
  BY <1>3 DEF Executing
<1> HIDE DEF Kept, Same
(* The calls that say nothing of a result. *)
<1>4. ASSUME NEW g \in Guest, Connect(g) PROVE \A h \in Guest : OnePlace(h)'
  <2>1. ASSUME NEW h \in Guest PROVE SameOf(Final, h)
    <3>1. CASE h = g
      <4>1. /\ Len(calls'[h]) = 1 /\ calls'[h][1].m \notin Final
        BY <1>4, <3>1 DEF Connect, CallsOK, Final
      <4> QED BY <4>1 DEF SameOf
    <3>2. CASE h # g
      <4>1. calls'[h] = calls[h] BY <1>4, <3>2 DEF Connect, CallsOK
      <4>2. Len(calls[h]) \in Nat BY LenProperties DEF CallsOK
      <4>3. \A i \in 1..Len(calls'[h]) :
              i + 0 \in 1..Len(calls[h]) /\ calls[h][i + 0] = calls'[h][i]
        BY <4>1, <4>2
      <4> QED BY <4>3 DEF SameOf
    <3> QED BY <3>1, <3>2
  <2>2. UNCHANGED <<status, assignedTo, th, inbox, stage, doing>>
    BY <1>4 DEF Connect, vars, tableVars, workVars
  <2> QED BY <2>1, <2>2, <1>1, <1>2, <1>3, UnchangedFewer
<1>5. ASSUME NEW g \in Guest, SendHeartbeat(g) \/ EndExecution(g)
      PROVE  \A h \in Guest : OnePlace(h)'
  <2>1. PICK t \in 0..MaxTasks : Submit(g, "heartbeat", t)
    <3>1. doing[g] \in 0..MaxTasks /\ doing'[g] \in 0..MaxTasks BY DEF WorkTypeOK
    <3> QED BY <1>5, <3>1 DEF SendHeartbeat, EndExecution
  <2>2. [m |-> "heartbeat", t |-> t] \in ValidCall BY DEF ValidCall, Call
  <2>3. \A h \in Guest : SameOf(Final, h) BY <2>1, <2>2, SubmitSame DEF Final
  <2>4. \A h \in Guest : Same(h)
    BY <1>5 DEF SendHeartbeat, EndExecution, workVars, Same, Executing, WorkTypeOK
  <2>5. UNCHANGED <<status, assignedTo, th>>
    BY <1>5 DEF SendHeartbeat, EndExecution, vars, tableVars
  <2> QED BY <2>3, <2>4, <2>5, <1>1, <1>2, UnchangedFewer
<1>6. ASSUME NEW g \in Guest, HandleRegister(g) PROVE \A h \in Guest : OnePlace(h)'
  <2>1. \A h \in Guest : SameOf(Final, h) BY <1>6, TakenSame DEF HandleRegister
  <2>2. \A h \in Guest : FewerThreads(h)
    <3>1. CASE UNCHANGED th BY <3>1, UnchangedFewer
    <3>2. CASE Go(g, [Rest EXCEPT !.at = "next", !.todo = {g}])
      <4>1. [Rest EXCEPT !.at = "next", !.todo = {g}].at = "next" BY DEF Rest
      <4> QED BY <3>2, <4>1, GoFewer DEF Thread
    <3> QED BY <1>6, <3>1, <3>2 DEF HandleRegister
  <2>3. UNCHANGED <<status, assignedTo, inbox, stage, doing>>
    BY <1>6, TableKept DEF HandleRegister, workVars
  <2> QED BY <2>1, <2>2, <2>3, <1>1, <1>2, <1>3
<1>7. ASSUME NEW g \in Guest, HandleHeartbeat(g) PROVE \A h \in Guest : OnePlace(h)'
  <2>1. \A h \in Guest : SameOf(Final, h) BY <1>7, TakenSame DEF HandleHeartbeat
  <2>2. UNCHANGED <<status, assignedTo, th, inbox, stage, doing>>
    BY <1>7, TableKept DEF HandleHeartbeat, workVars
  <2> QED BY <2>1, <2>2, <1>1, <1>2, <1>3, UnchangedFewer
<1>8. ASSUME NEW g \in Guest, HandleAcknowledge(g) PROVE \A h \in Guest : OnePlace(h)'
  <2>1. \A h \in Guest : SameOf(Final, h) BY <1>8, TakenSame DEF HandleAcknowledge
  <2>2. \A h \in Guest : FewerThreads(h)
    <3>1. CASE UNCHANGED th BY <3>1, UnchangedFewer
    <3>2. CASE Go(g, Saying(Arg(g), "RUNNING"))
      <4>1. Saying(Arg(g), "RUNNING").at = "next" BY DEF Saying, Rest
      <4> QED BY <3>2, <4>1, GoFewer DEF Thread
    <3> QED BY <1>8, <3>1, <3>2 DEF HandleAcknowledge
  <2>3. \A h \in Guest : Same(h)
    BY <1>8 DEF HandleAcknowledge, Same, Executing, WorkTypeOK
  <2>4. \A h \in Guest : Kept(h)
    <3>1. CASE UNCHANGED vars BY <3>1, <1>2 DEF vars, tableVars
    <3>2. CASE AcknowledgeTask(Arg(g), g)
      BY <3>2 DEF AcknowledgeTask, Kept, Mine, IsActive, Active, TypeOK
    <3> QED BY <1>8, <3>1, <3>2 DEF HandleAcknowledge
  <2> QED BY <2>1, <2>2, <2>3, <2>4, <1>1
<1>9. ASSUME NEW g \in Guest, NoticeLoss(g) PROVE \A h \in Guest : OnePlace(h)'
  <2>1. UNCHANGED <<status, assignedTo, calls, inbox, stage, doing>>
    BY <1>9 DEF NoticeLoss, vars, tableVars, workVars
  <2>2. UNCHANGED th BY <1>9 DEF NoticeLoss, QuietState, QuietWire
  <2> QED BY <2>1, <2>2, <1>1, <1>2, <1>3, UnchangedFewer, UnchangedSame
(* The threads that hold no assignment. *)
<1>10. ASSUME NEW w \in Thread, NEW l, Go(w, l), l.at \notin {"push", "rollback", "end"},
              UNCHANGED <<calls, inbox, stage, doing>>, \A h \in Guest : Kept(h)
       PROVE  \A h \in Guest : OnePlace(h)'
  BY <1>1, <1>3, <1>10, GoFewer, UnchangedSame
<1>11. ASSUME NEW w \in Thread, Pick(w) \/ AnnounceAssigned(w) \/ AnnounceLast(w)
       PROVE  \A h \in Guest : OnePlace(h)'
  <2>1. PICK l : Go(w, l) /\ l.at \notin {"push", "rollback", "end"}
    <3>1. th[w] \in Local BY DEF ThreadOK, ValidLocal
    <3>2. ASSUME Pick(w) PROVE \E l : Go(w, l) /\ l.at \notin {"push", "rollback", "end"}
      <4>1. PICK g \in th[w].todo :
              LET left == [th[w] EXCEPT !.todo = @ \ {g}]
              IN  \/ Go(w, left)
                  \/ \E t : Go(w, [left EXCEPT !.at = "assign", !.t = t, !.g = g])
        BY <3>2 DEF Pick
      <4> DEFINE left == [th[w] EXCEPT !.todo = @ \ {g}]
      <4>2. left.at = "next" BY <3>1, <3>2 DEF Pick, Local
      <4>3. left \in Local
        <5>1. th[w].todo \ {g} \in SUBSET Guest BY <3>1 DEF Local
        <5> QED BY <3>1, <5>1, FieldOK
      <4>4. \A t : [left EXCEPT !.at = "assign", !.t = t, !.g = g].at = "assign"
        BY <4>3 DEF Local
      <4> QED BY <4>1, <4>2, <4>4
    <3>3. ASSUME AnnounceAssigned(w)
          PROVE  \E l : Go(w, l) /\ l.at \notin {"push", "rollback", "end"}
      <4> DEFINE l == [th[w] EXCEPT !.at = "next",
                                    !.todo = IF th[w].only = NoTask THEN @ ELSE {}]
      <4>1. l.at = "next" BY <3>1 DEF Local
      <4> QED BY <3>3, <4>1 DEF AnnounceAssigned
    <3>4. ASSUME AnnounceLast(w)
          PROVE  \E l : Go(w, l) /\ l.at \notin {"push", "rollback", "end"}
      BY <3>4 DEF AnnounceLast, Rest
    <3> QED BY <1>11, <3>2, <3>3, <3>4
  <2>2. UNCHANGED <<status, assignedTo, calls, inbox, stage, doing>>
    BY <1>11 DEF Pick, AnnounceAssigned, AnnounceLast, vars, tableVars, wireVars, workVars
  <2> QED BY <2>1, <2>2, <1>2, <1>10
<1>12. ASSUME Probe PROVE \A h \in Guest : OnePlace(h)'
  <2>1. UNCHANGED <<status, assignedTo, calls, inbox, stage, doing>>
    BY <1>12, TableKept DEF Probe, wireVars, workVars
  <2>2. \A h \in Guest : FewerThreads(h)
    <3>1. CASE UNCHANGED th BY <3>1, UnchangedFewer
    <3>2. CASE Go(Sweeper, [Rest EXCEPT !.at = "next", !.todo = registered])
      <4>1. [Rest EXCEPT !.at = "next", !.todo = registered].at = "next" BY DEF Rest
      <4> QED BY <3>2, <4>1, GoFewer DEF Thread
    <3> QED BY <1>12, <3>1, <3>2 DEF Probe
  <2> QED BY <2>1, <2>2, <1>1, <1>2, <1>3, UnchangedSame
<1>13. ASSUME NEW t \in Task, CreateTask(t) PROVE \A h \in Guest : OnePlace(h)'
  <2>1. PICK todo : Go(Http, [Rest EXCEPT !.at = "next", !.todo = todo])
    BY <1>13 DEF CreateTask
  <2>2. [Rest EXCEPT !.at = "next", !.todo = todo].at = "next" BY DEF Rest
  <2>3. status[t] = "ABSENT"
    BY <1>13 DEF CreateTask, AddTaskOrDedup, Consistent, IdsConsistent, TypeOK
  <2>4. \A h \in Guest : Kept(h)
    BY <1>13, <2>3 DEF CreateTask, AddTaskOrDedup, Kept, Mine, IsActive, Active, TypeOK
  <2>5. UNCHANGED <<calls, inbox, stage, doing>>
    BY <1>13 DEF CreateTask, wireVars, workVars
  <2> QED BY <2>1, <2>2, <2>4, <2>5, <1>10 DEF Thread
(* An assignment moves on. *)
<1>14. ASSUME NEW g \in Guest, UNCHANGED <<status, assignedTo>>
       PROVE  \A t : Mine(t, g) => Mine(t, g)'
  BY <1>14 DEF Mine, IsActive
<1>15. \A w \in Thread : th[w] \in Local /\ th[w].at \in Place
  BY DEF ThreadOK, ValidLocal, Local, Place
<1>16. ASSUME NEW w \in Thread, NEW place, At(w, place)
       PROVE  /\ th'[w].at = place /\ th'[w].t = th[w].t /\ th'[w].g = th[w].g
              /\ \A v \in Thread \ {w} : th'[v] = th[v]
  BY <1>15, <1>16 DEF At, Go, ThreadOK, Local
<1>17. ASSUME NEW g \in Guest, Vacant(g)' PROVE OnePlace(g)'
  BY <1>17 DEF Vacant, Alone, OnePlace, HandedOnce, QueuedOnce, ExecutedOnce, ReportedOnce,
               EndedOnce, NoResult
<1>18. ASSUME NEW g \in Guest, \A t \in Task : ~Mine(t, g) PROVE Vacant(g)
  BY <1>18 DEF QuietState, OnePlace, HandedOnce, QueuedOnce, ExecutedOnce, ReportedOnce,
               EndedOnce, Vacant, Alone, NoResult, Mine, IsActive
<1>19. ASSUME NEW w \in Thread, Assign(w) PROVE \A h \in Guest : OnePlace(h)'
  <2>1. PICK t \in Task, g \in Guest : t = th[w].t /\ g = th[w].g
    BY <1>19 DEF Assign, ThreadOK, ValidLocal
  <2>2. UNCHANGED <<calls, inbox, stage, doing>>
    BY <1>19 DEF Assign, wireVars, workVars
  <2>3. CASE AssignTask(t, g) /\ At(w, "push")
    <3>1. \A u \in Task : ~Mine(u, g)
      BY <2>3, NoGuestAssumption DEF AssignTask, QuietState, OwnersRun, Mine, TypeOK
    <3>2. Vacant(g) BY <3>1, <1>18
    <3>3. Mine(t, g)' BY <2>3 DEF AssignTask, Hand, Mine, IsActive, Active, TypeOK
    <3>4. \A h \in Guest \ {g} : Kept(h)
      BY <2>3 DEF AssignTask, Hand, Kept, Mine, IsActive, Active, TypeOK
    <3>5. /\ th'[w].at = "push" /\ th'[w].t = t /\ th'[w].g = g
          /\ \A v \in Thread \ {w} : th'[v] = th[v]
      BY <1>16, <2>1, <2>3
    <3>6. \A h \in Guest \ {g} : FewerThreads(h)
      BY <3>5 DEF FewerThreads, Handing, Ending, Thread
    <3>7. \A h \in Guest \ {g} : OnePlace(h)'
      BY <1>1, <1>3, <2>2, <3>4, <3>6, UnchangedSame
    <3>8. Alone(g)'
      BY <2>2, <3>2, <3>5 DEF Vacant, Alone, Executing, NoResult, Ending, Thread
    <3>9. \A v \in Thread : Handing(v, g)' => v = w
      BY <3>2, <3>5 DEF Handing, Vacant
    <3>10. inbox'[g] = <<>> BY <2>2, <3>2 DEF Vacant
    <3>11. HandedOnce(g)'
      BY <3>3, <3>5, <3>8, <3>9, <3>10 DEF HandedOnce, Mine, IsActive
    <3>12. QueuedOnce(g)' BY <3>10 DEF QueuedOnce
    <3>13. (ExecutedOnce(g) /\ ReportedOnce(g) /\ EndedOnce(g))'
      BY <3>8 DEF Alone, ExecutedOnce, ReportedOnce, EndedOnce, NoResult
    <3> QED BY <3>7, <3>11, <3>12, <3>13 DEF OnePlace
  <2>4. CASE At(w, "next") /\ UNCHANGED vars
    <3>1. PICK l : Go(w, l) /\ l.at = "next"
      <4>1. [th[w] EXCEPT !.at = "next"].at = "next" BY <1>15 DEF Local
      <4> QED BY <2>4, <4>1 DEF At
    <3>2. \A h \in Guest : Kept(h) BY <1>2, <2>4 DEF vars, tableVars
    <3> QED BY <1>10, <2>2, <3>1, <3>2
  <2> QED BY <1>19, <2>1, <2>3, <2>4 DEF Assign
<1>20. ASSUME NEW w \in Thread, Push(w) PROVE \A h \in Guest : OnePlace(h)'
  <2>1. PICK t \in Task, g \in Guest : t = th[w].t /\ g = th[w].g
    BY <1>20 DEF Push, ThreadOK, ValidLocal
  <2>2. UNCHANGED <<status, assignedTo, calls, stage, doing>>
    BY <1>20 DEF Push, vars, tableVars, workVars
  <2>3. /\ Handing(w, g) /\ Mine(t, g) /\ inbox[g] = <<>> /\ Alone(g)
        /\ \A v \in Thread : Handing(v, g) => v = w
    BY <1>20, <2>1 DEF Push, Handing, QuietState, OnePlace, HandedOnce
  <2>4. \A h \in Guest : Kept(h) BY <1>2, <2>2
  <2>5. \A h \in Guest : SameOf(Final, h) BY <2>2, UnchangedSame
  <2>6. ASSUME NEW place, At(w, place), place \in {"rollback", "assigned"}
        PROVE  \A h \in Guest : FewerThreads(h)
    BY <1>16, <1>20, <2>6 DEF Push, FewerThreads, Handing, Ending, Thread
  <2>7. CASE At(w, "rollback") /\ UNCHANGED inbox
    BY <1>1, <1>3, <2>2, <2>4, <2>5, <2>6, <2>7
  <2>8. CASE At(w, "assigned")
    <3>1. \A h \in Guest : FewerThreads(h) BY <2>6, <2>8
    <3>2. CASE UNCHANGED inbox
      BY <1>1, <1>3, <2>2, <2>4, <2>5, <3>1, <3>2
    <3>3. CASE inbox' = [inbox EXCEPT ![g] = Append(@, t)]
      <4>1. \A h \in Guest \ {g} : Same(h)
        BY <2>2, <3>3 DEF Same, Executing, WorkTypeOK
      <4>2. \A h \in Guest \ {g} : OnePlace(h)'
        BY <1>1, <2>4, <2>5, <3>1, <4>1
      <4>3. inbox'[g] = <<t>> BY <2>3, <3>3 DEF WorkTypeOK
      <4>4. th'[w].at = "assigned" BY <1>16, <2>8
      <4>5. \A v \in Thread : ~Handing(v, g)'
        BY <2>3, <3>1, <4>4 DEF FewerThreads, Handing
      <4>6. ~Ending(g)' BY <2>3, <3>1 DEF Alone, FewerThreads
      <4>7. Alone(g)'
        BY <2>2, <2>3, <4>6 DEF Alone, Executing, NoResult
      <4>8. Mine(t, g)' BY <2>2, <2>3 DEF Mine, IsActive
      <4>9. QueuedOnce(g)'
        <5>1. Len(inbox'[g]) = 1 /\ inbox'[g][1] = t BY <4>3
        <5> QED BY <5>1, <4>7, <4>8 DEF QueuedOnce, Mine, IsActive
      <4>10. (HandedOnce(g) /\ ExecutedOnce(g) /\ ReportedOnce(g) /\ EndedOnce(g))'
        BY <4>5, <4>7 DEF HandedOnce, Alone, ExecutedOnce, ReportedOnce, EndedOnce, NoResult
      <4> QED BY <4>2, <4>9, <4>10 DEF OnePlace
    <3> QED BY <1>20, <2>1, <3>2, <3>3 DEF Push, WorkTypeOK
  <2> QED BY <1>20, <2>7, <2>8 DEF Push
<1>21. ASSUME NEW g \in Guest, TakeAssignment(g) PROVE \A h \in Guest : OnePlace(h)'
  <2>1. PICK t \in Task : t = Head(inbox[g]) /\ t = inbox[g][1]
    <3>1. inbox[g] \in Seq(Task) /\ inbox[g] # <<>> BY <1>21 DEF TakeAssignment, WorkTypeOK
    <3>2. Head(inbox[g]) \in Task BY <3>1, HeadTailProperties
    <3>3. Head(inbox[g]) = inbox[g][1] BY <3>1, LenProperties, EmptySeq
    <3> QED BY <3>2, <3>3
  <2>2. UNCHANGED <<status, assignedTo, th>>
    BY <1>21 DEF TakeAssignment, vars, tableVars
  <2>3. \A h \in Guest : SameOf(Final, h)
    <3>1. [m |-> "acknowledge", t |-> t] \in ValidCall BY DEF ValidCall, Call
    <3> QED BY <1>21, <2>1, <3>1, SubmitSame DEF TakeAssignment, Final
  <2>4. \A h \in Guest \ {g} : Same(h)
    BY <1>21 DEF TakeAssignment, Same, Executing, WorkTypeOK
  <2>5. \A h \in Guest \ {g} : OnePlace(h)'
    BY <1>1, <1>2, <2>2, <2>3, <2>4, UnchangedFewer
  <2>6. inbox[g] # <<>> /\ Len(inbox[g]) = 1 /\ Mine(t, g) /\ Alone(g)
    BY <1>21, <2>1 DEF TakeAssignment, QuietState, OnePlace, QueuedOnce
  <2>7. inbox'[g] = <<>> /\ doing'[g] = t
    BY <1>21, <2>1, <2>6 DEF TakeAssignment, WorkTypeOK
  <2>8. Mine(t, g)' BY <2>2, <2>6 DEF Mine, IsActive
  <2>9. NoResult(g)' /\ ~Ending(g)'
    BY <2>2, <2>3, <2>6 DEF Alone, NoResult, SameOf, Ending
  <2>10. \A w \in Thread : ~Handing(w, g)'
    BY <2>2, <2>6 DEF QuietState, OnePlace, HandedOnce, Handing
  <2>11. ExecutedOnce(g)' BY <2>7, <2>8, <2>9 DEF ExecutedOnce, Mine, IsActive
  <2>12. (HandedOnce(g) /\ QueuedOnce(g) /\ ReportedOnce(g) /\ EndedOnce(g))'
    BY <2>7, <2>9, <2>10 DEF HandedOnce, QueuedOnce, ReportedOnce, EndedOnce, NoResult
  <2> QED BY <2>5, <2>11, <2>12 DEF OnePlace
<1>22. ASSUME NEW g \in Guest, SendResult(g) PROVE \A h \in Guest : OnePlace(h)'
  <2>1. PICK t \in Task, m \in Final : t = doing[g] /\ Submit(g, m, t)
    BY <1>22 DEF SendResult, DoingOK
  <2>2. UNCHANGED <<status, assignedTo, th, inbox, doing>>
    BY <1>22 DEF SendResult, vars, tableVars
  <2>3. \A h \in Guest \ {g} : Same(h)
    BY <1>22, <2>2 DEF SendResult, Same, Executing, WorkTypeOK
  <2>4. \A h \in Guest \ {g} : calls'[h] = calls[h] BY <2>1 DEF Submit, CallsOK
  <2>5. \A h \in Guest \ {g} : OnePlace(h)'
    BY <1>1, <1>2, <2>2, <2>3, <2>4, UnchangedFewer, SameCalls
  <2>6. Executing(g) /\ Mine(t, g) /\ NoResult(g) /\ ~Ending(g)
    BY <1>22, <2>1 DEF SendResult, Executing, QuietState, OnePlace, ExecutedOnce
  <2>7. Mine(t, g)' BY <2>2, <2>6 DEF Mine, IsActive
  <2>8. inbox'[g] = <<>> /\ ~Ending(g)' /\ \A w \in Thread : ~Handing(w, g)'
    BY <2>2, <2>6 DEF QuietState, OnePlace, QueuedOnce, HandedOnce, Alone, Ending, Handing
  <2>9. ~Executing(g)' BY <1>22 DEF SendResult, Executing, WorkTypeOK
  <2>10. ReportedOnce(g)'
    <3>1. CASE ~link[g]
      <4>1. calls'[g] = calls[g] BY <2>1, <3>1 DEF Submit, CallsOK
      <4> QED BY <2>6, <4>1 DEF NoResult, ReportedOnce
    <3>2. CASE link[g]
      <4> DEFINE c == [m |-> m, t |-> t]
      <4>1. calls'[g] = Append(calls[g], c) BY <2>1, <3>2 DEF Submit, CallsOK
      <4>2. c.t = t OBVIOUS
      <4>3. c \in ValidCall BY DEF ValidCall, Call, Final
      <4> HIDE DEF c
      <4>4. /\ Len(calls'[g]) = Len(calls[g]) + 1 /\ Len(calls[g]) \in Nat
            /\ \A i \in 1..Len(calls[g]) : calls'[g][i] = calls[g][i]
            /\ calls'[g][Len(calls[g]) + 1] = c
        BY <4>1, <4>3, AppendProperties, LenProperties DEF CallsOK
      <4>5. \A i \in 1..Len(calls'[g]) : calls'[g][i].m \in Final => i = Len(calls[g]) + 1
        BY <2>6, <4>4 DEF NoResult
      <4>6. \A i \in 1..Len(calls'[g]) : calls'[g][i].m \in Final => calls'[g][i].t = t
        BY <4>2, <4>4, <4>5
      <4> QED BY <2>7, <2>8, <4>5, <4>6 DEF ReportedOnce, Mine, IsActive
    <3> QED BY <3>1, <3>2
  <2>11. (HandedOnce(g) /\ QueuedOnce(g) /\ ExecutedOnce(g) /\ EndedOnce(g))'
    BY <2>8, <2>9 DEF HandedOnce, QueuedOnce, ExecutedOnce, EndedOnce
  <2> QED BY <2>5, <2>10, <2>11 DEF OnePlace
<1>23. ASSUME NEW g \in Guest, HandleResult(g) PROVE \A h \in Guest : OnePlace(h)'
  <2>1. PICK m \in Final : Arrives(g, m) BY <1>23 DEF HandleResult
  <2>2. /\ Len(calls[g]) \in Nat /\ Len(calls[g]) > 0 /\ calls[g][1] = Head(calls[g])
        /\ Head(calls[g]) \in ValidCall /\ Head(calls[g]).m = m
    BY <2>1, LenProperties, EmptySeq, HeadCall DEF Arrives, CallsOK
  <2>3. PICK t \in Task : t = Arg(g) /\ t = calls[g][1].t
    BY <2>2 DEF Arg, ValidCall, Final
  <2>4. /\ Mine(t, g) /\ ~Ending(g)
        /\ \A j \in 1..Len(calls[g]) : calls[g][j].m \in Final => j = 1
    BY <2>2, <2>3 DEF QuietState, OnePlace, ReportedOnce
  <2>5. UNCHANGED <<status, assignedTo, inbox, stage, doing>>
    BY <1>23 DEF HandleResult, vars, tableVars, workVars
  <2>6. /\ th'[g].at = "end" /\ th'[g].t = t /\ th'[g].g = g
        /\ \A v \in Thread \ {g} : th'[v] = th[v]
    BY <1>23, <2>3, <2>4 DEF HandleResult, Go, ThreadOK, Thread, Mine, Rest
  <2>7. \A h \in Guest : SameOf(Final, h) BY <1>23, <2>1, TakenSame DEF HandleResult
  <2>8. \A h \in Guest \ {g} : FewerThreads(h)
    BY <2>6 DEF FewerThreads, Handing, Ending, Thread
  <2>9. \A h \in Guest \ {g} : OnePlace(h)' BY <1>1, <1>2, <1>3, <2>5, <2>7, <2>8
  <2>10. ~NoResult(g) BY <2>2 DEF NoResult
  <2>11. inbox[g] = <<>> /\ ~Executing(g) /\ \A w \in Thread : ~Handing(w, g)
    BY <2>10 DEF QuietState, OnePlace, QueuedOnce, ExecutedOnce, HandedOnce, Alone
  <2>12. inbox'[g] = <<>> /\ ~Executing(g)' /\ \A w \in Thread : ~Handing(w, g)'
    BY <2>5, <2>6, <2>11 DEF Executing, Handing
  <2>13. NoResult(g)'
    <3>1. calls'[g] = Tail(calls[g]) BY <1>23 DEF HandleResult, Taken, CallsOK
    <3>2. /\ Len(calls'[g]) = Len(calls[g]) - 1
          /\ \A i \in 1..Len(calls'[g]) : calls'[g][i] = calls[g][i + 1]
      BY <2>2, <3>1, HeadTailProperties DEF CallsOK
    <3>3. \A i \in 1..Len(calls'[g]) : i + 1 \in 1..Len(calls[g]) /\ i + 1 # 1
      BY <2>2, <3>2
    <3> QED BY <2>4, <3>2, <3>3 DEF NoResult
  <2>14. Mine(t, g)' BY <2>4, <2>5 DEF Mine, IsActive
  <2>15. EndedOnce(g)' BY <2>6, <2>14 DEF EndedOnce, Mine, IsActive
  <2>16. (HandedOnce(g) /\ QueuedOnce(g) /\ ExecutedOnce(g) /\ ReportedOnce(g))'
    BY <2>12, <2>13 DEF HandedOnce, QueuedOnce, ExecutedOnce, ReportedOnce, NoResult
  <2> QED BY <2>9, <2>15, <2>16 DEF OnePlace
(* An assignment is over. *)
<1>24. ASSUME NEW g \in Guest, EndReported(g) PROVE \A h \in Guest : OnePlace(h)'
  <2>1. PICK l : Go(g, l) /\ l.at \in {"idle", "next"}
    <3>1. Rest.at = "idle" BY DEF Rest
    <3>2. [Saying(th[g].t, th[g].say) EXCEPT !.todo = {th[g].g} \ {NoGuest}].at = "next"
      BY DEF Saying, Rest
    <3> QED BY <1>24, <3>1, <3>2 DEF EndReported
  <2>2. /\ th'[g].at \in {"idle", "next"}
        /\ \A v \in Thread \ {g} : th'[v] = th[v]
    BY <2>1 DEF Go, ThreadOK, Thread
  <2>3. UNCHANGED <<calls, inbox, stage, doing>>
    BY <1>24 DEF EndReported, wireVars, workVars
  <2>4. Ending(g) BY <1>24 DEF EndReported, Ending
  <2>5. \A h \in Guest \ {g} : Kept(h)
    BY <1>24, EndFrees DEF Kept, Mine, IsActive
  <2>6. \A h \in Guest \ {g} : FewerThreads(h)
    BY <2>2 DEF FewerThreads, Handing, Ending, Thread
  <2>7. \A h \in Guest \ {g} : OnePlace(h)'
    BY <1>1, <1>3, <2>3, <2>5, <2>6, UnchangedSame
  <2>8. ~Executing(g) /\ NoResult(g) /\ inbox[g] = <<>> /\ \A w \in Thread : ~Handing(w, g)
    BY <2>4 DEF QuietState, OnePlace, QueuedOnce, ExecutedOnce, HandedOnce, ReportedOnce,
                Alone, NoResult
  <2>9. Vacant(g)'
    BY <2>2, <2>3, <2>8 DEF Vacant, Alone, Executing, NoResult, Ending, Handing
  <2> QED BY <2>7, <2>9, <1>17
<1>25. ASSUME NEW w \in Thread, Rollback(w) PROVE \A h \in Guest : OnePlace(h)'
  <2>1. PICK g \in Guest : g = th[w].g BY <1>25, RollbackFrees
  <2>2. /\ th'[w].at = "next" /\ \A v \in Thread \ {w} : th'[v] = th[v]
    BY <1>16, <1>25 DEF Rollback
  <2>3. UNCHANGED <<calls, inbox, stage, doing>>
    BY <1>25 DEF Rollback, wireVars, workVars
  <2>4. /\ Handing(w, g) /\ inbox[g] = <<>> /\ Alone(g)
        /\ \A v \in Thread : Handing(v, g) => v = w
    BY <1>25, <2>1 DEF Rollback, Handing, QuietState, OnePlace, HandedOnce
  <2>5. \A h \in Guest \ {g} : Kept(h)
    BY <1>25, <2>1, RollbackFrees DEF Kept, Mine, IsActive
  <2>6. \A h \in Guest : FewerThreads(h)
    BY <2>2 DEF FewerThreads, Handing, Ending, Thread
  <2>7. \A h \in Guest \ {g} : OnePlace(h)'
    BY <1>1, <1>3, <2>3, <2>5, <2>6, UnchangedSame
  <2>8. \A v \in Thread : ~Handing(v, g)' BY <2>2, <2>4 DEF Handing
  <2>9. ~Ending(g)' BY <2>4, <2>6 DEF Alone, FewerThreads
  <2>10. Vacant(g)'
    BY <2>3, <2>4, <2>8, <2>9 DEF Vacant, Alone, Executing, NoResult
  <2> QED BY <2>7, <2>10, <1>17
<1> QED
  BY <1>4, <1>5, <1>6, <1>7, <1>8, <1>9, <1>11, <1>12, <1>13, <1>19, <1>20, <1>21, <1>22,
     <1>23, <1>24, <1>25 DEF QuietNext, Executes, Continue

(* The other calls: a guest registers once.                                *)
Odd == {"register", "declined", "cancelled"}

LEMMA WireKept ==
  ASSUME NEW g \in Guest, QuietWire(g), CallsOK, CallsOK', SameOf(Odd, g),
         signals'[g] = signals[g], link'[g] = link[g],
         conn'[g] = conn[g] \/ conn'[g] = "none",
         g \in registered' <=> g \in registered
  PROVE  QuietWire(g)'
<1>1. /\ Len(calls[g]) \in Nat /\ Len(calls'[g]) \in Nat
  BY LenProperties DEF CallsOK
<1>2. PICK d \in {0, 1} : \A i \in 1..Len(calls'[g]) :
    calls'[g][i].m \in Odd => i + d \in 1..Len(calls[g]) /\ calls[g][i + d] = calls'[g][i]
  BY DEF SameOf
<1>3. ASSUME NEW i \in 1..Len(calls'[g]), calls'[g][i].m \in Odd
      PROVE  calls'[g][i].m = "register" /\ i = 1 /\ link[g] /\ g \notin registered
  <2>1. i + d \in 1..Len(calls[g]) /\ calls[g][i + d] = calls'[g][i] BY <1>2, <1>3
  <2>2. calls[g][i + d].m = "register" /\ i + d = 1 /\ link[g] /\ g \notin registered
    BY <1>3, <2>1 DEF QuietWire, Odd
  <2> QED BY <1>1, <2>1, <2>2
<1> QED BY <1>3 DEF QuietWire, Odd

LEMMA QuietWireStep ==
  ASSUME ProtocolInv, ProtocolInv', QuietState, Undisturbed, QuietNext
  PROVE  \A g \in Guest : QuietWire(g)'
<1> USE DEF ProtocolInv
<1> DEFINE Settled(h) == /\ signals'[h] = signals[h] /\ link'[h] = link[h]
                         /\ conn'[h] = conn[h] \/ conn'[h] = "none"
                         /\ h \in registered' <=> h \in registered
<1>1. ASSUME NEW h \in Guest, SameOf(Odd, h), Settled(h) PROVE QuietWire(h)'
  BY <1>1, WireKept DEF QuietState
<1>2. ASSUME UNCHANGED <<signals, link, conn, registered>> PROVE \A h \in Guest : Settled(h)
  BY <1>2
<1> HIDE DEF Settled
<1>3. ASSUME NEW g \in Guest, Connect(g) PROVE \A h \in Guest : QuietWire(h)'
  <2>1. /\ \A h \in Guest \ {g} : calls'[h] = calls[h] /\ link'[h] = link[h]
        /\ link'[g] /\ UNCHANGED <<signals, conn, registered>>
    BY <1>3 DEF Connect, CallsOK, WireTypeOK, vars, guestVars
  <2>2. \A h \in Guest \ {g} : QuietWire(h)'
    BY <1>1, <2>1, SameCalls DEF Settled
  <2>3. Len(calls'[g]) = 1 /\ calls'[g][1].m = "register"
    BY <1>3 DEF Connect, CallsOK
  <2>4. g \notin registered /\ signals[g] = {} BY <1>3 DEF Connect, QuietState, QuietWire
  <2>5. QuietWire(g)' BY <2>1, <2>3, <2>4 DEF QuietWire
  <2> QED BY <2>2, <2>5
<1>4. ASSUME NEW g \in Guest, HandleRegister(g) PROVE \A h \in Guest : QuietWire(h)'
  <2>1. \A h \in Guest : SameOf(Odd, h) BY <1>4, TakenSame DEF HandleRegister
  <2>2. /\ Len(calls[g]) \in Nat /\ Len(calls[g]) > 0
        /\ calls[g][1] = Head(calls[g]) /\ Head(calls[g]).m = "register"
    BY <1>4, LenProperties, EmptySeq DEF HandleRegister, Arrives, CallsOK
  <2>3. link[g] /\ g \notin registered BY <2>2 DEF QuietState, QuietWire
  <2>4. /\ UNCHANGED signals
        /\ \A h \in Guest \ {g} : link'[h] = link[h] /\ conn'[h] = conn[h]
        /\ \/ link'[g] = FALSE /\ registered' = registered
           \/ link'[g] /\ conn'[g] = "open" /\ registered' = registered \cup {g}
    BY <1>4, <2>3
       DEF HandleRegister, Register, ReconcileGuest, WireTypeOK, vars, guestVars
  <2>5. \A h \in Guest \ {g} : QuietWire(h)' BY <1>1, <2>1, <2>4 DEF Settled
  <2>6. \A i \in 1..Len(calls'[g]) : calls'[g][i].m \notin Odd
    <3>1. calls'[g] = Tail(calls[g]) /\ calls[g] # <<>>
      BY <1>4 DEF HandleRegister, Arrives, Taken, CallsOK
    <3>2. /\ Len(calls'[g]) = Len(calls[g]) - 1
          /\ \A i \in 1..Len(calls'[g]) : calls'[g][i] = calls[g][i + 1]
      BY <2>2, <3>1, HeadTailProperties DEF CallsOK
    <3>3. \A i \in 1..Len(calls'[g]) : i + 1 \in 1..Len(calls[g]) /\ i + 1 # 1
      BY <2>2, <3>2
    <3> QED BY <3>2, <3>3 DEF QuietState, QuietWire, Odd
  <2>7. QuietWire(g)' BY <2>3, <2>4, <2>6 DEF QuietWire, QuietState, Odd
  <2> QED BY <2>5, <2>7
<1>5. ASSUME NEW g \in Guest, NEW m, NEW t, [m |-> m, t |-> t] \in ValidCall, m \notin Odd,
             Submit(g, m, t), UNCHANGED <<signals, link, conn, registered>>
      PROVE  \A h \in Guest : QuietWire(h)'
  BY <1>1, <1>2, <1>5, SubmitSame
<1>6. ASSUME NEW g \in Guest, SendHeartbeat(g) \/ EndExecution(g)
      PROVE  \A h \in Guest : QuietWire(h)'
  <2>1. PICK t \in 0..MaxTasks : Submit(g, "heartbeat", t)
    <3>1. doing[g] \in 0..MaxTasks /\ doing'[g] \in 0..MaxTasks BY DEF WorkTypeOK
    <3> QED BY <1>6, <3>1 DEF SendHeartbeat, EndExecution
  <2>2. [m |-> "heartbeat", t |-> t] \in ValidCall BY DEF ValidCall, Call
  <2>3. UNCHANGED <<signals, link, conn, registered>>
    BY <1>6 DEF SendHeartbeat, EndExecution, vars, guestVars
  <2> QED BY <1>5, <2>1, <2>2, <2>3 DEF Odd
<1>7. ASSUME NEW g \in Guest, TakeAssignment(g) PROVE \A h \in Guest : QuietWire(h)'
  <2>1. inbox[g] \in Seq(Task) /\ inbox[g] # <<>> BY <1>7 DEF TakeAssignment, WorkTypeOK
  <2>2. Head(inbox[g]) \in Task BY <2>1, HeadTailProperties
  <2>3. [m |-> "acknowledge", t |-> Head(inbox[g])] \in ValidCall
    BY <2>2 DEF ValidCall, Call
  <2>4. Submit(g, "acknowledge", Head(inbox[g])) /\ UNCHANGED <<signals, link, conn, registered>>
    BY <1>7 DEF TakeAssignment, vars, guestVars
  <2> QED BY <1>5, <2>3, <2>4 DEF Odd
<1>8. ASSUME NEW g \in Guest, SendResult(g) PROVE \A h \in Guest : QuietWire(h)'
  <2>1. PICK t \in Task, m \in Final : Submit(g, m, t)
    BY <1>8 DEF SendResult, DoingOK
  <2>2. [m |-> m, t |-> t] \in ValidCall BY DEF ValidCall, Call, Final
  <2>3. UNCHANGED <<signals, link, conn, registered>>
    BY <1>8 DEF SendResult, vars, guestVars
  <2> QED BY <1>5, <2>1, <2>2, <2>3 DEF Odd, Final
<1>9. ASSUME NEW g \in Guest, HandleHeartbeat(g) \/ HandleAcknowledge(g) \/ HandleResult(g)
      PROVE  \A h \in Guest : QuietWire(h)'
  <2>1. \A h \in Guest : SameOf(Odd, h)
    BY <1>9, TakenSame DEF HandleHeartbeat, HandleAcknowledge, HandleResult
  <2>2. UNCHANGED <<signals, link, conn, registered>>
    BY <1>9 DEF HandleHeartbeat, Heartbeat, TaskHeartbeat, HandleAcknowledge, AcknowledgeTask,
                HandleResult, vars, guestVars
  <2> QED BY <1>1, <1>2, <2>1, <2>2
<1>10. ASSUME NEW g \in Guest, NoticeLoss(g) PROVE \A h \in Guest : QuietWire(h)'
  <2>1. UNCHANGED <<calls, signals, link, registered>>
    BY <1>10 DEF NoticeLoss, vars, guestVars
  <2>2. \A h \in Guest : Settled(h) BY <1>10, <2>1 DEF NoticeLoss, Settled, WireTypeOK
  <2> QED BY <1>1, <2>1, <2>2, UnchangedSame
<1>11. ASSUME UNCHANGED <<calls, signals, link, conn, registered>>
       PROVE  \A h \in Guest : QuietWire(h)'
  BY <1>1, <1>2, <1>11, UnchangedSame
<1>12. ASSUME NEW g \in Guest, EndReported(g) PROVE \A h \in Guest : QuietWire(h)'
  BY <1>11, <1>12, EndFrees DEF EndReported, wireVars
<1>13. ASSUME NEW w \in Thread, Continue(w) PROVE \A h \in Guest : QuietWire(h)'
  BY <1>11, <1>13 DEF Continue, Pick, Assign, Push, Rollback, AnnounceAssigned, AnnounceLast,
       AssignTask, Hand, RequeueTask, wireVars, vars, guestVars
<1>14. ASSUME Probe PROVE \A h \in Guest : QuietWire(h)'
  BY <1>11, <1>14, TableKept DEF Probe, wireVars
<1>15. ASSUME NEW t \in Task, CreateTask(t) PROVE \A h \in Guest : QuietWire(h)'
  BY <1>11, <1>15 DEF CreateTask, AddTaskOrDedup, wireVars, guestVars
<1> QED
  BY <1>3, <1>4, <1>6, <1>7, <1>8, <1>9, <1>10, <1>12, <1>13, <1>14, <1>15
     DEF QuietNext, Executes

LEMMA QuietThreadsStep ==
  ASSUME ProtocolInv, QuietState, QuietNext PROVE QuietThreads'
<1> USE DEF ProtocolInv
<1> DEFINE Quiet == {"idle", "end", "next", "assign", "push", "rollback", "assigned"}
<1>1. \A w \in Thread : th[w].at \in Quiet /\ th[w] \in Local
  BY DEF QuietState, QuietThreads, ThreadOK, ValidLocal, Local
<1>2. ASSUME NEW w \in Thread, NEW l, Go(w, l), l.at \in Quiet PROVE QuietThreads'
  BY <1>1, <1>2 DEF Go, QuietThreads, ThreadOK
<1>3. ASSUME UNCHANGED th PROVE QuietThreads' BY <1>3 DEF QuietState, QuietThreads
<1>4. Rest.at = "idle" BY DEF Rest
<1>5. ASSUME NEW w \in Thread, NEW place \in Quiet, At(w, place) PROVE QuietThreads'
  <2>1. [th[w] EXCEPT !.at = place].at = place BY <1>1 DEF Local
  <2> QED BY <1>2, <1>5, <2>1 DEF At
<1>6. ASSUME NEW g \in Guest,
             Connect(g) \/ SendHeartbeat(g) \/ TakeAssignment(g) \/ Executes(g)
               \/ HandleHeartbeat(g) \/ NoticeLoss(g)
      PROVE  QuietThreads'
  BY <1>3, <1>6 DEF Connect, SendHeartbeat, TakeAssignment, Executes, SendResult, EndExecution,
                    HandleHeartbeat, NoticeLoss, QuietState, QuietWire
<1>7. ASSUME NEW g \in Guest, HandleRegister(g) PROVE QuietThreads'
  <2>1. [Rest EXCEPT !.at = "next", !.todo = {g}].at = "next" BY DEF Rest
  <2> QED BY <1>2, <1>3, <1>7, <2>1 DEF HandleRegister, Thread
<1>8. ASSUME NEW g \in Guest, HandleAcknowledge(g) PROVE QuietThreads'
  <2>1. Saying(Arg(g), "RUNNING").at = "next" BY DEF Saying, Rest
  <2> QED BY <1>2, <1>3, <1>8, <2>1 DEF HandleAcknowledge, Thread
<1>9. ASSUME NEW g \in Guest, HandleResult(g) PROVE QuietThreads'
  <2>1. [Rest EXCEPT !.at = "end", !.t = Arg(g), !.g = assignedTo[Arg(g)],
                     !.say = Head(calls[g]).m].at = "end" BY DEF Rest
  <2> QED BY <1>2, <1>9, <2>1 DEF HandleResult, Thread
<1>10. ASSUME NEW g \in Guest, EndReported(g) PROVE QuietThreads'
  <2>1. [Saying(th[g].t, th[g].say) EXCEPT !.todo = {th[g].g} \ {NoGuest}].at = "next"
    BY DEF Saying, Rest
  <2> QED BY <1>2, <1>4, <1>10, <2>1 DEF EndReported, Thread
<1>11. ASSUME NEW w \in Thread, Assign(w) \/ Push(w) \/ Rollback(w) PROVE QuietThreads'
  BY <1>5, <1>11 DEF Assign, Push, Rollback
<1>12. ASSUME NEW w \in Thread, Pick(w) PROVE QuietThreads'
  <2>1. PICK g \in th[w].todo :
          LET left == [th[w] EXCEPT !.todo = @ \ {g}]
          IN  \/ Go(w, left)
              \/ \E t : Go(w, [left EXCEPT !.at = "assign", !.t = t, !.g = g])
    BY <1>12 DEF Pick
  <2> DEFINE left == [th[w] EXCEPT !.todo = @ \ {g}]
  <2>2. left.at = "next" BY <1>1, <1>12 DEF Pick, Local
  <2>3. left \in Local
    <3>1. th[w].todo \ {g} \in SUBSET Guest BY <1>1 DEF Local
    <3> QED BY <1>1, <3>1, FieldOK
  <2>4. \A t : [left EXCEPT !.at = "assign", !.t = t, !.g = g].at = "assign"
    BY <2>3 DEF Local
  <2> QED BY <1>2, <2>1, <2>2, <2>4
<1>13. ASSUME NEW w \in Thread, AnnounceAssigned(w) PROVE QuietThreads'
  <2> DEFINE l == [th[w] EXCEPT !.at = "next",
                                !.todo = IF th[w].only = NoTask THEN @ ELSE {}]
  <2>1. l.at = "next" BY <1>1 DEF Local
  <2>2. Go(w, l) BY <1>13 DEF AnnounceAssigned
  <2> QED BY <1>2, <2>1, <2>2
<1>14. ASSUME NEW w \in Thread, AnnounceLast(w) PROVE QuietThreads'
  BY <1>2, <1>4, <1>14 DEF AnnounceLast
<1>15. ASSUME Probe PROVE QuietThreads'
  <2>1. [Rest EXCEPT !.at = "next", !.todo = registered].at = "next" BY DEF Rest
  <2> QED BY <1>2, <1>3, <1>15, <2>1 DEF Probe, Thread
<1>16. ASSUME NEW t \in Task, CreateTask(t) PROVE QuietThreads'
  <2>1. PICK todo : Go(Http, [Rest EXCEPT !.at = "next", !.todo = todo])
    BY <1>16 DEF CreateTask
  <2>2. [Rest EXCEPT !.at = "next", !.todo = todo].at = "next" BY DEF Rest
  <2> QED BY <1>2, <2>1, <2>2 DEF Thread
<1> QED
  BY <1>6, <1>7, <1>8, <1>9, <1>10, <1>11, <1>12, <1>13, <1>14, <1>15, <1>16
     DEF QuietNext, Continue

LEMMA IdleStep ==
  ASSUME ProtocolInv, QuietState, QuietNext PROVE IdleDoesNothing'
<1> USE DEF ProtocolInv, QuietState, WorkTypeOK
<1>1. ASSUME UNCHANGED <<stage, doing>> PROVE IdleDoesNothing'
  BY <1>1 DEF IdleDoesNothing
<1>2. ASSUME NEW g \in Guest,
             TakeAssignment(g) \/ Executes(g) \/ HandleAcknowledge(g)
      PROVE  IdleDoesNothing'
  BY <1>2 DEF TakeAssignment, Executes, SendResult, EndExecution, HandleAcknowledge,
              IdleDoesNothing
<1>3. ASSUME NEW g \in Guest,
             Connect(g) \/ SendHeartbeat(g) \/ HandleRegister(g) \/ HandleHeartbeat(g)
               \/ HandleResult(g) \/ EndReported(g) \/ NoticeLoss(g)
      PROVE  IdleDoesNothing'
  BY <1>1, <1>3 DEF Connect, SendHeartbeat, HandleRegister, HandleHeartbeat, HandleResult,
                    EndReported, NoticeLoss, workVars
<1>4. ASSUME NEW w \in Thread, Continue(w) PROVE IdleDoesNothing'
  BY <1>1, <1>4 DEF Continue, Pick, Assign, Push, Rollback, AnnounceAssigned, AnnounceLast,
                    workVars
<1>5. ASSUME NEW t \in Task, Probe \/ CreateTask(t) PROVE IdleDoesNothing'
  BY <1>1, <1>5 DEF Probe, CreateTask, workVars
<1>6. Probe => IdleDoesNothing' BY <1>1 DEF Probe, workVars
<1> QED BY <1>2, <1>3, <1>4, <1>5, <1>6 DEF QuietNext

LEMMA QuietInit == ProtocolInit => QuietInv
<1> SUFFICES ASSUME ProtocolInit PROVE QuietState
  BY DEF QuietInv
<1>1. \A t \in Task : status[t] \notin Active BY DEF ProtocolInit, Init, Active
<1>2. \A w \in Thread : th[w].at = "idle" BY DEF ProtocolInit, Rest
<1>3. \A g \in Guest : OnePlace(g)
  BY <1>2 DEF ProtocolInit, Thread, OnePlace, HandedOnce, QueuedOnce, ExecutedOnce,
              ReportedOnce, EndedOnce, Handing, Executing, Ending
<1>4. \A g \in Guest : QuietWire(g)
  BY DEF ProtocolInit, Init, QuietWire
<1> QED
  BY <1>1, <1>2, <1>3, <1>4 DEF ProtocolInit, QuietState, OneTaskPerGuest, OwnersRun, IsActive,
                  QuietThreads, IdleDoesNothing

LEMMA QuietStep ==
  ProtocolInv /\ ProtocolInv' /\ QuietInv /\ [ProtocolNext]_protocolVars => QuietInv'
<1> SUFFICES ASSUME ProtocolInv, ProtocolInv', QuietInv, [ProtocolNext]_protocolVars, Undisturbed'
             PROVE  QuietState'
  BY DEF QuietInv
<1>1. CASE UNCHANGED protocolVars
  BY <1>1, SMTT(20) DEF protocolVars, vars, tableVars, guestVars, linkVars, wireVars, workVars,
    QuietInv,
       Undisturbed, QuietState, OnePlace, HandedOnce, QueuedOnce, ExecutedOnce, ReportedOnce,
       EndedOnce, Handing, Executing, Ending, NoResult, Alone, Mine, IsActive, QuietWire,
       OneTaskPerGuest, OwnersRun, QuietThreads, IdleDoesNothing
<1>2. CASE ProtocolNext
  <2>1. Undisturbed /\ QuietState /\ QuietNext BY <1>2, QuietActions
  <2> QED
    BY <2>1, QuietTableStep, PlacesStep, QuietWireStep, QuietThreadsStep, IdleStep
      DEF QuietState
<1> QED BY <1>1, <1>2

LEMMA QuietInvariant == ProtocolSpec => []QuietInv
<1>1. ProtocolInv /\ ProtocolInv' /\ QuietInv /\ [ProtocolNext]_protocolVars => QuietInv'
  BY QuietStep
<1> QED BY <1>1, QuietInit, ProtocolInvariant, PTL DEF ProtocolSpec

(* While no connection is lost and nothing is cancelled, a guest executes  *)
(* a task that the table has as its own, however many guests, handlers and *)
(* pending tasks there are.  The probes of the sweep are assumed off:      *)
(* whether an assignment is overdue is a question of time, which passes in *)
(* Protocol only when no call is under way.                                *)
THEOREM ExecutionsOwned ==
  ASSUME NoProbes PROVE ProtocolSpec => []ExecutesOwnTask
<1>1. ProtocolInv /\ QuietInv => ExecutesOwnTask
  <2> SUFFICES ASSUME ProtocolInv, QuietState, NEW g \in Guest, doing[g] # NoTask,
                      stage[g] # "ending"
               PROVE  IsActive(doing[g]) /\ assignedTo[doing[g]] = g
    BY DEF QuietInv, Undisturbed, ExecutesOwnTask
  <2>1. Executing(g)
    BY DEF QuietState, IdleDoesNothing, Executing, ProtocolInv, WorkTypeOK
  <2> QED BY <2>1 DEF QuietState, OnePlace, ExecutedOnce, Mine
<1> QED BY <1>1, ProtocolInvariant, QuietInvariant, PTL

(* A guest holds one task at most, whatever threads find it idle at the    *)
(* same time, when no connection is lost, nothing is cancelled and the     *)
(* probes are off.                                                         *)
THEOREM GuestHoldsOneTask ==
  ASSUME NoProbes, MaxFaults = 0, ~Cancels PROVE ProtocolSpec => []OneTaskPerGuest
<1>1. ProtocolInv /\ QuietInv => OneTaskPerGuest
  BY DEF ProtocolInv, WireTypeOK, QuietInv, Undisturbed, QuietState
<1> QED BY <1>1, ProtocolInvariant, QuietInvariant, PTL
-------------------------------------------------------------------------------
(* The client of a connection.                                             *)
(* A connection that was lost is being reported by exactly one thread or   *)
(* has been reported, once; one that the owner closed never is.            *)
Places == {"idle", "asleep", "locking", "writing", "waiting", "reading", "reporting", "done"}
Reporting == {t \in Rpc!Thread : pc[t] = "reporting"}
ReportOK ==
  /\ alive \in BOOLEAN /\ closed \in BOOLEAN /\ graceful \in BOOLEAN /\ onCloses \in {0, 1}
  /\ pc \in [Rpc!Thread -> Places]
  /\ graceful \/ onCloses = 1 => closed
  /\ ~(graceful /\ onCloses = 1)
  /\ (Reporting # {}) <=> (closed /\ ~graceful /\ onCloses = 0)
  /\ \A t, u \in Reporting : t = u

USE DEF Rpc!Thread, Rpc!netVars, Rpc!connVars, Rpc!callVars

LEMMA RpcInit == ASSUME Rpc!CallerAssumption, Rpc!Init PROVE ReportOK
<1>0. Rpc!Reader \in Rpc!Thread OBVIOUS
<1>1. pc \in [Rpc!Thread -> Places] BY DEF Rpc!Init, Places
<1>2. Reporting = {} BY DEF Rpc!Init, Reporting
<1>3. alive = TRUE /\ closed = FALSE /\ graceful = FALSE /\ onCloses = 0 BY DEF Rpc!Init
<1>4. \A t, u \in Reporting : t = u BY <1>2
<1>5. alive \in BOOLEAN /\ closed \in BOOLEAN /\ graceful \in BOOLEAN /\ onCloses \in {0, 1}
  BY <1>3
<1>6. (Reporting # {}) <=> (closed /\ ~graceful /\ onCloses = 0) BY <1>2, <1>3
<1>7. (graceful \/ onCloses = 1 => closed) /\ ~(graceful /\ onCloses = 1) BY <1>3
<1> QED BY <1>1, <1>4, <1>5, <1>6, <1>7 DEF ReportOK

LEMMA RpcStep == ASSUME Rpc!CallerAssumption, ReportOK, Rpc!Next PROVE ReportOK'
<1> USE DEF ReportOK, Places, Reporting, Rpc!Rests, Rpc!Rest
<1>1. ASSUME NEW t \in Rpc!Thread, Rpc!Fail(t), pc[t] # "reporting", UNCHANGED <<alive, onCloses>>
      PROVE ReportOK'
  BY <1>1 DEF Rpc!Fail, Rpc!Shutdown
<1>2. ASSUME NEW c \in Caller, Rpc!Write(c) PROVE ReportOK'
  <2>1. CASE Rpc!Rests(c) /\ UNCHANGED Rpc!connVars BY <1>2, <2>1 DEF Rpc!Write
  <2>2. CASE pc' = [pc EXCEPT ![c] = "waiting"] /\ UNCHANGED Rpc!connVars
    BY <1>2, <2>2 DEF Rpc!Write
  <2>3. CASE Rpc!Fail(c) BY <1>1, <1>2, <2>3 DEF Rpc!Write
  <2> HIDE DEF Rpc!Rests
  <2> QED BY <1>2, <2>1, <2>2, <2>3 DEF Rpc!Write
<1>3. ASSUME NEW c \in Caller,
             \/ Rpc!StartCall(c) \/ Rpc!SendNotification(c) \/ Rpc!Lock(c)
             \/ Rpc!Receive(c) \/ Rpc!SeeClosed(c) \/ Rpc!Timeout(c)
      PROVE ReportOK'
  BY <1>3 DEF Rpc!StartCall, Rpc!SendNotification, Rpc!Lock, Rpc!Receive, Rpc!SeeClosed,
              Rpc!Timeout
<1>4. ASSUME NEW t \in Rpc!Thread, Rpc!OnClose(t) PROVE ReportOK'
  BY <1>4 DEF Rpc!OnClose
<1>5. CASE Rpc!Read BY <1>5, Rpc!CallerAssumption DEF Rpc!Read, Rpc!CallerAssumption
<1>6. CASE Rpc!ReadError BY <1>1, <1>6 DEF Rpc!ReadError
<1>7. CASE Rpc!Close BY <1>7 DEF Rpc!Close, Rpc!Shutdown
<1>8. CASE Rpc!ServerAnswers \/ Rpc!ServerNotifies \/ Rpc!Break \/ Rpc!Stall
  <2>1. UNCHANGED <<closed, graceful, onCloses, pc>> /\ alive' \in BOOLEAN
    BY <1>8 DEF Rpc!ServerAnswers, Rpc!ServerNotifies, Rpc!Break, Rpc!Stall
  <2> QED BY <2>1
<1> QED BY <1>2, <1>3, <1>4, <1>5, <1>6, <1>7, <1>8 DEF Rpc!Next


(* The state a step of the client leaves its owner to see, and how often  *)
(* the owner has been told, is a step ClientContract allows.               *)
LEMMA RpcContract == ASSUME Rpc!CallerAssumption, ReportOK, Rpc!Next
  PROVE Rpc!Contract!Next \/ UNCHANGED <<Rpc!Phase, onCloses>>
<1> USE DEF ReportOK, Rpc!Phase, Rpc!Contract!Next, Rpc!Contract!Goes, Rpc!Contract!Break,
      Rpc!Contract!Fail, Rpc!Contract!Report, Rpc!Contract!Close
<1>1. ASSUME NEW t \in Rpc!Thread, Rpc!Fail(t), ~alive \/ closed, UNCHANGED <<alive, onCloses>>
      PROVE  Rpc!Contract!Fail \/ UNCHANGED <<Rpc!Phase, onCloses>>
  BY <1>1 DEF Rpc!Fail, Rpc!Shutdown
<1>2. ASSUME NEW c \in Caller, Rpc!Write(c)
      PROVE  Rpc!Contract!Fail \/ UNCHANGED <<Rpc!Phase, onCloses>>
  <2>1. UNCHANGED <<alive, onCloses>> BY <1>2 DEF Rpc!Write
  <2>2. CASE UNCHANGED Rpc!connVars BY <2>1, <2>2
  <2>3. CASE (~alive \/ closed) /\ Rpc!Fail(c) BY <1>1, <2>1, <2>3
  <2> HIDE DEF Rpc!Contract!Fail
  <2> QED BY <1>2, <2>2, <2>3 DEF Rpc!Write
<1>3. ASSUME NEW c \in Caller,
             \/ Rpc!StartCall(c) \/ Rpc!SendNotification(c) \/ Rpc!Lock(c)
             \/ Rpc!Receive(c) \/ Rpc!SeeClosed(c) \/ Rpc!Timeout(c)
      PROVE  UNCHANGED <<Rpc!Phase, onCloses>>
  BY <1>3 DEF Rpc!StartCall, Rpc!SendNotification, Rpc!Lock, Rpc!Receive, Rpc!SeeClosed,
              Rpc!Timeout
<1>4. ASSUME NEW t \in Rpc!Thread, Rpc!OnClose(t) PROVE Rpc!Contract!Report
  <2>1. t \in Reporting BY <1>4 DEF Rpc!OnClose, Reporting
  <2>2. closed /\ ~graceful /\ onCloses = 0 BY <2>1
  <2>3. onCloses' = 1 /\ UNCHANGED <<alive, closed, graceful>> BY <1>4, <2>2 DEF Rpc!OnClose
  <2> QED BY <2>2, <2>3
<1>5. CASE Rpc!ReadError
  <2> HIDE DEF Rpc!Contract!Fail
  <2> QED BY <1>1, <1>5 DEF Rpc!ReadError
<1>6. CASE Rpc!Close BY <1>6 DEF Rpc!Close, Rpc!Shutdown
<1>7. CASE Rpc!Break BY <1>7 DEF Rpc!Break
<1>8. CASE Rpc!Read \/ Rpc!ServerAnswers \/ Rpc!ServerNotifies \/ Rpc!Stall
  BY <1>8 DEF Rpc!Read, Rpc!ServerAnswers, Rpc!ServerNotifies, Rpc!Stall
<1> HIDE DEF Rpc!Contract!Fail, Rpc!Contract!Report
<1> QED BY <1>2, <1>3, <1>4, <1>5, <1>6, <1>7, <1>8 DEF Rpc!Next

(* The loss of a connection that was established is reported by the        *)
(* callback of ReadLoop (rpc.go:762), once, and never after Close: what    *)
(* the flags of the client say of each phase of ReportOK holds whatever    *)
(* its loops, its callers and the server interleave.                       *)
THEOREM LossReported == ASSUME Rpc!CallerAssumption PROVE Rpc!Spec => []ReportOK
<1>1. UNCHANGED Rpc!vars /\ ReportOK => ReportOK' BY DEF ReportOK, Reporting, Rpc!vars
<1> QED BY <1>1, RpcInit, RpcStep, PTL DEF Rpc!Spec

(* Every step of the client, seen from its owner (open, broken, failing,   *)
(* reported, closed, and how often a loss was reported), is one            *)
(* ClientContract allows: no second report, and none after Close.  It is   *)
(* the safety part of KeepsContract.                                       *)
THEOREM KeepsContractSafely == ASSUME Rpc!CallerAssumption PROVE Rpc!Spec => Rpc!Contract!Spec
<1>1. Rpc!Init => Rpc!Contract!Init BY DEF Rpc!Init, Rpc!Contract!Init, Rpc!Phase
<1>2. ReportOK /\ [Rpc!Next]_Rpc!vars => [Rpc!Contract!Next]_Rpc!Contract!vars
  <2>1. UNCHANGED Rpc!vars => UNCHANGED <<Rpc!Phase, onCloses>> BY DEF Rpc!vars, Rpc!Phase
  <2> QED BY <2>1, RpcContract DEF Rpc!Contract!vars
<1> QED BY <1>1, <1>2, LossReported, PTL DEF Rpc!Spec, Rpc!Contract!Spec
-------------------------------------------------------------------------------
(* The connections of a guest.                                             *)
(* The connection Start works at is the only one whose client may be left  *)
(* open: every other was never dialled, is closed, or is lost.             *)
NoConnectionLeaks ==
  \A k \in Connection!Conn : phase[k] \in {"open", "broken"} =>
    k = current /\ start \notin {"connect", "dial", "backoff"}

(* What of a connection is there only once it was attempted. *)
AttemptOK ==
  /\ start \notin {"connect", "backoff", "end"} => current \in Connection!Conn
  /\ start = "dial" => phase[current] = "none"
  /\ \A k \in Connection!Conn : k > current => phase[k] = "none" /\ loop[k] = "none"
  /\ \A k \in Connection!Conn : loop[k] # "none" => k <= current

(* A heartbeat whose loop has the channel that is current goes through the *)
(* client that is current, or through none.                                *)
BeatOK ==
  /\ client \in {Connection!NoConn, current}
  /\ start \in {"connect", "dial", "set", "backoff"} => client = Connection!NoConn
  /\ \A k \in Connection!Conn : loop[k] \notin {"none", "top"} => snapshot[k] <= current
  /\ \A k \in Connection!Conn : loop[k] \in {"beat", "unknown", "failed"} /\
       snapshot[k] = current =>
       through[k] \in {Connection!NoConn, current}


ConnectionTyped ==
  /\ start \in {"connect", "dial", "set", "register", "spawn", "ready", "cancel", "cleanup",
                "backoff", "end"}
  /\ current \in 0..MaxConns /\ client \in 0..MaxConns
  /\ phase \in [Connection!Conn -> {"none", "open", "broken", "failing", "reported", "closed"}]
  /\ lost \subseteq Connection!Conn /\ cancelled \subseteq Connection!Conn
  /\ blame \in [Connection!Conn -> 0..MaxConns]
  /\ loop \in [Connection!Conn -> {"none", "top", "select", "beat", "unknown", "failed", "done"}]
  /\ snapshot \in [Connection!Conn -> 0..MaxConns] /\ through \in [Connection!Conn -> 0..MaxConns]
  /\ stopped \in BOOLEAN

ConnectionInv == ConnectionTyped /\ NoConnectionLeaks /\ AttemptOK /\ BeatOK

(* A heartbeat that fails drops no connection but the one it went through. *)
HeartbeatsDropOwn ==
  [][\A j, k \in Connection!Conn :
       /\ loop[j] = "failed" /\ loop'[j] = "done" /\ through[j] # Connection!NoConn
       /\ k \in lost' \ lost
       => k = through[j]]_Connection!vars

USE DEF Connection!Conn, Connection!NoConn

LEMMA ConnInit == ASSUME Connection!BoundAssumption, Connection!Init PROVE ConnectionInv
<1> USE DEF Connection!BoundAssumption
<1>1. ConnectionTyped
  <2>1. /\ phase \in [Connection!Conn -> {"none", "open", "broken", "failing", "reported",
             "closed"}]
        /\ loop \in [Connection!Conn -> {"none", "top", "select", "beat", "unknown", "failed",
             "done"}]
    BY DEF Connection!Init
  <2>2. /\ blame \in [Connection!Conn -> 0..MaxConns] /\
             snapshot \in [Connection!Conn -> 0..MaxConns]
        /\ through \in [Connection!Conn -> 0..MaxConns]
    BY DEF Connection!Init
  <2>3. start = "connect" /\ current = 0 /\ client = 0 /\ lost = {} /\ cancelled = {} /\
          stopped = FALSE
    BY DEF Connection!Init
  <2>4. 0 \in 0..MaxConns OBVIOUS
  <2>5. lost \subseteq Connection!Conn /\ cancelled \subseteq Connection!Conn BY <2>3
  <2> HIDE DEF Connection!Conn
  <2> QED BY <2>1, <2>2, <2>3, <2>4, <2>5 DEF ConnectionTyped
<1>2. NoConnectionLeaks BY DEF Connection!Init, NoConnectionLeaks
<1>3. AttemptOK
  <2>1. start = "connect" BY DEF Connection!Init
  <2>2. \A k \in Connection!Conn : phase[k] = "none" /\ loop[k] = "none" BY DEF Connection!Init
  <2> QED BY <2>1, <2>2 DEF AttemptOK
<1>4. BeatOK BY DEF Connection!Init, BeatOK
<1> QED BY <1>1, <1>2, <1>3, <1>4 DEF ConnectionInv

LEMMA ClosingType ==
  ASSUME ConnectionTyped, current \in Connection!Conn, NEW cause \in 0..MaxConns,
           Connection!SetConnLost(cause)
  PROVE  lost' \subseteq Connection!Conn /\ blame' \in [Connection!Conn -> 0..MaxConns]
<1>1. lost' = lost \cup {current} /\
      blame' = [blame EXCEPT ![current] = IF current \in lost THEN blame[current] ELSE cause]
  BY DEF Connection!SetConnLost
<1>2. (IF current \in lost THEN blame[current] ELSE cause) \in 0..MaxConns
  BY DEF ConnectionTyped
<1> QED BY <1>1, <1>2 DEF ConnectionTyped

LEMMA ConnType ==
  ASSUME Connection!BoundAssumption, ConnectionInv, Connection!Next
  PROVE  ConnectionTyped'
<1> USE DEF ConnectionInv, ConnectionTyped, Connection!BoundAssumption, Connection!loopVars,
      Connection!lostVars, Connection!Goes, Connection!CloseClient
<1>1. CASE Connection!ResetConn BY <1>1 DEF Connection!ResetConn
<1>2. CASE Connection!Dial BY <1>2 DEF Connection!Dial
<1>3. CASE Connection!SetRPCClient BY <1>3 DEF Connection!SetRPCClient
<1>4. CASE Connection!Register
  <2>1. phase' \in [Connection!Conn -> {"none", "open", "broken", "failing", "reported", "closed"}]
    BY <1>4 DEF Connection!Register
  <2>2. /\ client' \in {Connection!NoConn, client} /\ start' \in {"spawn", "backoff"}
        /\ UNCHANGED <<current, Connection!lostVars, cancelled, Connection!loopVars, stopped>>
    BY <1>4 DEF Connection!Register
  <2>3. client' \in 0..MaxConns BY <2>2
  <2> QED BY <2>1, <2>2, <2>3
<1>5. CASE Connection!Spawn BY <1>5 DEF Connection!Spawn
<1>6. CASE Connection!SeeLost BY <1>6 DEF Connection!SeeLost
<1>7. CASE Connection!SeeStopped BY <1>7 DEF Connection!SeeStopped, AttemptOK
<1>8. CASE Connection!Cleanup
  <2>1. phase' \in [Connection!Conn -> {"none", "open", "broken", "failing", "reported", "closed"}]
    BY <1>8 DEF Connection!Cleanup
  <2> QED BY <1>8, <2>1 DEF Connection!Cleanup
<1>9. CASE Connection!Retry \/ Connection!Stop BY <1>9 DEF Connection!Retry, Connection!Stop
<1>10. ASSUME NEW k \in Connection!Conn, Connection!ConnLostSignal(k) \/
                Connection!LoopEnds(k) \/ Connection!Tick(k) \/ Connection!Heartbeat(k)
       PROVE ConnectionTyped'
  <2>1. loop' \in [Connection!Conn -> {"none", "top", "select", "beat", "unknown", "failed",
          "done"}]
    BY <1>10 DEF Connection!ConnLostSignal, Connection!LoopEnds, Connection!Tick,
      Connection!Heartbeat, Connection!LoopGoes
  <2>2. snapshot' \in [Connection!Conn -> 0..MaxConns] /\
          through' \in [Connection!Conn -> 0..MaxConns]
    <3>1. CASE Connection!ConnLostSignal(k) BY <3>1 DEF Connection!ConnLostSignal
    <3>2. CASE Connection!Tick(k) BY <3>2 DEF Connection!Tick
    <3>3. CASE Connection!LoopEnds(k) \/ Connection!Heartbeat(k)
      BY <3>3 DEF Connection!LoopEnds, Connection!Heartbeat
    <3> QED BY <1>10, <3>1, <3>2, <3>3
  <2> QED
    BY <1>10, <2>1, <2>2 DEF Connection!ConnLostSignal, Connection!LoopEnds, Connection!Tick,
      Connection!Heartbeat, Connection!LoopKeeps
<1>11. ASSUME NEW k \in Connection!Conn, Connection!Escalate(k) PROVE ConnectionTyped'
  <2>1. Connection!Cause(k) \in 0..MaxConns BY DEF Connection!Cause
  <2>2. current \in Connection!Conn BY <1>11 DEF Connection!Escalate, AttemptOK
  <2>3. lost' \subseteq Connection!Conn /\ blame' \in [Connection!Conn -> 0..MaxConns]
    <3>1. Connection!SetConnLost(Connection!Cause(k)) \/ UNCHANGED <<lost, blame>>
      BY <1>11 DEF Connection!Escalate, Connection!SignalConnLostIfCurrent
    <3>2. CASE Connection!SetConnLost(Connection!Cause(k))
      <4> HIDE DEF ConnectionTyped
      <4> QED BY <2>1, <2>2, <3>2, ClosingType
    <3> QED BY <3>1, <3>2
  <2> QED BY <1>11, <2>3 DEF Connection!Escalate, Connection!LoopGoes, Connection!LoopKeeps
<1>12. ASSUME NEW k \in Connection!Conn, Connection!OnClose(k) \/ Connection!Break(k) \/
                Connection!Fail(k) PROVE ConnectionTyped'
  <2>1. phase' \in [Connection!Conn -> {"none", "open", "broken", "failing", "reported", "closed"}]
    BY <1>12 DEF Connection!OnClose, Connection!Break, Connection!Fail
  <2>2. lost' \subseteq Connection!Conn /\ blame' \in [Connection!Conn -> 0..MaxConns]
    <3>1. CASE Connection!OnClose(k)
      <4>1. CASE current = k
        <5>1. Connection!SetConnLost(k)
          BY <3>1, <4>1 DEF Connection!OnClose, Connection!SignalConnLostIfCurrent
        <5> HIDE DEF ConnectionTyped
        <5> QED BY <4>1, <5>1, ClosingType
      <4>2. CASE current # k
        BY <3>1, <4>2 DEF Connection!OnClose, Connection!SignalConnLostIfCurrent
      <4> QED BY <4>1, <4>2
    <3>2. CASE Connection!Break(k) \/ Connection!Fail(k)
      BY <3>2 DEF Connection!Break, Connection!Fail
    <3> QED BY <1>12, <3>1, <3>2
  <2> QED BY <1>12, <2>1, <2>2 DEF Connection!OnClose, Connection!Break, Connection!Fail
<1> QED BY <1>1, <1>2, <1>3, <1>4, <1>5, <1>6, <1>7, <1>8, <1>9, <1>10, <1>11, <1>12
        DEF Connection!Next, Connection!StartLoop, Connection!HeartbeatLoop

LEMMA ConnStep ==
  ASSUME Connection!BoundAssumption, ConnectionInv, Connection!Next
  PROVE  ConnectionInv'
<1> USE DEF ConnectionInv, ConnectionTyped, Connection!BoundAssumption, Connection!loopVars,
      Connection!lostVars, Connection!Goes, Connection!CloseClient
<1>0. ConnectionTyped'
  <2> HIDE DEF ConnectionInv, ConnectionTyped
  <2> QED BY ConnType
<1>a. NoConnectionLeaks'
  <2> SUFFICES ASSUME NEW k \in Connection!Conn, phase'[k] \in {"open", "broken"}
               PROVE  k = current' /\ start' \notin {"connect", "dial", "backoff"}
    BY DEF NoConnectionLeaks
  <2> USE DEF NoConnectionLeaks, AttemptOK
  <2>1. CASE Connection!ResetConn BY <2>1 DEF Connection!ResetConn
  <2>2. CASE Connection!Dial BY <2>2 DEF Connection!Dial
  <2>3. CASE Connection!SetRPCClient \/ Connection!Spawn \/ Connection!SeeLost \/
               Connection!SeeStopped \/ Connection!Stop
    BY <2>3 DEF Connection!SetRPCClient, Connection!Spawn, Connection!SeeLost,
      Connection!SeeStopped, Connection!Stop
  <2>4. CASE Connection!Register BY <2>4 DEF Connection!Register
  <2>5. CASE Connection!Cleanup \/ Connection!Retry
    BY <2>5 DEF Connection!Cleanup, Connection!Retry
  <2>6. CASE \E j \in Connection!Conn : Connection!HeartbeatLoop(j)
    BY <2>6 DEF Connection!HeartbeatLoop, Connection!ConnLostSignal, Connection!LoopEnds,
      Connection!Tick, Connection!Heartbeat, Connection!Escalate, Connection!LoopKeeps
  <2>7. CASE \E j \in Connection!Conn : Connection!OnClose(j) \/ Connection!Break(j) \/
               Connection!Fail(j)
    BY <2>7 DEF Connection!OnClose, Connection!Break, Connection!Fail
  <2> QED BY <2>1, <2>2, <2>3, <2>4, <2>5, <2>6, <2>7 DEF Connection!Next, Connection!StartLoop
<1>b. AttemptOK'
  <2> USE DEF AttemptOK
  <2>1. CASE Connection!ResetConn BY <2>1 DEF Connection!ResetConn, NoConnectionLeaks
  <2>2. CASE Connection!Dial
    <3>1. current \in Connection!Conn /\ UNCHANGED <<current, loop>> /\ start' \in {"set",
            "backoff"}
      BY <2>2 DEF Connection!Dial
    <3>2. \A k \in Connection!Conn : k > current => phase'[k] = phase[k]
      BY <2>2, <3>1 DEF Connection!Dial
    <3> QED BY <3>1, <3>2
  <2>3. CASE Connection!SetRPCClient \/ Connection!SeeLost \/ Connection!SeeStopped \/
               Connection!Stop
    BY <2>3 DEF Connection!SetRPCClient, Connection!SeeLost, Connection!SeeStopped,
      Connection!Stop
  <2>4. CASE Connection!Register BY <2>4 DEF Connection!Register
  <2>8. CASE Connection!Spawn BY <2>8 DEF Connection!Spawn
  <2>5. CASE Connection!Cleanup \/ Connection!Retry
    BY <2>5 DEF Connection!Cleanup, Connection!Retry
  <2>6. ASSUME NEW j \in Connection!Conn, Connection!HeartbeatLoop(j) PROVE AttemptOK'
    <3>1. UNCHANGED <<start, current, phase>> /\ loop[j] # "none"
      BY <2>6 DEF Connection!HeartbeatLoop, Connection!ConnLostSignal, Connection!LoopEnds,
        Connection!Tick, Connection!Heartbeat, Connection!Escalate, Connection!LoopKeeps
    <3>2. \A k \in Connection!Conn : loop'[k] # loop[k] => k = j
      BY <2>6 DEF Connection!HeartbeatLoop, Connection!ConnLostSignal, Connection!LoopEnds,
        Connection!Tick, Connection!Heartbeat, Connection!Escalate, Connection!LoopGoes
    <3> QED BY <3>1, <3>2
  <2>7. ASSUME NEW j \in Connection!Conn, Connection!OnClose(j) \/ Connection!Break(j) \/
                 Connection!Fail(j) PROVE AttemptOK'
    <3>1. UNCHANGED <<start, current, loop>> /\ phase[j] # "none" /\
            \A k \in Connection!Conn : phase'[k] # phase[k] => k = j
      BY <2>7 DEF Connection!OnClose, Connection!Break, Connection!Fail
    <3> QED BY <3>1
  <2> QED
    BY <2>1, <2>2, <2>3, <2>4, <2>5, <2>6, <2>7, <2>8 DEF Connection!Next, Connection!StartLoop
<1>c. BeatOK'
  <2> USE DEF BeatOK
  <2>1. CASE Connection!ResetConn
    <3>1. client' = Connection!NoConn /\ current' = current + 1 /\ UNCHANGED <<loop, snapshot,
            through>>
      BY <2>1 DEF Connection!ResetConn
    <3>2. ASSUME NEW k \in Connection!Conn, loop[k] \notin {"none", "top"}
          PROVE  snapshot[k] <= current' /\ snapshot[k] # current'
      <4>1. snapshot[k] \in Nat /\ current \in Nat /\ snapshot[k] <= current BY <3>2
      <4> HIDE DEF ConnectionInv, Connection!BoundAssumption, BeatOK
      <4>2. current' \in Nat /\ snapshot[k] < current' BY <3>1, <4>1
      <4> QED BY <4>1, <4>2
    <3>3. \A k \in Connection!Conn : loop[k] \notin {"none", "top"} =>
            snapshot[k] <= current' /\ snapshot[k] # current'
      BY <3>2
    <3> QED BY <3>1, <3>3 DEF BeatOK
  <2>2. CASE Connection!Dial BY <2>2 DEF Connection!Dial
  <2>3. CASE Connection!SetRPCClient \/ Connection!SeeLost \/ Connection!SeeStopped \/
               Connection!Stop
    BY <2>3 DEF Connection!SetRPCClient, Connection!SeeLost, Connection!SeeStopped,
      Connection!Stop
  <2>4. CASE Connection!Register BY <2>4 DEF Connection!Register
  <2>8. CASE Connection!Spawn BY <2>8 DEF Connection!Spawn, AttemptOK
  <2>5. CASE Connection!Cleanup \/ Connection!Retry
    BY <2>5 DEF Connection!Cleanup, Connection!Retry
  <2>6. ASSUME NEW j \in Connection!Conn, Connection!HeartbeatLoop(j) PROVE BeatOK'
    <3>0. UNCHANGED <<start, client, current>> BY <2>6
      DEF Connection!HeartbeatLoop, Connection!ConnLostSignal, Connection!LoopEnds,
        Connection!Tick, Connection!Heartbeat, Connection!Escalate, Connection!LoopKeeps
    <3>1. CASE Connection!ConnLostSignal(j)
      <4>1. /\ \A k \in Connection!Conn \ {j} : loop'[k] = loop[k] /\ snapshot'[k] = snapshot[k]
            /\ loop'[j] = "select" /\ snapshot'[j] = current /\ through' = through
        BY <3>1 DEF Connection!ConnLostSignal, Connection!LoopGoes
      <4>2. current \in Nat OBVIOUS
      <4>3. ASSUME NEW k \in Connection!Conn
            PROVE  /\ loop'[k] \notin {"none", "top"} => snapshot'[k] <= current'
                   /\ loop'[k] \in {"beat", "unknown", "failed"} /\ snapshot'[k] = current' =>
                        through'[k] \in {Connection!NoConn, current'}
        <5>1. CASE k = j
          <6> HIDE DEF ConnectionInv, Connection!BoundAssumption, BeatOK
          <6> QED BY <3>0, <4>1, <4>2, <5>1
        <5>2. CASE k # j BY <3>0, <4>1, <5>2
        <5> QED BY <5>1, <5>2
      <4> QED BY <3>0, <4>3
    <3>2. CASE Connection!LoopEnds(j) BY <3>0, <3>2 DEF Connection!LoopEnds, Connection!LoopGoes
    <3>3. CASE Connection!Tick(j) BY <3>0, <3>3 DEF Connection!Tick, Connection!LoopGoes
    <3>4. CASE Connection!Heartbeat(j)
      BY <3>0, <3>4 DEF Connection!Heartbeat, Connection!LoopGoes
    <3>5. CASE Connection!Escalate(j) BY <3>0, <3>5 DEF Connection!Escalate, Connection!LoopGoes
    <3> QED BY <2>6, <3>1, <3>2, <3>3, <3>4, <3>5 DEF Connection!HeartbeatLoop
  <2>7. ASSUME NEW j \in Connection!Conn, Connection!OnClose(j) \/ Connection!Break(j) \/
                 Connection!Fail(j) PROVE BeatOK'
    BY <2>7 DEF Connection!OnClose, Connection!Break, Connection!Fail
  <2> QED
    BY <2>1, <2>2, <2>3, <2>4, <2>5, <2>6, <2>7, <2>8 DEF Connection!Next, Connection!StartLoop
<1> QED
  <2> HIDE DEF ConnectionTyped
  <2> QED BY <1>0, <1>a, <1>b, <1>c

LEMMA ConnInvariant ==
  ASSUME Connection!BoundAssumption
  PROVE  Connection!Spec => []ConnectionInv
<1>1. ConnectionInv /\ UNCHANGED Connection!vars => ConnectionInv'
  BY DEF ConnectionInv, ConnectionTyped, NoConnectionLeaks, AttemptOK, BeatOK, Connection!vars,
    Connection!lostVars, Connection!loopVars
<1> QED BY <1>1, ConnInit, ConnStep, PTL DEF Connection!Spec

(* Start abandons no client that is still open (guest.go): whatever the    *)
(* order of losses, cancellations and reconnections, each connection but   *)
(* the last is closed, lost, or was never dialled.                         *)
THEOREM NothingLeaks ==
  ASSUME Connection!BoundAssumption
  PROVE  Connection!Spec => []NoConnectionLeaks
<1>1. ConnectionInv => NoConnectionLeaks BY DEF ConnectionInv
<1> QED BY <1>1, ConnInvariant, PTL

LEMMA OwnStep == ASSUME Connection!BoundAssumption, ConnectionInv,
  [Connection!Next]_Connection!vars,
                        NEW j \in Connection!Conn, NEW k \in Connection!Conn, k \in lost' \ lost
                 PROVE  /\ phase[j] = "failing" /\ phase'[j] = "reported" => k = j
                        /\ loop[j] = "failed" /\ loop'[j] = "done" /\ through[j] # 0 =>
                             k = through[j]
<1> USE DEF ConnectionInv, ConnectionTyped, Connection!vars, Connection!lostVars,
      Connection!loopVars
<1>1. CASE \E i \in Connection!Conn : Connection!OnClose(i)
  BY <1>1 DEF Connection!OnClose, Connection!SignalConnLostIfCurrent, Connection!SetConnLost
<1>2. CASE \E i \in Connection!Conn : Connection!Escalate(i)
  BY <1>2 DEF Connection!Escalate, Connection!SignalConnLostIfCurrent, Connection!SetConnLost,
    Connection!LoopGoes, Connection!LoopKeeps, BeatOK
<1>3. \/ \E i \in Connection!Conn : Connection!OnClose(i) \/ Connection!Escalate(i)
      \/ lost' = lost
  BY DEF Connection!Next, Connection!StartLoop, Connection!HeartbeatLoop, Connection!ResetConn,
    Connection!Dial, Connection!SetRPCClient, Connection!Register, Connection!Spawn,
    Connection!SeeLost, Connection!SeeStopped,
    Connection!Cleanup, Connection!Retry, Connection!Stop, Connection!ConnLostSignal,
    Connection!LoopEnds, Connection!Tick, Connection!Heartbeat, Connection!Break,
    Connection!Fail, Connection!LoopKeeps
<1> QED BY <1>1, <1>2, <1>3

(* A loss is put down to the connection it happened to: the callback of a  *)
(* socket marks its own connection lost, and a heartbeat that fails drops  *)
(* the one it went through, never the one that has replaced it.            *)
THEOREM OwnLossOnly ==
  ASSUME Connection!BoundAssumption
  PROVE  Connection!Spec => Connection!SocketsReportOwnLoss /\ HeartbeatsDropOwn
<1>1. ConnectionInv /\ [Connection!Next]_Connection!vars =>
        [\A k, j \in Connection!Conn :
           /\ phase[j] = "failing" /\ phase'[j] = "reported"
           /\ k \in lost' \ lost
           => k = j]_Connection!vars
  BY OwnStep
<1>2. ConnectionInv /\ [Connection!Next]_Connection!vars =>
        [\A j, k \in Connection!Conn :
           /\ loop[j] = "failed" /\ loop'[j] = "done" /\ through[j] # Connection!NoConn
           /\ k \in lost' \ lost
           => k = through[j]]_Connection!vars
  BY OwnStep
<1> QED
  BY <1>1, <1>2, ConnInvariant, PTL DEF Connection!Spec, Connection!SocketsReportOwnLoss,
    HeartbeatsDropOwn

(* The guest uses each of its clients as ClientContract allows one to      *)
(* behave, so that the contract RpcClient keeps is the one GuestConnection *)
(* relies on.                                                              *)
THEOREM ClientsKept ==
  ASSUME Connection!BoundAssumption
  PROVE  Connection!Spec => Connection!ClientsKeepContract
<1>1. ConnectionInv /\ [Connection!Next]_Connection!vars =>
        [\A k \in Connection!Conn :
           phase'[k] # phase[k] => Connection!Client(k)!Next]_Connection!vars
  <2> SUFFICES ASSUME ConnectionInv, Connection!Next, NEW k \in Connection!Conn,
                        phase'[k] # phase[k] PROVE Connection!Client(k)!Next
    BY DEF Connection!vars
  <2> DEFINE Step(from, to) == phase[k] = from /\ phase'[k] = to
  <2> SUFFICES \/ Step("none", "open") \/ Step("open", "broken") \/ Step("broken", "failing")
               \/ Step("failing", "reported") \/ Step("open", "closed") \/ Step("broken", "closed")
    BY DEF Connection!Client!Next, Connection!Client!Goes, Connection!Client!Dial,
      Connection!Client!Break, Connection!Client!Fail, Connection!Client!Report,
      Connection!Client!Close
  <2> USE DEF ConnectionInv, ConnectionTyped, AttemptOK, Connection!lostVars,
        Connection!loopVars, Connection!CloseClient
  <2>1. CASE Connection!Dial BY <2>1 DEF Connection!Dial, Connection!Goes
  <2>2. CASE Connection!Register \/ Connection!Cleanup
    BY <2>2 DEF Connection!Register, Connection!Cleanup
  <2>3. ASSUME NEW j \in Connection!Conn,
               Connection!OnClose(j) \/ Connection!Break(j) \/ Connection!Fail(j)
        PROVE  \/ Step("open", "broken") \/ Step("broken", "failing")
               \/ Step("failing", "reported")
    BY <2>3 DEF Connection!OnClose, Connection!Break, Connection!Fail
  <2>4. \/ Connection!Dial \/ Connection!Register \/ Connection!Cleanup
        \/ \E j \in Connection!Conn :
             Connection!OnClose(j) \/ Connection!Break(j) \/ Connection!Fail(j)
    BY DEF Connection!Next, Connection!StartLoop, Connection!HeartbeatLoop,
      Connection!ResetConn, Connection!SetRPCClient, Connection!Spawn, Connection!SeeLost,
      Connection!SeeStopped,
      Connection!Retry, Connection!Stop, Connection!ConnLostSignal, Connection!LoopEnds,
        Connection!Tick, Connection!Heartbeat, Connection!Escalate, Connection!LoopKeeps
  <2> QED BY <2>1, <2>2, <2>3, <2>4
<1> QED BY <1>1, ConnInvariant, PTL DEF Connection!Spec, Connection!ClientsKeepContract
===============================================================================
