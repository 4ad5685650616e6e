------------------------------- MODULE TaskQueue -------------------------------
(***************************************************************************)
(* The task queue on its own (pkg/queue/queue.go): the map and the slice   *)
(* of its tasks, the methods that change them, the order in which pending  *)
(* tasks are handed out, and the restart that restores what was persisted. *)
(* Every method holds q.mu and is one action; an error return that changes *)
(* nothing is a stuttering step.                                           *)
(*                                                                         *)
(* A time.Time made by time.Now holds a wall and a monotonic reading, and  *)
(* two that have both are compared by the latter.  A restored CreatedAt    *)
(* comes from a file and has the wall reading only.                        *)
(***************************************************************************)
EXTENDS Naturals, FiniteSets, SequencesExt

CONSTANTS
  Task,        \* the ids that may be submitted
  Guest, NoGuest,
  Priority,    \* task -> 0 firefighter, 1 teacher, 2 orangutan, 3 not recognised
  DedupKey,    \* task -> its dedup_key, 0 for none
  Tag, Tags,   \* the tags there are; task -> its tags
  Restarts,    \* may the server restart?
  ClockSteps   \* bound: how often the wall clock is set back

TaskQueueAssumption ==
  /\ IsFiniteSet(Task) /\ NoGuest \notin Guest
  /\ Priority \in [Task -> 0..3] /\ DedupKey \in [Task -> Nat]
  /\ Tags \in [Task -> SUBSET Tag]
  /\ Restarts \in BOOLEAN /\ ClockSteps \in Nat

VARIABLES
  tasks,    \* task -> its fields, status "ABSENT" when it is not in the map
  ordered,  \* TaskQueue.ordered
  stored,   \* what the queue store holds and a restart has yet to restore
  wall,     \* the wall clock
  now,      \* the monotonic clock: counts the tasks ever added
  steps,    \* how often the wall clock was set back
  born,     \* history: task -> its place among the tasks ever added, 0 for none
  left      \* history: the tasks that have left PENDING

clock == <<wall, now, steps>>
history == <<born, left>>
vars == <<tasks, ordered, stored, clock, history>>

Unfinished == {"PENDING", "ASSIGNED", "RUNNING"}
Status == Unfinished \cup {"COMPLETED", "FAILED", "CANCELLED"}
NoStamp == 0   \* no monotonic reading
Latest == 2 * Cardinality(Task)

Fields == [status : Status \cup {"ABSENT"}, owner : Guest \cup {NoGuest},
           wall : 0..Latest, mono : 0..Cardinality(Task)]
Nothing == [status |-> "ABSENT", owner |-> NoGuest, wall |-> 0, mono |-> NoStamp]

TypeOK ==
  /\ tasks \in [Task -> Fields]
  /\ ordered \in Seq(Task) /\ stored \in [Task -> 0..Latest]
  /\ wall \in 0..Latest /\ now \in 0..Cardinality(Task) /\ steps \in 0..ClockSteps
  /\ born \in [Task -> 0..Cardinality(Task)] /\ left \subseteq Task

Init ==
  /\ tasks = [t \in Task |-> Nothing] /\ ordered = <<>>
  /\ stored = [t \in Task |-> 0]
  /\ wall = Cardinality(Task) /\ now = 0 /\ steps = 0
  /\ born = [t \in Task |-> 0] /\ left = {}

Present == {t \in Task : tasks[t].status # "ABSENT"}
InStatus(s) == {t \in Task : tasks[t].status = s}
ToRestore == {t \in Task : stored[t] # 0}

------------------------------------------------------------------------------
(* The order of the pending tasks *)

(* Priorities that are not recognised are made orangutan when a task is *)
(* added.                                                               *)
PriorityValue(t) == IF Priority[t] \in 0..2 THEN Priority[t] ELSE 2

(* time.Time.Before *)
Before(t, u) ==
  IF NoStamp \in {tasks[t].mono, tasks[u].mono}
  THEN tasks[t].wall < tasks[u].wall
  ELSE tasks[t].mono < tasks[u].mono

Less(t, u) ==
  \/ PriorityValue(t) < PriorityValue(u)
  \/ PriorityValue(t) = PriorityValue(u) /\ Before(t, u)

(* sort.SliceStable sorts short slices by insertion: a task moves       *)
(* towards the front as long as it is less than the one before it.      *)
Insert(sorted, t) ==
  LET last == CHOOSE i \in 0..Len(sorted) :
                /\ i # 0 => ~Less(t, sorted[i])
                /\ \A j \in i + 1..Len(sorted) : Less(t, sorted[j])
  IN  InsertAt(sorted, last + 1, t)

SortPending(s) ==
  LET sorted[n \in 0..Len(s)] == IF n = 0 THEN <<>> ELSE Insert(sorted[n - 1], s[n])
  IN  sorted[Len(s)]

(* The loops that pick some tasks of a slice.                           *)
Only(keep, s) ==
  LET kept[n \in 0..Len(s)] == IF n = 0 THEN <<>>
                               ELSE IF s[n] \in keep THEN Append(kept[n - 1], s[n]) ELSE kept[n - 1]
  IN  kept[Len(s)]

PendingTasks == Only(InStatus("PENDING"), ordered)
GetPendingTasks == SortPending(PendingTasks)

(* A task with no tags matches any required tags.                       *)
MatchesTags(t, required) == Tags[t] = {} \/ required \subseteq Tags[t]

NextPendingTaskForTags(required) ==
  SortPending(Only({t \in Task : MatchesTags(t, required)}, PendingTasks))

------------------------------------------------------------------------------
(* Submission *)

Enter(t, stampWall, stampMono) ==
  /\ tasks' = [tasks EXCEPT ![t] =
       [status |-> "PENDING", owner |-> NoGuest, wall |-> stampWall, mono |-> stampMono]]
  /\ ordered' = Append(ordered, t)

(* Ids are made from the clock and are never used twice, so that none   *)
(* is in the map already.                                               *)
AddLocked(t) ==
  /\ born[t] = 0
  /\ now' = now + 1 /\ wall' = wall + 1 /\ UNCHANGED steps
  /\ Enter(t, wall', now')
  /\ born' = [born EXCEPT ![t] = now'] /\ UNCHANGED <<left, stored>>

(* The only caller is the re-run of a task, which copies no dedup_key.  *)
Add(t) == DedupKey[t] = 0 /\ ToRestore = {} /\ AddLocked(t)

(* Mutant: only the newest task is compared.                            *)
AddOrDedupNewest(t) ==
  /\ ToRestore = {}
  /\ \A u \in InStatus("PENDING") :
       ordered # <<>> /\ u = Last(ordered) => DedupKey[t] = 0 \/ DedupKey[u] # DedupKey[t]
  /\ AddLocked(t)

AddOrDedup(t) ==
  /\ ToRestore = {}
  /\ \A u \in InStatus("PENDING") : DedupKey[t] = 0 \/ DedupKey[u] # DedupKey[t]
  /\ AddLocked(t)

------------------------------------------------------------------------------
(* Changes of one task *)

validTransition == {
  <<"PENDING", "ASSIGNED">>, <<"PENDING", "CANCELLED">>,
  <<"ASSIGNED", "RUNNING">>, <<"ASSIGNED", "CANCELLED">>, <<"ASSIGNED", "PENDING">>,
  <<"RUNNING", "COMPLETED">>, <<"RUNNING", "FAILED">>, <<"RUNNING", "CANCELLED">>,
  <<"RUNNING", "PENDING">>}

Change(t, from, to, owner) ==
  /\ tasks[t].status \in from
  /\ tasks' = [tasks EXCEPT ![t].status = to, ![t].owner = owner]
  /\ left' = left \cup (IF tasks[t].status = "PENDING" THEN {t} ELSE {})
  /\ UNCHANGED <<ordered, stored, clock, born>>

UpdateStatus(t, s) ==
  /\ <<tasks[t].status, s>> \in validTransition
  /\ Change(t, Unfinished, s, IF s = "PENDING" THEN NoGuest ELSE tasks[t].owner)

Assign(t, g) == Change(t, {"PENDING"}, "ASSIGNED", g)
Start(t) == Change(t, {"ASSIGNED"}, "RUNNING", tasks[t].owner)
Complete(t) == Change(t, {"RUNNING", "ASSIGNED"}, "COMPLETED", tasks[t].owner)
Fail(t) == Change(t, {"RUNNING", "ASSIGNED"}, "FAILED", tasks[t].owner)
Cancel(t) == Change(t, {"PENDING", "ASSIGNED"}, "CANCELLED", tasks[t].owner)

RemoveTask(t) ==
  /\ t \in Present
  /\ tasks' = [tasks EXCEPT ![t] = Nothing]
  /\ ordered' = RemoveFirst(ordered, t)
  /\ UNCHANGED <<stored, clock, history>>

------------------------------------------------------------------------------
(* Restarts and the clock *)

(* The store has the unfinished tasks; a file keeps no monotonic time.  *)
Restart ==
  /\ Restarts /\ Present # {}
  /\ stored' = [t \in Task |-> IF tasks[t].status \in Unfinished THEN tasks[t].wall ELSE stored[t]]
  /\ tasks' = [t \in Task |-> Nothing] /\ ordered' = <<>>
  /\ UNCHANGED <<clock, history>>

(* Mutant: CreatedAt is the time of the restart.                        *)
RestoreAnew(t) ==
  /\ t \in ToRestore
  /\ Enter(t, wall, NoStamp)
  /\ stored' = [stored EXCEPT ![t] = 0]
  /\ UNCHANGED <<clock, history>>

(* The store is read directory by directory: in any order.              *)
Restore(t) ==
  /\ t \in ToRestore
  /\ Enter(t, stored[t], NoStamp)
  /\ stored' = [stored EXCEPT ![t] = 0]
  /\ UNCHANGED <<clock, history>>

ClockStepsBack ==
  /\ steps < ClockSteps /\ steps' = steps + 1
  /\ wall' \in 0..(wall - 1)
  /\ UNCHANGED <<tasks, ordered, stored, now, history>>

Next ==
  \/ \E t \in Task :
       \/ Add(t) \/ AddOrDedup(t) \/ Restore(t) \/ RemoveTask(t)
       \/ Start(t) \/ Complete(t) \/ Fail(t) \/ Cancel(t)
       \/ \E s \in Status : UpdateStatus(t, s)
       \/ \E g \in Guest : Assign(t, g)
  \/ Restart \/ ClockStepsBack

Spec == Init /\ [][Next]_vars

------------------------------------------------------------------------------
Fifo(s) ==
  \A i, j \in 1..Len(s) : i < j =>
    \/ PriorityValue(s[i]) < PriorityValue(s[j])
    \/ PriorityValue(s[i]) = PriorityValue(s[j]) /\ born[s[i]] < born[s[j]]

(* Once a restart has restored everything, the tasks are handed out by  *)
(* priority and, within one, in the order in which they were submitted, *)
(* whichever of them were assigned and put back, restored in another    *)
(* order, or removed in between.                                        *)
(* Not so with Restarts and ClockSteps together:                        *)
(* README, "Known divergences".                                         *)
HandedOutFifo ==
  ToRestore = {} =>
    /\ Fifo(GetPendingTasks) /\ ToSet(GetPendingTasks) = InStatus("PENDING")
    /\ \A required \in SUBSET Tag : Fifo(NextPendingTaskForTags(required))

(* The map and the slice have the same tasks, each once.                *)
SliceMirrorsMap == IsInjective(ordered) /\ ToSet(ordered) = Present

(* Of the pending tasks with one dedup_key at most one is there that    *)
(* was never handed out: the others were put back or restored beside    *)
(* it.                                                                  *)
OneFreshPerKey ==
  \A t, u \in InStatus("PENDING") :
    t # u /\ DedupKey[t] = DedupKey[u] /\ DedupKey[t] # 0 => {t, u} \cap left # {}
===============================================================================
