# hotelier: verification

TLA+ models, model-checking runs and machine-checked proofs for hotelier, the
check-in host that hands tasks to guest machines. Everything is translated from
the Go source; a module's header and the comments in it name the code.

Contents: [the system](#the-system) · [the modules](#the-modules) ·
[runs](#runs) · [proofs](#proofs) · [finding](#finding) ·
[known divergences](#known-divergences) · [not modelled](#not-modelled) · [plan](#plan)

## The system

One host process (`cmd/hotelier`) keeps a table of tasks and a registry of
guests in memory. Guests (`cmd/guest`) and browsers connect by WebSocket and
speak JSON-RPC; scripts and the web UI submit and cancel tasks over HTTP. A guest
that is given a task runs it in a `pi` subprocess, streams its output as log
lines, and reports a result.

| Component | State | Operations | Interacts with |
|---|---|---|---|
| Orchestrator (`pkg/orchestrator`) | one mutex over queue, registry and store | add, assign, acknowledge, complete, fail, cancel, requeue, decline, reconcile, unregister, three probes | called by every server handler and by the sweep |
| Task queue (`pkg/queue/queue.go`) | `tasks` by id, `ordered` by insertion | submit with deduplication, restore, scheduling order | guarded by the orchestrator |
| Guest registry (`pkg/registry`) | guests by id: state, task, last heartbeat, last heartbeat with a task; the limit | register, heartbeat, find available, remove | guarded by the orchestrator, except `Register` and `SetMaxGuests` |
| Queue store (`pkg/queue/store.go`) | one JSON file per unfinished task, in a directory per status | save, delete, load | called by the orchestrator with its mutex held; read at start |
| Server handlers and sweep (`internal/server`) | none of their own but the maps of logs | RPC and HTTP handlers, `staleGuestCleanup`, disconnect callback, `Reload` | orchestrator, hub, log stores |
| Log accumulator, log store (`internal/server`, `pkg/logstore`) | the line being merged, per task; stored entries per day | merge, flush on level change, timer or result | log and result handlers |
| RPC hub (`pkg/rpc`) | connections, guest → connection, send queues | register, send, broadcast, unregister, disconnect callback | server handlers; one read and one write goroutine per connection |
| RPC client (`pkg/rpc`) | one response channel, closed and failed flags | call, notify, fail once, shut down | guest client |
| Guest client (`pkg/guest`) | current task, cancel function, task channel of capacity 16, connection | receive and acknowledge, dispatch, heartbeat, reconnect, decline, cancel | RPC client, pi handler |
| Pi handler, pi client (`pkg/guest/pi_handler.go`, `pkg/pi`) | subprocess, its reader, whether a prompt has settled | start, prompt, wait, stop, restart | guest client |
| Configuration and watcher (`pkg/config`) | the last content read, a channel of one configuration | watch the directory (fsnotify), compare, parse, send | `cmd/hotelier`, which calls `Server.Reload` |
| Personas, jail, logging helpers, web UI, `cmd` | – | – | – |

What is hard here:

- **Several records of one fact.** "Guest g works on task t" is in the task, in
  the registry entry, in the guest and, as a file name, on the disk. The mutex
  makes a step on the first two and the call to the store atomic; it does not
  make the *caller* atomic. Handlers read a task or a guest, release the mutex,
  and act on what they read.
- **Old messages.** A heartbeat overwrites the task the registry entry points
  to. A result, a decline or an acknowledgement can arrive after the task was
  taken back, given to another guest, or ended. `CompleteTask` and `FailTask` do
  not ask who reports.
- **The sweep.** Three probes run one after the other without holding the mutex
  in between; two of them fail the task a silent guest *points to*, without
  comparing its owner. Their order is what protects the guest that owns it.
- **Crashes.** The store is written file by file; a restart re-queues what it
  finds and has no guest left.
- **Guests that vanish** must give their task back although nobody speaks for
  them; guests whose entry is stale must get work again.
- **Connections**: reconnecting before the loss is noticed, one response channel
  for all calls, bounded queues on both sides, stalled sockets.

What makes each component correct:

- *Orchestrator, queue, registry*: owner, status and registry entry fit together
  after every operation; a task is held by one guest, ends once, and is never
  lost; only the task of a silent guest is failed by the probes; vanished guests
  do not keep tasks and stale references do not keep guests.
- *Queue store*: no accepted task is lost and no reported end is undone by a
  crash at any point; between calls the directories are the table.
- *Server handlers*: a guest has at most one task in work; what browsers are told
  is what the table says; a cancel reaches the guest that works on the task.
- *Hub*: a message to a guest goes to its newest connection; losing an old one
  does not harm the new one; no connection can stop the hub.
- *RPC client*: an answer goes to the call that asked.
- *Guest client*: every task it accepts is run once or declined; a cancel stops
  the task it names.
- *Log accumulator*: no line is lost or stored twice, in the order sent.
- *Pi handler*: the result of a task is from that task's prompt.

`PROJECT.json` lists the components, the hazards at their source lines with the
properties that cover them, and which source lines each definition models.

## The modules

```
TaskLifecycle            abstract: the life of a task
   ^  refinement mapping (PhaseOf, HolderOf)
Orchestrator             pkg/orchestrator + table + registry + sweep
   ^ EXTENDS      ^ EXTENDS
MCOrchestrator   Protocol                     server handlers + guests
                    ^ EXTENDS    ^ EXTENDS
                 MCProtocol   ProtocolProofs  (INSTANCE GuestConnection, RpcClient)

DurableStore             abstract: a set of tasks that no crash changes
   ^  refinement mapping (Stored, Removed)
QueueStore               pkg/queue/store.go, file by file
   ^ EXTENDS      ^ EXTENDS
MCQueueStore     QueueStoreProofs

ClientContract           abstract: what a client promises its owner
   ^  refinement mapping (Phase)   ^ INSTANCE per connection
RpcClient                     GuestConnection   connecting, losing, heartbeat loops
   ^ INSTANCE                      ^ INSTANCE
MCLiveness                    (with GuestTasks, PiHandler, Hub)

GuestTasks   PiHandler   Hub   TaskQueue   LogAccumulator
   ^ EXTENDS, each
GuestTasksProofs  PiHandlerProofs  HubProofs  TaskQueueProofs  LogProofs
                       (HubProofs: INSTANCE ConfigWatcher, LogProofs: INSTANCE LogStore)
   ^ INSTANCE, all five
MCComponents             the parts of the run components
   ^ EXTENDS
ComponentsProofs
```

Eight modules hold theorems. A proof module EXTENDS the component it is about;
three of them also hold, as an instance, a component that is close to it:
ProtocolProofs what carries the protocol on the side of the guest (`Connection`,
`Rpc`), HubProofs the other loop that lives as long as the server (`Watcher`),
LogProofs the files behind the log in memory (`Store`). Orchestrator's theorems
stand at the head of ProtocolProofs, which needs them. MCComponents instantiates
the proof modules, not the components, so that every theorem is one about each of
its parts too; this changes nothing of what TLC evaluates, since the definitions
of a component are those its proof module extends.

### TaskLifecycle

What the host promises about tasks whatever guests do. A task is accepted,
waits, is held by one guest, may be taken back, and ends once; a restart returns
unfinished tasks to the queue and forgets the others. It is the state diagram of
ARCHITECTURE.md and `validTransition`, with one more arc that the comments of
`CompleteTask` and `FailTask` ask for: an ASSIGNED task may end before its
acknowledgement arrived.

### Orchestrator

| TLA+ | Go |
|---|---|
| `status`, `assignedTo`, `assignedAge` | `Task.Status`, `.AssignedTo`, time since `.AssignedAt` |
| `created` | how many tasks were submitted; task *t* is the *t*-th, so `CreatedAt` is its number |
| `registered`, `guestState`, `guestTask`, `beatAge`, `taskBeatAge` | the registry's map and `Guest.State`, `.TaskID`, time since `.LastHeartbeat` and `.LastTaskHeartbeat` (`Never` for the zero time) |
| `maxGuests` | `GuestRegistry.maxGuests` |
| `stored` | the ids with a file in the queue store |
| `sweep` | which of the three probes of `staleGuestCleanup` is next |
| `Hand`, `RequeueTasks`, `FinishTasks`, `ClearGuests`, `Persist`, `Forget` | the shared bodies (`requeueTaskInternal`, `clearGuestTaskInternal`, `persistTask`, `forgetTask`) |
| one action per method | its whole body |

*Atomicity.* Every exported method takes `o.mu` first and holds it to its end, so
a method is one action. `Register` and `SetMaxGuests` run under the registry's
own mutex and touch nothing the orchestrator reads and writes in two places. An
error return that changes nothing is a stuttering step.

*Inputs.* Handlers pass ids that come from a message or from a value read
earlier. Actions therefore take any task and any guest (for the ends of a task
also the empty guest id), not those that would fit; this is what stands for
delayed and repeated messages and for reads outside the mutex. Two callers
narrow it: `AssignTask` is only reached with a guest whose tags match (the
method has no such check of its own), and a heartbeat names a task that was
submitted. Submissions are taken to carry no `assigned_to` of their own.

*Time.* Ages are clock ticks that saturate at `MaxAge`; every timeout is below
it, so a saturated age is over every timeout and nothing is lost. `assignedAge`
is kept only for ASSIGNED tasks because nothing else reads it. The clock stands
still during one pass of the sweep: a pass is a few critical sections and takes
less than a tick. Handlers do run between its probes.

*Order of the table.* `CheckStuckTasks` walks `ordered` and clears a guest that
points to an ended task in the middle of the walk, which resets the field the
test of that guest's other tasks reads. `StuckTasks` leaves open whether they
come before or after.

*Switches.* `StoreFaults` lets any write to the store fail (the code logs and
goes on; with no queue directory configured every write "fails").
`GuestsUnregister` enables `guest.unregister`, an RPC method the host serves and
the shipped guest never calls. `TryAssignNext` and `UnregisterGuest` have no
caller outside tests and are modelled all the same.

*Crashes.* `Restart` is one action: the server may stop at any moment and starts
with what `stored` holds. Stopping inside a method is the same as stopping before
or after its call to the store; what happens within that call is `QueueStore`'s
subject.

### QueueStore

`Save`, `Delete` and `Load` one file operation at a time, under the calls that
the orchestrator makes (`AddTask`, `ChangeStatus`, `EndTask`, and `RestoreTask`
at a start), with a crash between any two operations and, with `Faults`, an error
at any of them that ends the call. `job` is the call under way; the mutex allows
one. `RemoveFile` follows the fixed order of `statusDirNames`. The ghosts record
what the outside was told: `accepted` when a submission was answered, `announced`
when an end was reported.

`DurableStore` is what it is worth from outside: a set of tasks, to which a call
adds one task or from which it takes one, in one step, and which a crash and a
restart leave alone. A task is added by the first file of its first Save and is
gone with its last one; a submitter is answered and an end reported only for a
task that is there and gone. QueueStore implements it where operations succeed
(`KeepsDurableStore`), which is why Orchestrator may have the store as one
variable that an operation changes in its single step.

A file's content is left out: copies of one task differ in status and assignment
only, and `Restore` overwrites both. Files appear by a rename and are whole.

### Protocol

The handlers of `internal/server` step by step, with the guests as their
partners. It EXTENDS Orchestrator: every change of a task or of a registry entry
*is* an action of that module, and Protocol adds what happens before the mutex is
taken and after it is released.

| TLA+ | Go |
|---|---|
| `th[w]` | the local variables of a thread and where it is: a guest's ReadLoop, Hub.Run with a lost connection, one HTTP request, the sweep |
| `conn`, `link` | what `guestConnections` leads to; whether the guest's socket works |
| `calls`, `inbox`, `signals` | the guest's calls on their way, `taskCh`, `task.cancel` on its way |
| `doing`, `stage` | `currentTaskID` and the progress of `ExecuteTask` |
| `screen` | the last status a browser was told of a task |
| `Handle...`, `EndReported`, `OfferElsewhere` | the RPC handlers, up to and after their calls to the orchestrator |
| `Pick`, `Assign`, `Push`, `Rollback` | `tryAssignTask`: read without a lock, assign, send, take back when the send fails |
| `RequestCancel`, `CancelUnstarted`, `SignalCancel`, `HandleCancelled` | `handleTaskCancelHTTP` and `handleGuestCancelled` |
| `NoticeLoss`, `RequeueLost` | `handleGuestDisconnect` |

A guest goes on with an assignment even if its acknowledgement is refused, and
sends its result as a notification: both are in the code. A registration that the
limit of guests refuses ends the connection, and the guest tries again; the
heartbeat of a guest that is not in the registry is answered with an error. Connections are
abstract here (Hub, GuestConnection and GuestTasks have the details): a
connection breaks under its guest (`Blips`) or with it, and the guest comes back
before or (unless `LatePending`) only after the server has handled the loss.
Without a timeout for assignments (`AssignTimeout = 0`) an assignment whose
notification is lost is never taken back; that is what the timeout is for.

### RpcClient, ClientContract

RpcClient has the calls of any number of goroutines through one client: the id
(`StartCall`), the wait for `c.mu` (`Lock`), the write under it (`Write`), which has
no deadline, and only then the wait on the shared channel, the closing or the
timer; the read loop; and the two ways a client dies, `fail` (once, then `onClose`,
which is loaded under `c.mu`) and `Close`. Handlers of notifications call back
through the same client. The server answers in order, or never, and it may stop
reading (`Stall`): a write then blocks, with `c.mu` held, until the server reads on
or the socket breaks or is closed.

ClientContract says what the owner may rely on: a broken connection is reported
once unless it was closed first. It has two variables, the phase of the connection
and the number of reports. RpcClient implements it (`KeepsContract`, fairness
included) with `onCloses` for the reports, so that a second report, or one after
`Close`, is a step the contract does not have. GuestConnection takes one instance
of it for every connection in place of the client.

That writes may block is a matter of RpcClient only. GuestConnection, GuestTasks
and PiHandler (`sendLog`) take a call or a notification to come to its end, as it
does as long as the server reads on or the connection breaks.

### GuestConnection

The Start loop of a guest (dial, set client, register, spawn, wait, clean up,
back off), the `connLost` channel that `resetConn` makes for every attempt, the
close callback bound to it, and one heartbeat loop per connection, which takes a
new snapshot of the channel before every select and may be left over from an
earlier connection. `blame` is history: on whose account a channel was closed.

### GuestTasks

The notifications `task.assign` and `task.cancel`, each in a goroutine of its
own; `taskCh`; one dispatcher per connection, of which earlier ones may still be
at work; `ExecuteTask` with `g.mu` held across its acknowledgement; `Stop` and
the `Cleanup` that kills pi. The server may assign and cancel any task at any
time.

### PiHandler

An execution from directory and jail over the fresh client (`resetClientWithEnv`
with its retries) to the prompt, the wait, and the deferred cleanup; the client's
goroutines (reader, process waiter, stderr), its `Stop` with the wait outside
the mutex; pi, which may write, settle, exit or hang; the shutdown of the
program; a kill and the next start. A client's number is used again once nothing
refers to it. How much pi writes is not limited: `PipeCap` is how many lines
the pipe holds before pi has to wait for the reader, and `wrote` counts no further
than to `SpawnLines`, which is all that depends on it. `task_timeout` may be changed
while the guest runs; whether it is 0 ("unlimited") is read when an execution begins
(`ex.limited`). The context of an execution ends with it (`TaskTimeout`) or with
`task.cancel` (`Cancel`). Writing to pi's standard input is taken not to block; no
fairness is assumed of pi or of cancellations; the output of the client that runs
from the program's start is not followed.

### Hub

One guest, its connections in order, and browsers: the ReadLoop and WriteLoop of
each connection, `Hub.Run` with its three channels, the table, `guestConnections`,
roles, bounded send queues, and `c.mu`, which WriteLoop holds across a write. On
top of it `guest.register`, the delivery of assignments from any thread, and the
disconnect callback that Run calls itself. A peer may stop reading.

### LogAccumulator, LogStore

LogAccumulator: what Feed merges and what flushes it (another level, a tool line,
text after a second of quiet, the end of any task), into memory, disk and
browsers; a write to the disk that fails ends the program. `a.mu` is held while
entries are passed on, so Feed and FlushAll are one action each. LogStore: an
append file operation by file operation, readers without a mutex, the download
that lists dates and then reads each, midnight, uncompressed files of old, and a
server that stops in between.

### TaskQueue

`pkg/queue/queue.go` on its own: map and slice, each method one action under
`q.mu`, the comparison of priorities and creation times (with and without a
monotonic reading, as `time.Time.Before` compares them), tags, deduplication,
restore. The orchestrator, which writes the fields of tasks itself, keeps its own
table; TaskQueue is where the order and the two data structures are examined.

### ConfigWatcher

Editors that rename, truncate or move away; events that fsnotify merges; a
reload that reads the file twice, once to compare and once to parse; the channel
of one configuration; `Server.Reload`, which applies what it can.

## Runs

| Run | Instance | Shows |
|---|---|---|
| `orchestrator_core` | 2 tasks, 2 guests, all timeouts 1 tick, reliable store | `TypeOK`, `Consistent`, `StoreMirrorsTable`, `SweepRepaired`, `ProbesFailOwnTasks`, and that it implements `TaskLifecycle` (`KeepsLifecycle`) |
| `orchestrator_unregister` | guests unregister; tags differ; one dedup key; limit changes between 0 and 1; silence probe off | `Consistent`, `StoreMirrorsTable` |
| `orchestrator_lost` | 2 tasks, 1 guest, the store may fail, fair sweep | `LostAssignmentsReturn` |
| `orchestrator_misled` | 1 task, 2 guests, the store may fail, fair sweep | `MisledGuestsFreed` |
| `orchestrator_ended` | guests unregister | **violates** `EndedStaysEnded`, see [finding](#finding) |
| `queuestore_crash` | 2 tasks, crash anywhere, operations succeed | `AcceptedTasksSurvive`, `AnnouncedTasksStayEnded`, `DirectoriesMirrorTable`, and that it implements `DurableStore` (`KeepsDurableStore`) |
| `queuestore_faults` | 2 tasks, any operation may fail | `OnlyEndedTasksVanish` |
| `protocol_handlers` | 2 tasks, 2 guests that differ in tags, no faults | `ExecutesOwnTask`, `OneTaskPerGuest` |
| `protocol_faults` | 1 task, 1 guest that crashes once, heartbeats, fair sweep with a timeout | `RunningNotLost`, `TasksEnd` |
| `protocol_cancels` | 1 task, 1 guest whose connection breaks once while it goes on, cancellations, no timeout | `CancelsEnd` |
| `liveness` | one of RpcClient, GuestConnection, GuestTasks, PiHandler, Hub | `CallsReturn`, `KeepsContract`, `SocketsReportOwnLoss`, `LossNoticed`, `QueuedServed`, `ExecutionsEnd`, `LossesHandled` |
| `components` | one of 13 parts: GuestTasks, PiHandler and Hub, LogAccumulator, LogStore, TaskQueue and ConfigWatcher, most with two sets of values (the watcher's and the log store's parts are the instances inside HubProofs and LogProofs) | `OneExecution`, `NoShutdownFailure`, `OneSubprocess`, `SuccessMeansSettled`, `NoDirLeft`, `GoneHoldsNothing`, `DisconnectOnce`, `LogsComplete`, `LogsReadable`, `HandedOutFifo`, `OneFreshPerKey`, `PartsFollowConfig`, `LastSaveApplied` |

*Runs over several components.* In `liveness` and `components` a behaviour begins
by choosing a part; the variables of the others stay as they begin. The
components share no variables, so the states reached are those of the parts, one
by one, and so are the verdicts. In `liveness` the fairness of a component holds
in its own part only: an action of another part is never enabled there. A
property that is the conjunction of two (`LogsComplete`, for one) says so where
it is defined; the conjuncts have their comments in the component's module.

The properties of orchestrator and store:

- `Consistent`: a task has an owner exactly while a guest holds it or has ended
  it; a guest the registry calls RUNNING points to a task; unregistered ids have
  no leftovers; only submitted tasks are in use. Broken by any operation that
  updates one of the records and not the others.
- `StoreMirrorsTable`: the files are exactly the unfinished tasks after every
  operation, so a crash loses none and repeats none.
- `SweepRepaired`, `ProbesFailOwnTasks`: between the first probe and the others a
  guest that has not beaten points to no live task of another guest, whatever
  handlers run in between, and so the probes that fail tasks without comparing
  owners fail only tasks of guests that are silent themselves.
- `KeepsLifecycle`: each step is a step of the abstract life, which excludes late
  messages that revive, duplicate or move a task.
- `LostAssignmentsReturn`, `MisledGuestsFreed`: an assignment to a guest that is
  gone, and a reference to a task that ended or belongs to another, do not last.
- `AcceptedTasksSurvive`, `AnnouncedTasksStayEnded`, `DirectoriesMirrorTable`,
  `OnlyEndedTasksVanish`: the same for the files. The end of a task nobody heard
  of may be undone by a crash; that is what the code does and the property says so.
- `KeepsDurableStore`: there is no state in the middle of a Save, a Delete or a
  restart in which a task counts as gone that comes back, or comes back after it
  was gone, whether or not anybody was told yet.

Of the handlers and the guest:

- `ExecutesOwnTask`, `OneTaskPerGuest`: threads that pick the same task or the
  same guest without a lock do not both assign; a task is executed by its owner.
- `RunningNotLost`: a task that the table has as RUNNING is at its guest, or its
  result is on its way, or a thread is about to take it back. It relates the table to
  guests, calls under way and local variables of threads; what makes it hard is an
  acknowledgement that outlives its guest and confirms a later assignment, which the
  rollback of a push that fails takes back although the task is RUNNING by then.
- `TasksEnd`: an accepted task ends in spite of a crash of its guest at any point.
- `CancelsEnd`: so does a cancelled one, although executions may go on for ever
  (`PatientSpec`), whoever has got the task between the read of its status and
  the cancellation.
- `CallsReturn`, `KeepsContract`: a call returns, whatever becomes of the answer, the
  socket and the other callers, unless it has still to write and the server has
  stopped reading; a dead client is reported, once, and not after `Close`.
- `SocketsReportOwnLoss`, `LossNoticed`: the report of a socket closes no channel
  but its own; the loss of the connection in use is noticed without a heartbeat,
  and the loops of the one before end.
- `QueuedServed`, `OneExecution`, `NoShutdownFailure`: an assignment in the
  channel is run, declined or dropped, one task runs at a time over all
  dispatchers and they end with their connections, and a task that only failed
  because the guest was stopped is not reported failed.
- `ExecutionsEnd`, `OneSubprocess`, `SuccessMeansSettled`, `NoDirLeft`: an
  execution ends once its time is over or it is cancelled, however much pi writes, and
  without either unless pi writes on and on; one pi runs at a time, in the jail of its
  task; COMPLETED is reported only after a settle event; nothing is left on disk.
- `LossesHandled`, `DisconnectOnce`, `GoneHoldsNothing`: a lost connection is
  taken out once and its loops end, and after that its guest holds no task.
- `LogsComplete`, `LogsReadable`: no line is lost, repeated or reordered; a trace
  that is handed out has all that was logged when it was asked for.
- `HandedOutFifo`, `OneFreshPerKey`: priority and age decide, map and slice agree,
  and deduplication leaves one new task per key.
- `PartsFollowConfig`, `LastSaveApplied`: the program comes to the configuration
  in the file, and a part that could not be applied keeps no other one back.

*Bounds.* Two tasks and two guests are the least with which a task changes hands,
a guest points to a task that is another's, and one guest is assigned to while
two tasks compete; every property speaks of one task and its owner, or of one
guest and its task. `MaxAge = 2` gives each age the values fresh, at the timeout,
and over it. Timeouts of zero (probe off) are met in `orchestrator_unregister`
and `protocol_handlers`. The limit of guests matters at 0 and, with two guests, at 1,
where the second is refused; both are met in the same two runs. The
liveness runs are smaller, each as large as its question needs: an assignment is
lost when its guest's entry points to another task as the guest is removed (two
tasks, one guest); a guest is misled by a task that ended or that the other guest
holds (one task, two guests). The [proofs](#proofs) lift most of the safety
properties from these bounds.

The other modules have one bound per source of steps, at the least value at which
the hazard appears: two connections for what is left over from the first
(GuestConnection, GuestTasks, Hub), two calls for an answer that is late, two
executions and three clients for a pi that overlaps the next, channels and a pipe of
capacity one where the code has 16 or 256 and the system 64 kB (they fill up at
once), three entries
and two dates for a log that crosses midnight, three tasks for an order and five
lines for a merge, three saves for a configuration that is replaced while the
one before is applied. Where a hazard needs values that would drown another, a
component appears in two parts of `components`: a guest with one connection and
many assignments (`single`), a clock that is set back (`clock`), editors that truncate (`saves`).

*Deadlock* is checked in the runs of Orchestrator and QueueStore, where some
action is always possible. The others stop when their bounds are used up, and say
so with CHECK_DEADLOCK FALSE; that nothing waits for ever is what their liveness
properties say.

*Fairness.* Everywhere: goroutines that can go on do, tickers and timers run out,
and nothing is assumed of what the outside may leave undone.

- Orchestrator: weak on the sweep (a loop over a ticker that is never stopped;
  each probe waits for a mutex only), strong on the clock (time goes on; the
  model stops it while a pass is under way). None of guests, handlers, restarts.
- Protocol: `PatientSpec` has weak fairness of every server thread and of guests
  that reconnect and listen. `FairProtocolSpec` adds that executions end, which
  PiHandler shows of those with a `task_timeout` and of those whose pi does not write
  for ever.
- RpcClient: weak on each caller's write, on its receive, close or timer, and on the
  read loop; strong on what waits for `c.mu` (callers and `onClose`); none of the
  server, which need not answer or read.
- GuestConnection: weak on the Start loop and the callbacks; a heartbeat loop is
  fair only once its context is cancelled (the next heartbeat may be far away),
  and strong on its way out, since a select with two ready cases picks at random.
- GuestTasks: weak on dispatchers and handlers, and on reconnecting.
- PiHandler: weak on ExecuteTask, on the goroutines of clients and on the timer of a
  `task_timeout`; none of pi, none of `task.cancel`.
- Hub: weak on loops; strong on what waits for `c.mu` (a Go mutex is handed to a
  starving waiter); a peer that stalls goes on or goes away.

MCLiveness states these conditions part by part under one numbering: of actions of
different parts only those of the part at hand are ever enabled, so fairness of their
disjunction is fairness of each. A leads-to whose cause stays true is written
`[]<>(cause => effect)`, which says the same.

Each property of a passing run is tested against a definition changed the way a
bug would change it (the operators marked `Mutant` beside the originals): a
missing reset, a dropped guard, an unsaved change, a probe that looks at
registered guests only, files removed before the new one is in place, a callback
not bound to its connection, an early release of a lock, a dispatcher that does
not see its context, a reload that gives up half way.

## Proofs

Checked by TLAPS for every value of the constants: any number of tasks, guests,
connections, executions or saves, any timeouts, tags, priorities and capacities.
The assumptions are those the modules name (finite sets, distinct ids, bounds
that are natural numbers); a theorem that needs more says so in its `ASSUME`, and
the text below says why. Every safety property that a passing run checks is
proved; what is left to the runs is [below](#model-checked-only).

### Orchestrator and store

In ProtocolProofs and QueueStoreProofs.

| Theorem | Statement | Argument |
|---|---|---|
| `TypeCorrect` | `Spec => []TypeOK` | inductive; one lemma per shared body |
| `ConsistencyCorrect` | `Spec => []Consistent` | inductive with `TypeOK`; `OwnerStep`, `LinkStep`, `IdsStep` treat the three parts, each with a step per action |
| `StoreCorrect` | `Spec => []StoreMirrorsTable` | inductive given `TypeOK` and `Consistent`: an operation persists what it makes unfinished and forgets what it ends. The guest clearing is irrelevant; `UnregisterGuestForce` re-queues and persists even an ended task |
| `SweepCorrect` | `Spec => []SweepRepaired` | the first probe establishes it whatever held before (`CheckStuckTasksRepairs`); inside a pass each step keeps it (`LoyalStep`): an entry changes by a heartbeat, which makes the guest fresh, or by an assignment, which makes it the owner; and a task is taken from its owner only together with that owner's entry. No tick falls inside a pass, so that fresh guests stay fresh |
| `ProbesCorrect` | `Spec => ProbesFailOwnTasks` | `SweepRepaired` in the state before the probe |
| `LifecycleCorrect` | `Spec => Lifecycle!LifecycleSpec` where guests do not unregister and the store does not fail | each action maps to one abstract action or a stutter (`HandIsGrant`, `RequeueIsRevoke`, `FailingIsAbandon`); `Restart` needs `StoreMirrorsTable` |
| QueueStore's `TypeCorrect`, `AcceptedCorrect`, `AnnouncedCorrect`, `DirectoriesCorrect` | its types and its three crash properties | consequences of `StoreInv` |
| `DurableCorrect` | `Spec => KeepsDurableStore` where no operation fails | `StoreInv`: `DurableStep` maps each action to one abstract action or a stutter. The first file written is Persist and the last one removed is Forget, which need `DiskOK` and `KeptOK`; the rest of a call, a crash, Load and Start are stutters |
| `VanishingCorrect` | `Spec => OnlyEndedTasksVanish` | `StoreInv`, of which `KeptOK` matters: from its first write on, Save has a copy it will not remove |

`StoreInv` is `TypeOK /\ JobOK /\ GhostsOK /\ KeptOK /\ DiskOK`. The properties
alone are not inductive: in the middle of a call the disk is described by what is
still to be done. `DiskOK` says so: of the task of the call under way, the file of
its status is there or about to be written, and any other file is about to be
removed.

`DurableCorrect` needs its hypothesis: a Delete that fails half way is reported
as an end all the same, and a submission whose Save failed is accepted all the
same. The two hypotheses of `LifecycleCorrect` are needed: with `GuestsUnregister` the
finding below refutes it, and with a store that fails a restart may forget an
unfinished task.

### Handlers

| Theorem | Statement | Argument |
|---|---|---|
| `OrchestratorKept` | `ProtocolSpec => KeepsOrchestrator`, without further assumption: faults, cancellations, probes and late messages included | each action of Protocol is one of Orchestrator or leaves its variables alone (`RefinedStep`). `ProtocolInv` is what makes its arguments legal: a call on the wire and the local variables of a thread name tasks and guests that exist, and a guest is only tried for a task whose tags it has |
| `HandlersConsistent` | `Consistent`, `StoreMirrorsTable` and `ProbesFailOwnTasks` hold under the handlers | `OrchestratorKept` and the theorems above |
| `HandlersKeepLifecycle` | handlers, guests and wire implement TaskLifecycle, with the hypotheses of `LifecycleCorrect` | the same |
| `ProtocolTypeCorrect` | `ProtocolSpec => []ProtocolTypeOK` | part of `ProtocolInv` |
| `ExecutionsOwned` | `ProtocolSpec => []ExecutesOwnTask`, with the probes off | `QuietInv` |
| `GuestHoldsOneTask` | `ProtocolSpec => []OneTaskPerGuest`, with the probes off, no faults and no cancellations | `QuietInv` |

`QuietInv` says where an assignment is while no connection was lost and nothing is
cancelled: with the thread that hands it over, in the guest's channel, in
execution, in a result on the wire, or in the handler of that result, and in one
of these places only; and that an owner is RUNNING in the registry, which is what
turns the other threads away. Neither property is inductive without it: both
speak of the guest, and the table changes by what is on the wire. `OneTaskPerGuest`
is refuted by late heartbeats once time passes (see below), so no faults, no
cancellations and no probes are part of what it means; the run has the same
values. `NoProbes` for `ExecutesOwnTask` is a limit of the model: whether an
assignment is overdue is a question of time, and Protocol lets time pass only when
no call is under way.

### The other components

These theorems are about the properties that the run `components` checks under
the same names for fixed values, each in the proof module of its component; what
ComponentsProofs makes of them is said below.

| Theorem | Property in `components` | Invariant and why it is needed |
|---|---|---|
| GuestTasksProofs `ExecutesOne` | `OneExecution` | `TasksInv`: `g.mu` is held by the one dispatcher that acknowledges, and then nothing runs (`MuOK`); the field `running` is true exactly while a dispatcher executes, and `currentTask` names its task (`RunsOK`). The property speaks of the dispatchers, the guard of the code of the fields |
| `ShutdownSilent` | `NoShutdownFailure` | `ShutdownOK`: pi is killed only after Stop, and a failure that is on its way to SendResult is not one of those |
| HubProofs `CallbackOnce` | `DisconnectOnce` | `HubInv`: a connection is closed once, by the loop that unregisters it; until Run has received that, it stays in the table or is the next to be inserted. So what Run removes is in the table |
| `NothingHeld`, where the guest has one connection | `GoneHoldsNothing` | `SingleInv`: a task that is handed out has a thread that will find that it cannot be delivered, or the callback of the connection is still to come. With two connections the property fails (see below), hence the hypothesis `GuestConn = {c}`; browsers, tasks, assignments and capacities are any |
| PiHandlerProofs `OnePiRuns`, `PromptsInJail` | `OneSubprocess` | `PiInv`: a running pi is that of the current client, and ExecuteTask replaces the client only after it was stopped or found dead; from the jail on the client is that of the task. With every combination of faults, cancellations, kills and shutdowns |
| `SuccessIsSettled` | `SuccessMeansSettled` | `PiInv`: a settle event in the pipe, in the channel or taken was sent by the pi of that client |
| `NothingLeft`, where preparing does not fail | `NoDirLeft` | `LeftInv`: what is on the disk is what the variables of the execution say the deferred cleanup will remove. With `PrepareFaults` the property fails, see below |
| TaskQueueProofs `FreshIsUnique` | `OneFreshPerKey` | `QueueInv`: what a restart has yet to restore counts as waiting too, a task in a guest's hands has left PENDING for good, and no two that wait and never left have one key (`FreshDiffer`). The property alone says nothing of the tasks that are only in files |
| `SliceFollowsMap`, `QueueTypeCorrect` | `SliceMirrorsMap`, part of `HandedOutFifo` | `QueueInv`: what was never added is in neither, what is to be restored is not in the map; so what enters is new. Lemmas about appending to and removing from a sequence without repetitions. The clock counts the tasks that were ever added (`ClockCounts`), which bounds it |
| `FifoCorrect`, where `Restarts` and `ClockSteps` do not go together (`OrderAssumption`) | `HandedOutFifo` | `OrderInv`: no two tasks have one place in the order of submission (`BornDiffer`), and the stamps tell it (`StampsTell`): a monotonic reading is the place, and where restarts have taken it, wall readings are. So `Less` is that order within a priority (`LessIsOrder`). To this come the lemmas about slices of any length: the sort gives the same tasks, sorted, whenever `Less` is a strict order (`SortSorts`), and the loops give those that pass their test (`OnlyKeeps`). With restarts and a clock that is set back the property fails, see below |
| LogProofs `MemoryInOrder` | `InOrder`, part of `LogsComplete` | `LogInv`: types, and that equation itself. Lemmas about the lines of a log to which entries are appended |
| `ShownStored`, where nothing is cancelled | `ShownIsStored`, part of `LogsComplete` | inductive with `LogInv`. A cancellation flushes into memory without a broadcast, hence the hypothesis |
| `DiskKeeps`, for one task and no cancellation (`AloneAssumption`) | `DiskKeepsTrace`, part of `LogsComplete` | `DiskInv`: disk and memory are equal while the server is up, and nothing is collected of a task that is over, so that no result flushes anything it does not store |
| `DiskLacksText`, for any tasks and cancellations | – (`DiskLacksTextOnly`) | what remains of `DiskKeepsTrace` where it fails: the disk has a subsequence of memory, and lacks nothing but text |
| `TracesComplete` | `TraceComplete`, part of `LogsReadable` | `DownloadInv`: numbers grow along each file and from date to date (`StoreInv`); what was due when the trace was asked for is at a date still to be looked at or found (`LookOK`), later in what was read or at a date still to be read (`ReadOK`), and what was logged meanwhile is newer (`DueOK`). The list of dates (`Sorted`) is in order and has every date that had an entry then. A task has one uncompressed file at most |
| `TasksListed` | `LoggedAreListed`, part of `LogsReadable` | without crashes only the entry that Append is writing is not whole (`WholeOK`), and it counts as logged only afterwards |
| HubProofs `PartsFollow` | `PartsFollowConfig` | inductive as it stands |
| `LastSaveWins`, for `UsualEditors` | `LastSaveApplied` | `WatcherInv`: once the watcher has read the file after its last change, what is in the pipeline last is the content of the file; and what is being saved the watcher cannot have read before. `UsualEditors` excludes `Repeats`, `Early`, and, where editors truncate in place, the empty file as a content of its own |
| ProtocolProofs `LossReported` | – (`ReportOK`) | inductive as it stands: a thread is between its `closed.Swap` and `onClose` exactly while the client is closed, not by its owner, and not yet reported, and there is one such thread |
| `KeepsContractSafely` | the safety part of `KeepsContract` | `ReportOK`; each action of RpcClient is one step of ClientContract in `Phase`, or a stutter |
| `NothingLeaks` | – (`NoConnectionLeaks`) | `ConnectionInv`: connections are attempted in order, nothing is known of one that was not, and Start leaves one only after closing its client or after its loss |
| `OwnLossOnly` | `SocketsReportOwnLoss` of `liveness`, and the same of heartbeats (`HeartbeatsDropOwn`) | `BeatOK`: a heartbeat whose channel is the current one went through the current client or none. What is lost on another's account (see below, `LostOnOwnAccount`) is so by a heartbeat that found no client or an answer "not found", never by one that went through |
| `ClientsKept` | `ClientsKeepContract` | `ConnectionInv`: Start closes and dials only what is in the phase for it |

The proof of `LastSaveWins` corrected the list of divergences: it does not go
through with `Repeats` alone, and TLC then showed the run. That of `TracesComplete`
needed an assumption about the files of old that `LogStoreAssumption` now states:
their entries all have the number 0, so a task can have one such file.

*Induction over data.* The library's induction theorems take an operator as a
parameter, which the provers cannot instantiate. `SetInduction` says the same of a
set of numbers in place of a predicate, from the fact that the numbers are
well-founded; with it, what a recursive function over `0..n` computes is proved from
its defining equation: there is a function that satisfies it (`LoopExists`), and
what holds before the loop and after each of its steps holds at its end
(`LoopInvariant`). The lemmas about `SortPending`, `Only`, `Sorted` and
the concatenation of logs are proved that way. For this the sort, the selections
and the list of dates are written as recursive functions.

### The run `components` itself

ComponentsProofs proves `Spec => []P` (for `DisconnectOnce`, an action property,
`Spec => P`) of every property P of the run, over MCComponents as TLC checks it:
`GuestExecutesOne`, `GuestStopsSilently`, `OnePiInJail`, `SettledSuccess`,
`NothingLeftBehind`, `CallbacksOnce`, `GoneHoldNothing`, `LogsKeepAll`,
`LogsAreReadable`, `QueuesAreFifo`, `QueuesDeduplicate`, `PartsFollowed`,
`LastSavesApplied`. The generality is in the theorems above; these show that a
behaviour of the run is one of each component: of the instance picked or, as its
variables then stay as they begin, of the other one (`TasksBehave`, `PiBehaves`,
and so on). What the components assume of their constants MCComponents assumes
for its values, and TLC evaluates it on each run; the further hypotheses of a
theorem are proved for the values of the instance: that `log` has one task, `clock`
no restarts, `single` one connection, `saves` the usual editors.

### Model-checked only

- Liveness (`LostAssignmentsReturn`, `MisledGuestsFreed`, `TasksEnd`, `CancelsEnd`,
  and of `liveness` `CallsReturn`, `LossNoticed`, `QueuedServed`,
  `ExecutionsEnd`, `LossesHandled`): fairness and ENABLED are out of the prover's
  reach. So is the fairness that `KeepsContract` asks of RpcClient.
- `SocketsReportOwnLoss` in the form of `liveness`, over MCLiveness; `OwnLossOnly`
  is about its GuestConnection.

## Finding

`EndedStaysEnded`, the part of `validTransition` that says that COMPLETED, FAILED
and CANCELLED have no transition left, does not hold where guests use
`guest.unregister`. A heartbeat that still names a task that has ended makes the
registry entry point to it (a heartbeat read before the end and handled after
it; a task ended by the late result of another guest, which frees only the guest
the message names). If the guest then unregisters, before the sweep clears its
entry, `UnregisterGuestForce` re-queues the task without looking at its status.
`orchestrator_ended` shows the shortest run. The shipped guest program never
makes that call (`Guest.Unregister` has no caller outside tests); other clients
of the protocol can.

## Known divergences

Properties that a comment of the code states and the code does not keep. They
stand in the modules, marked, and are in no run that must pass; a configuration
with the constants of the last column (the others as in the runs) makes TLC show
each. Where a property holds for other values, a run checks it there.

| Property | What happens | The comment | Shown with |
|---|---|---|---|
| RpcClient `NeverBlocksForever` | the write is under `c.mu` and has no deadline, and the timer starts after it: a server that stops reading while the connection stands blocks the writer and, through `c.mu`, every later call and notification | rpc.go:875-877 | 2 callers, 2 calls (`FairSpec`) |
| RpcClient `AnswersMatch` | the answer to a call that timed out stays in the shared channel and is returned as the result of the next call, whose own is left for the one after it | rpc.go:806-811, 840 | one caller, no handler, 3 calls, no notification |
| GuestConnection `LostOnOwnAccount` | a heartbeat answered "not found" closes whatever channel is current (guest.go:796), also that of a connection made meanwhile; a left-over loop that snapshots late (guest.go:783) does the same without it | guest.go:352-354, 816-818 | 2 connections, `ServerForgets` TRUE or FALSE |
| GuestTasks `DroppedWithItsConnection` | a dispatcher of an earlier connection takes an assignment that came over the present one, sees its own context cancelled and drops it; the connection does not drop, so nobody re-queues it | guest.go:477-479 | 2 connections, 3 notifications, no cancel, no stop |
| GuestTasks `ConfirmedStopped` | `task.cancel` between the acknowledgement and the assignment of `g.cancel` cancels nothing (or another task) and is confirmed all the same | guest.go:238-239, server.go:960-962 | 2 notifications, `Cancels` |
| Hub `RunNeverStalls` | Run avoids `c.mu` and then calls onDisconnect, whose broadcast locks it for every browser: one that does not read stalls registrations and removals | rpc.go:391-395 | one guest, one browser that may stall, 1 assignment |
| Hub `RegisteredHasRole` | `NewConnection` returns before Run has inserted the connection; if guest.register is handled in between, the role stays "browser" | rpc.go:473 | 2 connections, 1 assignment |
| Hub `GoneHoldsNothing` with two connections | the loss of a connection is handled while its guest.register is under way; the handler then maps the guest to the dead connection, and the loss of the earlier one finds no guest | server.go:1059 | 2 connections, 2 assignments |
| Hub `TakesOwnAssignment` | the disconnect of the old connection re-queues a task that is on its way over the new one | server.go:1059, 1087 | 2 connections, 2 tasks, 2 assignments |
| Protocol `RunningTasksReturn` | a guest is back before its loss is handled: `ReconcileGuest` keeps its RUNNING entry, the disconnect finds no guest, no probe looks at a RUNNING task whose guest beats. Or (with `Blips`) an old acknowledgement confirms a new assignment that was lost | server.go:539-541, 1061 | 1 task, 1 guest, `AssignTimeout` 1, 1 fault, `LatePending`, `Beats` idle and running, `FairProtocolSpec` |
| Protocol `RunningNotLost` with `Blips` | the result is lost with the connection, the acknowledgement sent before it is handled late and confirms the second assignment, whose push the guest, still ending the execution, ignores as a duplicate (guest.go:204) | server.go:1061 | 1 task, 1 guest, 1 fault, `Blips` |
| Protocol `OneTaskPerGuest` with late heartbeats | a heartbeat that names the ended task is handled after the next assignment; the sweep clears the stale entry, and the idle entry is handed a further task | server.go:1176-1177 | 3 tasks, 1 guest, `AssignTimeout` 1, `Beats` ending |
| Protocol `FinalBeatNamesTask` | the deferred function clears `currentTaskID` before the heartbeat that should name it | guest.go:874 | 1 task, 1 guest |
| Protocol `ToldEndIsTheEnd` | `CompleteTask` returns no error for a task that was cancelled, and browsers are told COMPLETED | server.go:730-731 | 1 task, 1 guest, `Cancels`, `Screens` |
| LogAccumulator `DiskKeepsTrace` with two tasks | the end of one task flushes the text of the others to memory only | server.go:806-807, 896 | 2 tasks, 4 lines |
| LogAccumulator `FieldsMatchLevel` | text that a tool line flushes gets the fields of the tool line | server.go:40 | 1 task, 4 lines |
| LogAccumulator `InactiveTextFlushed` | the flush period is compared only when the next text arrives | server.go:115 | 1 task, 2 lines, `FairSpec` |
| LogStore `EntriesComplete` | `ReadLogs` takes a stream that is not complete, and the absence of the uncompressed file, for an empty log | logstore.go:368 | 1 task, 1 date, 2 entries |
| PiHandler `SettledReported` | the first ten lines of a task's pi are not parsed, so an early settle event is not seen and the task idles out; and `cmd.Wait` closes the pipe under the reader | guest.go:66-68 | `SpawnLines` 1, `PipeCap` 1; or also `PiExits`, `PiChatty` |
| PiHandler `NoDirLeft` with `PrepareFaults` | `prepareTaskDir` returns no path with its error, so the deferred cleanup has none | pi_handler.go:261-263 | one execution, `PrepareFaults` |
| PiHandler `StopEndsPi`, `DoneClosedOnce` | the shutdown stops the client of the moment while `ExecuteTask` goes on to spawn the next; or both stop the same one and both close `doneCh`, which panics | pi_handler.go:170, client.go:277 | one execution, `Shutdowns` |
| ConfigWatcher `LastSaveApplied` with `Repeats`, or with `Early` | reload compares one read and applies another, so that a content which is saved, replaced and saved again between the two reads is taken for the one applied; the watcher's baseline is never sent | watcher.go:11-13, 54 | `Repeats`: 2 contents, 3 saves, 2 events; `Early`: 1 save |
| TaskQueue `HandedOutFifo` with `Restarts` and `ClockSteps` | restored creation times have no monotonic reading: after the wall clock was set back a younger task goes first | queue.go:533-534 | two tasks of one priority, one step back |

With `task_timeout` 0 ("unlimited", config.go:29) an execution whose pi writes on and
on ends with a `task.cancel` only: each event restarts the ten minutes of the idle
check (pi_handler.go:415, 654-656), there is no other limit (pi_handler.go:578-581),
and the probes of the server look at heartbeats. TLC shows it when `ExecutionsEnd`
is stated as `\A n \in Execution : []<>~Runs(n)`.

Observed while modelling and not stated as a property: without a task timeout the
context of an execution is never cancelled, so its pi runs on until the next
task; the event reader of a client that died without Stop waits on a full channel
until the next Stop; lines of a clone carry the name of the task directory in
place of the task id; events pi sent before a cancellation are logged after it.

## Not modelled

- *Methods without a caller outside tests*: the registry's `SetGuestState`,
  `SetGuestTask`, `ClearGuestTask`, `KillRunningGuestTask`, `RemoveStaleGuests`,
  and `ConfigStore`. (`TryAssignNext`, `UnregisterGuest` and the status methods
  of the queue have none either and are modelled.)
- *The views*: read-only HTTP and RPC methods, parameter checks, TLS, the serving
  of files; `TLSConfig` and `ConnectURL`, which are functions without state.
- *Reloaded timeouts*: a reload writes them while the sweep reads them without a
  lock; the modules take them as constants.
- *Prompts, tags, personas, results, log texts*: data that no property here tells
  apart. Tag matching is an operator of TaskQueue and the constant `Serves`
  elsewhere; `SetResult` changes the result text only.
- *Personas, jail, logging helpers, web UI*: sequential set-up, system calls,
  formatting and views, without state whose interleaving could go wrong. That
  they may fail is a step of PiHandler and ConfigWatcher.
- *Type invariants*: those of QueueStore and of the component modules are parts
  of the inductive invariants and proved with them; no run lists them beside the
  properties.

## Plan

Done: all modules; the proofs of all safety properties that the runs check. Left,
in order:

1. `ExecutesOwnTask` with the probes on, which needs an invariant about the age of
   an assignment and what is under way.
2. For GuestTasks, which tasks are declined: each assignment that arrives is in
   one place (`TasksInv` has the places, not that they are exclusive).
3. The timeouts as variables of Orchestrator that a reload changes between two
   probes of a pass.
