------------------------------- MODULE PiHandler -------------------------------
(***************************************************************************)
(* A guest's task handler and its pi subprocesses (pkg/guest/pi_handler.go,*)
(* pkg/pi/client.go).  ExecuteTask makes a directory and a jail, replaces  *)
(* the client by one that runs pi in there, sends the prompt and waits for *)
(* pi to settle, the context to end or pi to idle.  A client has three     *)
(* goroutines of its own: one waits for the process, one turns its output  *)
(* into events, one (of ExecuteTask) takes the events.  The shutdown of the*)
(* guest stops the client beside all of this.                              *)
(* One execution at a time: GuestTasks!OneExecution.                       *)
(***************************************************************************)
EXTENDS Naturals, Sequences, FiniteSets

CONSTANTS
  MaxTasks,    \* bound: how many executions begin
  MaxClients,  \* bound: clients that are in use at a time
  PipeCap,     \* lines the pipe of a pi's output holds before pi has to wait
  Attempts,    \* maxRetries of restartClient and resetClientWithEnv: 3
  SpawnLines,  \* lines of a task's pi that go to SpawnOutput: 10
  EventCap,    \* capacity of eventCh: 256
  Timeout,     \* is a task_timeout configured, now and then?
  Cancels,     \* does the server cancel tasks?
  PiExits,     \* does pi exit by itself?
  PiChatty,    \* does pi settle only after its first SpawnLines lines?
  SpawnFaults, \* may a spawn fail?
  PrepareFaults, \* may the clone, a persona's files or a directory fail?
  Shutdowns    \* may the guest be told to stop, be killed, and start again?

PiHandlerAssumption ==
  /\ {MaxTasks, MaxClients, PipeCap, Attempts, SpawnLines, EventCap} \subseteq Nat
  /\ Attempts > 0 /\ MaxClients > 1 /\ EventCap > 0
  /\ {Timeout, Cancels, PiExits, PiChatty, SpawnFaults, PrepareFaults, Shutdowns}
       \subseteq BOOLEAN

Client == 1..MaxClients
Execution == 1..MaxTasks
Line == {"agent_end", "agent_settled"}   \* the end of a run stands for all but the settling

VARIABLES
  cs,         \* client id -> its state, see NewClient
  client,     \* PIHandler.client
  ex,         \* where ExecuteTask is
  cancelled,  \* the executions whose context has ended
  dirs,       \* the executions whose task directory exists
  jails,      \* the executions whose jail exists
  stops,      \* the calls of PiClient.Stop by ExecuteTask and by the shutdown
  guest,      \* "up", "stopping" (PIHandler.Stop runs), "stopped", "killed"
  result      \* the last outcome of ExecuteTask

vars == <<cs, client, ex, cancelled, dirs, jails, stops, guest, result>>

NewClient ==
  [started |-> FALSE, pi |-> "none", waited |-> FALSE, closed |-> 0, stdin |-> FALSE,
   of |-> 0,            \* the execution whose context it runs in, 0 for the first one
   jailed |-> FALSE,    \* was it made by resetClientWithEnv?
   prompted |-> FALSE, settled |-> FALSE, out |-> <<>>,
   wrote |-> 0,         \* lines of output, counted up to SpawnLines
   spawn |-> 0, reader |-> "none", ev |-> <<>>, taker |-> "none", got |-> FALSE]

Started(n, jailed) ==
  [NewClient EXCEPT !.started = TRUE, !.pi = "running", !.stdin = TRUE, !.of = n,
                    !.jailed = jailed, !.reader = "reading"]

NoExecution == [at |-> "idle", n |-> 0, loop |-> "restart", attempt |-> 1,
                dir |-> FALSE, jail |-> FALSE, why |-> "none",
                limited |-> FALSE]   \* task_timeout when it began: not 0?
NoResult == [n |-> 0, why |-> "none", settled |-> FALSE]
Why == {"none", "ok", "error", "unsettled", "cancelled", "idle"}
NotStopping == [w \in {"task", "shutdown"} |-> [at |-> "idle", c |-> 1]]

TypeOK ==
  /\ \A c \in Client :
       /\ cs[c].pi \in {"none", "running", "dead"} /\ cs[c].of \in 0..MaxTasks
       /\ cs[c].out \in Seq(Line) /\ cs[c].wrote \in 0..SpawnLines
       /\ cs[c].ev \in Seq(Line) /\ Len(cs[c].ev) <= EventCap
       /\ cs[c].spawn \in 0..SpawnLines /\ cs[c].closed \in 0..2
       /\ cs[c].reader \in {"none", "reading", "over"}
       /\ cs[c].taker \in {"none", "taking", "over"}
       /\ cs[c].got => cs[c].settled
  /\ client \in Client
  /\ ex.at \in {"idle", "spawn", "started", "prepare", "jail", "reset", "stopping",
                "check", "prompt", "wait", "return"}
  /\ ex.n \in 0..MaxTasks /\ ex.attempt \in 1..Attempts /\ ex.why \in Why
  /\ ex.limited \in {FALSE, Timeout}
  /\ cancelled \subseteq Execution /\ dirs \subseteq Execution /\ jails \subseteq Execution
  /\ \A w \in DOMAIN stops : stops[w].at \in {"idle", "waiting", "killed"}
  /\ guest \in {"up", "stopping", "stopped", "killed"} /\ result.why \in Why

(* NewPIHandlerDebug and Start: the first client runs without a jail.      *)
Init ==
  /\ cs = [c \in Client |-> IF c = 1 THEN Started(0, FALSE) ELSE NewClient]
  /\ client = 1 /\ ex = NoExecution /\ cancelled = {} /\ dirs = {} /\ jails = {}
  /\ stops = NotStopping /\ guest = "up" /\ result = NoResult
-------------------------------------------------------------------------------
(* The subprocess.                                                         *)
Alive == guest \in {"up", "stopping"}

Pi(c, f) == cs' = [cs EXCEPT ![c] = f] /\ UNCHANGED <<client, ex, cancelled, dirs,
                                                      jails, stops, guest, result>>

(* Output is followed from the prompt on; what comes before it is          *)
(* ReadStderr's.  Nothing limits how much a pi writes.                     *)
PiWrites(c, l) ==
  /\ Alive /\ cs[c].pi = "running" /\ cs[c].prompted /\ ~cs[c].settled
  /\ Len(cs[c].out) < PipeCap
  /\ l = "agent_settled" /\ PiChatty => cs[c].wrote >= SpawnLines
  /\ Pi(c, [cs[c] EXCEPT !.out = Append(@, l),
                         !.wrote = IF @ < SpawnLines THEN @ + 1 ELSE @,
                         !.settled = l = "agent_settled"])

PiExit(c) ==
  /\ Alive /\ cs[c].pi = "running"
  /\ PiExits \/ ~cs[c].stdin
  /\ Pi(c, [cs[c] EXCEPT !.pi = "dead"])

(* CommandContext kills pi when its context ends.                          *)
ContextKill(c) ==
  /\ Alive /\ cs[c].pi = "running" /\ cs[c].of \in cancelled
  /\ Pi(c, [cs[c] EXCEPT !.pi = "dead"])

(* waitProcess: Wait closes the pipe; what readEvents has not read from it *)
(* by then is lost.                                                        *)
WaitProcess(c) ==
  /\ Alive /\ cs[c].pi = "dead" /\ ~cs[c].waited
  /\ \E k \in 0..Len(cs[c].out) :
       Pi(c, [cs[c] EXCEPT !.waited = TRUE, !.out = SubSeq(@, 1, k)])

(* readStderr: lines on stderr count for SpawnOutput as well.              *)
ReadStderr(c) ==
  /\ Alive /\ cs[c].pi = "running" /\ cs[c].jailed /\ cs[c].spawn < SpawnLines
  /\ Pi(c, [cs[c] EXCEPT !.spawn = @ + 1])

(* readEvents: a line goes to SpawnOutput (only clients of a task have it),*)
(* or to eventCh when there is room.                                       *)
ReadEvent(c) ==
  /\ Alive /\ cs[c].reader = "reading" /\ cs[c].out # <<>>
  /\ IF cs[c].jailed /\ cs[c].spawn < SpawnLines
     THEN Pi(c, [cs[c] EXCEPT !.out = Tail(@), !.spawn = @ + 1])
     ELSE \/ /\ Len(cs[c].ev) < EventCap
             /\ Pi(c, [cs[c] EXCEPT !.out = Tail(@), !.ev = Append(@, Head(cs[c].out))])
          \/ /\ cs[c].closed > 0
             /\ Pi(c, [cs[c] EXCEPT !.out = Tail(@), !.reader = "over"])

ReadEnd(c) ==
  /\ Alive /\ cs[c].reader = "reading" /\ cs[c].out = <<>> /\ cs[c].pi = "dead"
  /\ Pi(c, [cs[c] EXCEPT !.reader = "over"])

(* The goroutine of ExecuteTask that takes the events until pi settles or  *)
(* eventCh is closed.  Mutant: the end of a run is taken for the end.      *)
TakeEventEnd(c) ==
  /\ Alive /\ cs[c].taker = "taking"
  /\ IF cs[c].ev # <<>>
     THEN Pi(c, [cs[c] EXCEPT !.ev = Tail(@), !.got = TRUE, !.taker = "over"])
     ELSE /\ cs[c].reader = "over"
          /\ Pi(c, [cs[c] EXCEPT !.taker = "over"])

TakeEvent(c) ==
  /\ Alive /\ cs[c].taker = "taking"
  /\ \/ /\ cs[c].ev # <<>>
        /\ LET settled == Head(cs[c].ev) = "agent_settled" IN
           Pi(c, [cs[c] EXCEPT !.ev = Tail(@), !.got = settled,
                               !.taker = IF settled THEN "over" ELSE @])
     \/ /\ cs[c].ev = <<>> /\ cs[c].reader = "over"
        /\ Pi(c, [cs[c] EXCEPT !.taker = "over"])
-------------------------------------------------------------------------------
(* PiClient.IsRunning notes that the process has exited.                   *)
Running(c) == cs[c].started /\ ~cs[c].waited
Noted(c) == [cs EXCEPT ![c].started = Running(c)]

(* PiClient.Stop: stdin is closed, the process gets some seconds, then it  *)
(* is killed.  The mutex is not held while Stop waits.                     *)
StopCalled(w) ==
  /\ stops' = [stops EXCEPT ![w] = [at |-> "waiting", c |-> client]]
  /\ cs' = [cs EXCEPT ![client].stdin = FALSE]

StopKill(w) ==
  LET c == stops[w].c IN
  /\ Alive /\ stops[w].at = "waiting"
  /\ cs' = [cs EXCEPT ![c].pi = "dead"]
  /\ stops' = [stops EXCEPT ![w].at = "killed"]
  /\ UNCHANGED <<client, ex, cancelled, dirs, jails, guest, result>>

(* The channel doneCh is closed by each call of Stop: the second time is a *)
(* panic.                                                                  *)
StopReturns(w) ==
  LET c == stops[w].c IN
  /\ Alive /\ stops[w].at # "idle" /\ cs[c].waited
  /\ cs' = [cs EXCEPT ![c].started = FALSE, ![c].closed = @ + 1]
  /\ stops' = [stops EXCEPT ![w].at = "idle"]
  /\ ex' = IF w = "task" THEN [ex EXCEPT !.at = "spawn", !.loop = "reset"] ELSE ex
  /\ guest' = IF cs[c].closed = 1 THEN "killed"
              ELSE IF w = "shutdown" THEN "stopped" ELSE guest
  /\ UNCHANGED <<client, cancelled, dirs, jails, result>>
-------------------------------------------------------------------------------
(* ExecuteTask.                                                            *)
End(why) ==
  /\ ex' = [ex EXCEPT !.at = "return", !.why = why]
  /\ result' = [n |-> ex.n, why |-> why, settled |-> cs[client].settled]

Begin ==
  /\ guest = "up" /\ ex.at = "idle" /\ ex.n < MaxTasks
  /\ cs' = Noted(client)
  /\ \E limited \in {FALSE, Timeout} :
       ex' = [NoExecution EXCEPT !.n = ex.n + 1, !.limited = limited,
                                 !.at = IF Running(client) THEN "prepare" ELSE "spawn"]
  /\ UNCHANGED <<client, cancelled, dirs, jails, stops, guest, result>>

(* restartClient and resetClientWithEnv: up to Attempts new clients.       *)
Again ==
  IF ex.attempt < Attempts /\ ex.n \notin cancelled
  THEN ex' = [ex EXCEPT !.attempt = @ + 1, !.at = "spawn"] /\ UNCHANGED result
  ELSE End("error")

(* A client nobody refers to any more: its number is used again.           *)
Free(c) ==
  /\ c # client /\ cs[c].pi # "running" /\ (cs[c].pi = "dead" => cs[c].waited)
  /\ cs[c].reader # "reading" /\ cs[c].taker # "taking"
  /\ \A w \in DOMAIN stops : stops[w].at # "idle" => stops[w].c # c

Spawn ==
  /\ Alive /\ ex.at = "spawn"
  /\ \E c \in Client :
       /\ Free(c) /\ \A d \in Client : Free(d) => c <= d
       /\ client' = c
       /\ \/ /\ ex.n \notin cancelled
             /\ cs' = [cs EXCEPT ![c] = Started(ex.n, ex.loop = "reset")]
             /\ ex' = [ex EXCEPT !.at = "started"] /\ UNCHANGED result
          \/ /\ SpawnFaults \/ ex.n \in cancelled
             /\ cs' = [d \in Client |-> IF Free(d) THEN NewClient ELSE cs[d]]
             /\ Again
  /\ UNCHANGED <<cancelled, dirs, jails, stops, guest>>

CheckStarted ==
  /\ Alive /\ ex.at = "started"
  /\ cs' = Noted(client)
  /\ IF Running(client)
     THEN /\ ex' = [ex EXCEPT !.attempt = 1,
                              !.at = IF ex.loop = "restart" THEN "prepare" ELSE "check"]
          /\ UNCHANGED result
     ELSE Again
  /\ UNCHANGED <<client, cancelled, dirs, jails, stops, guest>>

(* prepareTaskDir: on an error it returns no path, whatever it has made.   *)
(* The deferred cleanup knows the path it returns.                         *)
PrepareTaskDir ==
  /\ Alive /\ ex.at = "prepare"
  /\ \/ /\ dirs' = dirs \cup {ex.n}
        /\ ex' = [ex EXCEPT !.at = "jail", !.dir = TRUE] /\ UNCHANGED result
     \/ /\ PrepareFaults /\ dirs' \in {dirs, dirs \cup {ex.n}}
        /\ End("error")
  /\ UNCHANGED <<cs, client, cancelled, jails, stops, guest>>

(* setupJail: on an error the jail is removed at once.                     *)
SetupJail ==
  /\ Alive /\ ex.at = "jail"
  /\ \/ /\ jails' = jails \cup {ex.n}
        /\ ex' = [ex EXCEPT !.at = "reset", !.jail = TRUE] /\ UNCHANGED result
     \/ SpawnFaults /\ UNCHANGED jails /\ End("error")
  /\ UNCHANGED <<cs, client, cancelled, dirs, stops, guest>>

(* resetClientWithEnv: the old pi is stopped before a new one is spawned.  *)
(* Mutant: it is not.                                                      *)
ResetClientUnstopped ==
  /\ Alive /\ ex.at = "reset"
  /\ ex' = [ex EXCEPT !.at = "spawn", !.loop = "reset"]
  /\ UNCHANGED <<cs, client, cancelled, dirs, jails, stops, guest, result>>

ResetClient ==
  /\ Alive /\ ex.at = "reset"
  /\ IF Running(client)
     THEN StopCalled("task") /\ ex' = [ex EXCEPT !.at = "stopping"]
     ELSE /\ cs' = Noted(client) /\ UNCHANGED stops
          /\ ex' = [ex EXCEPT !.at = "spawn", !.loop = "reset"]
  /\ UNCHANGED <<client, cancelled, dirs, jails, guest, result>>

CheckRunning ==
  /\ Alive /\ ex.at = "check"
  /\ cs' = Noted(client)
  /\ IF Running(client) THEN ex' = [ex EXCEPT !.at = "prompt"] /\ UNCHANGED result
     ELSE End("error")
  /\ UNCHANGED <<client, cancelled, dirs, jails, stops, guest>>

Prompt ==
  /\ Alive /\ ex.at = "prompt"
  /\ IF cs[client].pi = "running" /\ cs[client].stdin
     THEN /\ cs' = [cs EXCEPT ![client].prompted = TRUE, ![client].taker = "taking"]
          /\ ex' = [ex EXCEPT !.at = "wait"] /\ UNCHANGED result
     ELSE End("error") /\ UNCHANGED cs
  /\ UNCHANGED <<client, cancelled, dirs, jails, stops, guest>>

(* The select: the events are over, the context is, or nothing has come    *)
(* for ten minutes.  Mutant: the ten minutes begin with the first output.  *)
WaitDone ==
  /\ Alive /\ ex.at = "wait" /\ cs[client].taker = "over"
  /\ End(IF cs[client].got THEN "ok" ELSE "unsettled")
  /\ UNCHANGED <<cs, client, cancelled, dirs, jails, stops, guest>>

WaitCancelled ==
  /\ Alive /\ ex.at = "wait" /\ ex.n \in cancelled
  /\ End("cancelled")
  /\ UNCHANGED <<cs, client, cancelled, dirs, jails, stops, guest>>

WaitIdleLate ==
  /\ Alive /\ ex.at = "wait" /\ cs[client].pi = "running" /\ cs[client].taker = "taking"
  /\ cs[client].out = <<>> /\ cs[client].ev = <<>> /\ cs[client].wrote > 0
  /\ End("idle")
  /\ UNCHANGED <<cs, client, cancelled, dirs, jails, stops, guest>>

WaitIdle ==
  /\ Alive /\ ex.at = "wait" /\ cs[client].pi = "running" /\ cs[client].taker = "taking"
  /\ cs[client].out = <<>> /\ cs[client].ev = <<>>
  /\ End("idle")
  /\ UNCHANGED <<cs, client, cancelled, dirs, jails, stops, guest>>

(* The deferred cleanup; a context with a task_timeout ends here.          *)
Return ==
  /\ Alive /\ ex.at = "return"
  /\ jails' = IF ex.jail THEN jails \ {ex.n} ELSE jails
  /\ dirs' = IF ex.dir THEN dirs \ {ex.n} ELSE dirs
  /\ cancelled' = IF ex.limited THEN cancelled \cup {ex.n} ELSE cancelled
  /\ ex' = [NoExecution EXCEPT !.n = ex.n]
  /\ UNCHANGED <<cs, client, stops, guest, result>>

(* The context ends: task.cancel, or the task_timeout runs out.            *)
ContextEnds ==
  /\ Alive /\ ex.at # "idle" /\ ex.n \notin cancelled
  /\ cancelled' = cancelled \cup {ex.n}
  /\ UNCHANGED <<cs, client, ex, dirs, jails, stops, guest, result>>

Cancel == Cancels /\ ContextEnds

TaskTimeout == ex.limited /\ ContextEnds
-------------------------------------------------------------------------------
(* The shutdown of the guest program: PIHandler.Stop takes the client of   *)
(* the moment, without the mutex of the handler.                           *)
Shutdown ==
  /\ Shutdowns /\ guest = "up"
  /\ IF cs[client].started
     THEN StopCalled("shutdown") /\ guest' = "stopping"
     ELSE guest' = "stopped" /\ UNCHANGED <<cs, stops>>
  /\ UNCHANGED <<client, ex, cancelled, dirs, jails, result>>

(* After ten seconds PIHandler.Stop kills the client of that moment.       *)
ShutdownTimeout ==
  /\ guest = "stopping" /\ stops["shutdown"].at = "killed"
  /\ cs' = [cs EXCEPT ![client].pi = IF @ = "running" THEN "dead" ELSE @]
  /\ guest' = "stopped"
  /\ UNCHANGED <<client, ex, cancelled, dirs, jails, stops, result>>

Killed ==
  /\ Shutdowns /\ Alive
  /\ guest' = "killed"
  /\ UNCHANGED <<cs, client, ex, cancelled, dirs, jails, stops, result>>

(* The next start of the guest: Start sweeps the directory of the tasks.   *)
(* Mutant: only the jails.                                                 *)
RestartUnswept ==
  /\ ~Alive
  /\ cs' = [c \in Client |-> IF c = 1 THEN Started(0, FALSE) ELSE NewClient]
  /\ client' = 1 /\ ex' = [NoExecution EXCEPT !.n = ex.n] /\ jails' = {}
  /\ stops' = NotStopping /\ guest' = "up" /\ result' = NoResult
  /\ UNCHANGED <<cancelled, dirs>>

Restart ==
  /\ ~Alive
  /\ cs' = [c \in Client |-> IF c = 1 THEN Started(0, FALSE) ELSE NewClient]
  /\ client' = 1 /\ ex' = [NoExecution EXCEPT !.n = ex.n] /\ dirs' = {} /\ jails' = {}
  /\ stops' = NotStopping /\ guest' = "up" /\ result' = NoResult
  /\ UNCHANGED cancelled

PiStep(c) ==
  \/ PiExit(c) \/ \E l \in Line : PiWrites(c, l)
  \/ ReadStderr(c)

ClientStep(c) ==
  \/ ContextKill(c) \/ WaitProcess(c)
  \/ ReadEvent(c) \/ ReadEnd(c) \/ TakeEvent(c)

TaskStep ==
  \/ Spawn \/ CheckStarted \/ PrepareTaskDir \/ SetupJail \/ ResetClient
  \/ CheckRunning \/ Prompt \/ WaitDone \/ WaitCancelled \/ WaitIdle \/ Return

Next ==
  \/ \E c \in Client : PiStep(c) \/ ClientStep(c)
  \/ Begin \/ TaskStep \/ Cancel \/ TaskTimeout
  \/ \E w \in DOMAIN stops : StopKill(w) \/ StopReturns(w)
  \/ Shutdown \/ ShutdownTimeout \/ Killed \/ Restart

Spec == Init /\ [][Next]_vars

(* Goroutines and timers run on, the task_timeout among them; pi may write *)
(* or be silent for ever, and the server need not cancel anything.         *)
FairSpec ==
  /\ Spec /\ WF_vars(TaskStep) /\ WF_vars(TaskTimeout)
  /\ \A c \in Client : WF_vars(ContextKill(c)) /\ WF_vars(WaitProcess(c))
       /\ WF_vars(ReadEvent(c) \/ ReadEnd(c)) /\ WF_vars(TakeEvent(c))
  /\ \A w \in {"task", "shutdown"} : WF_vars(StopKill(w) \/ StopReturns(w))
-------------------------------------------------------------------------------
(* One pi at a time: the one of the task before is dead when the next is   *)
(* spawned.                                                                *)
OneSubprocess ==
  Alive => \A c, d \in Client : cs[c].pi = "running" /\ cs[d].pi = "running" => c = d

(* "no task ever runs outside the jail": a prompt reaches only a pi of the *)
(* jail of its own task, and no pi gets two.                               *)
PromptedInJail ==
  \A c \in Client : cs[c].prompted => cs[c].jailed /\ (ex.at = "wait" => cs[client].of = ex.n)

(* A task is reported completed only if pi settled after its prompt, not   *)
(* on the end of a run that is retried.                                    *)
SuccessMeansSettled == result.why = "ok" => result.settled

(* "SettledReceived indicates whether pi sent a settle event": no failure  *)
(* for want of one is reported of a pi that has sent it.                   *)
(* The code does not keep it: README, "Known divergences".                 *)
SettledReported == result.why \in {"unsettled", "idle"} => ~result.settled

(* "Guests should clean up after themselves": of a finished execution no   *)
(* directory and no jail are left.                                         *)
(* With PrepareFaults some are:                                            *)
(* README, "Known divergences".                                            *)
NoDirLeft ==
  Alive => dirs \cup jails \subseteq (IF ex.at = "idle" THEN {} ELSE {ex.n})

(* "Stop terminates the pi RPC subprocess": none runs on when the guest    *)
(* program has stopped.                                                    *)
(* The code does not keep it: README, "Known divergences".                 *)
StopEndsPi == guest = "stopped" => \A c \in Client : cs[c].pi # "running"

(* Stop may be called from two sides, doneCh is closed once.               *)
(* The code does not keep it: README, "Known divergences".                 *)
DoneClosedOnce == \A c \in Client : cs[c].closed <= 1

Runs(n) == Alive /\ ex.at # "idle" /\ ex.n = n
Talks == \E c \in Client, l \in Line : PiWrites(c, l)

(* An execution ends once its context has ended, as it does with a         *)
(* task_timeout or after a task.cancel, however much pi writes; and        *)
(* without either it ends unless pi writes on and on.  With task_timeout 0 *)
(* ("unlimited") nothing else ends it: each event restarts the ten minutes *)
(* of WaitIdle.                                                            *)
ExecutionsEnd ==
  \A n \in Execution :
    /\ []<>~(Runs(n) /\ (ex.limited \/ n \in cancelled))
    /\ <>[][~Talks]_vars => []<>~Runs(n)
===============================================================================
